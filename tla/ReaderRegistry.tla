--------------------------- MODULE ReaderRegistry ---------------------------
(***************************************************************************)
(* ReaderRegistry of src/dds/reader.rs: the DDS readers of the bridge,     *)
(* shared between sessions by (topic, type, normalized QoS) and counted by *)
(* their set of subscribers.                                               *)
(*                                                                         *)
(* A member of Topics stands for a (topic_name, type_name) pair.  Every    *)
(* method runs under the bridge's mutex, so each one is an action.  The    *)
(* calls that change nothing (a failed dds_create_reader, an unsubscribe   *)
(* without subscription) appear in Bridge, where they answer an error.     *)
(***************************************************************************)
EXTENDS Naturals, Qos, Maps

CONSTANTS
    Sessions,    \* session ids (bridge::next_session_id)
    Topics,      \* (topic_name, type_name) pairs
    QosSets,     \* the QoS sets requests carry
    Requests,    \* the <<session, topic, qos>> triples clients subscribe with
    MaxReaders   \* bound: how many readers a behaviour may create

ASSUME RequestsAssumption == Requests \subseteq Sessions \X Topics \X QosSets
ASSUME MaxReadersAssumption == MaxReaders \in Nat
ASSUME QosSetsAssumption == \A q \in QosSets : WellFormed(q)

VARIABLES
    readers,                \* reader_id -> DdsReader
    key_to_reader,          \* ReaderKey -> reader_id
    session_subscriptions,  \* <<session, topic>> -> reader_id
    next_reader_id          \* the static NEXT_READER_ID

vars == <<readers, key_to_reader, session_subscriptions, next_reader_id>>

\* Mutant of ReaderKey: the QoS is not normalized.
ReaderKey_Raw(t, q) == <<t, serialize_qos(q)>>

\* The key under which readers are shared: the QoS enters as the bytes of its
\* normalized form, so in the order the client listed the policies.
ReaderKey(t, q) == <<t, serialize_qos(normalize(q))>>

Init ==
    /\ readers = EmptyMap
    /\ key_to_reader = EmptyMap
    /\ session_subscriptions = EmptyMap
    /\ next_reader_id = 1

-----------------------------------------------------------------------------
(* subscribe: both lookups of the code's two nested if-lets must hit.      *)

\* Mutant of Shared: the lookup compares something that never matches.
Shared_Never(t, q) == FALSE

Shared(t, q) ==
    /\ ReaderKey(t, q) \in DOMAIN key_to_reader
    /\ key_to_reader[ReaderKey(t, q)] \in DOMAIN readers

\* Mutant of SubscribeShared: the subscription is not recorded.
SubscribeShared_Unrecorded(s, t, q) ==
    LET id == key_to_reader[ReaderKey(t, q)]
    IN  /\ Shared(t, q)
        /\ readers' = [readers EXCEPT ![id].subscribers = @ \cup {s}]
        /\ UNCHANGED <<session_subscriptions, key_to_reader, next_reader_id>>

SubscribeShared(s, t, q) ==
    LET id == key_to_reader[ReaderKey(t, q)]
    IN  /\ Shared(t, q)
        /\ readers' = [readers EXCEPT ![id].subscribers = @ \cup {s}]
        /\ session_subscriptions' = insert(session_subscriptions, <<s, t>>, id)
        /\ UNCHANGED <<key_to_reader, next_reader_id>>

DdsReader(t, q, subs) == [topic |-> t, qos |-> normalize(q), subscribers |-> subs]

SubscribeNew(s, t, q) ==
    /\ ~Shared(t, q)
    /\ next_reader_id <= MaxReaders
    /\ readers' = insert(readers, next_reader_id, DdsReader(t, q, {s}))
    /\ key_to_reader' = insert(key_to_reader, ReaderKey(t, q), next_reader_id)
    /\ session_subscriptions' =
           insert(session_subscriptions, <<s, t>>, next_reader_id)
    /\ next_reader_id' = next_reader_id + 1

subscribe(s, t, q) == SubscribeShared(s, t, q) \/ SubscribeNew(s, t, q)

-----------------------------------------------------------------------------
(* The common tail of unsubscribe and remove_session: session s leaves the *)
(* readers ids, and the readers this empties are deleted with their keys.  *)

\* Mutants of Emptied: no reader is ever deleted; every reader left is deleted.
Emptied_None(ids, s) == {}
Emptied_All(ids, s) == ids \cap DOMAIN readers

Emptied(ids, s) ==
    {id \in ids \cap DOMAIN readers : readers[id].subscribers \subseteq {s}}

Leave(ids, s) ==
    /\ readers' =
         [id \in DOMAIN readers \ Emptied(ids, s) |->
            IF id \in ids
            THEN [readers[id] EXCEPT !.subscribers = @ \ {s}]
            ELSE readers[id]]
    /\ key_to_reader' =
         RestrictValues(key_to_reader, LAMBDA id : id \notin Emptied(ids, s))
    /\ UNCHANGED next_reader_id

\* unsubscribe returns true, and the client gets OK, in exactly these states.
Subscribed(s, t) ==
    /\ <<s, t>> \in DOMAIN session_subscriptions
    /\ session_subscriptions[<<s, t>>] \in DOMAIN readers

unsubscribe(s, t) ==
    /\ <<s, t>> \in DOMAIN session_subscriptions
    /\ session_subscriptions' = remove(session_subscriptions, {<<s, t>>})
    /\ Leave({session_subscriptions[<<s, t>>]}, s)

\* Mutant of SubKeys: find() instead of filter(), one subscription only.
SubKeys_First(s) ==
    LET mine == {k \in DOMAIN session_subscriptions : k[1] = s}
    IN  IF mine = {} THEN {} ELSE {CHOOSE k \in mine : TRUE}

SubKeys(s) == {k \in DOMAIN session_subscriptions : k[1] = s}

remove_session(s) ==
    /\ session_subscriptions' = remove(session_subscriptions, SubKeys(s))
    /\ Leave({session_subscriptions[k] : k \in SubKeys(s)}, s)

\* What the bridge does on behalf of session s.
Acts(s) ==
    \/ \E rq \in Requests : rq[1] = s /\ subscribe(s, rq[2], rq[3])
    \/ \E t \in Topics : unsubscribe(s, t)
    \/ remove_session(s)

Next == \E s \in Sessions : Acts(s)

Spec == Init /\ [][Next]_vars
-----------------------------------------------------------------------------
(* Properties.                                                             *)

ReaderType == [topic : Topics, qos : {normalize(q) : q \in QosSets},
               subscribers : SUBSET Sessions]

\* The types of the four pieces of state; reader ids are given out in order.
TypeOK ==
    /\ next_reader_id \in Nat
    /\ DOMAIN readers \subseteq {id \in Nat : id < next_reader_id}
    /\ readers \in [DOMAIN readers -> ReaderType]
    /\ DOMAIN session_subscriptions \subseteq Sessions \X Topics
    /\ session_subscriptions \in [DOMAIN session_subscriptions -> Nat]
    /\ key_to_reader \in [DOMAIN key_to_reader -> Nat]

\* The key a live reader was created under, recomputed from what it stores.
KeyOf(id) == <<readers[id].topic, serialize_qos(readers[id].qos)>>

\* Sharing: key_to_reader and readers describe the same readers.  Each live
\* reader is found under its own key and no key leads to a deleted reader or
\* to a reader of another topic or QoS (reader.rs:197-198, 219-220, 246-247).
KeysMatchReaders ==
    /\ \A id \in DOMAIN readers :
          KeyOf(id) \in DOMAIN key_to_reader /\ key_to_reader[KeyOf(id)] = id
    /\ \A k \in DOMAIN key_to_reader :
          key_to_reader[k] \in DOMAIN readers /\ KeyOf(key_to_reader[k]) = k

\* "The DDS reader is deleted when the last subscriber leaves" (reader.rs:166).
NoIdleReader == \A id \in DOMAIN readers : readers[id].subscribers # {}

\* Every recorded subscription leads to a live reader of that topic that fans
\* out to that session, so an UNSUBSCRIBE that finds it is answered OK.
SubscriptionsBacked ==
    \A k \in DOMAIN session_subscriptions :
       /\ session_subscriptions[k] \in DOMAIN readers
       /\ readers[session_subscriptions[k]].topic = k[2]
       /\ k[1] \in readers[session_subscriptions[k]].subscribers

\* The converse, which does not hold for all: session s can be taken off the
\* fan-out list of reader id again, because its entry still leads there.
Tracked(s, id) ==
    /\ <<s, readers[id].topic>> \in DOMAIN session_subscriptions
    /\ session_subscriptions[<<s, readers[id].topic>>] = id

\* The client of session s asks for topic t with one reader key only.
OneKey(s, t) ==
    \A a, b \in Requests :
       a[1] = s /\ b[1] = s /\ a[2] = t /\ b[2] = t =>
          ReaderKey(t, a[3]) = ReaderKey(t, b[3])

\* What that is good for: the clients of which every subscription is tracked.
OneKeyTracked ==
    \A id \in DOMAIN readers : \A s \in readers[id].subscribers :
       OneKey(s, readers[id].topic) => Tracked(s, id)

\* The one way to be left on a fan-out list without an entry that leads there:
\* the session's own SUBSCRIBE to the topic with another QoS, which overwrites
\* the entry (reader.rs:200-205, 215-218).  No request of another session, no
\* UNSUBSCRIBE, no disconnect and no repeated SUBSCRIBE does it.
TrackLostByResubscribeOnly ==
    [][\A id \in DOMAIN readers' : \A s \in readers'[id].subscribers :
          \/ Tracked(s, id)'
          \/ id \in DOMAIN readers /\ s \in readers[id].subscribers /\ ~Tracked(s, id)
          \/ \E rq \in Requests :
                /\ rq[1] = s /\ rq[2] = readers[id].topic
                /\ ReaderKey(rq[2], rq[3]) # KeyOf(id)
                /\ subscribe(s, rq[2], rq[3])]_vars

\* Fan-out lists hold only sessions that asked for that reader's key.
SubscribersAsked ==
    \A id \in DOMAIN readers : \A s \in readers[id].subscribers :
       \E rq \in Requests :
          rq[1] = s /\ rq[2] = readers[id].topic /\ ReaderKey(rq[2], rq[3]) = KeyOf(id)

\* Readers are shared, their deletion is not: no request or disconnect of one
\* session takes another session off a reader or deletes the reader under it
\* (reader.rs:238-248, 270-284).
OthersStaySubscribed ==
    [][\A s \in Sessions : Acts(s) =>
          \A id \in DOMAIN readers : \A other \in readers[id].subscribers \ {s} :
             id \in DOMAIN readers' /\ other \in readers'[id].subscribers]_vars

\* docs/protocol.md:401-403, "All subscriptions created by this client are
\* removed": a disconnect takes the session off every fan-out list, except off
\* those a second QoS on the same topic had already left untracked.  There, and
\* only there, the code does not do what the document says.
DisconnectRemovesSubscriptions ==
    [][\A s \in Sessions :
          remove_session(s) =>
             \A id \in DOMAIN readers' : s \in readers'[id].subscribers =>
                ~Tracked(s, id) /\ ~OneKey(s, readers[id].topic)]_vars

\* The fan-out lists, and the subscriptions that can be removed, as sets of
\* (session, key) pairs.
FanOut ==
    {p \in Sessions \X DOMAIN key_to_reader :
        p[1] \in readers[key_to_reader[p[2]]].subscribers}

Latest ==
    {p \in Sessions \X DOMAIN key_to_reader :
        /\ <<p[1], p[2][1]>> \in DOMAIN session_subscriptions
        /\ session_subscriptions[<<p[1], p[2][1]>>] = key_to_reader[p[2]]}

RequestKeys == {ReaderKey(rq[2], rq[3]) : rq \in Requests}

Abstract ==
    INSTANCE Subscriptions WITH Keys <- RequestKeys, fanout <- FanOut, latest <- Latest

\* For any clients the registry, with its readers, ids, counts and indexes, is
\* no more and no less than the two sets of Subscriptions.
ImplementsSubscriptions == Abstract!Spec
=============================================================================
