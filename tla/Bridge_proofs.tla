--------------------------- MODULE Bridge_proofs ---------------------------
(***************************************************************************)
(* Proofs about Bridge, for any clients, whatever DDS does.  Every step of *)
(* the composition is a step of each registry or leaves it alone, so what  *)
(* is proved of the registries on their own holds in it; with the life of  *)
(* a session this gives that nothing outlives its owner.  The second half  *)
(* follows the messages: a dispose is noted after its Ok, the samples of a *)
(* reader reach a session in the order they arrived in DDS, and replies    *)
(* and notifications stay in order as in a session alone.                  *)
(***************************************************************************)
EXTENDS Bridge, SequenceTheorems, FiniteSetTheorems, TLAPS

RRP == INSTANCE ReaderRegistry_proofs WITH Requests <- SubscribeRequests
WRP == INSTANCE WriterRegistry_proofs

-----------------------------------------------------------------------------
(* The steps of the composition, seen from the registries.                 *)

\* The request is among those the reader registry is instantiated for.
LEMMA RequestListed ==
    ASSUME NEW s \in Sessions, NEW rq \in ClientOps[s], rq.op = "subscribe"
    PROVE  <<s, rq.topic, rq.qos>> \in SubscribeRequests
  <1> DEFINE mine == {<<s, r.topic, r.qos>> : r \in {o \in ClientOps[s] : o.op = "subscribe"}}
  <1>1. <<s, rq.topic, rq.qos>> \in mine
    OBVIOUS
  <1>2. mine \in {{<<u, r.topic, r.qos>> :
                     r \in {o \in ClientOps[u] : o.op = "subscribe"}} : u \in Sessions}
    OBVIOUS
  <1> HIDE DEF mine
  <1> QED BY <1>1, <1>2 DEF SubscribeRequests

\* Handlers see requests that were parsed.
LEMMA RequestsTyped == SubscribeRequests \subseteq Sessions \X Topics \X QosSets
  <1> SUFFICES ASSUME NEW x \in SubscribeRequests PROVE x \in Sessions \X Topics \X QosSets
    OBVIOUS
  <1>1. PICK s \in Sessions :
           x \in {<<s, r.topic, r.qos>> : r \in {o \in ClientOps[s] : o.op = "subscribe"}}
    BY DEF SubscribeRequests
  <1>2. PICK rq \in ClientOps[s] : rq.op = "subscribe" /\ x = <<s, rq.topic, rq.qos>>
    BY <1>1
  <1>3. rq.topic \in Topics /\ rq.qos \in QosSets
    BY <1>2, BridgeConstants DEF WellFormedRequest
  <1> QED BY <1>2, <1>3

\* What a handler of a request of s does to the registries.
ReadersStep(s) == RR!Acts(s) \/ UNCHANGED rr
WritersStep(s) == WR!Acts(s) \/ UNCHANGED wr

\* A handler runs only in a session that is reading.
Handled(s) ==
    /\ ReadersStep(s) /\ WritersStep(s)
    /\ phase[s] = "reading"
    /\ UNCHANGED <<phase, session_senders>>

LEMMA Answered ==
    ASSUME NEW s, NEW type, NEW rq, answer(s, type, rq)
    PROVE  phase[s] = "reading" /\ UNCHANGED <<phase, session_senders>>
  BY DEF answer, Quiet, SS!Reply, SS!Reading

LEMMA AnsweredWithDispose ==
    ASSUME NEW s, NEW t, NEW rq, resp_with_dispose_notification(s, rq, t)
    PROVE  phase[s] = "reading" /\ UNCHANGED <<phase, session_senders>>
  BY DEF resp_with_dispose_notification, Quiet, SS!Reply, SS!Reading

LEMMA SubscribeActs ==
    ASSUME NEW s \in Sessions, NEW t, NEW q, <<s, t, q>> \in SubscribeRequests,
           RR!subscribe(s, t, q)
    PROVE  RR!Acts(s)
  <1>1. <<s, t, q>>[1] = s /\ <<s, t, q>>[2] = t /\ <<s, t, q>>[3] = q
    OBVIOUS
  <1> QED BY <1>1 DEF RR!Acts

\* register, as the bridge and as the registry on its own define it.
LEMMA SameRegister ==
    ASSUME NEW s, NEW t, NEW q PROVE register(s, t, q) = WR!register(s, t, q)
  BY DEF register, WR!register, insert, WR!insert, next_writer_id, WR!next_writer_id,
         IdOf, WR!IdOf, normalize, WR!normalize, is_default, WR!is_default,
         PolicyDefault, WR!PolicyDefault

LEMMA SameDelete == ASSUME NEW s, NEW w PROVE delete(s, w) = WR!delete(s, w)
  BY DEF delete, WR!delete, Owns, WR!Owns, remove, WR!remove, Restrict, WR!Restrict,
         IdOf, WR!IdOf

LEMMA SameRemoveSession == ASSUME NEW s PROVE remove_session(s) = WR!remove_session(s)
  BY DEF remove_session, WR!remove_session, remove, WR!remove, Restrict, WR!Restrict,
         IdOf, WR!IdOf

LEMMA RegisterActs ==
    ASSUME NEW s \in Sessions, NEW t \in Topics, NEW q \in QosSets, register(s, t, q)
    PROVE  WR!Acts(s)
  BY SameRegister DEF WR!Acts

LEMMA DeleteActs ==
    ASSUME NEW s \in Sessions, NEW w, delete(s, w)
    PROVE  WR!Acts(s)
  <1>1. w \in DOMAIN writers
    BY DEF delete, Owns
  <1> QED BY <1>1, SameDelete DEF WR!Acts

LEMMA SubscribeHandled ==
    ASSUME NEW s \in Sessions, NEW rq \in ClientOps[s], rq.op = "subscribe",
           handle_subscribe(s, rq)
    PROVE  Handled(s)
  <1>1. <<s, rq.topic, rq.qos>> \in SubscribeRequests
    BY RequestListed
  <1> QED BY <1>1, SubscribeActs, Answered
          DEF handle_subscribe, Handled, ReadersStep, WritersStep

LEMMA UnsubscribeHandled ==
    ASSUME NEW s \in Sessions, NEW rq \in ClientOps[s], rq.op = "unsubscribe",
           handle_unsubscribe(s, rq)
    PROVE  Handled(s)
  <1>1. rq.topic \in Topics
    BY BridgeConstants DEF WellFormedRequest
  <1> QED BY <1>1, Answered
          DEF handle_unsubscribe, Handled, ReadersStep, WritersStep, RR!Acts

LEMMA CreateWriterHandled ==
    ASSUME NEW s \in Sessions, NEW rq \in ClientOps[s], rq.op = "create_writer",
           handle_create_writer(s, rq)
    PROVE  Handled(s)
  <1>1. rq.topic \in Topics /\ rq.qos \in QosSets
    BY BridgeConstants DEF WellFormedRequest
  <1> QED BY <1>1, RegisterActs, Answered
          DEF handle_create_writer, Handled, ReadersStep, WritersStep

LEMMA DeleteWriterHandled ==
    ASSUME NEW s \in Sessions, NEW rq \in ClientOps[s], handle_delete_writer(s, rq)
    PROVE  Handled(s)
  BY DeleteActs, Answered DEF handle_delete_writer, Handled, ReadersStep, WritersStep

\* Writers made for a topic-name write are registered like explicit ones.
LEMMA WriteHandled ==
    ASSUME NEW s \in Sessions, NEW rq \in ClientOps[s],
           rq.op \in {"write", "dispose", "write_dispose"}, handle_write(s, rq)
    PROVE  Handled(s)
  <1>1. ASSUME WriterReady(s, rq) PROVE WritersStep(s)
    <2>1. CASE rq.mode = "topic" /\ register(s, rq.topic, rq.qos)
      <3>1. rq.topic \in Topics /\ rq.qos \in QosSets
        BY <2>1, BridgeConstants DEF WellFormedRequest
      <3> QED BY <2>1, <3>1, RegisterActs DEF WritersStep
    <2> QED BY <1>1, <2>1 DEF WriterReady, WritersStep
  <1>2. ReadersStep(s)
    BY DEF handle_write, ReadersStep
  <1>3. WritersStep(s)
    BY <1>1 DEF handle_write, WriterFails, WritersStep
  <1>4. phase[s] = "reading" /\ UNCHANGED <<phase, session_senders>>
    BY Answered, AnsweredWithDispose DEF handle_write
  <1> QED BY <1>2, <1>3, <1>4 DEF Handled

LEMMA MessageHandled ==
    ASSUME NEW s \in Sessions, NEW rq \in ClientOps[s], handle_message(s, rq)
    PROVE  Handled(s)
  <1>1. ASSUME handle_other(s, rq) PROVE Handled(s)
    BY <1>1, Answered DEF handle_other, Handled, ReadersStep, WritersStep
  <1> QED BY <1>1, SubscribeHandled, UnsubscribeHandled, CreateWriterHandled,
             DeleteWriterHandled, WriteHandled DEF handle_message

\* unregister_session leaves both registries.
Unregistered(s) ==
    /\ RR!remove_session(s) /\ WR!remove_session(s)
    /\ phase' = [phase EXCEPT ![s] = "gone"]
    /\ session_senders' = session_senders \ {s}

\* The task of s opens or stops reading; everything else is out of sight here.
Proceeds(s) ==
    /\ UNCHANGED <<rr, wr>>
    /\ \/ phase' = [phase EXCEPT ![s] = "reading"] /\ session_senders' = session_senders \cup {s}
       \/ /\ phase[s] = "reading" /\ phase' = [phase EXCEPT ![s] = "draining"]
          /\ UNCHANGED session_senders
       \/ UNCHANGED <<phase, session_senders>>

LEMMA StepForms ==
    ASSUME [Next]_vars
    PROVE  \/ \E s \in Sessions : Handled(s) \/ Unregistered(s) \/ Proceeds(s)
           \/ UNCHANGED <<rr, wr, phase, session_senders>>
  <1>1. ASSUME NEW s \in Sessions, SessionStep(s) PROVE Proceeds(s)
    BY <1>1 DEF SessionStep, Proceeds, SS!Open, SS!PushReply, SS!PushFails, SS!EndReading,
                SS!RecvBridge, SS!RecvResp, SS!SendOk, SS!SendFails, SS!PeerLeaves,
                SS!Reading
  <1>2. ASSUME NEW s \in Sessions, unregister_session(s) PROVE Unregistered(s)
    BY <1>2, SameRemoveSession DEF unregister_session, Unregistered, SS!Unregister
  <1>3. ASSUME reader_poll_loop \/ RemoteWrite
        PROVE  UNCHANGED <<rr, wr, phase, session_senders>>
    BY <1>3 DEF reader_poll_loop, PollTake, FanOut, RemoteWrite, ss
  <1>4. ASSUME UNCHANGED vars PROVE UNCHANGED <<rr, wr, phase, session_senders>>
    BY <1>4 DEF vars, ss
  <1> QED BY <1>1, <1>2, <1>3, <1>4, MessageHandled DEF Next

-----------------------------------------------------------------------------
(* A step is one of each registry or leaves it alone.                      *)

LEMMA ReaderSteps == [Next]_vars => [RR!Next]_RR!vars
  <1> SUFFICES ASSUME [Next]_vars PROVE [RR!Next]_RR!vars
    OBVIOUS
  <1>1. ASSUME NEW s \in Sessions, Handled(s) \/ Unregistered(s) \/ Proceeds(s)
        PROVE  RR!Acts(s) \/ UNCHANGED rr
    BY <1>1 DEF Handled, ReadersStep, Unregistered, Proceeds, RR!Acts
  <1> QED BY <1>1, StepForms DEF RR!Next, RR!vars, rr

LEMMA WriterSteps == [Next]_vars => [WR!Next]_WR!vars
  <1> SUFFICES ASSUME [Next]_vars PROVE [WR!Next]_WR!vars
    OBVIOUS
  <1>1. ASSUME NEW s \in Sessions, Handled(s) \/ Unregistered(s) \/ Proceeds(s)
        PROVE  WR!Acts(s) \/ UNCHANGED wr
    BY <1>1 DEF Handled, WritersStep, Unregistered, Proceeds, WR!Acts
  <1> QED BY <1>1, StepForms DEF WR!Next, WR!vars, wr

-----------------------------------------------------------------------------
(* What is proved of the registries, in the composition.                   *)

LEMMA SameReaderKey == ASSUME NEW t, NEW q PROVE RR!ReaderKey(t, q) = RRP!ReaderKey(t, q)
  BY DEF RR!ReaderKey, RRP!ReaderKey, RR!serialize_qos, RRP!serialize_qos, RR!normalize,
         RRP!normalize, RR!is_default, RRP!is_default, RR!PolicyDefault, RRP!PolicyDefault,
         RR!FlattenSeq, RRP!FlattenSeq, RR!serialize_policy, RRP!serialize_policy

LEMMA SameSubscribe ==
    ASSUME NEW s, NEW t, NEW q PROVE RR!subscribe(s, t, q) = RRP!subscribe(s, t, q)
  <1>1. RR!Shared(t, q) = RRP!Shared(t, q)
    BY SameReaderKey DEF RR!Shared, RRP!Shared
  <1>2. RR!SubscribeShared(s, t, q) = RRP!SubscribeShared(s, t, q)
    BY <1>1, SameReaderKey DEF RR!SubscribeShared, RRP!SubscribeShared, RR!insert, RRP!insert
  <1>3. RR!DdsReader(t, q, {s}) = RRP!DdsReader(t, q, {s})
    BY DEF RR!DdsReader, RRP!DdsReader, RR!normalize, RRP!normalize, RR!is_default,
           RRP!is_default, RR!PolicyDefault, RRP!PolicyDefault
  <1>4. RR!SubscribeNew(s, t, q) = RRP!SubscribeNew(s, t, q)
    BY <1>1, <1>3, SameReaderKey DEF RR!SubscribeNew, RRP!SubscribeNew, RR!insert, RRP!insert
  <1> QED BY <1>2, <1>4 DEF RR!subscribe, RRP!subscribe

LEMMA SameLeave == ASSUME NEW ids, NEW s PROVE RR!Leave(ids, s) = RRP!Leave(ids, s)
  BY DEF RR!Leave, RRP!Leave, RR!Emptied, RRP!Emptied, RR!RestrictValues,
         RRP!RestrictValues, RR!Restrict, RRP!Restrict

LEMMA SameReaderSession ==
    ASSUME NEW s PROVE RR!remove_session(s) = RRP!remove_session(s)
  BY SameLeave DEF RR!remove_session, RRP!remove_session, RR!SubKeys, RRP!SubKeys,
         RR!remove, RRP!remove, RR!Restrict, RRP!Restrict

LEMMA SameReaderActs == ASSUME NEW s PROVE RR!Acts(s) = RRP!Acts(s)
  <1>1. ASSUME NEW t PROVE RR!unsubscribe(s, t) = RRP!unsubscribe(s, t)
    BY SameLeave DEF RR!unsubscribe, RRP!unsubscribe, RR!remove, RRP!remove, RR!Restrict,
           RRP!Restrict
  <1> QED BY <1>1, SameSubscribe, SameReaderSession DEF RR!Acts, RRP!Acts

LEMMA SameWriterActs ==
    ASSUME NEW s
    PROVE  /\ WR!Acts(s) = WRP!Acts(s) /\ WR!remove_session(s) = WRP!remove_session(s)
  BY DEF WR!Acts, WRP!Acts, WR!register, WRP!register, WR!insert, WRP!insert,
         WR!next_writer_id, WRP!next_writer_id, WR!IdOf, WRP!IdOf, WR!normalize,
         WRP!normalize, WR!is_default, WRP!is_default, WR!PolicyDefault,
         WRP!PolicyDefault, WR!delete, WRP!delete, WR!Owns, WRP!Owns, WR!remove,
         WRP!remove, WR!Restrict, WRP!Restrict, WR!remove_session, WRP!remove_session

\* The assumptions of the two modules hold in this instance of them.
LEMMA RegistryFacts ==
    /\ SubscribeRequests \subseteq Sessions \X Topics \X QosSets
    /\ MaxReaders \in Nat
    /\ \A q \in QosSets : RRP!WellFormed(q)
    /\ WriterIdSpace \in Nat \ {0} /\ MaxWriters \in Nat
  BY RequestsTyped, BridgeConstants, WriterConstants DEF WellFormed, RRP!WellFormed

LEMMA FollowedStep ==
    ASSUME RRP!Followed, [Next]_vars PROVE RRP!Followed'
  <1>1. [RRP!Next]_RRP!vars
    BY ReaderSteps, SameReaderActs DEF RR!Next, RRP!Next, RR!vars, RRP!vars
  <1> QED BY <1>1, RegistryFacts, RRP!FollowedNext

LEMMA SameOneKey == ASSUME NEW s, NEW t PROVE RR!OneKey(s, t) = RRP!OneKey(s, t)
  BY SameReaderKey DEF RR!OneKey, RRP!OneKey

LEMMA OwnershipStep ==
    ASSUME WRP!NoWrap, WRP!Ownership, [Next]_vars PROVE WRP!Ownership'
  <1>1. [WRP!Next]_WRP!vars
    BY WriterSteps, SameWriterActs DEF WR!Next, WRP!Next, WR!vars, WRP!vars
  <1> QED BY <1>1, RegistryFacts, WRP!OwnershipNext

-----------------------------------------------------------------------------
(* Nothing outlives its owner.                                             *)

\* The bridge holds a sender for every session whose task may still act.
SendersCurrent ==
    /\ DOMAIN phase = Sessions
    /\ \A s \in Sessions : phase[s] \in {"reading", "draining"} => s \in session_senders

\* The inductive invariant.
Owners ==
    /\ RRP!Followed /\ WRP!Ownership
    /\ SendersCurrent
    /\ ResourcesHaveLiveOwners

LEMMA OwnersInit == Init => Owners
  <1> SUFFICES ASSUME Init PROVE Owners
    OBVIOUS
  <1>1. RRP!Init /\ WRP!Init
    BY DEF Init, RR!Init, WR!Init, RRP!Init, WRP!Init, RR!EmptyMap, WR!EmptyMap,
           RRP!EmptyMap, WRP!EmptyMap
  <1>2. RRP!Followed
    BY <1>1, RegistryFacts, RRP!RegistryInit
  <1>3. WRP!Ownership
    BY <1>1, RegistryFacts, WRP!OwnershipInit
  <1>4. SendersCurrent
    BY DEF Init, SS!Init, SendersCurrent
  <1>5. ResourcesHaveLiveOwners
    BY DEF Init, RR!Init, WR!Init, RR!EmptyMap, WR!EmptyMap, ResourcesHaveLiveOwners
  <1> QED BY <1>2, <1>3, <1>4, <1>5 DEF Owners

\* The tasks of the sessions and the list of senders.
LEMMA SendersStep ==
    ASSUME SendersCurrent, [Next]_vars PROVE SendersCurrent'
  <1>1. ASSUME NEW s \in Sessions, Handled(s) PROVE SendersCurrent'
    BY <1>1 DEF Handled, SendersCurrent
  <1>2. ASSUME NEW s \in Sessions, Unregistered(s) PROVE SendersCurrent'
    BY <1>2 DEF Unregistered, SendersCurrent
  <1>3. ASSUME NEW s \in Sessions, Proceeds(s) PROVE SendersCurrent'
    BY <1>3 DEF Proceeds, SendersCurrent
  <1> QED BY <1>1, <1>2, <1>3, StepForms DEF SendersCurrent

\* What a request makes belongs to its session, which is registered.
LEMMA HandledOwners ==
    ASSUME Owners, NEW s \in Sessions, Handled(s) PROVE ResourcesHaveLiveOwners'
  <1>1. s \in session_senders /\ session_senders' = session_senders
    BY DEF Owners, SendersCurrent, Handled
  <1>2. ASSUME NEW id \in DOMAIN readers', NEW u \in readers'[id].subscribers
        PROVE  u \in session_senders \/ ~RR!OneKey(u, readers'[id].topic)
    <2>1. CASE u = s
      BY <1>1, <2>1
    <2>2. CASE UNCHANGED rr
      BY <2>2 DEF rr, Owners, ResourcesHaveLiveOwners
    <2>3. CASE RR!Acts(s) /\ u # s
      <3>1. RRP!Acts(s) /\ RRP!Registry
        BY <2>3, SameReaderActs DEF Owners, RRP!Followed
      <3>2. id \in DOMAIN readers /\ u \in readers[id].subscribers
        BY <2>3, <3>1, RegistryFacts, RRP!OnlyActorJoins
      <3>3. readers'[id].topic = readers[id].topic
        BY <3>1, <3>2, RegistryFacts, RRP!ReadersKeepKeys DEF RRP!Next
      <3> QED BY <3>2, <3>3 DEF Owners, ResourcesHaveLiveOwners
    <2> QED BY <2>1, <2>2, <2>3 DEF Handled, ReadersStep
  <1>3. ASSUME NEW w \in DOMAIN writers' PROVE writers'[w].owner \in session_senders
    <2>1. CASE writers'[w].owner = s
      BY <1>1, <2>1
    <2>2. CASE UNCHANGED wr
      BY <2>2 DEF wr, Owners, ResourcesHaveLiveOwners
    <2>3. CASE WR!Acts(s) /\ writers'[w].owner # s
      <3>1. w \in DOMAIN writers /\ writers'[w] = writers[w]
        BY <2>3, SameWriterActs, RegistryFacts, WRP!OnlyActorGains
      <3> QED BY <3>1 DEF Owners, ResourcesHaveLiveOwners
    <2> QED BY <2>1, <2>2, <2>3 DEF Handled, WritersStep
  <1> QED BY <1>1, <1>2, <1>3 DEF ResourcesHaveLiveOwners

\* The session that leaves takes all it owns with it and no one else's.
LEMMA UnregisteredOwners ==
    ASSUME Owners, NEW s \in Sessions, Unregistered(s) PROVE ResourcesHaveLiveOwners'
  <1>1. session_senders' = session_senders \ {s}
    BY DEF Unregistered
  <1>2. RRP!remove_session(s) /\ RRP!Acts(s) /\ RRP!Followed /\ RRP!Registry
    BY SameReaderSession DEF Unregistered, RRP!Acts, Owners, RRP!Followed
  <1>3. ASSUME NEW id \in DOMAIN readers', NEW u \in readers'[id].subscribers
        PROVE  u \in session_senders' \/ ~RR!OneKey(u, readers'[id].topic)
    <2>1. u = s => id \in DOMAIN readers /\ ~RR!OneKey(u, readers[id].topic)
      BY <1>2, RegistryFacts, SameOneKey, RRP!DisconnectLeaves
    <2>2. u # s => id \in DOMAIN readers /\ u \in readers[id].subscribers
      BY <1>2, RegistryFacts, RRP!OnlyActorJoins
    <2>3. id \in DOMAIN readers
      BY <2>1, <2>2
    <2>4. readers'[id].topic = readers[id].topic
      BY <1>2, <2>3, RegistryFacts, RRP!ReadersKeepKeys DEF RRP!Next
    <2> QED BY <1>1, <2>1, <2>2, <2>4 DEF Owners, ResourcesHaveLiveOwners
  <1>4. ASSUME NEW w \in DOMAIN writers' PROVE writers'[w].owner \in session_senders'
    <2>1. WRP!remove_session(s) /\ WRP!Ownership
      BY SameWriterActs DEF Unregistered, Owners
    <2>2. w \in DOMAIN writers /\ writers'[w] = writers[w] /\ writers'[w].owner # s
      BY <2>1, RegistryFacts, WRP!DisconnectDeletes
    <2> QED BY <1>1, <2>2 DEF Owners, ResourcesHaveLiveOwners
  <1> QED BY <1>3, <1>4 DEF ResourcesHaveLiveOwners

LEMMA ProceedsOwners ==
    ASSUME Owners, NEW s \in Sessions, Proceeds(s) PROVE ResourcesHaveLiveOwners'
  <1>1. readers' = readers /\ writers' = writers /\ session_senders \subseteq session_senders'
    BY DEF Proceeds, rr, wr
  <1> QED BY <1>1 DEF Owners, ResourcesHaveLiveOwners

LEMMA OwnersStep ==
    ASSUME WRP!NoWrap, Owners, [Next]_vars PROVE Owners'
  <1>1. RRP!Followed' /\ WRP!Ownership' /\ SendersCurrent'
    BY FollowedStep, OwnershipStep, SendersStep DEF Owners
  <1>2. ASSUME UNCHANGED <<rr, wr, phase, session_senders>> PROVE ResourcesHaveLiveOwners'
    BY <1>2 DEF rr, wr, Owners, ResourcesHaveLiveOwners
  <1>3. ResourcesHaveLiveOwners'
    BY <1>1, <1>2, StepForms, HandledOwners, UnregisteredOwners, ProceedsOwners
  <1> QED BY <1>1, <1>3 DEF Owners

\* docs/protocol.md:401-403, for arbitrary clients and as long as writer ids do
\* not wrap: an unregistered session owns no writer and is in no reader's
\* fan-out list, but where it asked for the topic with two QoS, wherever its
\* requests and failures of DDS left it (bridge.rs unregister_session).
THEOREM OwnersAlwaysLive ==
    ASSUME MaxWriters < WriterIdSpace PROVE Spec => []ResourcesHaveLiveOwners
  <1>1. Owners /\ [Next]_vars => Owners'
    BY OwnersStep DEF WRP!NoWrap
  <1>2. Owners => ResourcesHaveLiveOwners
    BY DEF Owners
  <1> QED BY <1>1, <1>2, OwnersInit, PTL DEF Spec

\* In the whole bridge, too, a session lists only live writers of its own: a
\* topic-name write never uses another session's writer (bridge.rs
\* handle_write, writer.rs find_by_topic, which does not look at the owner).
THEOREM ListedAlwaysOwned ==
    ASSUME MaxWriters < WriterIdSpace PROVE Spec => []ListedWritersOwned
  <1>1. Init => WRP!Ownership
    <2>1. Init => WRP!Init
      BY DEF Init, WR!Init, WRP!Init, WR!EmptyMap, WRP!EmptyMap
    <2> QED BY <2>1, RegistryFacts, WRP!OwnershipInit
  <1>2. WRP!Ownership /\ [Next]_vars => WRP!Ownership'
    BY OwnershipStep DEF WRP!NoWrap
  <1>3. WRP!Ownership => ListedWritersOwned
    BY DEF WRP!Ownership, WRP!ListedWritersOwned, ListedWritersOwned, WRP!Owns, Owns,
           WRP!IdOf, IdOf
  <1> QED BY <1>1, <1>2, <1>3, PTL DEF Spec

-----------------------------------------------------------------------------
(* Writers made for topic-name writes are reused.                          *)

\* A writer is made only on request, or if none can be reused.
MakesMissing(s) ==
    \E t \in Topics, q \in QosSets :
       /\ register(s, t, q)
       /\ s \in TopicNameClients => Reusable(s, t, normalize(q)) = {}

OnlyLoses ==
    /\ DOMAIN writers' \subseteq DOMAIN writers
    /\ \A w \in DOMAIN writers' : writers'[w] = writers[w]

LEMMA WritersLoseOrMake ==
    ASSUME [Next]_vars
    PROVE  OnlyLoses \/ \E s \in Sessions : MakesMissing(s)
  <1>1. ASSUME UNCHANGED wr PROVE OnlyLoses
    BY <1>1 DEF wr, OnlyLoses
  <1>2. ASSUME NEW s \in Sessions, NEW rq \in ClientOps[s], handle_message(s, rq)
        PROVE  OnlyLoses \/ MakesMissing(s)
    <2>1. CASE rq.op \in {"subscribe", "unsubscribe", "ping", "malformed"}
      BY <1>1, <1>2, <2>1 DEF handle_message, handle_subscribe, handle_unsubscribe, handle_other
    <2>2. CASE handle_delete_writer(s, rq)
      <3>1. ASSUME delete(s, rq.id) PROVE OnlyLoses
        BY <3>1 DEF delete, remove, Restrict, OnlyLoses
      <3> QED BY <1>1, <2>2, <3>1 DEF handle_delete_writer
    <2>3. CASE rq.op \in {"write", "dispose", "write_dispose"} /\ handle_write(s, rq)
      <3>1. CASE WriterReady(s, rq)
        <4>1. rq.mode = "topic" => rq.topic \in Topics /\ rq.qos \in QosSets
          BY <2>3, BridgeConstants DEF WellFormedRequest
        <4> QED BY <1>1, <3>1, <4>1 DEF WriterReady, MakesMissing
      <3>2. CASE UNCHANGED wr
        BY <1>1, <3>2
      <3> QED BY <2>3, <3>1, <3>2 DEF handle_write, WriterFails
    <2>4. CASE rq.op = "create_writer" /\ handle_create_writer(s, rq)
      <3>1. s \notin TopicNameClients /\ rq.topic \in Topics /\ rq.qos \in QosSets
        BY <2>4, BridgeConstants DEF TopicNameClients, WellFormedRequest
      <3> QED BY <1>1, <2>4, <3>1 DEF handle_create_writer, MakesMissing
    <2> QED BY <1>2, <2>1, <2>2, <2>3, <2>4 DEF handle_message
  <1>3. ASSUME NEW s \in Sessions, unregister_session(s) PROVE OnlyLoses
    BY <1>3 DEF unregister_session, remove_session, remove, Restrict, OnlyLoses
  <1>4. ASSUME \/ \E s \in Sessions : SessionStep(s)
               \/ reader_poll_loop \/ RemoteWrite \/ UNCHANGED vars
        PROVE  UNCHANGED wr
    BY <1>4 DEF SessionStep, reader_poll_loop, PollTake, FanOut, RemoteWrite, vars
  <1> QED BY <1>1, <1>2, <1>3, <1>4 DEF Next

LEMMA OneWriterStep ==
    ASSUME SymmetricEq, WRP!NoWrap, WRP!Ownership, OneWriterPerQos, [Next]_vars
    PROVE  OneWriterPerQos'
  <1>1. ASSUME OnlyLoses PROVE OneWriterPerQos'
    BY <1>1 DEF OnlyLoses, OneWriterPerQos
  <1>2. ASSUME NEW s \in Sessions, NEW t \in Topics, NEW q \in QosSets,
               register(s, t, q), s \in TopicNameClients => Reusable(s, t, normalize(q)) = {}
        PROVE  OneWriterPerQos'
    <2> DEFINE w == next_writer_id
    <2>1. /\ DOMAIN writers' = DOMAIN writers \cup {w}
          /\ writers'[w].topic = t /\ writers'[w].qos = normalize(q) /\ writers'[w].owner = s
          /\ \A x \in DOMAIN writers : x # w => writers'[x] = writers[x]
      BY <1>2 DEF register, insert
    <2> HIDE DEF w
    <2>2. ASSUME NEW x \in DOMAIN writers, writers[x].owner = s, writers[x].topic = t,
                 s \in TopicNameClients
          PROVE  /\ ~normalized_eq(writers[x].qos, normalize(q))
                 /\ ~normalized_eq(normalize(q), writers[x].qos)
      <3>1. PICK n \in session_writers[s] : IdOf(n) = x
        BY <2>2 DEF WRP!Ownership, WRP!OwnedWritersListed, WRP!IdOf, IdOf
      <3>2. ~normalized_eq(writers[x].qos, normalize(q))
        BY <1>2, <2>2, <3>1 DEF Reusable
      <3>3. PICK p \in QosSets : writers[x].qos = normalize(p)
        <4>1. writers[x] \in WRP!WriterType
          BY DEF WRP!Ownership, WRP!TypeOK
        <4>2. PICK p \in QosSets : writers[x].qos = WRP!normalize(p)
          BY <4>1 DEF WRP!WriterType
        <4> QED BY <4>2 DEF WRP!normalize, normalize, WRP!is_default, is_default,
                            WRP!PolicyDefault, PolicyDefault
      <3> QED BY <3>2, <3>3 DEF SymmetricEq
    <2>3. ASSUME NEW a \in DOMAIN writers', NEW b \in DOMAIN writers',
                 writers'[a].owner \in TopicNameClients,
                 writers'[a].owner = writers'[b].owner, writers'[a].topic = writers'[b].topic,
                 normalized_eq(writers'[a].qos, writers'[b].qos)
          PROVE  a = b
      <3>1. CASE a # w /\ b # w
        BY <2>1, <2>3, <3>1 DEF OneWriterPerQos
      <3>2. CASE a = w /\ b # w
        BY <2>1, <2>2, <2>3, <3>2
      <3>3. CASE a # w /\ b = w
        BY <2>1, <2>2, <2>3, <3>3
      <3> QED BY <3>1, <3>2, <3>3
    <2> QED BY <2>3 DEF OneWriterPerQos
  <1> QED BY <1>1, <1>2, WritersLoseOrMake DEF MakesMissing

\* docs/protocol.md:148-149: clients that leave their writers to the bridge
\* never end up with two of one topic and QoS, however they spell the QoS
\* (handle_write, writer.rs find_by_topic).
THEOREM WritersAlwaysReused ==
    ASSUME SymmetricEq, MaxWriters < WriterIdSpace
    PROVE  Spec => []OneWriterPerQos
  <1> DEFINE Inv == WRP!Ownership /\ OneWriterPerQos
  <1>1. Init => Inv
    <2> SUFFICES ASSUME Init PROVE Inv
      OBVIOUS
    <2>1. WRP!Init
      BY DEF Init, WR!Init, WRP!Init, WR!EmptyMap, WRP!EmptyMap
    <2>2. WRP!Ownership
      BY <2>1, RegistryFacts, WRP!OwnershipInit
    <2>3. OneWriterPerQos
      BY DEF Init, WR!Init, WR!EmptyMap, OneWriterPerQos
    <2> QED BY <2>2, <2>3
  <1>2. Inv /\ [Next]_vars => Inv'
    BY OneWriterStep, OwnershipStep DEF WRP!NoWrap
  <1>3. Inv => OneWriterPerQos
    OBVIOUS
  <1> QED BY <1>1, <1>2, <1>3, PTL DEF Spec

-----------------------------------------------------------------------------
(* What a session gets, as sequences.                                      *)

\* The messages of p that took one channel are the first of those of q.
Begins(via, p, q) ==
    \E f \in [SS!At(via, p) -> SS!At(via, q)] :
       /\ \A i \in SS!At(via, p) : p[i] = q[f[i]]
       /\ \A i, j \in SS!At(via, p) : i < j => f[i] < f[j]
       /\ \A i \in SS!At(via, p) : \A k \in SS!At(via, q) :
             k < f[i] => \E j \in SS!At(via, p) : f[j] = k

LEMMA ConcatParts ==
    ASSUME NEW S, NEW a \in Seq(S), NEW b \in Seq(S)
    PROVE  /\ a \o b \in Seq(S) /\ Len(a) \in Nat /\ Len(b) \in Nat
           /\ DOMAIN (a \o b) = 1 .. (Len(a) + Len(b))
           /\ DOMAIN a = 1 .. Len(a) /\ DOMAIN b = 1 .. Len(b)
           /\ \A i \in 1 .. Len(a) : (a \o b)[i] = a[i]
           /\ \A i \in 1 .. Len(b) : (a \o b)[Len(a) + i] = b[i]
  <1>1. /\ a \o b \in Seq(S) /\ Len(a \o b) = Len(a) + Len(b)
        /\ \A i \in 1 .. Len(a) + Len(b) :
              (a \o b)[i] = IF i <= Len(a) THEN a[i] ELSE b[i - Len(a)]
    BY ConcatProperties
  <1>2. /\ Len(a) \in Nat /\ Len(b) \in Nat
        /\ DOMAIN a = 1 .. Len(a) /\ DOMAIN b = 1 .. Len(b)
        /\ DOMAIN (a \o b) = 1 .. Len(a \o b)
    BY <1>1, LenProperties
  <1>3. \A i \in 1 .. Len(a) : (a \o b)[i] = a[i]
    BY <1>1, <1>2
  <1>4. ASSUME NEW i \in 1 .. Len(b) PROVE (a \o b)[Len(a) + i] = b[i]
    <2>1. Len(a) + i \in 1 .. Len(a) + Len(b) /\ ~(Len(a) + i <= Len(a))
          /\ Len(a) + i - Len(a) = i
      BY <1>2
    <2> QED BY <1>1, <2>1
  <1> QED BY <1>1, <1>2, <1>3, <1>4

LEMMA JoinedEnd ==
    ASSUME NEW S, NEW a \in Seq(S), NEW b \in Seq(S)
    PROVE  \A i \in 1 .. Len(b) : (a \o b)[Len(a) + i] = b[i]
  BY ConcatParts

\* A sequence that is cut short.
LEMMA BeginsPrefix ==
    ASSUME NEW S, NEW a \in Seq(S), NEW b \in Seq(S), NEW via
    PROVE  Begins(via, a, a \o b)
  <1> DEFINE P == SS!At(via, a)
             Q == SS!At(via, a \o b)
             f == [i \in P |-> i]
  <1>1. /\ P \subseteq Nat /\ Q \subseteq Nat
        /\ \A i \in P : i \in Q /\ a[i] = (a \o b)[i]
        /\ \A i \in P, k \in Q : k < i => k \in P
    BY ConcatParts DEF SS!At
  <1>2. f \in [P -> Q] /\ \A i \in P : f[i] = i
    BY <1>1
  <1> HIDE DEF f, P, Q
  <1>3. /\ \A i \in P : a[i] = (a \o b)[f[i]]
        /\ \A i, j \in P : i < j => f[i] < f[j]
        /\ \A i \in P : \A k \in Q : k < f[i] => \E j \in P : f[j] = k
    BY <1>1, <1>2
  <1> QED BY <1>2, <1>3 DEF Begins, P, Q

LEMMA BeginsSame ==
    ASSUME NEW S, NEW a \in Seq(S), NEW via PROVE Begins(via, a, a)
  <1>1. <<>> \in Seq(S) /\ a \o <<>> = a
    BY ConcatEmptySeq, EmptySeq
  <1>2. Begins(via, a, a \o <<>>)
    BY <1>1, BeginsPrefix
  <1> QED BY <1>1, <1>2

\* A message of the other channel comes in between.
LEMMA BeginsInsert ==
    ASSUME NEW S, NEW a \in Seq(S), NEW b \in Seq(S), NEW m \in S, NEW via, m.via # via
    PROVE  Begins(via, (a \o <<m>>) \o b, a \o b)
  <1> DEFINE p == (a \o <<m>>) \o b
             q == a \o b
             P == SS!At(via, p)
             Q == SS!At(via, q)
             n == Len(a)
             f == [i \in P |-> IF i <= n THEN i ELSE i - 1]
  <1>1. <<m>> \in Seq(S) /\ Len(<<m>>) = 1 /\ <<m>>[1] = m
    OBVIOUS
  <1>2. /\ n \in Nat /\ Len(b) \in Nat
        /\ DOMAIN q = 1 .. (n + Len(b))
        /\ \A i \in 1 .. n : q[i] = a[i]
        /\ \A i \in 1 .. Len(b) : q[n + i] = b[i]
    BY ConcatParts
  <1>3. /\ a \o <<m>> \in Seq(S) /\ Len(a \o <<m>>) = n + 1
        /\ \A i \in 1 .. n : (a \o <<m>>)[i] = a[i]
        /\ (a \o <<m>>)[n + 1] = m
    <2>1. 1 \in 1 .. Len(<<m>>)
      BY <1>1
    <2>2. Len(a \o <<m>>) = n + Len(<<m>>)
      BY <1>1, ConcatProperties
    <2> QED BY <1>1, <2>1, <2>2, ConcatParts
  <1>4. /\ DOMAIN p = 1 .. (n + 1 + Len(b))
        /\ \A i \in 1 .. n + 1 : p[i] = (a \o <<m>>)[i]
        /\ \A i \in 1 .. Len(b) : p[n + 1 + i] = b[i]
    BY <1>3, ConcatParts
  <1>5. /\ \A i \in 1 .. n : p[i] = q[i]
        /\ p[n + 1] = m
        /\ \A i \in 1 .. Len(b) : p[n + 1 + i] = q[n + i]
    BY <1>2, <1>3, <1>4
  <1> DEFINE l == Len(b)
  <1> HIDE DEF p, q, n, l
  <1>6. ASSUME NEW i \in P
        PROVE  /\ i \in Nat /\ i # n + 1
               /\ i <= n => i \in Q /\ p[i] = q[i]
               /\ i > n => i - 1 \in Q /\ i - 1 > n /\ p[i] = q[i - 1]
    <2>1. i \in 1 .. (n + 1 + l) /\ p[i].via = via /\ i # n + 1
      BY <1>4, <1>5 DEF SS!At, l
    <2>2. CASE i <= n
      <3>1. i \in 1 .. n /\ i \in 1 .. (n + l)
        BY <1>2, <2>1, <2>2 DEF l
      <3>2. p[i] = q[i]
        BY <1>5, <3>1
      <3> QED BY <1>2, <2>1, <2>2, <3>1, <3>2 DEF SS!At, l
    <2>3. CASE i > n
      <3>1. i - 1 - n \in 1 .. l /\ n + 1 + (i - 1 - n) = i /\ n + (i - 1 - n) = i - 1
        BY <1>2, <2>1, <2>3 DEF l
      <3>2. p[n + 1 + (i - 1 - n)] = q[n + (i - 1 - n)]
        BY <1>5, <3>1 DEF l
      <3>3. p[i] = q[i - 1] /\ i - 1 \in 1 .. (n + l) /\ i - 1 > n
        BY <1>2, <2>1, <2>3, <3>1, <3>2 DEF l
      <3> QED BY <1>2, <2>1, <2>3, <3>3 DEF SS!At, l
    <2> QED BY <1>2, <2>1, <2>2, <2>3
  <1>7. ASSUME NEW k \in Q
        PROVE  /\ k \in Nat
               /\ k <= n => k \in P
               /\ k > n => k + 1 \in P /\ k + 1 > n
    <2>1. k \in 1 .. (n + l) /\ q[k].via = via
      BY <1>2 DEF SS!At, l
    <2>2. CASE k <= n
      <3>1. k \in 1 .. n /\ k \in 1 .. (n + 1 + l)
        BY <1>2, <2>1, <2>2 DEF l
      <3> QED BY <1>2, <1>4, <1>5, <2>1, <2>2, <3>1 DEF SS!At, l
    <2>3. CASE k > n
      <3>1. k - n \in 1 .. l /\ n + 1 + (k - n) = k + 1 /\ n + (k - n) = k
        BY <1>2, <2>1, <2>3 DEF l
      <3>2. p[n + 1 + (k - n)] = q[n + (k - n)]
        BY <1>5, <3>1 DEF l
      <3>3. p[k + 1] = q[k] /\ k + 1 \in 1 .. (n + 1 + l) /\ k + 1 > n
        BY <1>2, <2>1, <2>3, <3>1, <3>2 DEF l
      <3> QED BY <1>2, <1>4, <2>1, <2>3, <3>3 DEF SS!At, l
    <2> QED BY <1>2, <2>1, <2>2, <2>3
  <1>8. n \in Nat
    BY <1>2
  <1> HIDE DEF P, Q
  <1>9. f \in [P -> Q] /\ \A i \in P : f[i] = IF i <= n THEN i ELSE i - 1
    BY <1>6, <1>8
  <1> HIDE DEF f
  <1>10. \A i \in P : p[i] = q[f[i]]
    BY <1>6, <1>8, <1>9
  <1>11. \A i, j \in P : i < j => f[i] < f[j]
    BY <1>6, <1>8, <1>9
  <1>12. ASSUME NEW i \in P, NEW k \in Q, k < f[i] PROVE \E j \in P : f[j] = k
    <2>1. CASE k <= n
      BY <1>7, <1>9, <2>1
    <2>2. CASE k > n
      <3>1. PICK j \in P : ~(j <= n) /\ j - 1 = k
        BY <1>7, <1>8, <2>2
      <3> QED BY <1>9, <3>1
    <2> QED BY <1>7, <1>8, <2>1, <2>2
  <1> QED BY <1>9, <1>10, <1>11, <1>12 DEF Begins, P, Q, p, q

\* Notes that follow their Ok in q do so in what q begins with.
LEMMA NotedBegins ==
    ASSUME NEW p, NEW q, Begins("resp", p, q), Noted(q),
           DOMAIN p \subseteq Nat, DOMAIN q \subseteq Nat
    PROVE  Noted(p)
  <1> DEFINE P == SS!At("resp", p)
             Q == SS!At("resp", q)
  <1>1. PICK f \in [P -> Q] :
           /\ \A i \in P : p[i] = q[f[i]]
           /\ \A i, j \in P : i < j => f[i] < f[j]
           /\ \A i \in P : \A k \in Q : k < f[i] => \E j \in P : f[j] = k
    BY DEF Begins
  <1>2. P \subseteq Nat /\ Q \subseteq Nat
    BY DEF SS!At
  <1> SUFFICES ASSUME NEW i \in P, p[i].body.type = "DataDisposed"
               PROVE  \E j \in P :
                         /\ j < i
                         /\ p[j].body.type = "Ok"
                         /\ p[j].body.rq.op \in {"dispose", "write_dispose"}
                         /\ \A k \in P : j < k /\ k <= i => p[k].body.type = "DataDisposed"
    BY DEF Noted
  <1>3. f[i] \in Q /\ q[f[i]].body.type = "DataDisposed"
    BY <1>1
  <1>4. PICK h \in Q :
           /\ h < f[i]
           /\ q[h].body.type = "Ok"
           /\ q[h].body.rq.op \in {"dispose", "write_dispose"}
           /\ \A k \in Q : h < k /\ k <= f[i] => q[k].body.type = "DataDisposed"
    BY <1>3 DEF Noted
  <1>5. PICK j \in P : f[j] = h
    BY <1>1, <1>4
  <1> HIDE DEF P, Q
  <1>6. j < i
    <2>1. f[i] \in Nat /\ f[j] \in Nat /\ i \in Nat /\ j \in Nat
      BY <1>1, <1>2
    <2>2. i < j => f[i] < f[j]
      BY <1>1
    <2>3. ~(f[i] < f[j]) /\ i # j
      BY <1>4, <1>5, <2>1
    <2> QED BY <2>1, <2>2, <2>3
  <1>7. ASSUME NEW k \in P, j < k, k <= i PROVE p[k].body.type = "DataDisposed"
    <2>1. f[k] \in Q /\ f[j] < f[k] /\ p[k] = q[f[k]]
      BY <1>1, <1>7
    <2>2. f[k] <= f[i]
      <3>1. k = i \/ k < i
        BY <1>2, <1>7
      <3>2. f[k] \in Nat /\ f[i] \in Nat /\ (k < i => f[k] < f[i])
        BY <1>1, <1>2
      <3> QED BY <3>1, <3>2
    <2> QED BY <1>4, <1>5, <2>1, <2>2
  <1> QED BY <1>1, <1>4, <1>5, <1>6, <1>7

LEMMA NotedJoined ==
    ASSUME NEW S, NEW p \in Seq(S), NEW r \in Seq(S), Noted(p), Noted(r)
    PROVE  Noted(p \o r)
  <1> DEFINE q == p \o r
             P == SS!At("resp", p)
             R == SS!At("resp", r)
             Q == SS!At("resp", q)
             n == Len(p)
             Before(i, j, s, A) ==
                /\ j < i
                /\ s[j].body.type = "Ok"
                /\ s[j].body.rq.op \in {"dispose", "write_dispose"}
                /\ \A k \in A : j < k /\ k <= i => s[k].body.type = "DataDisposed"
  <1>1. /\ n \in Nat /\ Len(r) \in Nat
        /\ DOMAIN q = 1 .. (n + Len(r)) /\ DOMAIN p = 1 .. n /\ DOMAIN r = 1 .. Len(r)
        /\ \A i \in 1 .. n : q[i] = p[i]
        /\ \A i \in 1 .. Len(r) : q[n + i] = r[i]
    BY ConcatParts
  <1> DEFINE l == Len(r)
  <1> HIDE DEF q, n, l
  <1>2. ASSUME NEW i \in Q
        PROVE  /\ i \in Nat
               /\ i <= n => i \in P /\ q[i] = p[i]
               /\ i > n => i - n \in R /\ q[i] = r[i - n]
    <2>1. i \in 1 .. (n + l) /\ q[i].via = "resp" /\ n \in Nat /\ l \in Nat
      BY <1>1 DEF SS!At, l
    <2>2. CASE i <= n
      BY <1>1, <2>1, <2>2 DEF SS!At
    <2>3. CASE i > n
      <3>1. i - n \in 1 .. l /\ n + (i - n) = i
        BY <2>1, <2>3
      <3>2. q[n + (i - n)] = r[i - n]
        BY <1>1, <3>1 DEF l
      <3>3. q[i] = r[i - n] /\ ~(i <= n)
        BY <2>1, <2>3, <3>1, <3>2
      <3> QED BY <1>1, <2>1, <2>3, <3>1, <3>3 DEF SS!At, l
    <2> QED BY <2>1, <2>2, <2>3
  <1>3. \A i \in P : i \in Nat /\ i <= n /\ i \in Q /\ q[i] = p[i]
    BY <1>1 DEF SS!At, l
  <1>4. ASSUME NEW i \in R PROVE i \in Nat /\ i > 0 /\ n + i \in Q /\ q[n + i] = r[i]
    <2>1. i \in 1 .. l /\ n + i \in 1 .. (n + l) /\ n \in Nat /\ l \in Nat
      BY <1>1 DEF SS!At, l
    <2>2. q[n + i] = r[i] /\ r[i].via = "resp"
      BY <1>1, <2>1 DEF SS!At, l
    <2> QED BY <1>1, <2>1, <2>2 DEF SS!At, l
  <1>5. n \in Nat
    BY <1>1
  <1> HIDE DEF P, R, Q
  <1>6. ASSUME NEW i \in Q, q[i].body.type = "DataDisposed"
        PROVE  \E j \in Q : Before(i, j, q, Q)
    <2>1. CASE i <= n
      <3>1. i \in P /\ p[i].body.type = "DataDisposed"
        BY <1>2, <1>6, <2>1
      <3>2. PICK j \in P : Before(i, j, p, P)
        BY <3>1 DEF Noted, P
      <3>3. j \in Q /\ q[j] = p[j]
        BY <1>3
      <3>4. ASSUME NEW k \in Q, j < k, k <= i PROVE q[k].body.type = "DataDisposed"
        <4>1. k \in P /\ q[k] = p[k]
          BY <1>2, <1>5, <2>1, <3>4
        <4> QED BY <3>2, <3>4, <4>1
      <3> QED BY <3>2, <3>3, <3>4
    <2>2. CASE i > n
      <3>1. i \in Nat /\ i - n \in R /\ r[i - n].body.type = "DataDisposed"
        BY <1>2, <1>6, <2>2
      <3>2. PICK h \in R : Before(i - n, h, r, R)
        BY <3>1 DEF Noted, R
      <3>3. PICK j \in Q : j = n + h
        BY <1>4
      <3>4. h \in Nat /\ h > 0 /\ q[j] = r[h] /\ j < i /\ j > n
        BY <1>4, <1>5, <3>1, <3>2, <3>3
      <3>5. ASSUME NEW k \in Q, j < k, k <= i PROVE q[k].body.type = "DataDisposed"
        <4>1. k \in Nat /\ k > n
          BY <1>2, <1>5, <3>3, <3>4, <3>5
        <4>2. k - n \in R /\ q[k] = r[k - n]
          BY <1>2, <4>1
        <4>3. h < k - n /\ k - n <= i - n
          BY <1>5, <3>1, <3>3, <3>4, <3>5, <4>1
        <4> QED BY <3>2, <4>2, <4>3
      <3> QED BY <3>2, <3>4, <3>5
    <2> QED BY <1>2, <1>5, <2>1, <2>2
  <1> QED BY <1>6 DEF Noted, Q, q

-----------------------------------------------------------------------------
(* The types of what is under way.                                         *)

AnswerTypes ==
    {"Ok", "Pong", "DdsError", "ReaderNotFound", "WriterNotFound", "InvalidMessage"}
Answers == [type : AnswerTypes, rq : UNION {ClientOps[s] : s \in Sessions}]
ReaderKeys == {RR!ReaderKey(t, q) : t \in Topics, q \in QosSets}
Origins == [reader : Nat, key : ReaderKeys \cup {<<>>}, sample : Nat]
Notices == [type : {"Data", "DataDisposed", "DataNoWriters"}, topic : Topics, from : Origins]
ReplyMessages == [via : {"resp"}, seq : Nat, body : Answers \cup Notices]
BridgeMessages == [via : {"bridge"}, seq : Nat, body : Notices]
Messages == ReplyMessages \cup BridgeMessages

\* The channels of s hold messages of their own kind.
Channels(s) ==
    /\ wire[s] \in Seq(Messages) /\ inflight[s] \in Seq(Messages)
    /\ resp_ch[s] \in Seq(ReplyMessages) /\ resps[s] \in Seq(ReplyMessages)
    /\ bridge_ch[s] \in Seq(BridgeMessages)
    /\ issued[s] \in Nat /\ offered[s] \in Nat

Domains ==
    /\ DOMAIN wire = Sessions /\ DOMAIN inflight = Sessions /\ DOMAIN resp_ch = Sessions
    /\ DOMAIN resps = Sessions /\ DOMAIN bridge_ch = Sessions /\ DOMAIN writer = Sessions
    /\ DOMAIN issued = Sessions /\ DOMAIN offered = Sessions

Caches(made) == [samples : Seq([n : 1 .. made, valid : BOOLEAN]), state : InstanceStates]
Entries == [body : Notices, to : SUBSET Sessions]

WorldTyped ==
    /\ samples_made \in Nat
    /\ dds \in [DOMAIN readers -> Caches(samples_made)]
    /\ history \in [Topics -> Caches(samples_made)]
    /\ pending \in Seq(Entries)

WritersOnTopics == \A w \in DOMAIN writers : writers[w].topic \in Topics

Typed ==
    /\ RRP!Registry
    /\ WritersOnTopics
    /\ WorldTyped
    /\ Domains /\ \A s \in Sessions : Channels(s)

-----------------------------------------------------------------------------
(* The steps, seen from what is under way.                                 *)

\* What a session is told, and what is on its way to it.
traffic == <<resps, resp_ch, bridge_ch, inflight, writer, wire, issued, offered>>

Answering(s) ==
    /\ \E type \in AnswerTypes, rq \in ClientOps[s] : answer(s, type, rq)
    /\ UNCHANGED pending

Disposing(s) ==
    /\ \E rq \in ClientOps[s], t \in Topics :
          /\ rq.op \in {"dispose", "write_dispose"}
          /\ resp_with_dispose_notification(s, rq, t)
    /\ UNCHANGED pending

Moving(s) ==
    /\ \/ SS!PushReply(s) \/ SS!PushFails(s)
       \/ SS!RecvBridge(s) \/ SS!RecvResp(s) \/ SS!SendOk(s) \/ SS!SendFails(s)
    /\ UNCHANGED pending

LEMMA TrafficForms ==
    ASSUME Typed, [Next]_vars
    PROVE  \/ \E s \in Sessions : Answering(s) \/ Disposing(s) \/ Moving(s) \/ FanOut(s)
           \/ UNCHANGED <<traffic, pending>>
           \/ UNCHANGED traffic /\ PollTake
  <1>1. ASSUME NEW s \in Sessions, NEW rq \in ClientOps[s], handle_message(s, rq)
        PROVE  Answering(s) \/ Disposing(s)
    <2>1. ASSUME NEW type \in AnswerTypes, answer(s, type, rq), UNCHANGED pending
          PROVE  Answering(s)
      BY <2>1 DEF Answering
    <2>2. {"Ok", "Pong", "DdsError", "ReaderNotFound", "WriterNotFound", "InvalidMessage"}
             \subseteq AnswerTypes
      BY DEF AnswerTypes
    <2>3. ASSUME handle_subscribe(s, rq) PROVE Answering(s)
      BY <2>1, <2>2, <2>3 DEF handle_subscribe
    <2>4. ASSUME handle_unsubscribe(s, rq) PROVE Answering(s)
      <3> DEFINE type == IF RR!Subscribed(s, rq.topic) THEN "Ok" ELSE "ReaderNotFound"
      <3>1. type \in AnswerTypes
        BY <2>2
      <3>2. CASE answer(s, type, rq) /\ UNCHANGED pending
        <4> HIDE DEF type
        <4> QED BY <2>1, <3>1, <3>2
      <3>3. CASE answer(s, "ReaderNotFound", rq) /\ UNCHANGED pending
        BY <2>1, <2>2, <3>3
      <3> QED BY <2>4, <3>2, <3>3 DEF handle_unsubscribe, world
    <2>5. ASSUME handle_create_writer(s, rq) PROVE Answering(s)
      BY <2>1, <2>2, <2>5 DEF handle_create_writer
    <2>6. ASSUME handle_delete_writer(s, rq) PROVE Answering(s)
      BY <2>1, <2>2, <2>6 DEF handle_delete_writer, world
    <2>7. ASSUME handle_other(s, rq) PROVE Answering(s)
      <3> DEFINE type == IF rq.op = "ping" THEN "Pong" ELSE "InvalidMessage"
      <3>1. type \in AnswerTypes
        BY <2>2
      <3>2. answer(s, type, rq) /\ UNCHANGED pending
        BY <2>7 DEF handle_other, world
      <3> HIDE DEF type
      <3> QED BY <2>1, <3>1, <3>2
    <2>8. ASSUME handle_write(s, rq), rq.op \in {"write", "dispose", "write_dispose"}
          PROVE  Answering(s) \/ Disposing(s)
      <3>1. CASE /\ WriterReady(s, rq)
                 /\ rq.op # "write"
                 /\ resp_with_dispose_notification(s, rq, WriterTopic(rq))
                 /\ UNCHANGED pending
        <4>1. rq.mode = "topic" => rq.topic \in Topics
          BY <2>8, BridgeConstants DEF WellFormedRequest
        <4>2. rq.mode # "topic" => rq.id \in DOMAIN writers
          BY <3>1 DEF WriterReady, Owns
        <4>3. WriterTopic(rq) \in Topics
          BY <4>1, <4>2 DEF WriterTopic, Typed, WritersOnTopics
        <4> QED BY <2>8, <3>1, <4>3 DEF Disposing
      <3>2. CASE answer(s, "Ok", rq) /\ UNCHANGED pending
        BY <2>1, <2>2, <3>2
      <3>3. CASE answer(s, "DdsError", rq) /\ UNCHANGED pending
        BY <2>1, <2>2, <3>3
      <3>4. CASE answer(s, "WriterNotFound", rq) /\ UNCHANGED pending
        BY <2>1, <2>2, <3>4
      <3> QED BY <2>8, <3>1, <3>2, <3>3, <3>4 DEF handle_write, world
    <2> QED BY <1>1, <2>3, <2>4, <2>5, <2>6, <2>7, <2>8 DEF handle_message
  <1>2. ASSUME NEW s \in Sessions, SessionStep(s) PROVE Moving(s) \/ UNCHANGED <<traffic, pending>>
    BY <1>2 DEF SessionStep, Moving, traffic, world, SS!Open, SS!EndReading, SS!PeerLeaves,
                SS!chans
  <1>3. ASSUME NEW s \in Sessions, unregister_session(s) PROVE UNCHANGED <<traffic, pending>>
    BY <1>3 DEF unregister_session, SS!Unregister, traffic, SS!chans
  <1>4. ASSUME PollTake \/ RemoteWrite \/ UNCHANGED vars
        PROVE  UNCHANGED traffic /\ (PollTake \/ UNCHANGED pending)
    BY <1>4 DEF PollTake, RemoteWrite, vars, ss, world, traffic
  <1> QED BY <1>1, <1>2, <1>3, <1>4 DEF Next, reader_poll_loop

\* The head of one sequence becomes the end of the other.
LEMMA HeadMoves ==
    ASSUME NEW S, NEW a \in Seq(S), NEW c \in Seq(S), c # <<>>
    PROVE  /\ Head(c) \in S /\ Tail(c) \in Seq(S) /\ <<Head(c)>> \in Seq(S)
           /\ (a \o <<Head(c)>>) \o Tail(c) = a \o c
           /\ Append(a, Head(c)) = a \o <<Head(c)>>
  <1>1. Head(c) \in S /\ Tail(c) \in Seq(S) /\ <<Head(c)>> \in Seq(S)
    BY HeadTailProperties
  <1>2. <<Head(c)>> \o Tail(c) = c
    <2>1. Len(c) \in Nat \ {0} /\ 1 \in 1 .. Len(c) /\ Len(c) \in 1 .. Len(c)
      BY EmptySeq
    <2>2. SubSeq(c, 1, Len(c)) = <<c[1]>> \o SubSeq(c, 1 + 1, Len(c))
      BY <2>1, SubSeqRecursiveFirst
    <2>3. SubSeq(c, 1, Len(c)) = c /\ Tail(c) = SubSeq(c, 2, Len(c)) /\ Head(c) = c[1]
      BY SubSeqFull, TailIsSubSeq
    <2> QED BY <2>2, <2>3
  <1>3. (a \o <<Head(c)>>) \o Tail(c) = a \o (<<Head(c)>> \o Tail(c))
    BY <1>1, ConcatAssociative
  <1>4. Append(a, Head(c)) = a \o <<Head(c)>>
    BY <1>1, AppendIsConcat
  <1> QED BY <1>1, <1>2, <1>3, <1>4

LEMMA AppendMoves ==
    ASSUME NEW S, NEW a \in Seq(S), NEW c \in Seq(S), c # <<>>
    PROVE  /\ Append(a, Head(c)) \in Seq(S) /\ Tail(c) \in Seq(S)
           /\ Append(a, Head(c)) \o Tail(c) = a \o c
  <1>1. Head(c) \in S /\ Tail(c) \in Seq(S)
    BY HeadMoves
  <1>2. (a \o <<Head(c)>>) \o Tail(c) = a \o c
    BY HeadMoves
  <1>3. Append(a, Head(c)) = a \o <<Head(c)>>
    BY <1>1, AppendIsConcat
  <1>4. Append(a, Head(c)) \in Seq(S)
    BY <1>1, AppendProperties
  <1> QED BY <1>1, <1>2, <1>3, <1>4

LEMMA Regroup ==
    ASSUME NEW a \in Seq(Messages), NEW b \in Seq(Messages), NEW c \in Seq(Messages)
    PROVE  (a \o b) \o c = a \o (b \o c)
  BY ConcatAssociative

LEMMA ReceivedNext ==
    ASSUME NEW w \in Seq(Messages), NEW c \in Seq(Messages), NEW r \in Seq(Messages), c # <<>>
    PROVE  (w \o <<Head(c)>>) \o (Tail(c) \o r) = w \o (c \o r)
  <1>4. (w \o c) \o r = w \o (c \o r)
    BY Regroup, SMTT(20)
  <1> DEFINE v == w \o <<Head(c)>>
             d == Tail(c)
  <1>1. v \in Seq(Messages) /\ d \in Seq(Messages)
    <2>1. d \in Seq(Messages) /\ <<Head(c)>> \in Seq(Messages)
      BY HeadMoves
    <2> QED BY <2>1, ConcatProperties
  <1>2. v \o d = w \o c
    BY HeadMoves
  <1> HIDE DEF v, d
  <1>3. (v \o d) \o r = v \o (d \o r)
    BY <1>1, Regroup, SMTT(20)
  <1>5. v \o (d \o r) = w \o (c \o r)
    BY <1>2, <1>3, <1>4
  <1> QED BY <1>5 DEF v, d

LEMMA KindsOfMessages ==
    /\ \A q \in Seq(ReplyMessages) : q \in Seq(Messages)
    /\ \A q \in Seq(BridgeMessages) : q \in Seq(Messages)
    /\ \A m \in ReplyMessages : m \in Messages /\ m.via # "bridge"
    /\ \A m \in BridgeMessages : m \in Messages /\ m.via # "resp"
  <1>1. ReplyMessages \subseteq Messages /\ BridgeMessages \subseteq Messages
    BY DEF Messages
  <1>2. \A m \in ReplyMessages : m.via = "resp"
    BY DEF ReplyMessages
  <1>3. \A m \in BridgeMessages : m.via = "bridge"
    BY DEF BridgeMessages
  <1> QED BY <1>1, <1>2, <1>3, SeqMonotonic

\* The replies of a session that are not yet with its writer task.
Waiting(s) == IF writer[s] = "done" THEN <<>> ELSE resp_ch[s] \o resps[s]

LEMMA PathsTyped ==
    ASSUME NEW s \in Sessions, Channels(s)
    PROVE  /\ wire[s] \in Seq(Messages) /\ inflight[s] \in Seq(Messages)
           /\ bridge_ch[s] \in Seq(Messages) /\ Waiting(s) \in Seq(Messages)
           /\ resp_ch[s] \in Seq(Messages) /\ resps[s] \in Seq(Messages)
           /\ <<>> \in Seq(Messages)
           /\ wire[s] \o inflight[s] \in Seq(Messages)
           /\ Sent(s) \in Seq(Messages) /\ ReplyPath(s) \in Seq(Messages)
           /\ ReplyPath(s) = (wire[s] \o inflight[s]) \o Waiting(s)
  <1>1. /\ wire[s] \in Seq(Messages) /\ inflight[s] \in Seq(Messages)
        /\ bridge_ch[s] \in Seq(Messages)
        /\ resp_ch[s] \in Seq(Messages) /\ resps[s] \in Seq(Messages)
        /\ <<>> \in Seq(Messages)
    BY KindsOfMessages, EmptySeq DEF Channels
  <1>2. Waiting(s) \in Seq(Messages) /\ wire[s] \o inflight[s] \in Seq(Messages)
    BY <1>1, ConcatProperties DEF Waiting
  <1>3. (wire[s] \o inflight[s]) \o bridge_ch[s] \in Seq(Messages)
        /\ (wire[s] \o inflight[s]) \o Waiting(s) \in Seq(Messages)
    BY <1>1, <1>2, ConcatProperties
  <1> QED BY <1>1, <1>2, <1>3 DEF Sent, ReplyPath, Waiting

\* The steps of the tasks of s, as they change its own channels.
LEMMA SendOkMoves ==
    ASSUME NEW s \in Sessions, Domains, Channels(s), SS!SendOk(s)
    PROVE  /\ Channels(s)'
           /\ ReplyPath(s)' = ReplyPath(s)
           /\ Sent(s)' = Sent(s)
  <1>1. /\ wire'[s] = wire[s] \o inflight[s] /\ inflight'[s] = <<>>
        /\ resp_ch'[s] = resp_ch[s] /\ resps'[s] = resps[s] /\ bridge_ch'[s] = bridge_ch[s]
        /\ writer'[s] = writer[s] /\ issued'[s] = issued[s] /\ offered'[s] = offered[s]
    BY DEF SS!SendOk, Domains
  <1>2. Channels(s)'
    BY <1>1, PathsTyped DEF Channels
  <1>3. (wire[s] \o inflight[s]) \o <<>> = wire[s] \o inflight[s]
    BY PathsTyped, ConcatEmptySeq
  <1> QED BY <1>1, <1>2, <1>3 DEF ReplyPath, Sent

LEMMA SendFailsMoves ==
    ASSUME NEW s \in Sessions, Domains, Channels(s), SS!SendFails(s)
    PROVE  /\ Channels(s)'
           /\ Begins("resp", ReplyPath(s)', ReplyPath(s))
           /\ Begins("bridge", Sent(s)', Sent(s))
  <1> DEFINE w == wire[s]
             f == inflight[s]
  <1>1. /\ wire'[s] = w /\ inflight'[s] = <<>> /\ resp_ch'[s] = <<>> /\ resps'[s] = resps[s]
        /\ bridge_ch'[s] = <<>> /\ writer'[s] = "done"
        /\ issued'[s] = issued[s] /\ offered'[s] = offered[s]
    BY DEF SS!SendFails, Domains
  <1>2. Channels(s)'
    BY <1>1, EmptySeq DEF Channels
  <1>3. (w \o <<>>) \o <<>> = w
    BY PathsTyped, ConcatEmptySeq
  <1>4. Sent(s)' = w /\ ReplyPath(s)' = w
    BY <1>1, <1>3 DEF Sent, ReplyPath
  <1>5. ASSUME NEW x \in Seq(Messages), NEW via PROVE Begins(via, w, (w \o f) \o x)
    <2>1. w \in Seq(Messages) /\ f \in Seq(Messages)
      BY PathsTyped
    <2> HIDE DEF w, f
    <2>2. (w \o f) \o x = w \o (f \o x)
      BY <2>1, ConcatAssociative
    <2>3. f \o x \in Seq(Messages)
      BY <2>1, ConcatProperties
    <2> QED BY <2>1, <2>2, <2>3, BeginsPrefix
  <1> QED BY <1>2, <1>4, <1>5, PathsTyped DEF Sent

LEMMA RecvBridgeMoves ==
    ASSUME NEW s \in Sessions, Domains, Channels(s), SS!RecvBridge(s)
    PROVE  /\ Channels(s)'
           /\ Begins("resp", ReplyPath(s)', ReplyPath(s))
           /\ Sent(s)' = Sent(s)
  <1> DEFINE w == wire[s]
             b == bridge_ch[s]
             m == Head(b)
  <1>1. /\ inflight[s] = <<>> /\ b # <<>>
        /\ wire'[s] = w /\ inflight'[s] = <<m>> /\ resp_ch'[s] = resp_ch[s]
        /\ resps'[s] = resps[s] /\ bridge_ch'[s] = Tail(b) /\ writer'[s] = writer[s]
        /\ issued'[s] = issued[s] /\ offered'[s] = offered[s]
    BY DEF SS!RecvBridge, SS!Idle, Domains
  <1>2. m \in BridgeMessages /\ Tail(b) \in Seq(BridgeMessages)
    BY <1>1, HeadMoves DEF Channels
  <1>3. m \in Messages /\ m.via # "resp" /\ <<m>> \in Seq(Messages)
    BY <1>2, KindsOfMessages
  <1>4. Channels(s)'
    BY <1>1, <1>2, <1>3 DEF Channels
  <1>5. w \o <<>> = w /\ (w \o <<m>>) \o Tail(b) = w \o b
    <2>1. w \in Seq(Messages) /\ b \in Seq(Messages) /\ b # <<>>
      BY <1>1, PathsTyped
    <2> HIDE DEF w, b
    <2>2. (w \o <<Head(b)>>) \o Tail(b) = w \o b
      BY <2>1, HeadMoves
    <2> QED BY <2>1, <2>2, ConcatEmptySeq
  <1>6. Sent(s)' = Sent(s)
    BY <1>1, <1>5 DEF Sent
  <1>7. Begins("resp", (w \o <<m>>) \o Waiting(s), w \o Waiting(s))
    BY <1>3, PathsTyped, BeginsInsert
  <1>8. ReplyPath(s)' = (w \o <<m>>) \o Waiting(s) /\ ReplyPath(s) = w \o Waiting(s)
    BY <1>1, <1>5 DEF ReplyPath, Waiting
  <1> QED BY <1>4, <1>6, <1>7, <1>8

LEMMA RecvRespMoves ==
    ASSUME NEW s \in Sessions, Domains, Channels(s), SS!RecvResp(s)
    PROVE  /\ Channels(s)'
           /\ ReplyPath(s)' = ReplyPath(s)
           /\ Begins("bridge", Sent(s)', Sent(s))
  <1> DEFINE w == wire[s]
             c == resp_ch[s]
             m == Head(c)
  <1>1. /\ inflight[s] = <<>> /\ c # <<>> /\ writer[s] = "running"
        /\ wire'[s] = w /\ inflight'[s] = <<m>> /\ resp_ch'[s] = Tail(c)
        /\ resps'[s] = resps[s] /\ bridge_ch'[s] = bridge_ch[s] /\ writer'[s] = writer[s]
        /\ issued'[s] = issued[s] /\ offered'[s] = offered[s]
    BY DEF SS!RecvResp, SS!Idle, Domains
  <1>2. m \in ReplyMessages /\ Tail(c) \in Seq(ReplyMessages)
    BY <1>1, HeadMoves DEF Channels
  <1>3. m \in Messages /\ m.via # "bridge" /\ <<m>> \in Seq(Messages) /\ Tail(c) \in Seq(Messages)
    BY <1>2, KindsOfMessages
  <1>4. Channels(s)'
    BY <1>1, <1>2, <1>3 DEF Channels
  <1>5. w \o <<>> = w /\ (w \o <<m>>) \o Tail(c) = w \o c
    <2>1. w \in Seq(Messages) /\ c \in Seq(Messages) /\ c # <<>>
      BY <1>1, PathsTyped
    <2> HIDE DEF w, c
    <2>2. (w \o <<Head(c)>>) \o Tail(c) = w \o c
      BY <2>1, HeadMoves
    <2> QED BY <2>1, <2>2, ConcatEmptySeq
  <1>6. Begins("bridge", (w \o <<m>>) \o bridge_ch[s], w \o bridge_ch[s])
    BY <1>3, PathsTyped, BeginsInsert
  <1>7. Sent(s)' = (w \o <<m>>) \o bridge_ch[s] /\ Sent(s) = w \o bridge_ch[s]
    BY <1>1, <1>5 DEF Sent
  <1>8. (w \o <<m>>) \o (Tail(c) \o resps[s]) = w \o (c \o resps[s])
    <2> DEFINE r == resps[s]
    <2>1. w \in Seq(Messages) /\ c \in Seq(Messages) /\ r \in Seq(Messages) /\ c # <<>>
      BY <1>1, PathsTyped
    <2> HIDE DEF w, c, r
    <2>2. (w \o <<Head(c)>>) \o (Tail(c) \o r) = w \o (c \o r)
      BY <2>1, ReceivedNext
    <2> QED BY <2>2 DEF r
  <1>9. ReplyPath(s)' = ReplyPath(s)
    BY <1>1, <1>5, <1>8 DEF ReplyPath
  <1> QED BY <1>4, <1>6, <1>7, <1>9

LEMMA PushReplyMoves ==
    ASSUME NEW s \in Sessions, Domains, Channels(s), SS!PushReply(s)
    PROVE  /\ Channels(s)'
           /\ ReplyPath(s)' = ReplyPath(s)
           /\ Sent(s)' = Sent(s)
  <1> DEFINE c == resp_ch[s]
             r == resps[s]
  <1>1. /\ r # <<>> /\ resp_ch'[s] = Append(c, Head(r)) /\ resps'[s] = Tail(r)
        /\ wire'[s] = wire[s] /\ inflight'[s] = inflight[s] /\ bridge_ch'[s] = bridge_ch[s]
        /\ writer'[s] = writer[s] /\ issued'[s] = issued[s] /\ offered'[s] = offered[s]
    BY DEF SS!PushReply, Domains
  <1>2. c \in Seq(ReplyMessages) /\ r \in Seq(ReplyMessages)
    BY DEF Channels
  <1>3. /\ Append(c, Head(r)) \in Seq(ReplyMessages) /\ Tail(r) \in Seq(ReplyMessages)
        /\ Append(c, Head(r)) \o Tail(r) = c \o r
    <2>1. r # <<>>
      BY <1>1
    <2> HIDE DEF c, r
    <2> QED BY <1>2, <2>1, AppendMoves
  <1> QED BY <1>1, <1>3 DEF Channels, ReplyPath, Sent

LEMMA PushFailsMoves ==
    ASSUME NEW s \in Sessions, Domains, Channels(s), SS!PushFails(s)
    PROVE  /\ Channels(s)'
           /\ ReplyPath(s)' = ReplyPath(s)
           /\ Sent(s)' = Sent(s)
  <1>1. /\ writer[s] = "done" /\ resps'[s] = <<>> /\ resp_ch'[s] = resp_ch[s]
        /\ wire'[s] = wire[s] /\ inflight'[s] = inflight[s] /\ bridge_ch'[s] = bridge_ch[s]
        /\ writer'[s] = writer[s] /\ issued'[s] = issued[s] /\ offered'[s] = offered[s]
    BY DEF SS!PushFails, SS!chans, Domains
  <1> QED BY <1>1, EmptySeq DEF Channels, ReplyPath, Sent

\* A session whose channels are left alone.
LEMMA NothingMoves ==
    ASSUME NEW s \in Sessions, Channels(s),
           wire'[s] = wire[s], inflight'[s] = inflight[s], resp_ch'[s] = resp_ch[s],
           resps'[s] = resps[s], bridge_ch'[s] = bridge_ch[s], writer'[s] = writer[s],
           issued'[s] = issued[s], offered'[s] = offered[s]
    PROVE  Channels(s)' /\ ReplyPath(s)' = ReplyPath(s) /\ Sent(s)' = Sent(s)
  BY DEF Channels, ReplyPath, Sent

\* No step of a task reorders what its session gets or adds to it.
LEMMA MovingKeeps ==
    ASSUME Domains, \A u \in Sessions : Channels(u), NEW s \in Sessions, Moving(s)
    PROVE  /\ Domains'
           /\ \A u \in Sessions :
                 /\ Channels(u)'
                 /\ Begins("resp", ReplyPath(u)', ReplyPath(u))
                 /\ Begins("bridge", Sent(u)', Sent(u))
  <1>1. Domains'
    BY DEF Moving, Domains, SS!PushReply, SS!PushFails, SS!RecvBridge, SS!RecvResp,
           SS!SendOk, SS!SendFails, SS!chans
  <1>2. ASSUME NEW u \in Sessions
        PROVE  /\ Begins("resp", ReplyPath(u), ReplyPath(u))
               /\ Begins("bridge", Sent(u), Sent(u))
    BY PathsTyped, BeginsSame
  <1>3. ASSUME NEW u \in Sessions, u # s
        PROVE  Channels(u)' /\ ReplyPath(u)' = ReplyPath(u) /\ Sent(u)' = Sent(u)
    <2>1. /\ wire'[u] = wire[u] /\ inflight'[u] = inflight[u] /\ resp_ch'[u] = resp_ch[u]
          /\ resps'[u] = resps[u] /\ bridge_ch'[u] = bridge_ch[u] /\ writer'[u] = writer[u]
          /\ issued'[u] = issued[u] /\ offered'[u] = offered[u]
      BY <1>3 DEF Moving, Domains, SS!PushReply, SS!PushFails, SS!RecvBridge, SS!RecvResp,
                  SS!SendOk, SS!SendFails, SS!chans
    <2> QED BY <2>1, NothingMoves
  <1>4. /\ Channels(s)'
        /\ Begins("resp", ReplyPath(s)', ReplyPath(s))
        /\ Begins("bridge", Sent(s)', Sent(s))
    BY <1>2, SendOkMoves, SendFailsMoves, RecvBridgeMoves, RecvRespMoves, PushReplyMoves,
       PushFailsMoves DEF Moving
  <1> QED BY <1>1, <1>2, <1>3, <1>4

\* The readers are numbered, so there are finitely many.
LEMMA ReadersFinite == ASSUME RRP!Registry PROVE IsFiniteSet(DOMAIN readers)
  <1>1. next_reader_id \in Nat /\ DOMAIN readers \subseteq {id \in Nat : id < next_reader_id}
    BY DEF RRP!Registry, RRP!TypeOK
  <1>2. DOMAIN readers \subseteq 0 .. next_reader_id
    BY <1>1
  <1>3. IsFiniteSet(0 .. next_reader_id)
    BY <1>1, FS_Interval
  <1> QED BY <1>2, <1>3, FS_Subset

LEMMA ListsNat == ASSUME RRP!Registry, NEW t, NEW s PROVE Lists(t, s) \in Nat
  <1> DEFINE L == {id \in DOMAIN readers : readers[id].topic = t /\ s \in readers[id].subscribers}
  <1>1. IsFiniteSet(L)
    BY ReadersFinite, FS_Subset
  <1> QED BY <1>1, FS_CardinalityType DEF Lists

\* The notes among the messages a handler returns follow the Ok.
OkFirst(bodies) ==
    \A i \in DOMAIN bodies :
       bodies[i].type = "DataDisposed" =>
          /\ i > 1
          /\ bodies[1].type = "Ok"
          /\ bodies[1].rq.op \in {"dispose", "write_dispose"}
          /\ \A k \in 2 .. i : bodies[k].type = "DataDisposed"

Block(via, n, bodies) == [i \in DOMAIN bodies |-> SS!Message(via, n + i, bodies[i])]

LEMMA BlockSeq ==
    ASSUME NEW B, NEW bodies \in Seq(B), NEW n \in Nat, NEW via
    PROVE  /\ Block(via, n, bodies) \in Seq([via : {via}, seq : Nat, body : B])
           /\ DOMAIN Block(via, n, bodies) = DOMAIN bodies
           /\ DOMAIN bodies = 1 .. Len(bodies) /\ Len(bodies) \in Nat
           /\ \A i \in DOMAIN bodies :
                 Block(via, n, bodies)[i].via = via /\ Block(via, n, bodies)[i].body = bodies[i]
  <1> DEFINE q == Block(via, n, bodies)
             M == [via : {via}, seq : Nat, body : B]
             l == Len(bodies)
  <1>1. l \in Nat /\ DOMAIN bodies = 1 .. l /\ bodies \in [1 .. l -> B]
    BY LenProperties
  <1> HIDE DEF l
  <1>2. q = [i \in 1 .. l |-> [via |-> via, seq |-> n + i, body |-> bodies[i]]]
    BY <1>1 DEF Block, SS!Message
  <1>3. q \in [1 .. l -> M]
    BY <1>1, <1>2
  <1>4. q \in Seq(M)
    <2> HIDE DEF q, M
    <2> QED BY <1>1, <1>3, SeqDef
  <1>5. DOMAIN q = DOMAIN bodies /\ \A i \in DOMAIN bodies : q[i].via = via /\ q[i].body = bodies[i]
    BY <1>1, <1>2
  <1> QED BY <1>1, <1>4, <1>5 DEF l

LEMMA BlockNoted ==
    ASSUME NEW B, NEW bodies \in Seq(B), NEW n \in Nat, OkFirst(bodies)
    PROVE  Noted(Block("resp", n, bodies))
  <1> DEFINE q == Block("resp", n, bodies)
             Q == SS!At("resp", q)
  <1>1. /\ DOMAIN q = DOMAIN bodies /\ DOMAIN bodies = 1 .. Len(bodies) /\ Len(bodies) \in Nat
        /\ \A i \in DOMAIN bodies : q[i].via = "resp" /\ q[i].body = bodies[i]
    <2>1. DOMAIN bodies = 1 .. Len(bodies) /\ Len(bodies) \in Nat
      BY LenProperties
    <2>2. DOMAIN q = DOMAIN bodies /\ \A i \in DOMAIN bodies : q[i].via = "resp" /\ q[i].body = bodies[i]
      BY DEF Block, SS!Message
    <2> QED BY <2>1, <2>2
  <1> HIDE DEF q
  <1>2. Q = 1 .. Len(bodies) /\ \A i \in Q : q[i].body = bodies[i]
    BY <1>1 DEF SS!At
  <1> HIDE DEF Q
  <1>3. ASSUME NEW i \in Q, q[i].body.type = "DataDisposed"
        PROVE  /\ 1 \in Q /\ 1 < i
               /\ q[1].body.type = "Ok"
               /\ q[1].body.rq.op \in {"dispose", "write_dispose"}
               /\ \A k \in Q : 1 < k /\ k <= i => q[k].body.type = "DataDisposed"
    <2>1. i \in DOMAIN bodies /\ bodies[i].type = "DataDisposed" /\ i \in Nat
      BY <1>1, <1>2, <1>3
    <2>2. /\ i > 1 /\ bodies[1].type = "Ok"
          /\ bodies[1].rq.op \in {"dispose", "write_dispose"}
          /\ \A k \in 2 .. i : bodies[k].type = "DataDisposed"
      BY <2>1 DEF OkFirst
    <2>3. 1 \in Q
      BY <1>1, <1>2, <2>1, <2>2
    <2>4. ASSUME NEW k \in Q, 1 < k, k <= i PROVE k \in 2 .. i
      BY <1>1, <1>2, <2>1, <2>4
    <2> QED BY <1>2, <2>2, <2>3, <2>4
  <1> QED BY <1>3 DEF Noted, q, Q

LEMMA ReplyMoves ==
    ASSUME NEW s \in Sessions, Domains, Channels(s),
           NEW bodies \in Seq(Answers \cup Notices), SS!Reply(s, bodies),
           UNCHANGED <<resp_ch, inflight, writer, wire>>
    PROVE  /\ DOMAIN resps' = Sessions /\ DOMAIN issued' = Sessions
           /\ \A u \in Sessions \ {s} : resps'[u] = resps[u] /\ issued'[u] = issued[u]
           /\ resps'[s] \in Seq(ReplyMessages) /\ issued'[s] \in Nat
           /\ OkFirst(bodies) /\ Noted(ReplyPath(s)) => Noted(ReplyPath(s)')
  <1> DEFINE q == Block("resp", issued[s], bodies)
  <1>1. issued[s] \in Nat /\ Len(bodies) \in Nat
    BY LenProperties DEF Channels
  <1>2. /\ resps[s] = <<>> /\ resps' = [resps EXCEPT ![s] = q]
        /\ issued' = [issued EXCEPT ![s] = issued[s] + Len(bodies)]
    BY DEF SS!Reply, SS!Reading, Block
  <1>3. q \in Seq(ReplyMessages)
    BY <1>1, BlockSeq DEF ReplyMessages
  <1>4. OkFirst(bodies) => Noted(q)
    BY <1>1, BlockNoted
  <1> HIDE DEF q
  <1>5. resps'[s] = q /\ issued'[s] \in Nat
    BY <1>1, <1>2 DEF Domains
  <1>6. ASSUME OkFirst(bodies), Noted(ReplyPath(s)) PROVE Noted(ReplyPath(s)')
    <2>1. CASE writer[s] = "done"
      <3>1. ReplyPath(s)' = ReplyPath(s)
        BY <2>1 DEF ReplyPath
      <3> QED BY <1>6, <3>1
    <2>2. CASE writer[s] # "done"
      <3> DEFINE a == wire[s] \o inflight[s]
                 c == resp_ch[s]
      <3>1. a \in Seq(Messages) /\ c \in Seq(Messages) /\ q \in Seq(Messages)
            /\ c \o <<>> = c
        BY <1>3, PathsTyped, KindsOfMessages, ConcatEmptySeq
      <3>2. ReplyPath(s) = a \o c /\ ReplyPath(s)' = a \o (c \o q)
        BY <1>2, <1>5, <2>2, <3>1 DEF ReplyPath
      <3> HIDE DEF a, c
      <3>3. (a \o c) \o q = a \o (c \o q) /\ a \o c \in Seq(Messages)
        <4>1. (a \o c) \o q = a \o (c \o q)
          BY <3>1, Regroup, Zenon
        <4>2. a \o c \in Seq(Messages)
          BY <3>1, ConcatProperties
        <4> QED BY <4>1, <4>2
      <3>4. Noted((a \o c) \o q)
        BY <1>4, <1>6, <3>1, <3>2, <3>3, NotedJoined
      <3> QED BY <3>2, <3>3, <3>4
    <2> QED BY <2>1, <2>2
  <1> QED BY <1>2, <1>3, <1>5, <1>6 DEF Domains

\* try_send adds at most as many notifications as are offered.
LEMMA OfferMoves ==
    ASSUME Domains, \A u \in Sessions : Channels(u), NEW body \in Notices,
           NEW times, \A u \in Sessions : times[u] \in Nat, SS!try_send(times, body)
    PROVE  /\ DOMAIN bridge_ch' = Sessions /\ DOMAIN offered' = Sessions
           /\ \A u \in Sessions :
                 /\ offered'[u] \in Nat
                 /\ bridge_ch'[u] \in Seq(BridgeMessages)
                 /\ \E q \in Seq(BridgeMessages) :
                       /\ bridge_ch'[u] = bridge_ch[u] \o q
                       /\ Len(q) <= times[u]
                       /\ \A i \in DOMAIN q : q[i].body = body
  <1>1. /\ bridge_ch' = [u \in Sessions |->
              bridge_ch[u] \o [i \in 1 .. SS!Taken(u, times[u]) |->
                                 SS!Message("bridge", offered[u] + i, body)]]
        /\ offered' = [u \in Sessions |-> offered[u] + times[u]]
    BY DEF SS!try_send
  <1>2. ASSUME NEW u \in Sessions
        PROVE  /\ offered'[u] \in Nat
               /\ \E q \in Seq(BridgeMessages) :
                       /\ bridge_ch'[u] = bridge_ch[u] \o q
                       /\ Len(q) <= times[u]
                       /\ \A i \in DOMAIN q : q[i].body = body
    <2> DEFINE n == SS!Taken(u, times[u])
               b == offered[u]
               q == [i \in 1 .. n |-> SS!Message("bridge", b + i, body)]
    <2>1. times[u] \in Nat /\ b \in Nat /\ Len(bridge_ch[u]) \in Nat
      BY LenProperties DEF Channels
    <2>2. n \in Int /\ n <= times[u]
      BY <2>1, BridgeConstants DEF SS!Taken
    <2>3. bridge_ch'[u] = bridge_ch[u] \o q
      BY <1>1, Zenon
    <2>9. offered'[u] \in Nat
      BY <1>1, <2>1
    <2> HIDE DEF n, b
    <2>4. PICK m \in Nat : 1 .. n = 1 .. m /\ m <= times[u]
      <3>1. CASE n \in Nat
        BY <2>2, <3>1
      <3>2. CASE n \notin Nat
        <4>1. 1 .. n = 1 .. 0 /\ 0 <= times[u]
          BY <2>1, <2>2, <3>2
        <4> QED BY <4>1
      <3> QED BY <3>1, <3>2
    <2>5. q = [i \in 1 .. m |-> [via |-> "bridge", seq |-> b + i, body |-> body]]
      BY <2>4 DEF SS!Message
    <2> HIDE DEF q
    <2>6. q \in [1 .. m -> BridgeMessages] /\ \A i \in 1 .. m : q[i].body = body
      BY <2>1, <2>5 DEF BridgeMessages
    <2>7. q \in Seq(BridgeMessages) /\ DOMAIN q = 1 .. m
      BY <2>4, <2>6, SeqDef
    <2>8. Len(q) = m
      BY <2>4, <2>7, LenProperties
    <2> QED BY <2>3, <2>4, <2>6, <2>7, <2>8, <2>9
  <1>3. ASSUME NEW u \in Sessions PROVE bridge_ch'[u] \in Seq(BridgeMessages)
    <2>1. PICK q \in Seq(BridgeMessages) : bridge_ch'[u] = bridge_ch[u] \o q
      BY <1>2
    <2> QED BY <2>1, ConcatProperties DEF Channels
  <1> QED BY <1>1, <1>2, <1>3

\* What a session gets through its bridge channel, with q behind it.
Extended(u, q) == Sent(u)' = Sent(u) \o q

LEMMA ChannelGrows ==
    ASSUME NEW u \in Sessions, Channels(u), NEW q \in Seq(BridgeMessages),
           wire'[u] = wire[u], inflight'[u] = inflight[u],
           bridge_ch'[u] = bridge_ch[u] \o q
    PROVE  Extended(u, q)
  <1> DEFINE a == wire[u] \o inflight[u]
             b == bridge_ch[u]
  <1>1. a \in Seq(Messages) /\ b \in Seq(Messages) /\ q \in Seq(Messages)
    BY PathsTyped, KindsOfMessages
  <1>2. Sent(u) = a \o b /\ Sent(u)' = a \o (b \o q)
    BY DEF Sent
  <1> HIDE DEF a, b
  <1>3. (a \o b) \o q = a \o (b \o q)
    BY <1>1, ConcatAssociative
  <1> QED BY <1>2, <1>3 DEF Extended

LEMMA AnsweringKeeps ==
    ASSUME Domains, \A u \in Sessions : Channels(u), NEW s \in Sessions, Answering(s)
    PROVE  /\ Domains'
           /\ \A u \in Sessions :
                 /\ Channels(u)'
                 /\ Noted(ReplyPath(u)) => Noted(ReplyPath(u)')
                 /\ Sent(u)' = Sent(u)
  <1>1. PICK type \in AnswerTypes, rq \in ClientOps[s] : answer(s, type, rq)
    BY DEF Answering
  <1> DEFINE bodies == <<Answer(type, rq)>>
  <1>2. Answer(type, rq) \in Answers
    BY DEF Answer, Answers
  <1>3. bodies \in Seq(Answers \cup Notices) /\ DOMAIN bodies = {1} /\ bodies[1].type = type
    BY <1>2 DEF Answer
  <1>4. OkFirst(bodies)
    BY <1>3 DEF OkFirst, AnswerTypes
  <1>5. /\ SS!Reply(s, bodies) /\ UNCHANGED <<resp_ch, inflight, writer, wire>>
        /\ UNCHANGED <<bridge_ch, offered>>
    BY <1>1 DEF answer, Quiet
  <1> HIDE DEF bodies
  <1>6. /\ DOMAIN resps' = Sessions /\ DOMAIN issued' = Sessions
        /\ \A u \in Sessions \ {s} : resps'[u] = resps[u] /\ issued'[u] = issued[u]
        /\ resps'[s] \in Seq(ReplyMessages) /\ issued'[s] \in Nat
        /\ Noted(ReplyPath(s)) => Noted(ReplyPath(s)')
    BY <1>3, <1>4, <1>5, ReplyMoves
  <1>7. Domains'
    BY <1>5, <1>6 DEF Domains
  <1>8. ASSUME NEW u \in Sessions, u # s
        PROVE  Channels(u)' /\ ReplyPath(u)' = ReplyPath(u)
    BY <1>5, <1>6, <1>8, NothingMoves
  <1>9. Channels(s)'
    BY <1>5, <1>6 DEF Channels
  <1>10. \A u \in Sessions : Sent(u)' = Sent(u)
    BY <1>5 DEF Sent
  <1> QED BY <1>6, <1>7, <1>8, <1>9, <1>10

\* An Ok and the notes behind it.
LEMMA DisposeReply ==
    ASSUME NEW s \in Sessions, NEW rq \in ClientOps[s], rq.op \in {"dispose", "write_dispose"},
           NEW note \in Notices, NEW n \in Nat
    PROVE  LET bodies == <<Answer("Ok", rq)>> \o [i \in 1 .. n |-> note]
           IN  bodies \in Seq(Answers \cup Notices) /\ OkFirst(bodies)
  <1> DEFINE B == Answers \cup Notices
             a == <<Answer("Ok", rq)>>
             r == [i \in 1 .. n |-> note]
             q == a \o r
  <1>1. Answer("Ok", rq) \in B
    BY DEF Answer, Answers, AnswerTypes
  <1>2. a \in Seq(B) /\ Len(a) = 1 /\ a[1] = Answer("Ok", rq)
    BY <1>1
  <1>3. r \in Seq(B)
    <2>1. r \in [1 .. n -> B]
      OBVIOUS
    <2> HIDE DEF r, B
    <2> QED BY <2>1, SeqDef
  <1> HIDE DEF a, r, B
  <1>4. q \in Seq(B) /\ DOMAIN q = 1 .. (1 + Len(r)) /\ Len(r) \in Nat /\ q[1] = a[1]
    <2>1. a \in Seq(B) /\ r \in Seq(B)
      BY <1>2, <1>3
    <2>2. q \in Seq(B) /\ Len(r) \in Nat /\ DOMAIN q = 1 .. (Len(a) + Len(r))
      BY <2>1, ConcatParts
    <2>3. \A i \in 1 .. Len(a) : q[i] = a[i]
      BY <2>1, ConcatParts
    <2> HIDE DEF q
    <2> QED BY <1>2, <2>2, <2>3
  <1>6. \A i \in 1 .. Len(r) : q[Len(a) + i] = r[i]
    <2>1. a \in Seq(B) /\ r \in Seq(B)
      BY <1>2, <1>3
    <2> QED BY <2>1, JoinedEnd
  <1> HIDE DEF q
  <1>5. OkFirst(q)
    <2>1. q[1].type = "Ok" /\ q[1].rq.op \in {"dispose", "write_dispose"}
      BY <1>2, <1>4 DEF Answer
    <2>2. ASSUME NEW k \in DOMAIN q, k > 1, Len(r) \in Nat PROVE q[k] = note
      <3>1. PICK j \in 1 .. Len(r) : Len(a) + j = k
        <4>1. k - 1 \in 1 .. Len(r) /\ Len(a) + (k - 1) = k
          BY <1>2, <1>4, <2>2
        <4> QED BY <4>1
      <3>2. q[Len(a) + j] = r[j]
        BY <1>6
      <3>3. r[j] = note
        <4>1. DOMAIN r = 1 .. n /\ \A i \in 1 .. n : r[i] = note
          BY DEF r
        <4>2. DOMAIN r = 1 .. Len(r)
          BY <1>3, LenProperties
        <4> QED BY <4>1, <4>2
      <3> QED BY <3>1, <3>2, <3>3
    <2>3. ASSUME NEW i \in DOMAIN q, q[i].type = "DataDisposed"
          PROVE  i > 1 /\ \A k \in 2 .. i : q[k].type = "DataDisposed"
      <3>1. i \in Nat /\ i > 1
        BY <1>4, <2>1, <2>3
      <3>2. \A k \in 2 .. i : k \in DOMAIN q /\ k > 1
        BY <1>4, <2>3, <3>1
      <3> QED BY <1>4, <2>2, <2>3, <3>1, <3>2
    <2> QED BY <2>1, <2>3 DEF OkFirst
  <1> QED BY <1>4, <1>5 DEF q, a, r, B

LEMMA DisposingKeeps ==
    ASSUME RRP!Registry, Domains, \A u \in Sessions : Channels(u), NEW s \in Sessions, Disposing(s)
    PROVE  /\ Domains'
           /\ \A u \in Sessions :
                 /\ Channels(u)'
                 /\ Noted(ReplyPath(u)) => Noted(ReplyPath(u)')
                 /\ \E q \in Seq(BridgeMessages) :
                       Extended(u, q) /\ \A i \in DOMAIN q : q[i].body.from.sample = 0
  <1>1. PICK rq \in ClientOps[s], t \in Topics :
           /\ rq.op \in {"dispose", "write_dispose"}
           /\ resp_with_dispose_notification(s, rq, t)
    BY DEF Disposing
  <1> DEFINE note == Notice("DataDisposed", t, Nowhere)
             bodies == <<Answer("Ok", rq)>> \o [i \in 1 .. Lists(t, s) |-> note]
             times == [u \in Sessions |-> IF u # s /\ u \in session_senders THEN Lists(t, u) ELSE 0]
  <1>2. /\ SS!Reply(s, bodies) /\ SS!try_send(times, note)
        /\ UNCHANGED <<resp_ch, inflight, writer, wire>>
    BY <1>1 DEF resp_with_dispose_notification, Quiet
  <1>3. note \in Notices /\ note.from.sample = 0
    BY DEF Notice, Notices, Nowhere, Origins
  <1>4. \A u \in Sessions : times[u] \in Nat
    BY ListsNat
  <1>5. bodies \in Seq(Answers \cup Notices) /\ OkFirst(bodies)
    <2> HIDE DEF note
    <2> QED BY <1>1, <1>3, ListsNat, DisposeReply
  <1> HIDE DEF bodies, times, note
  <1>6. /\ DOMAIN resps' = Sessions /\ DOMAIN issued' = Sessions
        /\ \A u \in Sessions \ {s} : resps'[u] = resps[u] /\ issued'[u] = issued[u]
        /\ resps'[s] \in Seq(ReplyMessages) /\ issued'[s] \in Nat
        /\ Noted(ReplyPath(s)) => Noted(ReplyPath(s)')
    BY <1>2, <1>5, ReplyMoves
  <1>7. /\ DOMAIN bridge_ch' = Sessions /\ DOMAIN offered' = Sessions
        /\ \A u \in Sessions :
              /\ offered'[u] \in Nat
              /\ bridge_ch'[u] \in Seq(BridgeMessages)
              /\ \E q \in Seq(BridgeMessages) :
                       /\ bridge_ch'[u] = bridge_ch[u] \o q
                       /\ Len(q) <= times[u]
                       /\ \A i \in DOMAIN q : q[i].body = note
    BY <1>2, <1>3, <1>4, OfferMoves
  <1>8. Domains'
    BY <1>2, <1>6, <1>7 DEF Domains
  <1>9. ASSUME NEW u \in Sessions PROVE Channels(u)'
    <2>1. resps'[u] \in Seq(ReplyMessages) /\ issued'[u] \in Nat
      BY <1>6 DEF Channels
    <2> QED BY <1>2, <1>7, <2>1 DEF Channels
  <1>10. ASSUME NEW u \in Sessions, u # s PROVE ReplyPath(u)' = ReplyPath(u)
    BY <1>2, <1>6, <1>10 DEF ReplyPath
  <1>11. ASSUME NEW u \in Sessions
         PROVE  \E q \in Seq(BridgeMessages) :
                   Extended(u, q) /\ \A i \in DOMAIN q : q[i].body.from.sample = 0
    <2>1. PICK q \in Seq(BridgeMessages) :
             bridge_ch'[u] = bridge_ch[u] \o q /\ \A i \in DOMAIN q : q[i].body = note
      BY <1>7
    <2>2. Extended(u, q)
      BY <1>2, <2>1, ChannelGrows
    <2> QED BY <1>3, <2>1, <2>2
  <1> QED BY <1>6, <1>8, <1>9, <1>10, <1>11

\* The poll loop offers the head of its list to one of those it is for.
LEMMA FanOutKeeps ==
    ASSUME Domains, \A u \in Sessions : Channels(u), pending \in Seq(Entries),
           NEW s \in Sessions, FanOut(s)
    PROVE  /\ Domains'
           /\ pending # <<>> /\ s \in Head(pending).to
           /\ \A u \in Sessions :
                 /\ Channels(u)'
                 /\ ReplyPath(u)' = ReplyPath(u)
                 /\ u # s => Sent(u)' = Sent(u)
           /\ \/ Sent(s)' = Sent(s)
              \/ \E m \in BridgeMessages : m.body = Head(pending).body /\ Extended(s, <<m>>)
  <1> DEFINE body == Head(pending).body
             times == SS!OnceTo(s)
  <1>1. /\ pending # <<>> /\ s \in Head(pending).to /\ SS!try_send(times, body)
        /\ UNCHANGED <<resps, resp_ch, inflight, writer, wire, issued>>
    BY DEF FanOut
  <1>2. body \in Notices
    <2>1. Head(pending) \in Entries
      BY <1>1, HeadTailProperties
    <2> QED BY <2>1 DEF Entries
  <1>3. \A u \in Sessions : times[u] \in Nat /\ times[u] <= 1 /\ (u # s => times[u] = 0)
    BY DEF SS!OnceTo
  <1> HIDE DEF times, body
  <1>4. /\ DOMAIN bridge_ch' = Sessions /\ DOMAIN offered' = Sessions
        /\ \A u \in Sessions :
              /\ offered'[u] \in Nat
              /\ bridge_ch'[u] \in Seq(BridgeMessages)
              /\ \E q \in Seq(BridgeMessages) :
                       /\ bridge_ch'[u] = bridge_ch[u] \o q
                       /\ Len(q) <= times[u]
                       /\ \A i \in DOMAIN q : q[i].body = body
    BY <1>1, <1>2, <1>3, OfferMoves
  <1>5. Domains'
    BY <1>1, <1>4 DEF Domains
  <1>6. ASSUME NEW u \in Sessions PROVE Channels(u)' /\ ReplyPath(u)' = ReplyPath(u)
    BY <1>1, <1>4 DEF Channels, ReplyPath
  <1>7. ASSUME NEW u \in Sessions, NEW q \in Seq(BridgeMessages), q = <<>>,
               bridge_ch'[u] = bridge_ch[u] \o q
        PROVE  Sent(u)' = Sent(u)
    <2>1. Sent(u)' = Sent(u) \o <<>>
      BY <1>1, <1>7, ChannelGrows DEF Extended
    <2> QED BY <2>1, PathsTyped, ConcatEmptySeq
  <1>8. ASSUME NEW u \in Sessions, u # s PROVE Sent(u)' = Sent(u)
    <2>1. PICK q \in Seq(BridgeMessages) : bridge_ch'[u] = bridge_ch[u] \o q /\ Len(q) <= times[u]
      BY <1>4
    <2>2. q = <<>>
      BY <1>3, <1>8, <2>1, EmptySeq
    <2> QED BY <1>7, <2>1, <2>2
  <1>9. \/ Sent(s)' = Sent(s)
        \/ \E m \in BridgeMessages : m.body = body /\ Extended(s, <<m>>)
    <2>1. PICK q \in Seq(BridgeMessages) :
             bridge_ch'[s] = bridge_ch[s] \o q /\ Len(q) <= times[s]
             /\ \A i \in DOMAIN q : q[i].body = body
      BY <1>4
    <2>2. CASE q = <<>>
      BY <1>7, <2>1, <2>2
    <2>3. CASE q # <<>>
      <3>1. Len(q) = 1 /\ DOMAIN q = 1 .. 1
        <4> DEFINE k == Len(q)
                   n == times[s]
        <4>1. k \in Nat /\ k # 0
          BY <2>3, EmptySeq
        <4>4. n \in Nat /\ n <= 1 /\ k <= n
          BY <1>3, <2>1
        <4> HIDE DEF k, n
        <4>2. k = 1
          BY <4>1, <4>4
        <4>3. DOMAIN q = 1 .. Len(q)
          BY <2>1, LenProperties
        <4> QED BY <4>2, <4>3 DEF k
      <3>2. q[1] \in BridgeMessages /\ q[1].body = body
        <4>1. 1 \in 1 .. Len(q) /\ 1 \in DOMAIN q
          BY <3>1
        <4> QED BY <2>1, <4>1, ElementOfSeq
      <3>4. q = <<q[1]>>
        <4> DEFINE x == q[1]
        <4>1. x \in BridgeMessages /\ x = q[1]
          BY <3>2
        <4> HIDE DEF x
        <4>2. <<x>> \in Seq(BridgeMessages) /\ Len(<<x>>) = 1 /\ <<x>>[1] = x
          BY <4>1
        <4>3. \A i \in 1 .. Len(q) : q[i] = <<x>>[i]
          BY <3>1, <4>1, <4>2
        <4>4. q = <<x>>
          BY <3>1, <4>2, <4>3, SeqEqual
        <4> QED BY <4>4 DEF x
      <3>3. Extended(s, q)
        BY <1>1, <2>1, ChannelGrows
      <3> QED BY <3>2, <3>3, <3>4
    <2> QED BY <2>2, <2>3
  <1> QED BY <1>1, <1>5, <1>6, <1>8, <1>9 DEF body

\* The end of a sequence, from behind its first o elements.
LEMMA EndOfSeq ==
    ASSUME NEW S, NEW q \in Seq(S), NEW o \in Nat
    PROVE  LET p == SubSeq(q, o + 1, Len(q))
           IN  /\ p \in Seq(S) /\ DOMAIN p \subseteq Nat
               /\ \A i \in DOMAIN p : o + i \in DOMAIN q /\ p[i] = q[o + i]
  <1> DEFINE l == Len(q)
             p == SubSeq(q, o + 1, l)
  <1>1. l \in Nat /\ DOMAIN q = 1 .. l /\ \A i \in 1 .. l : q[i] \in S
    BY LenProperties
  <1> HIDE DEF l
  <1>2. \A i \in (o + 1) .. l : q[i] \in S
    BY <1>1
  <1>3. o + 1 \in Int /\ l \in Int
    BY <1>1
  <1>4. /\ p \in Seq(S)
        /\ Len(p) = IF o + 1 <= l THEN l - (o + 1) + 1 ELSE 0
        /\ \A i \in 1 .. l - (o + 1) + 1 : p[i] = q[o + 1 + i - 1]
    BY <1>2, <1>3, SubSeqProperties
  <1> HIDE DEF p
  <1>5. DOMAIN p = 1 .. Len(p)
    BY <1>4, LenProperties
  <1>6. ASSUME NEW i \in DOMAIN p PROVE i \in Nat /\ o + i \in DOMAIN q /\ p[i] = q[o + i]
    <2>1. i \in 1 .. l - (o + 1) + 1 /\ o + 1 + i - 1 = o + i /\ o + i \in 1 .. l
      BY <1>1, <1>4, <1>5
    <2> QED BY <1>1, <1>4, <2>1
  <1> QED BY <1>4, <1>6 DEF p, l

LEMMA LastOfSeq ==
    ASSUME NEW S, NEW q \in Seq(S), NEW depth \in Nat
    PROVE  /\ LastOf(q, depth) \in Seq(S) /\ DOMAIN LastOf(q, depth) \subseteq Nat
           /\ \E o \in Nat : \A i \in DOMAIN LastOf(q, depth) :
                 o + i \in DOMAIN q /\ LastOf(q, depth)[i] = q[o + i]
  <1> DEFINE l == Len(q)
  <1>1. l \in Nat /\ DOMAIN q = 1 .. l
    BY LenProperties
  <1>2. LastOf(q, depth) = IF l <= depth THEN q ELSE SubSeq(q, l - depth + 1, l)
    BY DEF LastOf
  <1>3. \A o \in Nat : LET p == SubSeq(q, o + 1, l)
                       IN  /\ p \in Seq(S) /\ DOMAIN p \subseteq Nat
                           /\ \A i \in DOMAIN p : o + i \in DOMAIN q /\ p[i] = q[o + i]
    BY EndOfSeq
  <1> HIDE DEF l
  <1>4. CASE l <= depth
    <2>1. LastOf(q, depth) = q
      BY <1>2, <1>4
    <2>2. DOMAIN q \subseteq Nat /\ \A i \in DOMAIN q : 0 + i = i
      BY <1>1
    <2>3. \A i \in DOMAIN q : 0 + i \in DOMAIN q /\ q[i] = q[0 + i]
      BY <2>2
    <2> QED BY <2>1, <2>2, <2>3
  <1>5. CASE ~(l <= depth)
    <2>1. PICK o \in Nat : o + 1 = l - depth + 1
      <3>1. l - depth \in Nat
        BY <1>1, <1>5
      <3> QED BY <3>1
    <2>2. LastOf(q, depth) = SubSeq(q, o + 1, l)
      BY <1>2, <1>5, <2>1
    <2> QED BY <1>3, <2>2
  <1> QED BY <1>4, <1>5

LEMMA NotTakenSeq ==
    ASSUME NEW S, NEW id, NEW q \in Seq(S), q = dds[id].samples, NEW n \in Nat,
           NEW p, p = NotTaken(id, n)
    PROVE  /\ p \in Seq(S) /\ DOMAIN p \subseteq Nat
           /\ \A i \in DOMAIN p : n + i \in DOMAIN q /\ p[i] = q[n + i]
  <1>1. p = SubSeq(q, n + 1, Len(q))
    BY DEF NotTaken
  <1> QED BY <1>1, EndOfSeq

-----------------------------------------------------------------------------
(* The steps, seen from the caches and the fan-out list.                   *)

\* What the cache of a reader made by this step starts with.
Starts(new) ==
    \/ new = EmptyCache
    \/ \E s \in Sessions, t \in Topics, q \in QosSets :
          /\ <<s, t, q>> \in SubscribeRequests /\ RR!subscribe(s, t, q)
          /\ Durable(q) /\ new = history[t]

Follows == \E new : Starts(new) /\ CachesFollowReaders(new)

LEMMA SubscribeFollows ==
    ASSUME NEW s \in Sessions, NEW rq \in ClientOps[s], rq.op = "subscribe",
           RR!subscribe(s, rq.topic, rq.qos),
           NEW new \in StartsWith(rq.topic, rq.qos), CachesFollowReaders(new)
    PROVE  Follows
  <1>1. <<s, rq.topic, rq.qos>> \in SubscribeRequests
    BY RequestListed
  <1>2. rq.topic \in Topics /\ rq.qos \in QosSets
    BY BridgeConstants DEF WellFormedRequest
  <1>3. new = EmptyCache \/ (Durable(rq.qos) /\ new = history[rq.topic])
    BY DEF StartsWith
  <1> QED BY <1>1, <1>2, <1>3 DEF Follows, Starts

LEMMA WorldForms ==
    ASSUME [Next]_vars
    PROVE  \/ UNCHANGED <<readers, dds, history, samples_made, pending>>
           \/ Follows /\ UNCHANGED <<samples_made, pending>>
           \/ /\ \E t : \E v \in BOOLEAN, state \in InstanceStates : Arrives(t, v, state)
              /\ UNCHANGED <<rr, pending>>
           \/ PollTake
           \/ \E s \in Sessions : FanOut(s)
  <1> DEFINE Arrived == /\ \E t : \E v \in BOOLEAN, state \in InstanceStates : Arrives(t, v, state)
                        /\ UNCHANGED <<rr, pending>>
             Same == UNCHANGED <<readers, dds, history, samples_made, pending>>
             Followed == Follows /\ UNCHANGED <<samples_made, pending>>
  <1>1. ASSUME NEW s \in Sessions, NEW rq \in ClientOps[s], handle_message(s, rq)
        PROVE  Same \/ Followed \/ Arrived
    <2>1. CASE rq.op = "subscribe" /\ handle_subscribe(s, rq)
      <3>1. CASE UNCHANGED <<rr, wr, dds, history, samples_made, pending>>
        BY <3>1 DEF rr
      <3>2. CASE /\ RR!subscribe(s, rq.topic, rq.qos)
                 /\ \E new \in StartsWith(rq.topic, rq.qos) : CachesFollowReaders(new)
                 /\ UNCHANGED <<wr, samples_made, pending>>
        BY <2>1, <3>2, SubscribeFollows
      <3> HIDE DEF Same, Followed
      <3> QED BY <2>1, <3>1, <3>2 DEF handle_subscribe
    <2>4. CASE handle_unsubscribe(s, rq)
      BY <2>4 DEF handle_unsubscribe, Follows, Starts, rr, world
    <2>2. CASE handle_create_writer(s, rq) \/ handle_delete_writer(s, rq) \/ handle_other(s, rq)
      BY <2>2 DEF handle_create_writer, handle_delete_writer, handle_other, rr, world
    <2>3. CASE handle_write(s, rq)
      <3>1. ASSUME execute_write_op(rq.op, WriterTopic(rq)), UNCHANGED <<rr, pending>>
            PROVE  Same \/ Arrived
        <4>1. TRUE \in BOOLEAN /\ FALSE \in BOOLEAN
              /\ "Alive" \in InstanceStates /\ "Disposed" \in InstanceStates
          BY DEF InstanceStates
        <4>2. UNCHANGED readers
          BY <3>1 DEF rr
        <4>3. CASE UNCHANGED <<dds, history, samples_made>>
          BY <3>1, <4>2, <4>3
        <4>4. CASE \E v \in BOOLEAN, state \in InstanceStates : Arrives(WriterTopic(rq), v, state)
          BY <3>1, <4>4
        <4>5. UNCHANGED <<dds, history, samples_made>>
              \/ \E v \in BOOLEAN, state \in InstanceStates : Arrives(WriterTopic(rq), v, state)
          BY <3>1, <4>1 DEF execute_write_op
        <4> QED BY <4>3, <4>4, <4>5
      <3>2. CASE UNCHANGED <<rr, dds, history, samples_made, pending>>
        BY <3>2 DEF rr
      <3>3. CASE UNCHANGED <<rr, wr, world>>
        BY <3>3 DEF rr, world
      <3> HIDE DEF Same, Arrived
      <3> QED BY <2>3, <3>1, <3>2, <3>3 DEF handle_write
    <2> QED BY <1>1, <2>1, <2>2, <2>3, <2>4 DEF handle_message
  <1>2. ASSUME NEW s \in Sessions, SessionStep(s) PROVE Same
    BY <1>2 DEF SessionStep, rr, world
  <1>3. ASSUME NEW s \in Sessions, unregister_session(s) PROVE Followed
    BY <1>3 DEF unregister_session, Follows, Starts
  <1>4. ASSUME RemoteWrite PROVE Arrived
    <2>1. PICK r \in RemoteSamples : Arrives(r[1], r[2], r[3])
      BY <1>4 DEF RemoteWrite
    <2>2. r[2] \in BOOLEAN /\ r[3] \in InstanceStates
      BY BridgeConstants
    <2>3. UNCHANGED <<rr, pending>>
      BY <1>4 DEF RemoteWrite
    <2> QED BY <2>1, <2>2, <2>3
  <1>5. ASSUME UNCHANGED vars PROVE Same
    BY <1>5 DEF vars, rr, world
  <1> QED BY <1>1, <1>2, <1>3, <1>4, <1>5 DEF Next, reader_poll_loop

\* What a sample is when it is in a cache.
Samples(made) == [n : 1 .. made, valid : BOOLEAN]

LEMMA WithTyped ==
    ASSUME samples_made \in Nat, NEW c \in Caches(samples_made),
           NEW v \in BOOLEAN, NEW state \in InstanceStates
    PROVE  c \in Caches(samples_made + 1) /\ With(c, v, state) \in Caches(samples_made + 1)
  <1> DEFINE n == samples_made
             q == c.samples
             x == [n |-> n + 1, valid |-> v]
  <1>1. x \in Samples(n + 1) /\ Samples(n) \subseteq Samples(n + 1)
    BY DEF Samples
  <1>2. q \in Seq(Samples(n)) /\ c = [samples |-> q, state |-> c.state]
        /\ c.state \in InstanceStates
    BY DEF Caches, Samples
  <1>3. q \in Seq(Samples(n + 1))
    BY <1>1, <1>2, SeqMonotonic
  <1>4. Append(q, x) \in Seq(Samples(n + 1))
    BY <1>1, <1>3, AppendProperties
  <1>5. LastOf(Append(q, x), CacheDepth) \in Seq(Samples(n + 1))
    BY <1>4, BridgeConstants, LastOfSeq
  <1>6. With(c, v, state) = [samples |-> LastOf(Append(q, x), CacheDepth), state |-> state]
    BY DEF With
  <1> QED BY <1>2, <1>3, <1>5, <1>6 DEF Caches, Samples

LEMMA ArrivalTyped ==
    ASSUME WorldTyped, NEW t, NEW v \in BOOLEAN, NEW state \in InstanceStates,
           Arrives(t, v, state), UNCHANGED <<rr, pending>>
    PROVE  WorldTyped'
  <1> DEFINE n == samples_made
  <1>1. n \in Nat /\ samples_made' = n + 1 /\ readers' = readers /\ pending' = pending
        /\ DOMAIN dds = DOMAIN readers
    BY DEF Arrives, rr, WorldTyped
  <1>2. \A c \in Caches(n) : c \in Caches(n + 1) /\ With(c, v, state) \in Caches(n + 1)
    BY <1>1, WithTyped
  <1>3. \A id \in DOMAIN dds : dds'[id] \in Caches(n + 1)
    BY <1>2 DEF Arrives, WorldTyped
  <1>4. dds' = [id \in DOMAIN dds |-> dds'[id]]
    BY DEF Arrives
  <1>5. history' \in [Topics -> Caches(n + 1)]
    BY <1>2 DEF Arrives, WorldTyped
  <1> QED BY <1>1, <1>3, <1>4, <1>5 DEF WorldTyped

LEMMA StartsTyped ==
    ASSUME WorldTyped, NEW new, Starts(new) PROVE new \in Caches(samples_made)
  <1>1. EmptyCache \in Caches(samples_made)
    BY DEF EmptyCache, Caches, InstanceStates
  <1> QED BY <1>1 DEF Starts, WorldTyped

LEMMA FollowedTyped ==
    ASSUME WorldTyped, Follows, UNCHANGED <<samples_made, pending>>
    PROVE  WorldTyped'
  <1>1. PICK new : Starts(new) /\ CachesFollowReaders(new)
    BY DEF Follows
  <1>2. new \in Caches(samples_made)
    BY <1>1, StartsTyped
  <1>3. \A id \in DOMAIN readers' : dds'[id] \in Caches(samples_made)
    BY <1>1, <1>2 DEF CachesFollowReaders, WorldTyped
  <1> QED BY <1>1, <1>3 DEF CachesFollowReaders, WorldTyped

\* What the poll loop has to send is finite, so it can be put in order.
LEMMA TakenFinite ==
    ASSUME RRP!Registry, NEW n PROVE IsFiniteSet(Taken(n))
  <1> DEFINE P == (DOMAIN readers) \X (1 .. MaxTake)
  <1>1. IsFiniteSet(1 .. MaxTake)
    BY BridgeConstants, FS_Interval
  <1>2. IsFiniteSet(P)
    BY <1>1, ReadersFinite, FS_Product
  <1> HIDE DEF P
  <1>3. Taken(n) \subseteq P
    BY DEF Taken, P
  <1> QED BY <1>2, <1>3, FS_Subset

\* A poll, by what it takes.
LEMMA PollTakes ==
    ASSUME RRP!Registry, WorldTyped, PollTake
    PROVE  /\ pending = <<>> /\ DOMAIN dds' = DOMAIN dds
           /\ UNCHANGED <<rr, history, samples_made>>
           /\ \E n, q, l :
                 /\ l \in Nat /\ DOMAIN q = 1 .. l /\ \A i \in 1 .. l : q[i] \in Taken(n)
                 /\ \A id \in DOMAIN readers : n[id] \in Nat
                 /\ ReaderByReader(q)
                 /\ pending' = [i \in 1 .. l |->
                                  [body |-> sample_to_message(q[i][1], q[i][2]),
                                   to |-> Receivers(q[i][1])]]
                 /\ dds' = [id \in DOMAIN dds |-> [dds[id] EXCEPT !.samples = NotTaken(id, n[id])]]
  <1>0. PICK n \in [DOMAIN readers -> IF DdsMayFail THEN 0 .. MaxTake ELSE {MaxTake}] :
           /\ \E q \in SetToSeqs(Taken(n)) :
                 /\ ReaderByReader(q)
                 /\ pending' = [i \in DOMAIN q |->
                                  [body |-> sample_to_message(q[i][1], q[i][2]),
                                   to |-> Receivers(q[i][1])]]
           /\ dds' = [id \in DOMAIN dds |-> [dds[id] EXCEPT !.samples = NotTaken(id, n[id])]]
    BY DEF PollTake
  <1>1. PICK q \in SetToSeqs(Taken(n)) :
           /\ ReaderByReader(q)
           /\ pending' = [i \in DOMAIN q |->
                            [body |-> sample_to_message(q[i][1], q[i][2]),
                             to |-> Receivers(q[i][1])]]
    BY <1>0
  <1> DEFINE l == Cardinality(Taken(n))
  <1>2. l \in Nat
    BY TakenFinite, FS_CardinalityType
  <1>3. q \in [1 .. l -> Taken(n)]
    BY DEF SetToSeqs
  <1>4. \A id \in DOMAIN readers : n[id] \in Nat
    BY BridgeConstants
  <1> HIDE DEF l
  <1>5. DOMAIN q = 1 .. l /\ \A i \in 1 .. l : q[i] \in Taken(n)
    BY <1>3
  <1>6. pending = <<>> /\ DOMAIN dds' = DOMAIN dds /\ UNCHANGED <<rr, history, samples_made>>
    BY <1>0 DEF PollTake
  <1> QED BY <1>0, <1>1, <1>2, <1>4, <1>5, <1>6

\* A reader's key, as it is and as it was and will be.
LEMMA SameKeyOf == ASSUME NEW id PROVE RR!KeyOf(id) = RRP!KeyOf(id)
  BY DEF RR!KeyOf, RRP!KeyOf, RR!serialize_qos, RRP!serialize_qos, RR!FlattenSeq,
         RRP!FlattenSeq, RR!serialize_policy, RRP!serialize_policy

LEMMA KeysTyped ==
    ASSUME RRP!Registry, NEW id \in DOMAIN readers PROVE RR!KeyOf(id) \in ReaderKeys
  <1>1. readers[id] \in RRP!ReaderType
    BY DEF RRP!Registry, RRP!TypeOK
  <1>2. PICK q \in QosSets : readers[id].qos = RRP!normalize(q)
    BY <1>1 DEF RRP!ReaderType
  <1>3. readers[id].topic \in Topics
    BY <1>1 DEF RRP!ReaderType
  <1>4. RRP!normalize(q) = RR!normalize(q)
    BY DEF RR!normalize, RRP!normalize, RR!is_default, RRP!is_default, RR!PolicyDefault,
           RRP!PolicyDefault
  <1>5. RR!KeyOf(id) = RR!ReaderKey(readers[id].topic, q)
    BY <1>2, <1>4 DEF RR!KeyOf, RR!ReaderKey
  <1> QED BY <1>3, <1>5 DEF ReaderKeys

\* What is taken for sending: a sample of a reader and its receivers.
LEMMA TakenEntry ==
    ASSUME RRP!Registry, WorldTyped, NEW n, NEW x \in Taken(n)
    PROVE  /\ x[1] \in DOMAIN readers /\ x[2] \in DOMAIN dds[x[1]].samples
           /\ x[2] \in Nat /\ x[2] <= n[x[1]]
           /\ dds[x[1]].samples[x[2]] \in Samples(samples_made)
           /\ sample_to_message(x[1], x[2]).from =
                 [reader |-> x[1], key |-> RR!KeyOf(x[1]),
                  sample |-> dds[x[1]].samples[x[2]].n]
           /\ [body |-> sample_to_message(x[1], x[2]), to |-> Receivers(x[1])] \in Entries
  <1> DEFINE id == x[1]
             k == x[2]
             q == dds[id].samples
             state == dds[id].state
  <1>0. RRP!Registry
    OBVIOUS
  <1>1. id \in DOMAIN readers /\ k \in 1 .. MaxTake /\ k \in take_samples(id, n[id])
    BY DEF Taken
  <1>2. k \in DOMAIN q /\ k <= n[id] /\ k \in Nat
    BY <1>1, BridgeConstants DEF take_samples
  <1>3. dds[id] \in Caches(samples_made)
    BY <1>1 DEF WorldTyped
  <1>4. q \in Seq(Samples(samples_made)) /\ state \in InstanceStates
    BY <1>3 DEF Caches, Samples
  <1>5. readers[id] \in RRP!ReaderType
    BY <1>1 DEF RRP!Registry, RRP!TypeOK
  <1>6. readers[id].topic \in Topics /\ readers[id].subscribers \subseteq Sessions
    BY <1>5 DEF RRP!ReaderType
  <1>7. q[k] \in Samples(samples_made)
    <2> HIDE DEF q
    <2>1. DOMAIN q = 1 .. Len(q)
      BY <1>4, LenProperties
    <2> QED BY <1>2, <1>4, <2>1, ElementOfSeq
  <1>8. q[k].n \in Nat
    BY <1>7 DEF Samples, WorldTyped
  <1> DEFINE origin == [reader |-> id, key |-> RR!KeyOf(id), sample |-> q[k].n]
  <1>9. sample_to_message(id, k) =
           [type |-> NoticeType[state], topic |-> readers[id].topic, from |-> origin]
    BY DEF sample_to_message, Notice
  <1>14. origin \in Origins
    <2>1. id \in Nat
      BY <1>1 DEF RRP!Registry, RRP!TypeOK
    <2>2. RR!KeyOf(id) \in ReaderKeys
      BY <1>0, <1>1, KeysTyped
    <2> QED BY <1>8, <2>1, <2>2 DEF Origins
  <1>10. NoticeType[state] \in {"Data", "DataDisposed", "DataNoWriters"}
    BY <1>4 DEF NoticeType, InstanceStates
  <1> HIDE DEF q, state, id, k, origin
  <1>11. sample_to_message(id, k) \in Notices
    BY <1>6, <1>9, <1>10, <1>14 DEF Notices
  <1>12. [body |-> sample_to_message(id, k), to |-> Receivers(id)] \in Entries
    BY <1>6, <1>11 DEF Entries, Receivers
  <1>13. sample_to_message(id, k).from = origin
    BY <1>9
  <1> QED BY <1>1, <1>2, <1>7, <1>12, <1>13 DEF q, id, k, origin

LEMMA PollTyped ==
    ASSUME RRP!Registry, WorldTyped, PollTake
    PROVE  WorldTyped'
  <1>1. PICK n, q, l :
           /\ l \in Nat /\ DOMAIN q = 1 .. l /\ \A i \in 1 .. l : q[i] \in Taken(n)
           /\ \A id \in DOMAIN readers : n[id] \in Nat
           /\ ReaderByReader(q)
           /\ pending' = [i \in 1 .. l |->
                            [body |-> sample_to_message(q[i][1], q[i][2]),
                             to |-> Receivers(q[i][1])]]
           /\ dds' = [id \in DOMAIN dds |-> [dds[id] EXCEPT !.samples = NotTaken(id, n[id])]]
    BY PollTakes
  <1>2. samples_made' = samples_made /\ readers' = readers /\ history' = history
    BY PollTakes DEF rr
  <1>3. pending' \in Seq(Entries)
    <2>1. \A i \in 1 .. l : pending'[i] \in Entries
      BY <1>1, TakenEntry
    <2>2. pending' \in [1 .. l -> Entries]
      BY <1>1, <2>1
    <2> QED BY <1>1, <2>2, SeqDef
  <1>4. ASSUME NEW id \in DOMAIN readers PROVE dds'[id] \in Caches(samples_made)
    <2>1. dds[id] \in Caches(samples_made) /\ id \in DOMAIN dds
      BY DEF WorldTyped
    <2>2. dds[id].samples \in Seq(Samples(samples_made))
      BY <2>1 DEF Caches, Samples
    <2>3. NotTaken(id, n[id]) \in Seq(Samples(samples_made))
      BY <1>1, <2>2, NotTakenSeq
    <2>4. dds'[id] = [dds[id] EXCEPT !.samples = NotTaken(id, n[id])]
      BY <1>1, <2>1
    <2> QED BY <2>1, <2>3, <2>4 DEF Caches, Samples
  <1>5. dds' = [id \in DOMAIN readers |-> dds'[id]]
    BY <1>1 DEF WorldTyped
  <1> QED BY <1>2, <1>3, <1>4, <1>5 DEF WorldTyped

\* The fan-out list after one try_send: its entries are the same, but the
\* first no longer goes to s.
LEMMA FanOutShrinks ==
    ASSUME pending \in Seq(Entries), NEW s \in Sessions, FanOut(s)
    PROVE  /\ pending' \in Seq(Entries)
           /\ \E d \in {0, 1} : \A i \in DOMAIN pending' :
                 /\ i + d \in DOMAIN pending
                 /\ pending'[i].body = pending[i + d].body
                 /\ pending'[i].to \subseteq pending[i + d].to
                 /\ s \in pending'[i].to => i + d > 1
  <1> DEFINE e == [pending[1] EXCEPT !.to = pending[1].to \ {s}]
             l == Len(pending)
  <1>1. /\ pending # <<>>
        /\ pending' = IF Head(pending).to = {s} THEN Tail(pending)
                      ELSE [pending EXCEPT ![1].to = @ \ {s}]
    BY DEF FanOut
  <1>2. l \in Nat /\ l # 0 /\ DOMAIN pending = 1 .. l
    BY <1>1, EmptySeq, LenProperties
  <1>3. pending[1] \in Entries /\ 1 \in 1 .. l
    BY <1>2, ElementOfSeq
  <1>4. CASE pending' = Tail(pending)
    <2> DEFINE p == Tail(pending)
    <2>1. p \in Seq(Entries) /\ Len(p) = l - 1 /\ \A i \in 1 .. Len(p) : p[i] = pending[i + 1]
      BY <1>1, HeadTailProperties
    <2> HIDE DEF p, l
    <2>2. DOMAIN p = 1 .. Len(p)
      BY <2>1, LenProperties
    <2>3. \A i \in DOMAIN p : i + 1 \in DOMAIN pending /\ p[i] = pending[i + 1] /\ i + 1 > 1
      BY <1>2, <2>1, <2>2
    <2>4. pending' = p
      BY <1>4 DEF p
    <2> QED BY <2>1, <2>3, <2>4
  <1>5. CASE pending' = [pending EXCEPT ![1].to = @ \ {s}]
    <2>1. e \in Entries /\ e.body = pending[1].body /\ e.to = pending[1].to \ {s}
      BY <1>3 DEF Entries
    <2>2. pending' = [pending EXCEPT ![1] = e]
      BY <1>5
    <2> HIDE DEF e, l
    <2>3. pending' \in Seq(Entries)
      BY <1>3, <2>1, <2>2, ExceptSeq DEF l
    <2>4. /\ DOMAIN pending' = DOMAIN pending
          /\ \A i \in DOMAIN pending : pending'[i] = IF i = 1 THEN e ELSE pending[i]
      BY <1>2, <2>2
    <2>5. ASSUME NEW i \in DOMAIN pending'
          PROVE  /\ i + 0 \in DOMAIN pending
                 /\ pending'[i].body = pending[i + 0].body
                 /\ pending'[i].to \subseteq pending[i + 0].to
                 /\ s \in pending'[i].to => i + 0 > 1
      <3>1. i + 0 = i /\ i \in 1 .. l
        BY <1>2, <2>4
      <3>2. CASE i = 1
        BY <2>1, <2>4, <3>1, <3>2
      <3>3. CASE i # 1
        <4>1. i > 1
          BY <1>2, <3>1, <3>3
        <4> QED BY <2>4, <3>1, <3>3, <4>1
      <3> QED BY <3>2, <3>3
    <2> QED BY <2>3, <2>5
  <1> QED BY <1>1, <1>4, <1>5

LEMMA WorldStep ==
    ASSUME RRP!Registry, WorldTyped, [Next]_vars PROVE WorldTyped'
  <1>1. CASE UNCHANGED <<readers, dds, history, samples_made, pending>>
    BY <1>1 DEF WorldTyped
  <1>2. ASSUME NEW s \in Sessions, FanOut(s) PROVE WorldTyped'
    <2>1. pending' \in Seq(Entries) /\ UNCHANGED <<readers, dds, history, samples_made>>
      BY <1>2, FanOutShrinks DEF WorldTyped, FanOut, rr
    <2> QED BY <2>1 DEF WorldTyped
  <1> QED BY <1>1, <1>2, WorldForms, ArrivalTyped, FollowedTyped, PollTyped

LEMMA RegistryStep == ASSUME RRP!Registry, [Next]_vars PROVE RRP!Registry'
  <1>1. [RRP!Next]_RRP!vars
    BY ReaderSteps, SameReaderActs DEF RR!Next, RRP!Next, RR!vars, RRP!vars
  <1> QED BY <1>1, RegistryFacts, RRP!RegistryNext

LEMMA WritersOnTopicsStep == ASSUME WritersOnTopics, [Next]_vars PROVE WritersOnTopics'
  <1>1. ASSUME OnlyLoses PROVE WritersOnTopics'
    BY <1>1 DEF OnlyLoses, WritersOnTopics
  <1>2. ASSUME NEW s \in Sessions, MakesMissing(s) PROVE WritersOnTopics'
    BY <1>2 DEF MakesMissing, register, insert, WritersOnTopics
  <1> QED BY <1>1, <1>2, WritersLoseOrMake

LEMMA TypedInit == Init => Typed
  <1> SUFFICES ASSUME Init PROVE Typed
    OBVIOUS
  <1>1. RRP!Registry
    <2>1. RRP!Init
      BY DEF Init, RR!Init, RRP!Init, RR!EmptyMap, RRP!EmptyMap
    <2> QED BY <2>1, RegistryFacts, RRP!RegistryInit DEF RRP!Followed
  <1>2. WritersOnTopics
    BY DEF Init, WR!Init, WR!EmptyMap, WritersOnTopics
  <1>3. WorldTyped
    <2>1. EmptyCache \in Caches(0)
      BY DEF EmptyCache, Caches, InstanceStates
    <2>2. history \in [Topics -> Caches(samples_made)]
      BY <2>1 DEF Init
    <2> QED BY <2>2, EmptySeq DEF Init, RR!Init, RR!EmptyMap, EmptyMap, WorldTyped
  <1>4. Domains /\ \A s \in Sessions : Channels(s)
    BY EmptySeq DEF Init, SS!Init, Domains, Channels
  <1> QED BY <1>1, <1>2, <1>3, <1>4 DEF Typed

LEMMA PathTyped ==
    ASSUME NEW w \in Seq(Messages), NEW f \in Seq(Messages), NEW c \in Seq(ReplyMessages),
           NEW r \in Seq(ReplyMessages), NEW d
    PROVE  (w \o f) \o (IF d = "done" THEN <<>> ELSE c \o r) \in Seq(Messages)
  <1>1. w \o f \in Seq(Messages) /\ <<>> \in Seq(Messages)
    BY ConcatProperties, EmptySeq
  <1>2. c \o r \in Seq(Messages)
    BY KindsOfMessages, ConcatProperties
  <1> DEFINE x == IF d = "done" THEN <<>> ELSE c \o r
  <1>3. x \in Seq(Messages)
    BY <1>1, <1>2
  <1> HIDE DEF x
  <1>4. (w \o f) \o x \in Seq(Messages)
    BY <1>1, <1>3, ConcatProperties
  <1> QED BY <1>4 DEF x

\* What a step does to what a session gets, and that the types are kept.
LEMMA TypedStep ==
    ASSUME Typed, [Next]_vars
    PROVE  /\ Typed'
           /\ \A u \in Sessions : Noted(ReplyPath(u)) => Noted(ReplyPath(u)')
  <1>1. RRP!Registry' /\ WritersOnTopics' /\ WorldTyped'
    BY RegistryStep, WritersOnTopicsStep, WorldStep DEF Typed
  <1>2. RRP!Registry /\ Domains /\ (\A u \in Sessions : Channels(u)) /\ pending \in Seq(Entries)
    BY DEF Typed, WorldTyped
  <1> DEFINE Kept == /\ Domains'
                     /\ \A u \in Sessions :
                           Channels(u)' /\ (Noted(ReplyPath(u)) => Noted(ReplyPath(u)'))
  <1>3. ASSUME NEW s \in Sessions, Answering(s) PROVE Kept
    BY <1>2, <1>3, AnsweringKeeps
  <1>4. ASSUME NEW s \in Sessions, Disposing(s) PROVE Kept
    BY <1>2, <1>4, DisposingKeeps
  <1>5. ASSUME NEW s \in Sessions, FanOut(s) PROVE Kept
    BY <1>2, <1>5, FanOutKeeps
  <1>6. ASSUME NEW s \in Sessions, Moving(s) PROVE Kept
    <2>1. ASSUME NEW u \in Sessions, Channels(u), Channels(u)',
                 Begins("resp", ReplyPath(u)', ReplyPath(u)), Noted(ReplyPath(u))
          PROVE  Noted(ReplyPath(u)')
      <3> DEFINE p == ReplyPath(u)'
                 q == ReplyPath(u)
      <3>1. q \in Seq(Messages) /\ p \in Seq(Messages)
        <4>1. /\ wire'[u] \in Seq(Messages) /\ inflight'[u] \in Seq(Messages)
              /\ resp_ch'[u] \in Seq(ReplyMessages) /\ resps'[u] \in Seq(ReplyMessages)
          BY <2>1 DEF Channels
        <4>2. p = (wire'[u] \o inflight'[u])
                     \o (IF writer'[u] = "done" THEN <<>> ELSE resp_ch'[u] \o resps'[u])
          BY DEF ReplyPath
        <4> HIDE DEF p
        <4>3. p \in Seq(Messages)
          BY <4>1, <4>2, PathTyped, Zenon
        <4>4. q \in Seq(Messages)
          BY <2>1, PathsTyped
        <4> QED BY <4>3, <4>4
      <3> HIDE DEF p, q
      <3>2. DOMAIN p \subseteq Nat /\ DOMAIN q \subseteq Nat
        BY <3>1, LenProperties
      <3> QED BY <2>1, <3>2, NotedBegins DEF p, q
    <2> QED BY <1>2, <1>6, <2>1, MovingKeeps
  <1>7. ASSUME UNCHANGED traffic PROVE Kept
    BY <1>2, <1>7, NothingMoves DEF traffic, Domains
  <1> HIDE DEF Kept
  <1>8. Kept
    BY <1>3, <1>4, <1>5, <1>6, <1>7, TrafficForms
  <1> QED BY <1>1, <1>8 DEF Typed, Kept

\* bridge.rs:76-77: whatever else a client asks for, whatever DDS does and
\* wherever the connection breaks, the requester of a dispose hears of it only
\* after the Ok (resp_with_dispose_notification, session.rs run_session).
THEOREM DisposeAlwaysNoted == Spec => []DisposeNotedAfterOk
  <1> DEFINE Inv == Typed /\ DisposeNotedAfterOk
  <1>1. Init => Inv
    <2>1. Init => DisposeNotedAfterOk
      <3> SUFFICES ASSUME Init, NEW s \in Sessions PROVE Noted(ReplyPath(s))
        BY DEF DisposeNotedAfterOk
      <3>1. wire[s] = <<>> /\ inflight[s] = <<>> /\ resp_ch[s] = <<>> /\ resps[s] = <<>>
        BY DEF Init, SS!Init
      <3>2. <<>> \o <<>> = <<>>
        OBVIOUS
      <3>3. ReplyPath(s) = <<>>
        BY <3>1, <3>2 DEF ReplyPath
      <3> QED BY <3>3 DEF Noted, SS!At
    <2> QED BY <2>1, TypedInit
  <1>2. Inv /\ [Next]_vars => Inv'
    <2>1. ASSUME Inv, [Next]_vars PROVE Inv'
      BY <2>1, TypedStep DEF DisposeNotedAfterOk
    <2> QED BY <2>1
  <1> QED BY <1>1, <1>2, PTL DEF Spec

Ordered(q) ==
    \A i, j \in SS!At("bridge", q) : i < j => Older(q[i].body, q[j].body)

LEMMA OrderedBegins ==
    ASSUME NEW p, NEW q, Begins("bridge", p, q)
    PROVE  /\ Ordered(q) => Ordered(p)
           /\ \A i \in SS!At("bridge", p) : \E j \in SS!At("bridge", q) : p[i] = q[j]
  <1>1. PICK f \in [SS!At("bridge", p) -> SS!At("bridge", q)] :
           /\ \A i \in SS!At("bridge", p) : p[i] = q[f[i]]
           /\ \A i, j \in SS!At("bridge", p) : i < j => f[i] < f[j]
    BY DEF Begins
  <1>2. ASSUME Ordered(q), NEW i \in SS!At("bridge", p), NEW j \in SS!At("bridge", p), i < j
        PROVE  Older(p[i].body, p[j].body)
    <2>1. /\ f[i] \in SS!At("bridge", q) /\ f[j] \in SS!At("bridge", q) /\ f[i] < f[j]
          /\ p[i] = q[f[i]] /\ p[j] = q[f[j]]
      BY <1>1, <1>2
    <2> QED BY <1>2, <2>1 DEF Ordered
  <1> QED BY <1>1, <1>2 DEF Ordered

\* Where the messages of a joined sequence come from.
LEMMA JoinedAt ==
    ASSUME NEW S, NEW p \in Seq(S), NEW r \in Seq(S), NEW via, NEW i \in SS!At(via, p \o r)
    PROVE  \/ i \in SS!At(via, p) /\ i \in 1 .. Len(p) /\ (p \o r)[i] = p[i]
           \/ \E k \in SS!At(via, r) :
                 k \in 1 .. Len(r) /\ i = Len(p) + k /\ (p \o r)[i] = r[k]
  <1> DEFINE q == p \o r
             n == Len(p)
             l == Len(r)
  <1>1. /\ n \in Nat /\ l \in Nat /\ DOMAIN p = 1 .. n /\ DOMAIN r = 1 .. l
        /\ DOMAIN q = 1 .. (n + l)
        /\ \A k \in 1 .. n : q[k] = p[k]
        /\ \A k \in 1 .. l : q[n + k] = r[k]
    BY ConcatParts
  <1>2. i \in DOMAIN q /\ q[i].via = via
    BY DEF SS!At
  <1> HIDE DEF q, n, l
  <1>3. i \in 1 .. n \/ \E k \in 1 .. l : i = n + k
    <2>1. i \in Nat /\ i >= 1 /\ i <= n + l
      BY <1>1, <1>2
    <2>2. CASE i <= n
      BY <1>1, <2>1, <2>2
    <2>3. CASE i > n
      <3>1. i - n \in 1 .. l /\ i = n + (i - n)
        BY <1>1, <2>1, <2>3
      <3> QED BY <3>1
    <2> QED BY <1>1, <2>1, <2>2, <2>3
  <1>4. CASE i \in 1 .. n
    BY <1>1, <1>2, <1>4 DEF SS!At, q, n
  <1>5. ASSUME NEW k \in 1 .. l, i = n + k PROVE k \in SS!At(via, r) /\ q[i] = r[k]
    <2>1. q[i] = r[k] /\ k \in DOMAIN r
      BY <1>1, <1>5
    <2> QED BY <1>2, <2>1 DEF SS!At
  <1> QED BY <1>3, <1>4, <1>5 DEF q, n, l

LEMMA OrderedJoined ==
    ASSUME NEW S, NEW p \in Seq(S), NEW r \in Seq(S), Ordered(p), Ordered(r),
           \A i \in SS!At("bridge", p), j \in SS!At("bridge", r) : Older(p[i].body, r[j].body)
    PROVE  Ordered(p \o r)
  <1> DEFINE q == p \o r
             n == Len(p)
             P == SS!At("bridge", p)
             R == SS!At("bridge", r)
             Left(i) == i \in P /\ i \in 1 .. n /\ q[i] = p[i]
             Right(i, k) == k \in 1 .. Len(r) /\ i = n + k /\ q[i] = r[k]
  <1>1. \A i \in SS!At("bridge", q) : Left(i) \/ \E k \in R : Right(i, k)
    <2> TAKE i \in SS!At("bridge", q)
    <2> QED BY JoinedAt
  <1>2. n \in Nat /\ Len(r) \in Nat
    BY LenProperties
  <1> HIDE DEF q, n, P, R
  <1> SUFFICES ASSUME NEW i \in SS!At("bridge", q), NEW j \in SS!At("bridge", q), i < j
               PROVE  Older(q[i].body, q[j].body)
    BY DEF Ordered, q
  <1>3. CASE Left(i) /\ Left(j)
    BY <1>3 DEF Ordered, P
  <1>4. ASSUME Left(i), NEW k \in R, Right(j, k) PROVE Older(q[i].body, q[j].body)
    BY <1>4 DEF P, R
  <1>5. ASSUME NEW k \in R, Right(i, k), Left(j) PROVE FALSE
    BY <1>2, <1>5
  <1>6. ASSUME NEW k \in R, Right(i, k), NEW m \in R, Right(j, m)
        PROVE  Older(q[i].body, q[j].body)
    <2>1. k < m
      BY <1>2, <1>6
    <2> QED BY <1>6, <2>1 DEF Ordered, R
  <1> QED BY <1>1, <1>3, <1>4, <1>5, <1>6

-----------------------------------------------------------------------------
(* The order of the samples.                                               *)

\* What a session was sent or is to be sent through its bridge channel.
Reached(s) ==
    {Sent(s)[i].body : i \in SS!At("bridge", Sent(s))} \cup {pending[i].body : i \in Due(s)}

\* Of two samples from here the first has to be the older one: b was taken from
\* reader id, or from one that had its key before it.
Precedes(b, id) ==
    /\ b.from.sample > 0
    /\ \/ b.from.reader = id
       \/ b.from.key = RR!KeyOf(id) /\ b.from.key \notin KeysWithHistory

\* Caches hold their samples in the order of arrival, ...
Rising(q) == \A i, j \in DOMAIN q : i < j => q[i].n < q[j].n
CachesRise ==
    /\ \A id \in DOMAIN readers : Rising(dds[id].samples)
    /\ \A t \in Topics : Rising(history[t].samples)

\* ... no session is ahead of DDS or has samples of a reader yet to come ...
Known ==
    \A s \in Sessions : \A b \in Reached(s) :
       /\ b.from.sample <= samples_made
       /\ b.from.sample > 0 => b.from.reader < next_reader_id

\* ... or is ahead of the readers it gets its samples from.
Behind ==
    \A s \in Sessions, id \in DOMAIN readers :
       \A b \in Reached(s) : \A k \in DOMAIN dds[id].samples :
          Precedes(b, id) => b.from.sample < dds[id].samples[k].n

\* The inductive invariant.
Delivered == Typed /\ SamplesInOrder /\ CachesRise /\ Known /\ Behind

\* A notification without a sample is older and younger than any other.
LEMMA NoSample ==
    ASSUME NEW a, NEW b, a.from.sample = 0 \/ b.from.sample = 0 PROVE Older(a, b)
  BY DEF Older

LEMMA OneOrdered == ASSUME NEW m PROVE Ordered(<<m>>)
  <1>1. \A i, j \in DOMAIN <<m>> : i = 1 /\ j = 1
    OBVIOUS
  <1> QED BY <1>1 DEF Ordered, SS!At

-----------------------------------------------------------------------------
(* Steps other than a poll.                                                *)

\* What a session gets is what it would have got, some notifications without
\* a sample, and less.
Streams ==
    /\ SamplesInOrder'
    /\ \A s \in Sessions : \A b \in Reached(s)' : b \in Reached(s) \/ b.from.sample = 0

\* If only the way through the channels changes.
LEMMA ChannelStreams ==
    ASSUME Typed, SamplesInOrder, UNCHANGED pending,
           \A s \in Sessions :
              \/ Begins("bridge", Sent(s)', Sent(s))
              \/ \E q \in Seq(BridgeMessages) :
                    Extended(s, q) /\ \A i \in DOMAIN q : q[i].body.from.sample = 0
    PROVE  Streams
  <1>1. ASSUME NEW s \in Sessions
        PROVE  /\ Ordered(Sent(s)')
               /\ \A i \in SS!At("bridge", Sent(s)') :
                     \/ \E j \in SS!At("bridge", Sent(s)) : Sent(s)'[i].body = Sent(s)[j].body
                     \/ Sent(s)'[i].body.from.sample = 0
    <2> DEFINE p == Sent(s)
               v == Sent(s)'
    <2>1. Ordered(p) /\ p \in Seq(Messages)
      BY PathsTyped DEF SamplesInOrder, Ordered, Typed
    <2>2. CASE Begins("bridge", v, p)
      <3> HIDE DEF p, v
      <3>1. Ordered(v) /\ \A i \in SS!At("bridge", v) : \E j \in SS!At("bridge", p) : v[i] = p[j]
        BY <2>1, <2>2, OrderedBegins
      <3> QED BY <3>1 DEF p, v
    <2>3. ASSUME NEW q \in Seq(BridgeMessages), v = p \o q,
                 \A i \in DOMAIN q : q[i].body.from.sample = 0
          PROVE  /\ Ordered(v)
                 /\ \A i \in SS!At("bridge", v) :
                       (\E j \in SS!At("bridge", p) : v[i].body = p[j].body) \/ v[i].body.from.sample = 0
      <3>1. q \in Seq(Messages)
        BY KindsOfMessages
      <3> HIDE DEF p, v
      <3>2. \A i \in SS!At("bridge", q) : q[i].body.from.sample = 0
        BY <2>3 DEF SS!At
      <3>3. Ordered(q)
        BY <3>2, NoSample DEF Ordered
      <3>4. Ordered(p \o q)
        BY <2>1, <3>1, <3>2, <3>3, NoSample, OrderedJoined
      <3>5. ASSUME NEW i \in SS!At("bridge", p \o q)
            PROVE  \/ \E j \in SS!At("bridge", p) : (p \o q)[i].body = p[j].body
                   \/ (p \o q)[i].body.from.sample = 0
        <4>1. p \in Seq(Messages) /\ q \in Seq(Messages)
          BY <2>1, <3>1
        <4>2. \/ i \in SS!At("bridge", p) /\ i \in 1 .. Len(p) /\ (p \o q)[i] = p[i]
              \/ \E k \in SS!At("bridge", q) :
                    k \in 1 .. Len(q) /\ i = Len(p) + k /\ (p \o q)[i] = q[k]
          BY <4>1, JoinedAt
        <4> QED BY <3>2, <4>2
      <3> QED BY <2>3, <3>4, <3>5
    <2> QED BY <2>2, <2>3 DEF Extended
  <1>2. ASSUME NEW s \in Sessions PROVE Due(s)' = Due(s)
    BY DEF Due
  <1>3. SamplesInOrder'
    <2> SUFFICES ASSUME NEW s \in Sessions
                 PROVE  /\ \A i, j \in SS!At("bridge", Sent(s)') :
                              i < j => Older(Sent(s)'[i].body, Sent(s)'[j].body)
                        /\ \A i, j \in Due(s) : i < j => Older(pending[i].body, pending[j].body)
                        /\ \A i \in SS!At("bridge", Sent(s)'), j \in Due(s) :
                              Older(Sent(s)'[i].body, pending[j].body)
      BY <1>2 DEF SamplesInOrder, SS!At
    <2>1. \A i, j \in SS!At("bridge", Sent(s)') :
             i < j => Older(Sent(s)'[i].body, Sent(s)'[j].body)
      BY <1>1 DEF Ordered
    <2>2. \A i, j \in Due(s) : i < j => Older(pending[i].body, pending[j].body)
      BY DEF SamplesInOrder
    <2>3. ASSUME NEW i \in SS!At("bridge", Sent(s)'), NEW j \in Due(s)
          PROVE  Older(Sent(s)'[i].body, pending[j].body)
      <3>1. CASE \E k \in SS!At("bridge", Sent(s)) : Sent(s)'[i].body = Sent(s)[k].body
        BY <3>1 DEF SamplesInOrder
      <3>2. CASE Sent(s)'[i].body.from.sample = 0
        BY <3>2, NoSample
      <3> QED BY <1>1, <3>1, <3>2
    <2> QED BY <2>1, <2>2, <2>3
  <1>4. ASSUME NEW s \in Sessions, NEW b \in Reached(s)' PROVE b \in Reached(s) \/ b.from.sample = 0
    <2>1. CASE \E i \in SS!At("bridge", Sent(s)') : b = Sent(s)'[i].body
      BY <1>1, <2>1 DEF Reached
    <2>2. CASE \E i \in Due(s) : b = pending[i].body
      BY <2>2 DEF Reached
    <2> QED BY <1>2, <2>1, <2>2 DEF Reached, SS!At
  <1> QED BY <1>3, <1>4 DEF Streams

\* The order of a session's samples, of the sequence p it was sent and the
\* positions D of the fan-out list q it is due.
InOrder(p, q, D) ==
    /\ Ordered(p)
    /\ \A i, j \in D : i < j => Older(q[i].body, q[j].body)
    /\ \A i \in SS!At("bridge", p), j \in D : Older(p[i].body, q[j].body)

\* What a session reaches, of the same.
Carried(p, q, D) == {p[i].body : i \in SS!At("bridge", p)} \cup {q[i].body : i \in D}

LEMMA InOrderIs ==
    /\ SamplesInOrder = \A s \in Sessions : InOrder(Sent(s), pending, Due(s))
    /\ \A s : Reached(s) = Carried(Sent(s), pending, Due(s))
  BY DEF SamplesInOrder, InOrder, Ordered, Reached, Carried

LEMMA InOrderWillBe ==
    /\ SamplesInOrder' = \A s \in Sessions : InOrder(Sent(s)', pending', Due(s)')
    /\ \A s : Reached(s)' = Carried(Sent(s)', pending', Due(s)')
  BY DEF SamplesInOrder, InOrder, Ordered, Reached, Carried, SS!At

\* The list moves up by d, and what is due may be sent or lost.
LEMMA ShiftedInOrder ==
    ASSUME NEW p, NEW q, NEW r, NEW D, NEW E, InOrder(p, q, D), NEW d \in Nat,
           E \subseteq Nat,
           \A i \in E : i + d \in D /\ r[i].body = q[i + d].body
    PROVE  InOrder(p, r, E) /\ Carried(p, r, E) \subseteq Carried(p, q, D)
  <1>1. \A i, j \in E : i < j => Older(r[i].body, r[j].body)
    <2> SUFFICES ASSUME NEW i \in E, NEW j \in E, i < j
                 PROVE  Older(q[i + d].body, q[j + d].body)
      OBVIOUS
    <2>1. i + d < j + d /\ i + d \in D /\ j + d \in D
      OBVIOUS
    <2> QED BY <2>1 DEF InOrder
  <1>2. Ordered(p) /\ \A i \in SS!At("bridge", p), j \in E : Older(p[i].body, r[j].body)
    BY DEF InOrder
  <1>3. Carried(p, r, E) \subseteq Carried(p, q, D)
    BY DEF Carried
  <1> QED BY <1>1, <1>2, <1>3 DEF InOrder

\* The first of the list is sent.
LEMMA SentInOrder ==
    ASSUME NEW p \in Seq(Messages), NEW q, NEW D, InOrder(p, q, D),
           1 \in D, D \subseteq Nat \ {0},
           NEW m \in Messages, m.body = q[1].body
    PROVE  /\ InOrder(p \o <<m>>, q, D \ {1})
           /\ Carried(p \o <<m>>, q, D \ {1}) \subseteq Carried(p, q, D)
  <1> DEFINE r == <<m>>
             v == p \o r
  <1>1. r \in Seq(Messages) /\ SS!At("bridge", r) \subseteq {1} /\ r[1] = m
    BY DEF SS!At
  <1>2. Ordered(r)
    BY OneOrdered
  <1>3. Ordered(p) /\ \A i \in SS!At("bridge", p) : Older(p[i].body, q[1].body)
    BY DEF InOrder
  <1> HIDE DEF r
  <1>4. \A i \in SS!At("bridge", p), j \in SS!At("bridge", r) : Older(p[i].body, r[j].body)
    BY <1>1, <1>3
  <1>5. Ordered(v)
    BY <1>1, <1>2, <1>3, <1>4, OrderedJoined
  <1>6. ASSUME NEW i \in SS!At("bridge", v)
        PROVE  v[i].body = q[1].body \/ \E j \in SS!At("bridge", p) : v[i] = p[j]
    <2>1. \/ i \in SS!At("bridge", p) /\ i \in 1 .. Len(p) /\ (p \o r)[i] = p[i]
          \/ \E k \in SS!At("bridge", r) :
                k \in 1 .. Len(r) /\ i = Len(p) + k /\ (p \o r)[i] = r[k]
      BY <1>1, JoinedAt
    <2> QED BY <1>1, <2>1
  <1> HIDE DEF v
  <1>7. ASSUME NEW b \in Carried(v, q, D \ {1}) PROVE b \in Carried(p, q, D)
    <2>1. CASE \E i \in SS!At("bridge", v) : b = v[i].body
      BY <1>6, <2>1 DEF Carried
    <2>2. CASE \E i \in D \ {1} : b = q[i].body
      BY <2>2 DEF Carried
    <2> QED BY <2>1, <2>2 DEF Carried
  <1>8. InOrder(v, q, D \ {1})
    <2>1. \A j \in D \ {1} : 1 < j
      OBVIOUS
    <2>2. \A i \in SS!At("bridge", v), j \in D \ {1} : Older(v[i].body, q[j].body)
      BY <1>6, <2>1 DEF InOrder
    <2> QED BY <1>5, <2>2 DEF InOrder
  <1> QED BY <1>7, <1>8 DEF v, r

LEMMA FanOutStreams ==
    ASSUME Typed, SamplesInOrder, NEW s \in Sessions, FanOut(s)
    PROVE  Streams
  <1>1. /\ Domains /\ (\A u \in Sessions : Channels(u)) /\ pending \in Seq(Entries)
    BY DEF Typed, WorldTyped
  <1>2. /\ pending # <<>> /\ s \in Head(pending).to
        /\ \A u \in Sessions : u # s => Sent(u)' = Sent(u)
        /\ \/ Sent(s)' = Sent(s)
           \/ \E m \in BridgeMessages : m.body = Head(pending).body /\ Extended(s, <<m>>)
    BY <1>1, FanOutKeeps
  <1>3. pending' \in Seq(Entries)
    BY <1>1, FanOutShrinks
  <1>4. PICK d \in {0, 1} : \A i \in DOMAIN pending' :
                 /\ i + d \in DOMAIN pending
                 /\ pending'[i].body = pending[i + d].body
                 /\ pending'[i].to \subseteq pending[i + d].to
                 /\ s \in pending'[i].to => i + d > 1
    BY <1>1, FanOutShrinks
  <1>5. DOMAIN pending' \subseteq Nat /\ DOMAIN pending \subseteq Nat \ {0}
    <2>1. \A q \in Seq(Entries) : DOMAIN q \subseteq Nat \ {0}
      BY LenProperties
    <2> QED BY <1>1, <1>3, <2>1
  <1>6. ASSUME NEW u, NEW i \in Due(u)'
        PROVE  /\ i \in Nat /\ i + d \in Due(u) /\ pending'[i].body = pending[i + d].body
               /\ u = s => i + d # 1
    <2>1. i \in DOMAIN pending' /\ u \in pending'[i].to
      BY DEF Due
    <2> QED BY <1>4, <1>5, <2>1 DEF Due
  <1>7. /\ 1 \in Due(s) /\ Head(pending) = pending[1]
    <2>1. 1 \in DOMAIN pending /\ Head(pending) = pending[1]
      BY <1>1, <1>2, EmptySeq, LenProperties
    <2> QED BY <1>2, <2>1 DEF Due
  <1>8. d \in Nat
    OBVIOUS
  <1>9. \A u : Due(u)' \subseteq Nat /\ Due(u) \subseteq Nat \ {0}
    BY <1>5, <1>6 DEF Due
  <1>10. ASSUME NEW u \in Sessions, Sent(u)' = Sent(u)
         PROVE  /\ InOrder(Sent(u)', pending', Due(u)')
                /\ Carried(Sent(u)', pending', Due(u)') \subseteq Carried(Sent(u), pending, Due(u))
    <2>1. InOrder(Sent(u), pending, Due(u))
      BY InOrderIs
    <2> QED BY <1>6, <1>8, <1>9, <1>10, <2>1, ShiftedInOrder
  <1>11. ASSUME NEW m \in BridgeMessages, m.body = Head(pending).body, Extended(s, <<m>>)
         PROVE  /\ InOrder(Sent(s)', pending', Due(s)')
                /\ Carried(Sent(s)', pending', Due(s)') \subseteq Carried(Sent(s), pending, Due(s))
    <2> DEFINE p == Sent(s)
               v == p \o <<m>>
               D == Due(s)
    <2>1. InOrder(p, pending, D) /\ p \in Seq(Messages) /\ m \in Messages /\ Sent(s)' = v
      BY <1>1, <1>11, InOrderIs, PathsTyped DEF Extended, Messages
    <2>2. \A i \in Due(s)' : i + d \in D \ {1} /\ pending'[i].body = pending[i + d].body
      BY <1>6
    <2>3. 1 \in D /\ D \subseteq Nat \ {0} /\ m.body = pending[1].body /\ Due(s)' \subseteq Nat
      BY <1>7, <1>9, <1>11
    <2> HIDE DEF p, v, D
    <2>4. InOrder(v, pending, D \ {1}) /\ Carried(v, pending, D \ {1}) \subseteq Carried(p, pending, D)
      BY <2>1, <2>3, SentInOrder DEF v
    <2>5. InOrder(v, pending', Due(s)') /\ Carried(v, pending', Due(s)') \subseteq Carried(v, pending, D \ {1})
      BY <1>8, <2>2, <2>3, <2>4, ShiftedInOrder
    <2> QED BY <2>1, <2>4, <2>5 DEF p, D
  <1>12. \A u \in Sessions :
            /\ InOrder(Sent(u)', pending', Due(u)')
            /\ Carried(Sent(u)', pending', Due(u)') \subseteq Carried(Sent(u), pending, Due(u))
    BY <1>2, <1>10, <1>11
  <1> QED BY <1>12, InOrderIs, InOrderWillBe DEF Streams

\* Every step but a poll.
LEMMA OtherStreams ==
    ASSUME Typed, SamplesInOrder, [Next]_vars
    PROVE  Streams \/ (PollTake /\ UNCHANGED traffic)
  <1>1. RRP!Registry /\ Domains /\ \A u \in Sessions : Channels(u)
    BY DEF Typed
  <1>2. ASSUME NEW u \in Sessions, Sent(u)' = Sent(u) PROVE Begins("bridge", Sent(u)', Sent(u))
    <2> DEFINE p == Sent(u)
               v == Sent(u)'
    <2>1. p \in Seq(Messages) /\ v = p
      BY <1>1, <1>2, PathsTyped
    <2> HIDE DEF p, v
    <2>2. Begins("bridge", p, p)
      BY <2>1, BeginsSame
    <2>3. Begins("bridge", v, p)
      BY <2>1, <2>2
    <2> QED BY <2>3 DEF p, v
  <1>3. ASSUME NEW s \in Sessions, Answering(s) PROVE Streams
    <2>1. UNCHANGED pending /\ \A u \in Sessions : Sent(u)' = Sent(u)
      BY <1>1, <1>3, AnsweringKeeps DEF Answering
    <2> QED BY <1>2, <2>1, ChannelStreams
  <1>4. ASSUME NEW s \in Sessions, Disposing(s) PROVE Streams
    <2>1. UNCHANGED pending
      BY <1>4 DEF Disposing
    <2>2. \A u \in Sessions : \E q \in Seq(BridgeMessages) :
             Extended(u, q) /\ \A i \in DOMAIN q : q[i].body.from.sample = 0
      BY <1>1, <1>4, DisposingKeeps
    <2> QED BY <2>1, <2>2, ChannelStreams
  <1>5. ASSUME NEW s \in Sessions, Moving(s) PROVE Streams
    <2>1. UNCHANGED pending /\ \A u \in Sessions : Begins("bridge", Sent(u)', Sent(u))
      BY <1>1, <1>5, MovingKeeps DEF Moving
    <2> QED BY <2>1, ChannelStreams
  <1>6. ASSUME UNCHANGED <<traffic, pending>> PROVE Streams
    <2>1. UNCHANGED pending /\ \A u \in Sessions : Sent(u)' = Sent(u)
      BY <1>6 DEF traffic, Sent
    <2> QED BY <1>2, <2>1, ChannelStreams
  <1> QED BY <1>3, <1>4, <1>5, <1>6, FanOutStreams, TrafficForms

-----------------------------------------------------------------------------
(* The caches.                                                             *)

LEMMA RisingShifted ==
    ASSUME NEW q, Rising(q), NEW p, DOMAIN p \subseteq Nat, NEW o \in Nat,
           \A i \in DOMAIN p : o + i \in DOMAIN q /\ p[i] = q[o + i]
    PROVE  Rising(p)
  <1> SUFFICES ASSUME NEW i \in DOMAIN p, NEW j \in DOMAIN p, i < j PROVE p[i].n < p[j].n
    BY DEF Rising
  <1>1. o + i < o + j /\ o + i \in DOMAIN q /\ o + j \in DOMAIN q
    OBVIOUS
  <1>2. q[o + i].n < q[o + j].n
    BY <1>1 DEF Rising
  <1> QED BY <1>2

LEMMA RisingAppend ==
    ASSUME NEW n \in Nat, NEW q \in Seq(Samples(n)), Rising(q), NEW x, x.n = n + 1
    PROVE  /\ Rising(Append(q, x))
           /\ \A i \in DOMAIN Append(q, x) :
                 \/ Append(q, x)[i].n = n + 1
                 \/ i \in DOMAIN q /\ Append(q, x)[i] = q[i]
  <1> DEFINE l == Len(q)
             p == Append(q, x)
  <1>1. l \in Nat /\ DOMAIN q = 1 .. l /\ \A i \in 1 .. l : q[i] \in Samples(n)
    BY LenProperties
  <1>2. /\ DOMAIN p = 1 .. (l + 1) /\ p[l + 1] = x
        /\ \A i \in 1 .. l : p[i] = q[i]
    <2> DEFINE S == Samples(n) \cup {x}
    <2>1. q \in Seq(S) /\ x \in S
      BY SeqMonotonic
    <2> HIDE DEF S
    <2>2. p \in Seq(S) /\ Len(p) = l + 1 /\ (\A i \in 1 .. l : p[i] = q[i]) /\ p[l + 1] = x
      BY <2>1, AppendProperties
    <2> HIDE DEF p
    <2>3. DOMAIN p = 1 .. Len(p)
      BY <2>2, LenProperties
    <2> QED BY <2>2, <2>3
  <1> HIDE DEF l, p
  <1>3. \A i \in 1 .. l : q[i].n \in 1 .. n
    BY <1>1 DEF Samples
  <1>4. \A i \in DOMAIN p : (i = l + 1 /\ p[i].n = n + 1) \/ (i \in DOMAIN q /\ p[i] = q[i])
    BY <1>1, <1>2
  <1>5. ASSUME NEW i \in DOMAIN p, NEW j \in DOMAIN p, i < j PROVE p[i].n < p[j].n
    <2>1. i \in 1 .. l
      BY <1>1, <1>2, <1>5
    <2>2. CASE j \in 1 .. l
      BY <1>1, <1>2, <1>5, <2>1, <2>2 DEF Rising
    <2>3. CASE j = l + 1
      BY <1>2, <1>3, <2>1, <2>3
    <2> QED BY <1>1, <1>2, <2>2, <2>3
  <1> QED BY <1>4, <1>5 DEF Rising, p

\* What a step leaves in the caches: new samples, old ones of the same reader
\* and, for a reader it makes, those from before it came.
SameReader(id) ==
    id \in DOMAIN readers /\ readers'[id].topic = readers[id].topic
                          /\ readers'[id].qos = readers[id].qos

NewWithHistory(id) == id = next_reader_id /\ RR!KeyOf(id)' \in KeysWithHistory

Aged ==
    /\ samples_made' >= samples_made
    /\ CachesRise'
    /\ \A id \in DOMAIN readers' : \A k \in DOMAIN dds'[id].samples :
          \/ dds'[id].samples[k].n > samples_made
          \/ NewWithHistory(id)
          \/ /\ SameReader(id)
             /\ \E j \in DOMAIN dds[id].samples : dds'[id].samples[k].n = dds[id].samples[j].n

\* The reader ids given out so far stay given out.
LEMMA IdsGrow ==
    ASSUME RRP!Registry, [Next]_vars
    PROVE  next_reader_id \in Nat /\ next_reader_id' \in Nat /\ next_reader_id' >= next_reader_id
  <1>1. next_reader_id \in Nat
    BY DEF RRP!Registry, RRP!TypeOK
  <1>2. ASSUME NEW s, RR!Acts(s)
        PROVE  next_reader_id' = next_reader_id \/ next_reader_id' = next_reader_id + 1
    BY <1>2 DEF RR!Acts, RR!subscribe, RR!SubscribeShared, RR!SubscribeNew, RR!unsubscribe,
                RR!remove_session, RR!Leave
  <1> QED BY <1>1, <1>2, ReaderSteps DEF RR!Next, RR!vars

\* A cache and one more sample.
LEMMA WithRises ==
    ASSUME samples_made \in Nat, NEW c \in Caches(samples_made), Rising(c.samples),
           NEW v, NEW state
    PROVE  /\ Rising(With(c, v, state).samples)
           /\ \A k \in DOMAIN With(c, v, state).samples :
                 \/ With(c, v, state).samples[k].n > samples_made
                 \/ \E j \in DOMAIN c.samples :
                       With(c, v, state).samples[k].n = c.samples[j].n
  <1> DEFINE made == samples_made
             x == [n |-> made + 1, valid |-> v]
             q == c.samples
             p == Append(q, x)
             r == LastOf(p, CacheDepth)
             S == Samples(made) \cup {x}
  <1>1. q \in Seq(Samples(made)) /\ Rising(q)
    BY DEF Caches, Samples
  <1>2. With(c, v, state).samples = r
    BY DEF With
  <1>3. x.n = made + 1 /\ made \in Nat /\ made + 1 > made
    OBVIOUS
  <1>4. p \in Seq(S)
    <2>1. q \in Seq(S) /\ x \in S
      BY <1>1, SeqMonotonic
    <2> HIDE DEF S, x
    <2> QED BY <2>1, AppendProperties
  <1> HIDE DEF made, x, q
  <1>5. /\ Rising(p)
        /\ \A i \in DOMAIN p : p[i].n = made + 1 \/ (i \in DOMAIN q /\ p[i] = q[i])
    BY <1>1, <1>3, RisingAppend
  <1>6. CacheDepth \in Nat
    BY BridgeConstants
  <1> HIDE DEF p, S
  <1>7. DOMAIN r \subseteq Nat /\ \E o \in Nat : \A i \in DOMAIN r :
           o + i \in DOMAIN p /\ r[i] = p[o + i]
    BY <1>4, <1>6, LastOfSeq
  <1> HIDE DEF r
  <1>8. PICK o \in Nat : \A i \in DOMAIN r : o + i \in DOMAIN p /\ r[i] = p[o + i]
    BY <1>7
  <1>9. Rising(r)
    BY <1>5, <1>7, <1>8, RisingShifted
  <1>10. \A i \in DOMAIN r : r[i].n > made \/ \E j \in DOMAIN q : r[i].n = q[j].n
    BY <1>3, <1>5, <1>8
  <1> QED BY <1>2, <1>9, <1>10 DEF made, q

\* A reader that was not there is the next one, for the request that made it.
LEMMA NewReaders ==
    ASSUME [Next]_vars, NEW new, Starts(new), CachesFollowReaders(new), new # EmptyCache,
           NEW id \in DOMAIN readers', id \notin DOMAIN readers
    PROVE  NewWithHistory(id)
  <1>1. PICK s \in Sessions, t \in Topics, q \in QosSets :
           /\ <<s, t, q>> \in SubscribeRequests /\ RR!subscribe(s, t, q) /\ Durable(q)
    BY DEF Starts
  <1>2. RR!SubscribeNew(s, t, q)
    <2>1. CASE RR!SubscribeShared(s, t, q)
      BY <2>1 DEF RR!SubscribeShared
    <2> QED BY <1>1, <2>1 DEF RR!subscribe
  <1>3. id = next_reader_id /\ readers'[id] = RR!DdsReader(t, q, {s})
    BY <1>2 DEF RR!SubscribeNew, RR!insert
  <1>4. RR!KeyOf(id)' = RR!ReaderKey(t, q)
    BY <1>3 DEF RR!DdsReader, RR!KeyOf, RR!ReaderKey
  <1>5. RR!ReaderKey(t, q) \in KeysWithHistory
    <2> DEFINE rq == <<s, t, q>>
    <2>1. rq[2] = t /\ rq[3] = q
      OBVIOUS
    <2>2. rq \in {o \in SubscribeRequests : Durable(o[3])}
      BY <1>1, <2>1
    <2> HIDE DEF rq
    <2> QED BY <2>1, <2>2 DEF KeysWithHistory
  <1> QED BY <1>3, <1>4, <1>5 DEF NewWithHistory

LEMMA FollowedAged ==
    ASSUME RRP!Registry, WorldTyped, CachesRise, [Next]_vars, Follows, UNCHANGED samples_made
    PROVE  Aged
  <1>0. PICK new : Starts(new) /\ CachesFollowReaders(new)
    BY DEF Follows
  <1>1. [RRP!Next]_RRP!vars
    BY ReaderSteps, SameReaderActs DEF RR!Next, RRP!Next, RR!vars, RRP!vars
  <1>2. \A id \in DOMAIN readers : id \in DOMAIN readers' =>
           readers'[id].topic = readers[id].topic /\ readers'[id].qos = readers[id].qos
    BY <1>1, RegistryFacts, RRP!ReadersKeepKeys
  <1>3. samples_made \in Nat /\ DOMAIN dds = DOMAIN readers
    BY DEF WorldTyped
  <1>4. DOMAIN <<>> = {} /\ Rising(<<>>)
    <2>1. DOMAIN <<>> = {}
      OBVIOUS
    <2> QED BY <2>1 DEF Rising
  <1>5. Rising(new.samples)
    <2>1. CASE new = EmptyCache
      <3>1. new.samples = <<>>
        BY <2>1 DEF EmptyCache
      <3> QED BY <1>4, <3>1
    <2>2. ASSUME NEW t \in Topics, new = history[t] PROVE Rising(new.samples)
      BY <2>2 DEF CachesRise
    <2> QED BY <1>0, <2>1, <2>2 DEF Starts
  <1>6. ASSUME NEW id \in DOMAIN readers'
        PROVE  \/ SameReader(id) /\ dds'[id] = dds[id]
               \/ id \notin DOMAIN readers /\ dds'[id] = new
    BY <1>0, <1>2, <1>3 DEF CachesFollowReaders, SameReader
  <1>7. CachesRise'
    <2>1. \A id \in DOMAIN readers' : Rising(dds'[id].samples)
      BY <1>5, <1>6 DEF CachesRise, SameReader
    <2>2. \A t \in Topics : Rising(history'[t].samples)
      BY <1>0 DEF CachesFollowReaders, CachesRise
    <2> QED BY <2>1, <2>2 DEF CachesRise, Rising
  <1>8. ASSUME NEW id \in DOMAIN readers', NEW k \in DOMAIN dds'[id].samples
        PROVE  \/ NewWithHistory(id)
               \/ /\ SameReader(id)
                  /\ \E j \in DOMAIN dds[id].samples : dds'[id].samples[k].n = dds[id].samples[j].n
    <2>1. CASE SameReader(id) /\ dds'[id] = dds[id]
      BY <2>1
    <2>2. CASE id \notin DOMAIN readers /\ dds'[id] = new
      <3>1. new # EmptyCache
        BY <1>4, <1>8, <2>2 DEF EmptyCache
      <3> QED BY <1>0, <2>2, <3>1, NewReaders
    <2> QED BY <1>6, <2>1, <2>2
  <1> QED BY <1>3, <1>7, <1>8 DEF Aged

LEMMA ArrivalAged ==
    ASSUME WorldTyped, CachesRise, NEW t, NEW v, NEW state,
           Arrives(t, v, state), UNCHANGED rr
    PROVE  Aged
  <1> DEFINE made == samples_made
  <1>1. /\ made \in Nat /\ samples_made' = made + 1 /\ readers' = readers
        /\ DOMAIN dds = DOMAIN readers /\ DOMAIN history = Topics
    BY DEF WorldTyped, Arrives, rr
  <1>2. ASSUME NEW id \in DOMAIN readers
        PROVE  /\ Rising(dds'[id].samples)
               /\ \A k \in DOMAIN dds'[id].samples :
                     \/ dds'[id].samples[k].n > made
                     \/ \E j \in DOMAIN dds[id].samples :
                           dds'[id].samples[k].n = dds[id].samples[j].n
    <2>1. dds[id] \in Caches(made) /\ Rising(dds[id].samples)
      BY DEF WorldTyped, CachesRise
    <2>2. dds'[id] = dds[id] \/ dds'[id] = With(dds[id], v, state)
      BY <1>1 DEF Arrives
    <2> QED BY <1>1, <2>1, <2>2, WithRises
  <1>3. ASSUME NEW u \in Topics PROVE Rising(history'[u].samples)
    <2>1. history[u] \in Caches(made) /\ Rising(history[u].samples)
      BY DEF WorldTyped, CachesRise
    <2>2. history'[u] = history[u] \/ history'[u] = With(history[u], v, state)
      BY <1>1 DEF Arrives
    <2> QED BY <1>1, <2>1, <2>2, WithRises
  <1>4. CachesRise'
    BY <1>1, <1>2, <1>3 DEF CachesRise, Rising
  <1>5. \A id \in DOMAIN readers : SameReader(id)
    BY <1>1 DEF SameReader
  <1>6. samples_made' >= samples_made
    BY <1>1
  <1> QED BY <1>1, <1>2, <1>4, <1>5, <1>6 DEF Aged

\* What a poll leaves in a cache.
LEMMA LeftInCache ==
    ASSUME WorldTyped, NEW id \in DOMAIN readers, NEW m \in Nat,
           NEW q, q = dds[id].samples, NEW p, p = NotTaken(id, m)
    PROVE  /\ DOMAIN p \subseteq Nat \ {0}
           /\ \A k \in DOMAIN p : m + k \in DOMAIN q /\ p[k] = q[m + k]
  <1>1. dds[id] \in Caches(samples_made)
    BY DEF WorldTyped
  <1> DEFINE S == Samples(samples_made)
  <1>2. q \in Seq(S) /\ p = SubSeq(q, m + 1, Len(q))
    BY <1>1 DEF Caches, Samples, NotTaken
  <1> HIDE DEF S
  <1>3. /\ p \in Seq(S)
        /\ \A i \in DOMAIN p : m + i \in DOMAIN q /\ p[i] = q[m + i]
    BY <1>2, EndOfSeq
  <1>4. DOMAIN p \subseteq Nat \ {0}
    BY <1>3, LenProperties
  <1> QED BY <1>3, <1>4

LEMMA PollAged ==
    ASSUME RRP!Registry, WorldTyped, CachesRise, PollTake
    PROVE  Aged
  <1>1. PICK n : /\ \A id \in DOMAIN readers : n[id] \in Nat
                 /\ dds' = [id \in DOMAIN dds |->
                              [dds[id] EXCEPT !.samples = NotTaken(id, n[id])]]
    BY PollTakes
  <1>2. samples_made' = samples_made /\ readers' = readers /\ samples_made \in Nat
        /\ DOMAIN dds = DOMAIN readers /\ history' = history
    BY PollTakes DEF rr, WorldTyped
  <1>3. ASSUME NEW id \in DOMAIN readers
        PROVE  /\ Rising(dds'[id].samples)
               /\ \A k \in DOMAIN dds'[id].samples : \E j \in DOMAIN dds[id].samples :
                     dds'[id].samples[k].n = dds[id].samples[j].n
    <2> DEFINE q == dds[id].samples
               p == dds'[id].samples
               m == n[id]
    <2>1. m \in Nat /\ Rising(q)
      BY <1>1 DEF CachesRise
    <2>2. p = NotTaken(id, m)
      <3>1. dds[id] \in Caches(samples_made) /\ id \in DOMAIN dds
        BY <1>2 DEF WorldTyped
      <3> QED BY <1>1, <3>1 DEF Caches
    <2>3. q = dds[id].samples
      OBVIOUS
    <2> HIDE DEF p, q, m
    <2>4. /\ DOMAIN p \subseteq Nat \ {0}
          /\ \A k \in DOMAIN p : m + k \in DOMAIN q /\ p[k] = q[m + k]
      BY <2>1, <2>2, <2>3, LeftInCache
    <2>5. Rising(p)
      BY <2>1, <2>4, RisingShifted
    <2> QED BY <2>4, <2>5 DEF p, q
  <1>4. CachesRise'
    BY <1>2, <1>3 DEF CachesRise, Rising
  <1>5. \A id \in DOMAIN readers : SameReader(id)
    BY <1>2 DEF SameReader
  <1> QED BY <1>2, <1>3, <1>4, <1>5 DEF Aged

LEMMA CachesAge ==
    ASSUME RRP!Registry, WorldTyped, CachesRise, [Next]_vars PROVE Aged
  <1>1. CASE UNCHANGED <<readers, dds, history, samples_made>>
    BY <1>1 DEF Aged, SameReader, CachesRise, WorldTyped
  <1>2. ASSUME NEW s \in Sessions, FanOut(s) PROVE UNCHANGED <<readers, dds, history, samples_made>>
    BY <1>2 DEF FanOut, rr
  <1>3. ASSUME UNCHANGED <<readers, dds, history, samples_made, pending>>
        PROVE  UNCHANGED <<readers, dds, history, samples_made>>
    BY <1>3
  <1> QED BY <1>1, <1>2, <1>3, WorldForms, FollowedAged, ArrivalAged, PollAged

\* What a session gets through its bridge channel are notifications.
LEMMA ReachedTyped ==
    ASSUME Typed, NEW s \in Sessions, NEW b \in Reached(s)
    PROVE  b \in Notices
  <1> DEFINE p == Sent(s)
  <1>1. p \in Seq(Messages) /\ pending \in Seq(Entries)
    BY PathsTyped DEF Typed, WorldTyped
  <1>2. ASSUME NEW i \in Due(s), b = pending[i].body PROVE b \in Notices
    <2>1. i \in 1 .. Len(pending)
      BY <1>1, LenProperties DEF Due
    <2>2. pending[i] \in Entries
      BY <1>1, <2>1, ElementOfSeq
    <2> QED BY <1>2, <2>2 DEF Entries
  <1> HIDE DEF p
  <1>3. ASSUME NEW i \in SS!At("bridge", p), b = p[i].body PROVE b \in Notices
    <2>1. i \in 1 .. Len(p) /\ p[i].via = "bridge"
      BY <1>1, LenProperties DEF SS!At
    <2>2. p[i] \in Messages
      BY <1>1, <2>1, ElementOfSeq
    <2> QED BY <1>3, <2>1, <2>2 DEF Messages, ReplyMessages, BridgeMessages
  <1> QED BY <1>2, <1>3 DEF Reached, p

\* No step but a poll lets a session see more than it could.
LEMMA StreamsKeepUp ==
    ASSUME Delivered, Typed', [Next]_vars, Streams
    PROVE  Delivered'
  <1>1. Aged
    BY CachesAge DEF Delivered, Typed
  <1>2. SamplesInOrder' /\ CachesRise'
    BY <1>1 DEF Streams, Aged
  <1>3. samples_made \in Nat /\ samples_made' \in Nat /\ samples_made' >= samples_made
    BY <1>1 DEF Aged, Delivered, Typed, WorldTyped
  <1>4. \A s \in Sessions : \A b \in Reached(s) :
           b.from.sample \in Nat /\ b.from.reader \in Nat
    BY ReachedTyped DEF Delivered, Notices, Origins
  <1>7. /\ next_reader_id \in Nat /\ next_reader_id' \in Nat
        /\ next_reader_id' >= next_reader_id
    BY IdsGrow DEF Delivered, Typed
  <1>5. Known'
    <2> SUFFICES ASSUME NEW s \in Sessions, NEW b \in Reached(s)'
                 PROVE  /\ b.from.sample <= samples_made'
                        /\ b.from.sample > 0 => b.from.reader < next_reader_id'
      BY DEF Known
    <2>1. CASE b.from.sample = 0
      BY <1>3, <2>1
    <2>2. CASE b \in Reached(s)
      <3>1. /\ b.from.sample <= samples_made
            /\ b.from.sample > 0 => b.from.reader < next_reader_id
        BY <2>2 DEF Delivered, Known
      <3> QED BY <1>3, <1>4, <1>7, <2>2, <3>1
    <2> QED BY <2>1, <2>2 DEF Streams
  <1>6. Behind'
    <2> SUFFICES ASSUME NEW s \in Sessions, NEW id \in DOMAIN readers',
                        NEW b \in Reached(s)', NEW k \in DOMAIN dds'[id].samples,
                        b.from.sample > 0,
                        \/ b.from.reader = id
                        \/ b.from.key = RR!KeyOf(id)' /\ b.from.key \notin KeysWithHistory
                 PROVE  b.from.sample < dds'[id].samples[k].n
      BY DEF Behind, Precedes
    <2>1. dds'[id].samples[k].n \in 1 .. samples_made'
      <3> DEFINE q == dds'[id].samples
      <3>1. q \in Seq(Samples(samples_made'))
        BY DEF Typed, WorldTyped, Caches, Samples
      <3> HIDE DEF q
      <3>2. DOMAIN q = 1 .. Len(q)
        BY <3>1, LenProperties
      <3>3. q[k] \in Samples(samples_made')
        BY <3>1, <3>2, ElementOfSeq DEF q
      <3> QED BY <3>3 DEF q, Samples
    <2>2. CASE b.from.sample = 0
      BY <1>3, <2>1, <2>2
    <2>3. CASE b \in Reached(s)
      <3>0. /\ b.from.sample <= samples_made /\ b.from.sample \in Nat
            /\ b.from.reader < next_reader_id /\ b.from.reader \in Nat
        BY <1>4, <2>3 DEF Delivered, Known
      <3>1. CASE dds'[id].samples[k].n > samples_made
        BY <1>3, <2>1, <3>0, <3>1
      <3>2. ASSUME SameReader(id),
                   NEW j \in DOMAIN dds[id].samples,
                   dds'[id].samples[k].n = dds[id].samples[j].n
            PROVE  b.from.sample < dds'[id].samples[k].n
        <4>1. id \in DOMAIN readers /\ RR!KeyOf(id)' = RR!KeyOf(id)
          BY <3>2 DEF SameReader, RR!KeyOf
        <4>2. Precedes(b, id)
          BY <4>1 DEF Precedes
        <4> QED BY <2>3, <3>2, <4>1, <4>2 DEF Delivered, Behind
      <3>3. ~NewWithHistory(id)
        BY <1>7, <3>0 DEF NewWithHistory
      <3> QED BY <1>1, <3>1, <3>2, <3>3 DEF Aged
    <2> QED BY <2>2, <2>3 DEF Streams
  <1> QED BY <1>2, <1>5, <1>6 DEF Delivered

\* What a poll adds to what a session gets.
TakenFor(s, b, n, x) ==
    /\ x \in Taken(n)
    /\ s \in Receivers(x[1])
    /\ b = sample_to_message(x[1], x[2])

LEMMA PollKeepsUp ==
    ASSUME Delivered, Typed', PollTake, UNCHANGED traffic
    PROVE  Delivered'
  <1>0. RRP!Registry /\ WorldTyped
    BY DEF Delivered, Typed
  <1>1. PICK n, q, l :
           /\ l \in Nat /\ DOMAIN q = 1 .. l /\ \A i \in 1 .. l : q[i] \in Taken(n)
           /\ \A id \in DOMAIN readers : n[id] \in Nat
           /\ ReaderByReader(q)
           /\ pending' = [i \in 1 .. l |->
                            [body |-> sample_to_message(q[i][1], q[i][2]),
                             to |-> Receivers(q[i][1])]]
           /\ dds' = [id \in DOMAIN dds |-> [dds[id] EXCEPT !.samples = NotTaken(id, n[id])]]
    BY <1>0, PollTakes
  <1>2. /\ pending = <<>> /\ samples_made' = samples_made /\ readers' = readers
        /\ next_reader_id' = next_reader_id
        /\ DOMAIN dds = DOMAIN readers /\ samples_made \in Nat
    BY <1>0, PollTakes DEF rr, WorldTyped
  <1>3. CachesRise'
    BY <1>0, PollAged DEF Aged, Delivered
  <1>4. \A s : Sent(s)' = Sent(s) /\ Due(s) = {}
    BY <1>2 DEF traffic, Sent, Due
  <1>5. ASSUME NEW s, NEW i \in Due(s)'
        PROVE  i \in 1 .. l /\ TakenFor(s, pending'[i].body, n, q[i])
    <2>1. i \in 1 .. l /\ s \in pending'[i].to
      BY <1>1 DEF Due
    <2> QED BY <1>1, <2>1 DEF TakenFor
  <1>6. ASSUME NEW s, NEW b, NEW x, TakenFor(s, b, n, x)
        PROVE  /\ x[1] \in DOMAIN readers /\ x[2] \in DOMAIN dds[x[1]].samples
               /\ x[2] \in Nat /\ x[2] <= n[x[1]]
               /\ b.from.reader = x[1] /\ b.from.key = RR!KeyOf(x[1])
               /\ b.from.sample = dds[x[1]].samples[x[2]].n
               /\ b.from.sample \in 1 .. samples_made
    <2>1. /\ x[1] \in DOMAIN readers /\ x[2] \in DOMAIN dds[x[1]].samples
          /\ x[2] \in Nat /\ x[2] <= n[x[1]]
          /\ dds[x[1]].samples[x[2]] \in Samples(samples_made)
          /\ b.from = [reader |-> x[1], key |-> RR!KeyOf(x[1]),
                       sample |-> dds[x[1]].samples[x[2]].n]
      BY <1>0, <1>6, TakenEntry DEF TakenFor
    <2>2. b.from.sample \in 1 .. samples_made
      BY <2>1 DEF Samples
    <2> QED BY <2>1, <2>2
  <1>7. ASSUME NEW s, NEW b, NEW x, TakenFor(s, b, n, x), NEW id \in DOMAIN readers,
               b.from.reader = id \/ b.from.key = RR!KeyOf(id)
        PROVE  x[1] = id
    <2>1. x[1] \in DOMAIN readers /\ (x[1] = id \/ RRP!KeyOf(x[1]) = RRP!KeyOf(id))
      BY <1>6, <1>7, SameKeyOf
    <2> QED BY <1>0, <2>1 DEF RRP!Registry, RRP!KeysMatchReaders
  <1>8. ASSUME NEW s \in Sessions PROVE InOrder(Sent(s)', pending', Due(s)')
    <2>1. InOrder(Sent(s), pending, Due(s))
      BY InOrderIs DEF Delivered
    <2>2. ASSUME NEW i \in Due(s)', NEW j \in Due(s)', i < j
          PROVE  Older(pending'[i].body, pending'[j].body)
      <3> DEFINE x == q[i]
                 y == q[j]
                 b == pending'[i].body
                 c == pending'[j].body
      <3>1. TakenFor(s, b, n, x) /\ TakenFor(s, c, n, y) /\ i \in 1 .. l /\ j \in 1 .. l
        BY <1>5
      <3>2. x[1] = y[1] => x[2] < y[2]
        BY <1>1, <2>2, <3>1 DEF ReaderByReader
      <3> HIDE DEF x, y, b, c
      <3>3. ASSUME b.from.reader = c.from.reader \/ b.from.key = c.from.key
            PROVE  b.from.sample < c.from.sample
        <4>1. x[1] = y[1]
          BY <1>6, <1>7, <3>1, <3>3
        <4>2. /\ b.from.sample = dds[x[1]].samples[x[2]].n /\ x[2] \in DOMAIN dds[x[1]].samples
              /\ c.from.sample = dds[x[1]].samples[y[2]].n /\ y[2] \in DOMAIN dds[x[1]].samples
              /\ x[1] \in DOMAIN readers
          BY <1>6, <3>1, <4>1
        <4> QED BY <3>2, <4>1, <4>2 DEF Delivered, CachesRise, Rising
      <3> QED BY <3>3 DEF Older, b, c
    <2>3. ASSUME NEW i \in SS!At("bridge", Sent(s)), NEW j \in Due(s)'
          PROVE  Older(Sent(s)[i].body, pending'[j].body)
      <3> DEFINE a == Sent(s)[i].body
                 x == q[j]
                 b == pending'[j].body
      <3>1. TakenFor(s, b, n, x) /\ a \in Reached(s)
        BY <1>5 DEF Reached
      <3> HIDE DEF x, a, b
      <3>2. /\ x[1] \in DOMAIN readers /\ x[2] \in DOMAIN dds[x[1]].samples
            /\ b.from.reader = x[1] /\ b.from.key = RR!KeyOf(x[1])
            /\ b.from.sample = dds[x[1]].samples[x[2]].n
        BY <1>6, <3>1
      <3>3. Precedes(a, x[1]) => a.from.sample < b.from.sample
        BY <3>1, <3>2 DEF Delivered, Behind
      <3>4. Older(a, b)
        BY <3>2, <3>3 DEF Older, Precedes
      <3> QED BY <3>4 DEF a, b
    <2> QED BY <1>4, <2>1, <2>2, <2>3 DEF InOrder
  <1>9. ASSUME NEW s \in Sessions, NEW b \in Reached(s)'
        PROVE  b \in Reached(s) \/ \E x : TakenFor(s, b, n, x)
    <2>1. \/ \E i \in SS!At("bridge", Sent(s)') : b = Sent(s)'[i].body
          \/ \E i \in Due(s)' : b = pending'[i].body
      BY InOrderWillBe DEF Carried
    <2>2. CASE \E i \in SS!At("bridge", Sent(s)') : b = Sent(s)'[i].body
      BY <1>4, <2>2 DEF Reached
    <2>3. CASE \E i \in Due(s)' : b = pending'[i].body
      BY <1>5, <2>3
    <2> QED BY <2>1, <2>2, <2>3
  <1>14. \A id \in DOMAIN readers : id < next_reader_id
    BY <1>0 DEF RRP!Registry, RRP!TypeOK
  <1>10. Known'
    <2> SUFFICES ASSUME NEW s \in Sessions, NEW b \in Reached(s)'
                 PROVE  /\ b.from.sample <= samples_made
                        /\ b.from.sample > 0 => b.from.reader < next_reader_id
      BY <1>2 DEF Known
    <2>1. CASE b \in Reached(s)
      BY <2>1 DEF Delivered, Known
    <2>2. ASSUME NEW x, TakenFor(s, b, n, x)
          PROVE  b.from.sample <= samples_made /\ b.from.reader < next_reader_id
      <3>1. b.from.reader = x[1] /\ x[1] \in DOMAIN readers /\ b.from.sample \in 1 .. samples_made
        BY <1>6, <2>2
      <3> QED BY <1>2, <1>14, <3>1
    <2> QED BY <1>9, <2>1, <2>2
  <1>13. ASSUME NEW id \in DOMAIN readers, NEW k \in DOMAIN dds'[id].samples
         PROVE  /\ k \in Nat /\ k > 0 /\ n[id] + k \in DOMAIN dds[id].samples
                /\ dds'[id].samples[k].n = dds[id].samples[n[id] + k].n
    <2> DEFINE r == dds[id].samples
               p == dds'[id].samples
               m == n[id]
    <2>1. m \in Nat /\ p = NotTaken(id, m)
      <3>1. dds[id] \in Caches(samples_made) /\ id \in DOMAIN dds
        BY <1>0, <1>2 DEF WorldTyped
      <3> QED BY <1>1, <3>1 DEF Caches
    <2>2. r = dds[id].samples /\ k \in DOMAIN p
      OBVIOUS
    <2> HIDE DEF p, r, m
    <2>3. /\ DOMAIN p \subseteq Nat \ {0}
          /\ \A i \in DOMAIN p : m + i \in DOMAIN r /\ p[i] = r[m + i]
      BY <1>0, <2>1, <2>2, LeftInCache
    <2> QED BY <2>2, <2>3 DEF p, r, m
  <1>11. Behind'
    <2> SUFFICES ASSUME NEW s \in Sessions, NEW id \in DOMAIN readers,
                        NEW b \in Reached(s)', NEW k \in DOMAIN dds'[id].samples,
                        Precedes(b, id)
                 PROVE  b.from.sample < dds'[id].samples[k].n
      BY <1>2 DEF Behind, Precedes, RR!KeyOf
    <2> DEFINE r == dds[id].samples
               m == n[id]
    <2>1. m \in Nat /\ Rising(r)
      BY <1>1 DEF Delivered, CachesRise
    <2>2. k \in Nat /\ k > 0 /\ m + k \in DOMAIN r /\ dds'[id].samples[k].n = r[m + k].n
      BY <1>13
    <2> HIDE DEF m, r
    <2>3. CASE b \in Reached(s)
      BY <2>2, <2>3 DEF Delivered, Behind, r
    <2>4. ASSUME NEW x, TakenFor(s, b, n, x) PROVE b.from.sample < r[m + k].n
      <3>1. x[1] \in DOMAIN readers
            /\ x[2] \in DOMAIN dds[x[1]].samples /\ x[2] \in Nat /\ x[2] <= n[x[1]]
            /\ b.from.sample = dds[x[1]].samples[x[2]].n
        BY <1>6, <2>4
      <3>2. x[1] = id
        BY <1>7, <2>4 DEF Precedes
      <3>3. x[2] \in DOMAIN r /\ x[2] < m + k /\ b.from.sample = r[x[2]].n
        BY <2>1, <2>2, <3>1, <3>2 DEF m, r
      <3> QED BY <2>1, <2>2, <3>3 DEF Rising
    <2> QED BY <1>9, <2>2, <2>3, <2>4
  <1>12. SamplesInOrder'
    BY <1>8, InOrderWillBe
  <1> QED BY <1>3, <1>10, <1>11, <1>12 DEF Delivered

LEMMA DeliveredInit == Init => Delivered
  <1> SUFFICES ASSUME Init PROVE Delivered
    OBVIOUS
  <1>1. ASSUME NEW s \in Sessions PROVE Sent(s) = <<>> /\ Due(s) = {}
    <2>1. wire[s] = <<>> /\ inflight[s] = <<>> /\ bridge_ch[s] = <<>> /\ pending = <<>>
      BY DEF Init, SS!Init
    <2>2. <<>> \o <<>> = <<>>
      OBVIOUS
    <2> QED BY <2>1, <2>2 DEF Sent, Due
  <1>2. \A s \in Sessions : SS!At("bridge", Sent(s)) = {} /\ Due(s) = {}
    BY <1>1 DEF SS!At
  <1>3. SamplesInOrder /\ Known /\ Behind
    BY <1>2 DEF SamplesInOrder, Known, Behind, Reached
  <1>4. CachesRise
    BY DEF Init, RR!Init, RR!EmptyMap, CachesRise, EmptyCache, Rising
  <1> QED BY <1>3, <1>4, TypedInit DEF Delivered

\* bridge.rs:484-545, for arbitrary clients: a session gets the samples of one
\* reader, and of those that take its place as long as it is not durable, in the
\* order they arrived in DDS and none twice: through dds_take, the copy of the
\* senders, the fan-out without the mutex, the channel and the writer task.
THEOREM SamplesAlwaysInOrder == Spec => []SamplesInOrder
  <1>1. Delivered /\ [Next]_vars => Delivered'
    <2> SUFFICES ASSUME Delivered, [Next]_vars PROVE Delivered'
      OBVIOUS
    <2>1. Typed'
      BY TypedStep DEF Delivered
    <2>2. Streams \/ (PollTake /\ UNCHANGED traffic)
      BY OtherStreams DEF Delivered
    <2> QED BY <2>1, <2>2, StreamsKeepUp, PollKeepsUp
  <1>2. Delivered => SamplesInOrder
    BY DEF Delivered
  <1> QED BY <1>1, <1>2, DeliveredInit, PTL DEF Spec
-----------------------------------------------------------------------------
(* The sessions of the bridge.  They are not those of Session alone: one   *)
(* step answers a client and offers to many others, and the poll loop      *)
(* offers to sessions that are gone.  What keeps each of them in order is  *)
(* the same.                                                               *)

SP == INSTANCE Session_proofs WITH Bodies <- Answers \cup Notices

\* The assumption Session makes on its constants.
LEMMA SessionFacts ==
    BufferSize \in Nat \ {0} /\ MaxReplies \in [Sessions -> Nat] /\ MaxOffers \in Nat
  BY BridgeConstants

LEMMA SessionsInit == Init => SP!Delivery
  BY SessionFacts, SP!DeliveryInit DEF Init, SS!Init, SP!Init

LEMMA SameReply ==
    ASSUME NEW s, NEW bodies, SS!Reply(s, bodies) PROVE SP!Reply(s, bodies)
  BY DEF SS!Reply, SP!Reply, SS!Reading, SP!Reading, SS!Message, SP!Message

LEMMA SameTrySend ==
    ASSUME NEW times, NEW body, SS!try_send(times, body) PROVE SP!try_send(times, body)
  BY DEF SS!try_send, SP!try_send, SS!Taken, SP!Taken, SS!Message, SP!Message

LEMMA SameStep ==
    ASSUME NEW s, Moving(s) PROVE SP!Step(s)
  <1>1. SS!Idle(s) <=> SP!Idle(s)
    BY DEF SS!Idle, SP!Idle
  <1>2. /\ SS!PushReply(s) => SP!PushReply(s)
        /\ SS!PushFails(s) => SP!PushFails(s)
        /\ SS!SendOk(s) => SP!SendOk(s)
        /\ SS!SendFails(s) => SP!SendFails(s)
    BY DEF SS!PushReply, SP!PushReply, SS!PushFails, SP!PushFails, SS!SendOk, SP!SendOk,
           SS!SendFails, SP!SendFails, SS!chans, SP!chans
  <1>3. /\ SS!RecvBridge(s) => SP!RecvBridge(s)
        /\ SS!RecvResp(s) => SP!RecvResp(s)
    BY <1>1 DEF SS!RecvBridge, SP!RecvBridge, SS!RecvResp, SP!RecvResp
  <1> QED BY <1>2, <1>3 DEF Moving, SP!Step

LEMMA SessionsStep ==
    ASSUME Typed, SP!Delivery, [Next]_vars
    PROVE  SP!Delivery'
  <1>1. ASSUME NEW s \in Sessions, Answering(s) PROVE SP!Delivery'
    <2>1. PICK type \in AnswerTypes, rq \in ClientOps[s] : answer(s, type, rq)
      BY <1>1 DEF Answering
    <2> DEFINE bodies == <<Answer(type, rq)>>
    <2>2. bodies \in Seq(Answers \cup Notices)
      BY DEF Answer, Answers
    <2>3. /\ SS!Reply(s, bodies)
          /\ UNCHANGED <<resp_ch, bridge_ch, inflight, writer, wire, offered>>
      BY <2>1 DEF answer, Quiet
    <2> HIDE DEF bodies
    <2>4. SP!Reply(s, bodies)
      BY <2>3, SameReply
    <2> QED BY <2>2, <2>3, <2>4, SessionFacts, SP!AnswerKeeps
  <1>2. ASSUME NEW s \in Sessions, Disposing(s) PROVE SP!Delivery'
    <2>1. PICK rq \in ClientOps[s], t \in Topics :
             /\ rq.op \in {"dispose", "write_dispose"}
             /\ resp_with_dispose_notification(s, rq, t)
      BY <1>2 DEF Disposing
    <2> DEFINE note == Notice("DataDisposed", t, Nowhere)
               bodies == <<Answer("Ok", rq)>> \o [i \in 1 .. Lists(t, s) |-> note]
               times == [u \in Sessions |->
                           IF u # s /\ u \in session_senders THEN Lists(t, u) ELSE 0]
    <2>2. /\ SS!Reply(s, bodies) /\ SS!try_send(times, note)
          /\ UNCHANGED <<resp_ch, inflight, writer, wire>>
      BY <2>1 DEF resp_with_dispose_notification, Quiet
    <2>3. note \in Notices /\ note \in Answers \cup Notices
      BY DEF Notice, Notices, Nowhere, Origins
    <2>4. (\A u \in Sessions : times[u] \in Nat) /\ times[s] = 0
      BY ListsNat DEF Typed
    <2>5. bodies \in Seq(Answers \cup Notices)
      <3> HIDE DEF note
      <3> QED BY <2>1, <2>3, ListsNat, DisposeReply DEF Typed
    <2> HIDE DEF bodies, times, note
    <2>6. SP!Reply(s, bodies) /\ SP!try_send(times, note)
      BY <2>2, SameReply, SameTrySend
    <2> QED BY <2>2, <2>3, <2>4, <2>5, <2>6, SessionFacts, SP!AnswerAndOffersKeep
  <1>3. ASSUME NEW s \in Sessions, FanOut(s) PROVE SP!Delivery'
    <2> DEFINE body == Head(pending).body
               times == SS!OnceTo(s)
    <2>1. /\ pending # <<>> /\ SS!try_send(times, body)
          /\ UNCHANGED <<resps, resp_ch, inflight, writer, wire, issued>>
      BY <1>3 DEF FanOut
    <2>2. body \in Answers \cup Notices
      <3>1. Head(pending) \in Entries
        BY <2>1, HeadTailProperties DEF Typed, WorldTyped
      <3> QED BY <3>1 DEF Entries
    <2>3. \A u \in Sessions : times[u] \in Nat
      BY DEF SS!OnceTo
    <2> HIDE DEF times, body
    <2>4. SP!try_send(times, body)
      BY <2>1, SameTrySend
    <2> QED BY <2>1, <2>2, <2>3, <2>4, SessionFacts, SP!OffersKeep
  <1>4. ASSUME NEW s \in Sessions, Moving(s) PROVE SP!Delivery'
    BY <1>4, SameStep, SessionFacts, SP!StepKeeps
  <1>5. ASSUME UNCHANGED traffic PROVE SP!Delivery'
    BY <1>5, SessionFacts, SP!NothingMoves DEF traffic
  <1> QED BY <1>1, <1>2, <1>3, <1>4, <1>5, TrafficForms

\* session.rs:58-65 in the whole bridge: for any clients, with disposes that are
\* told to many sessions in one step, every client gets its replies complete
\* and in order until its connection fails, and the notifications that found
\* room once and in the order offered (bridge.rs:454-464 and 532-551).
THEOREM SessionsAlwaysInOrder == Spec => [](SS!RepliesInOrder /\ SS!NotificationsInOrder)
  <1> DEFINE Inv == Typed /\ SP!Delivery
  <1>1. Init => Inv
    BY TypedInit, SessionsInit
  <1>2. Inv /\ [Next]_vars => Inv'
    BY TypedStep, SessionsStep
  <1>3. Inv => SS!RepliesInOrder /\ SS!NotificationsInOrder
    <2>1. SP!Delivery => SP!RepliesInOrder /\ SP!NotificationsInOrder
      BY SessionFacts, SP!DeliveryReplies, SP!DeliveryNotifications
    <2> QED BY <2>1 DEF SP!RepliesInOrder, SS!RepliesInOrder, SP!NotificationsInOrder,
                        SS!NotificationsInOrder, SP!Ascending, SS!Ascending, SP!Numbers,
                        SS!Numbers, SP!At, SS!At
  <1> QED BY <1>1, <1>2, <1>3, PTL DEF Spec
=============================================================================
