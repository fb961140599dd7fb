------------------------ MODULE ReaderRegistry_proofs ------------------------
(***************************************************************************)
(* Proofs about ReaderRegistry, for every set of sessions, topics, QoS     *)
(* sets and requests.  Registry is the inductive invariant; Followed adds  *)
(* what it means for the clients that use one reader key per topic.        *)
(***************************************************************************)
EXTENDS ReaderRegistry, TLAPS

Registry ==
    /\ TypeOK
    /\ KeysMatchReaders
    /\ NoIdleReader
    /\ SubscriptionsBacked
    /\ SubscribersAsked

Followed == Registry /\ OneKeyTracked

-----------------------------------------------------------------------------
(* The three shapes of step, each described by what it leaves of a reader. *)

\* subscribe on an existing reader adds the session to it and nothing else.
LEMMA SharedLemma ==
    ASSUME Registry, NEW s \in Sessions, NEW t \in Topics, NEW q \in QosSets,
           SubscribeShared(s, t, q)
    PROVE  LET id == key_to_reader[ReaderKey(t, q)]
           IN  /\ id \in DOMAIN readers
               /\ KeyOf(id) = ReaderKey(t, q)
               /\ readers[id].topic = t
               /\ DOMAIN readers' = DOMAIN readers
               /\ readers'[id] \in ReaderType
               /\ readers'[id].topic = readers[id].topic
               /\ readers'[id].qos = readers[id].qos
               /\ readers'[id].subscribers = readers[id].subscribers \cup {s}
               /\ \A j \in DOMAIN readers : j # id => readers'[j] = readers[j]
  <1> DEFINE id == key_to_reader[ReaderKey(t, q)]
  <1>1. id \in DOMAIN readers /\ KeyOf(id) = ReaderKey(t, q)
    BY DEF Registry, KeysMatchReaders, SubscribeShared, Shared
  <1>2. readers[id].topic = t
    BY <1>1 DEF KeyOf, ReaderKey
  <1>3. readers' = [readers EXCEPT ![id].subscribers = @ \cup {s}]
    BY DEF SubscribeShared
  <1>4. readers \in [DOMAIN readers -> ReaderType]
    BY DEF Registry, TypeOK
  <1> HIDE DEF id
  <1>5. /\ DOMAIN readers' = DOMAIN readers
        /\ readers'[id] \in ReaderType
        /\ readers'[id].topic = readers[id].topic
        /\ readers'[id].qos = readers[id].qos
        /\ readers'[id].subscribers = readers[id].subscribers \cup {s}
        /\ \A j \in DOMAIN readers : j # id => readers'[j] = readers[j]
    BY <1>1, <1>3, <1>4 DEF ReaderType
  <1> QED
    BY <1>1, <1>2, <1>5 DEF id

\* What Leave(ids, s) leaves behind: it deletes exactly the readers it empties
\* and takes the session off the other readers it names.
Left(ids, s) ==
    /\ DOMAIN readers' \subseteq DOMAIN readers
    /\ readers' \in [DOMAIN readers' -> ReaderType]
    /\ \A id \in DOMAIN readers \ DOMAIN readers' :
          id \in ids /\ readers[id].subscribers = {s}
    /\ \A id \in DOMAIN readers' :
          /\ readers'[id].topic = readers[id].topic
          /\ readers'[id].qos = readers[id].qos
          /\ readers'[id].subscribers =
               IF id \in ids THEN readers[id].subscribers \ {s}
                             ELSE readers[id].subscribers
          /\ readers'[id].subscribers # {}
    /\ DOMAIN key_to_reader' =
          {k \in DOMAIN key_to_reader : key_to_reader[k] \in DOMAIN readers'}
    /\ key_to_reader' \in [DOMAIN key_to_reader' -> Nat]
    /\ \A k \in DOMAIN key_to_reader' : key_to_reader'[k] = key_to_reader[k]
    /\ next_reader_id' = next_reader_id

\* Leave, of unsubscribe and of remove_session, is described by Left.
LEMMA LeaveLemma ==
    ASSUME Registry, NEW ids, NEW s, Leave(ids, s)
    PROVE  Left(ids, s)
  <1> DEFINE Gone == Emptied(ids, s)
  <1>1. /\ readers \in [DOMAIN readers -> ReaderType]
        /\ \A id \in DOMAIN readers : readers[id] \in ReaderType
    BY DEF Registry, TypeOK
  <1>2. readers' = [id \in DOMAIN readers \ Gone |->
                      IF id \in ids
                      THEN [readers[id] EXCEPT !.subscribers = @ \ {s}]
                      ELSE readers[id]]
    BY DEF Leave
  <1>3. \A id \in Gone : id \in ids /\ id \in DOMAIN readers
                         /\ readers[id].subscribers = {s}
    BY DEF Emptied, Registry, NoIdleReader
  <1>4. \A id \in DOMAIN readers \ Gone :
           readers[id].subscribers # {} /\ (id \in ids => readers[id].subscribers \ {s} # {})
    BY DEF Emptied, Registry, NoIdleReader
  <1>5. DOMAIN readers' = DOMAIN readers \ Gone
    BY <1>2
  <1>6. ASSUME NEW id \in DOMAIN readers'
        PROVE  /\ readers'[id] \in ReaderType
               /\ readers'[id].topic = readers[id].topic
               /\ readers'[id].qos = readers[id].qos
               /\ readers'[id].subscribers =
                    IF id \in ids THEN readers[id].subscribers \ {s}
                                  ELSE readers[id].subscribers
    <2>1. readers[id] \in ReaderType /\ readers[id].subscribers \ {s} \in SUBSET Sessions
      BY <1>1, <1>5 DEF ReaderType
    <2>2. CASE id \in ids
      <3>1. readers'[id] = [readers[id] EXCEPT !.subscribers = readers[id].subscribers \ {s}]
        BY <2>2, <1>2, <1>5
      <3> QED BY <3>1, <2>1, <2>2 DEF ReaderType
    <2>3. CASE id \notin ids
      BY <2>3, <2>1, <1>2, <1>5
    <2> QED BY <2>2, <2>3
  <1>7. \A id \in DOMAIN readers' : readers'[id].subscribers # {}
    BY <1>4, <1>5, <1>6
  <1>8. readers' \in [DOMAIN readers' -> ReaderType]
    <2> QED BY <1>2, <1>5, <1>6
  <1>9. /\ DOMAIN key_to_reader' =
             {k \in DOMAIN key_to_reader : key_to_reader[k] \notin Gone}
        /\ \A k \in DOMAIN key_to_reader' : key_to_reader'[k] = key_to_reader[k]
        /\ key_to_reader' = [k \in DOMAIN key_to_reader' |-> key_to_reader'[k]]
    BY DEF Leave, RestrictValues, Restrict
  <1>10. \A k \in DOMAIN key_to_reader :
            key_to_reader[k] \in Nat /\ key_to_reader[k] \in DOMAIN readers
    BY DEF Registry, TypeOK, KeysMatchReaders
  <1>11. next_reader_id' = next_reader_id
    BY DEF Leave
  <1> HIDE DEF Gone
  <1>12. key_to_reader' \in [DOMAIN key_to_reader' -> Nat]
    BY <1>9, <1>10
  <1>13. DOMAIN key_to_reader' =
            {k \in DOMAIN key_to_reader : key_to_reader[k] \in DOMAIN readers'}
    BY <1>5, <1>9, <1>10
  <1> QED
    BY <1>3, <1>5, <1>6, <1>7, <1>8, <1>9, <1>11, <1>12, <1>13 DEF Left

-----------------------------------------------------------------------------
(* The invariant is inductive.                                             *)

\* The empty registry satisfies the invariants.
LEMMA RegistryInit == Init => Followed
  BY DEF Init, EmptyMap, Followed, Registry, TypeOK, KeysMatchReaders, NoIdleReader,
         SubscriptionsBacked, SubscribersAsked, OneKeyTracked

\* subscribe on an existing reader (reader.rs:199-208) keeps the invariant.
LEMMA SharedKeepsRegistry ==
    ASSUME Registry, NEW s \in Sessions, NEW t \in Topics, NEW q \in QosSets,
           <<s, t, q>> \in Requests, SubscribeShared(s, t, q)
    PROVE  Registry'
  <1> DEFINE id == key_to_reader[ReaderKey(t, q)]
  <1>1. /\ id \in DOMAIN readers
        /\ KeyOf(id) = ReaderKey(t, q)
        /\ readers[id].topic = t
        /\ DOMAIN readers' = DOMAIN readers
        /\ readers'[id] \in ReaderType
        /\ readers'[id].topic = readers[id].topic
        /\ readers'[id].qos = readers[id].qos
        /\ readers'[id].subscribers = readers[id].subscribers \cup {s}
        /\ \A j \in DOMAIN readers : j # id => readers'[j] = readers[j]
    BY SharedLemma
  <1>2. /\ session_subscriptions' = insert(session_subscriptions, <<s, t>>, id)
        /\ key_to_reader' = key_to_reader
        /\ next_reader_id' = next_reader_id
        /\ readers' = [readers EXCEPT ![id].subscribers = @ \cup {s}]
    BY DEF SubscribeShared
  <1>3. \A j \in DOMAIN readers : /\ readers'[j].topic = readers[j].topic
                                  /\ readers'[j].qos = readers[j].qos
                                  /\ readers[j].subscribers \subseteq readers'[j].subscribers
                                  /\ KeyOf(j)' = KeyOf(j)
    BY <1>1 DEF KeyOf
  <1>4. /\ DOMAIN session_subscriptions' = DOMAIN session_subscriptions \cup {<<s, t>>}
        /\ session_subscriptions'[<<s, t>>] = id
        /\ \A x \in DOMAIN session_subscriptions :
              x # <<s, t>> => session_subscriptions'[x] = session_subscriptions[x]
        /\ session_subscriptions' =
              [x \in DOMAIN session_subscriptions' |-> session_subscriptions'[x]]
    BY <1>2 DEF insert
  <1>5. id \in Nat
    BY <1>1 DEF Registry, TypeOK
  <1> HIDE DEF id
  <1>6. TypeOK'
    <2>1. readers' \in [DOMAIN readers' -> ReaderType]
      <3>1. readers \in [DOMAIN readers -> ReaderType] /\ id \in DOMAIN readers
        BY <1>1 DEF Registry, TypeOK
      <3>2. \A j \in DOMAIN readers' : readers'[j] \in ReaderType
        BY <1>1, <3>1
      <3>3. readers' = [j \in DOMAIN readers' |-> readers'[j]]
        BY <1>2
      <3> QED BY <3>2, <3>3
    <2>2. /\ DOMAIN session_subscriptions' \subseteq Sessions \X Topics
          /\ \A x \in DOMAIN session_subscriptions' : session_subscriptions'[x] \in Nat
      BY <1>4, <1>5 DEF Registry, TypeOK
    <2>3. session_subscriptions' \in [DOMAIN session_subscriptions' -> Nat]
      BY <2>2, <1>4
    <2> QED BY <1>1, <1>2, <2>1, <2>2, <2>3 DEF Registry, TypeOK
  <1>7. KeysMatchReaders'
    BY <1>1, <1>2, <1>3 DEF Registry, KeysMatchReaders
  <1>8. NoIdleReader'
    BY <1>1, <1>3 DEF Registry, NoIdleReader
  <1>9. SubscriptionsBacked'
    <2> SUFFICES ASSUME NEW k \in DOMAIN session_subscriptions'
                 PROVE  /\ session_subscriptions'[k] \in DOMAIN readers'
                        /\ readers'[session_subscriptions'[k]].topic = k[2]
                        /\ k[1] \in readers'[session_subscriptions'[k]].subscribers
      BY DEF SubscriptionsBacked
    <2>1. CASE k = <<s, t>>
      BY <2>1, <1>1, <1>4
    <2>2. CASE k # <<s, t>>
      BY <2>2, <1>1, <1>3, <1>4 DEF Registry, SubscriptionsBacked
    <2> QED BY <2>1, <2>2
  <1>10. SubscribersAsked'
    <2> SUFFICES ASSUME NEW j \in DOMAIN readers', NEW u \in readers'[j].subscribers
                 PROVE  \E rq \in Requests :
                           /\ rq[1] = u
                           /\ rq[2] = readers'[j].topic
                           /\ ReaderKey(rq[2], rq[3]) = KeyOf(j)'
      BY DEF SubscribersAsked, ReaderKey
    <2>1. CASE j = id /\ u = s
      <3> DEFINE rq == <<s, t, q>>
      <3>1. rq[1] = u /\ rq[2] = readers'[j].topic /\ ReaderKey(rq[2], rq[3]) = KeyOf(j)'
        BY <2>1, <1>1, <1>3
      <3> QED BY <3>1
    <2>2. CASE ~(j = id /\ u = s)
      <3>1. j \in DOMAIN readers /\ u \in readers[j].subscribers
        BY <2>2, <1>1
      <3> QED BY <3>1, <1>3 DEF Registry, SubscribersAsked
    <2> QED BY <2>1, <2>2
  <1> QED
    BY <1>6, <1>7, <1>8, <1>9, <1>10 DEF Registry

\* subscribe with a new reader (reader.rs:210-221) keeps the invariant.
LEMMA NewKeepsRegistry ==
    ASSUME Registry, NEW s \in Sessions, NEW t \in Topics, NEW q \in QosSets,
           <<s, t, q>> \in Requests, SubscribeNew(s, t, q)
    PROVE  Registry'
  <1>0. PICK id : id = next_reader_id
    OBVIOUS
  <1>1. id \in Nat /\ id \notin DOMAIN readers /\ next_reader_id' = id + 1
    BY <1>0 DEF Registry, TypeOK, SubscribeNew
  <1>2. /\ DOMAIN readers' = DOMAIN readers \cup {id}
        /\ readers'[id] = DdsReader(t, q, {s})
        /\ \A j \in DOMAIN readers : readers'[j] = readers[j]
        /\ readers' = [j \in DOMAIN readers' |-> readers'[j]]
    BY <1>0, <1>1 DEF SubscribeNew, insert
  <1>3. /\ DOMAIN session_subscriptions' = DOMAIN session_subscriptions \cup {<<s, t>>}
        /\ session_subscriptions'[<<s, t>>] = id
        /\ \A x \in DOMAIN session_subscriptions :
              x # <<s, t>> => session_subscriptions'[x] = session_subscriptions[x]
        /\ session_subscriptions' =
              [x \in DOMAIN session_subscriptions' |-> session_subscriptions'[x]]
    BY <1>0 DEF SubscribeNew, insert
  <1>4. /\ DOMAIN key_to_reader' = DOMAIN key_to_reader \cup {ReaderKey(t, q)}
        /\ key_to_reader'[ReaderKey(t, q)] = id
        /\ \A k \in DOMAIN key_to_reader :
              k # ReaderKey(t, q) => key_to_reader'[k] = key_to_reader[k]
        /\ key_to_reader' = [k \in DOMAIN key_to_reader' |-> key_to_reader'[k]]
    BY <1>0 DEF SubscribeNew, insert
  <1>5. ReaderKey(t, q) \notin DOMAIN key_to_reader
    BY DEF Registry, KeysMatchReaders, SubscribeNew, Shared
  <1>6. /\ readers'[id].topic = t /\ readers'[id].subscribers = {s}
        /\ KeyOf(id)' = ReaderKey(t, q)
        /\ readers'[id] \in ReaderType
    <2>1. /\ DdsReader(t, q, {s}) \in ReaderType
          /\ DdsReader(t, q, {s}).topic = t
          /\ DdsReader(t, q, {s}).subscribers = {s}
          /\ DdsReader(t, q, {s}).qos = normalize(q)
      BY DEF DdsReader, ReaderType
    <2>2. KeyOf(id)' = <<readers'[id].topic, serialize_qos(readers'[id].qos)>>
      BY DEF KeyOf
    <2> QED BY <2>1, <2>2, <1>2 DEF ReaderKey
  <1>7. \A j \in DOMAIN readers : j # id /\ KeyOf(j)' = KeyOf(j)
    BY <1>1, <1>2 DEF KeyOf
  <1>8. TypeOK'
    <2>1. \A j \in DOMAIN readers' : readers'[j] \in ReaderType
      BY <1>2, <1>6 DEF Registry, TypeOK
    <2>2. readers' \in [DOMAIN readers' -> ReaderType]
      <3> QED BY <2>1, <1>2
    <2>3. /\ DOMAIN session_subscriptions' \subseteq Sessions \X Topics
          /\ \A x \in DOMAIN session_subscriptions' : session_subscriptions'[x] \in Nat
      BY <1>1, <1>3 DEF Registry, TypeOK
    <2>4. session_subscriptions' \in [DOMAIN session_subscriptions' -> Nat]
      BY <2>3, <1>3
    <2>5. \A k \in DOMAIN key_to_reader' : key_to_reader'[k] \in Nat
      BY <1>1, <1>4 DEF Registry, TypeOK
    <2>6. key_to_reader' \in [DOMAIN key_to_reader' -> Nat]
      BY <2>5, <1>4
    <2>7. DOMAIN readers' \subseteq {j \in Nat : j < next_reader_id'}
      BY <1>0, <1>1, <1>2 DEF Registry, TypeOK
    <2> QED BY <1>1, <2>2, <2>3, <2>4, <2>6, <2>7 DEF TypeOK
  <1>9. KeysMatchReaders'
    BY <1>2, <1>4, <1>5, <1>6, <1>7 DEF Registry, KeysMatchReaders
  <1>10. NoIdleReader'
    BY <1>2, <1>6 DEF Registry, NoIdleReader
  <1>11. SubscriptionsBacked'
    <2> SUFFICES ASSUME NEW k \in DOMAIN session_subscriptions'
                 PROVE  /\ session_subscriptions'[k] \in DOMAIN readers'
                        /\ readers'[session_subscriptions'[k]].topic = k[2]
                        /\ k[1] \in readers'[session_subscriptions'[k]].subscribers
      BY DEF SubscriptionsBacked
    <2>1. CASE k = <<s, t>>
      BY <2>1, <1>2, <1>3, <1>6
    <2>2. CASE k # <<s, t>>
      BY <2>2, <1>2, <1>3 DEF Registry, SubscriptionsBacked
    <2> QED BY <2>1, <2>2
  <1>12. SubscribersAsked'
    <2> SUFFICES ASSUME NEW j \in DOMAIN readers', NEW u \in readers'[j].subscribers
                 PROVE  \E rq \in Requests :
                           /\ rq[1] = u
                           /\ rq[2] = readers'[j].topic
                           /\ ReaderKey(rq[2], rq[3]) = KeyOf(j)'
      BY DEF SubscribersAsked, ReaderKey
    <2>1. CASE j = id
      <3> DEFINE rq == <<s, t, q>>
      <3>1. rq[1] = u /\ rq[2] = readers'[j].topic /\ ReaderKey(rq[2], rq[3]) = KeyOf(j)'
        BY <2>1, <1>6
      <3> QED BY <3>1
    <2>2. CASE j # id
      BY <2>2, <1>2, <1>7 DEF Registry, SubscribersAsked
    <2> QED BY <2>1, <2>2
  <1> QED
    BY <1>8, <1>9, <1>10, <1>11, <1>12 DEF Registry

\* Dropping some subscriptions K of one session together with its place in
\* their readers: the shape of both unsubscribe and remove_session.
LEMMA LeaveKeepsRegistry ==
    ASSUME Registry, NEW s \in Sessions,
           NEW K, K \subseteq DOMAIN session_subscriptions, \A k \in K : k[1] = s,
           session_subscriptions' = remove(session_subscriptions, K),
           NEW ids, ids = {session_subscriptions[k] : k \in K},
           Leave(ids, s)
    PROVE  Registry'
  <1>1. Left(ids, s)
    BY LeaveLemma
  <1>2. /\ DOMAIN session_subscriptions' = DOMAIN session_subscriptions \ K
        /\ \A k \in DOMAIN session_subscriptions' :
              session_subscriptions'[k] = session_subscriptions[k]
        /\ session_subscriptions' =
              [k \in DOMAIN session_subscriptions' |-> session_subscriptions'[k]]
    BY DEF remove, Restrict
  <1>3. \A id \in DOMAIN readers' : KeyOf(id)' = KeyOf(id)
    BY <1>1 DEF KeyOf, Left
  <1>4. TypeOK'
    <2>1. /\ DOMAIN session_subscriptions' \subseteq Sessions \X Topics
          /\ \A k \in DOMAIN session_subscriptions' : session_subscriptions'[k] \in Nat
      BY <1>2 DEF Registry, TypeOK
    <2>2. session_subscriptions' \in [DOMAIN session_subscriptions' -> Nat]
      BY <2>1, <1>2
    <2> QED BY <1>1, <2>1, <2>2 DEF Registry, TypeOK, Left
  <1>5. KeysMatchReaders'
    BY <1>1, <1>3 DEF Registry, KeysMatchReaders, Left
  <1>6. NoIdleReader'
    BY <1>1 DEF NoIdleReader, Left
  <1>7. SubscriptionsBacked'
    <2> SUFFICES ASSUME NEW k \in DOMAIN session_subscriptions'
                 PROVE  /\ session_subscriptions'[k] \in DOMAIN readers'
                        /\ readers'[session_subscriptions'[k]].topic = k[2]
                        /\ k[1] \in readers'[session_subscriptions'[k]].subscribers
      BY DEF SubscriptionsBacked
    <2> DEFINE id == session_subscriptions[k]
    <2>1. k \in DOMAIN session_subscriptions /\ k \notin K /\ session_subscriptions'[k] = id
      BY <1>2
    <2>2. id \in DOMAIN readers /\ readers[id].topic = k[2] /\ k[1] \in readers[id].subscribers
      BY <2>1 DEF Registry, SubscriptionsBacked
    \* Two subscriptions of s cannot lead to one reader: it has one topic.
    <2>3. ~(k[1] = s /\ id \in ids)
      <3> SUFFICES ASSUME k[1] = s, id \in ids PROVE FALSE
        OBVIOUS
      <3>1. PICK j \in K : session_subscriptions[j] = id
        OBVIOUS
      <3>2. j[2] = k[2] /\ j[1] = k[1]
        BY <3>1, <2>2 DEF Registry, SubscriptionsBacked
      <3>3. j = k
        BY <3>2, <2>1 DEF Registry, TypeOK
      <3> QED BY <3>3, <2>1
    <2>4. id \in DOMAIN readers'
      BY <2>2, <2>3, <1>1 DEF Left
    <2>5. readers'[id].topic = readers[id].topic
      BY <2>4, <1>1 DEF Left
    <2>6. k[1] \in readers'[id].subscribers
      <3>1. readers'[id].subscribers = IF id \in ids THEN readers[id].subscribers \ {s}
                                                    ELSE readers[id].subscribers
        BY <2>4, <1>1 DEF Left
      <3> HIDE DEF id
      <3> QED BY <3>1, <2>2, <2>3
    <2> QED BY <2>1, <2>2, <2>4, <2>5, <2>6
  <1>8. SubscribersAsked'
    <2> SUFFICES ASSUME NEW j \in DOMAIN readers', NEW u \in readers'[j].subscribers
                 PROVE  \E rq \in Requests :
                           /\ rq[1] = u
                           /\ rq[2] = readers'[j].topic
                           /\ ReaderKey(rq[2], rq[3]) = KeyOf(j)'
      BY DEF SubscribersAsked, ReaderKey
    <2>1. j \in DOMAIN readers /\ u \in readers[j].subscribers
      BY <1>1 DEF Left
    <2>2. PICK rq \in Requests :
             /\ rq[1] = u
             /\ rq[2] = readers[j].topic
             /\ ReaderKey(rq[2], rq[3]) = KeyOf(j)
      BY <2>1 DEF Registry, SubscribersAsked
    <2>3. readers'[j].topic = readers[j].topic /\ KeyOf(j)' = KeyOf(j)
      BY <1>1, <1>3 DEF Left
    <2> QED BY <2>2, <2>3
  <1> QED
    BY <1>4, <1>5, <1>6, <1>7, <1>8 DEF Registry

\* unsubscribe (reader.rs:227-251) keeps the invariant.
LEMMA UnsubscribeKeepsRegistry ==
    ASSUME Registry, NEW s \in Sessions, NEW t \in Topics, unsubscribe(s, t)
    PROVE  Registry'
  <1> DEFINE K == {<<s, t>>}
             ids == {session_subscriptions[k] : k \in K}
  <1>1. K \subseteq DOMAIN session_subscriptions /\ \A k \in K : k[1] = s
    BY DEF unsubscribe
  <1>2. ids = {session_subscriptions[<<s, t>>]}
    OBVIOUS
  <1>3. session_subscriptions' = remove(session_subscriptions, K) /\ Leave(ids, s)
    BY <1>2 DEF unsubscribe
  <1> HIDE DEF K
  <1> QED
    BY <1>1, <1>3, LeaveKeepsRegistry

\* remove_session (reader.rs:254-285) keeps the invariant.
LEMMA RemoveSessionKeepsRegistry ==
    ASSUME Registry, NEW s \in Sessions, remove_session(s)
    PROVE  Registry'
  <1>1. SubKeys(s) \subseteq DOMAIN session_subscriptions /\ \A k \in SubKeys(s) : k[1] = s
    BY DEF SubKeys
  <1> QED
    BY <1>1, LeaveKeepsRegistry DEF remove_session

\* Every method keeps the invariant, whatever clients ask for.
LEMMA RegistryNext == Registry /\ [Next]_vars => Registry'
  <1> SUFFICES ASSUME Registry, [Next]_vars PROVE Registry'
    OBVIOUS
  <1>1. ASSUME NEW rq \in Requests, subscribe(rq[1], rq[2], rq[3]) PROVE Registry'
    <2>1. /\ rq[1] \in Sessions /\ rq[2] \in Topics /\ rq[3] \in QosSets
          /\ <<rq[1], rq[2], rq[3]>> \in Requests
      BY RequestsAssumption
    <2> QED
      BY <1>1, <2>1, SharedKeepsRegistry, NewKeepsRegistry DEF subscribe
  <1>2. ASSUME NEW s \in Sessions, NEW t \in Topics, unsubscribe(s, t) PROVE Registry'
    BY <1>2, UnsubscribeKeepsRegistry
  <1>3. ASSUME NEW s \in Sessions, remove_session(s) PROVE Registry'
    BY <1>3, RemoveSessionKeepsRegistry
  <1>4. CASE UNCHANGED vars
    BY <1>4 DEF vars, Registry, TypeOK, KeysMatchReaders, KeyOf, NoIdleReader,
                SubscriptionsBacked, SubscribersAsked
  <1> QED
    BY <1>1, <1>2, <1>3, <1>4 DEF Next, Acts

\* For arbitrary clients: the index and the readers agree, no reader is left
\* without subscriber, and every recorded subscription is backed.
THEOREM RegistryConsistent ==
    Spec => [](TypeOK /\ KeysMatchReaders /\ NoIdleReader /\ SubscriptionsBacked)
  <1>1. Init => Registry
    BY RegistryInit DEF Followed
  <1>2. Registry /\ [Next]_vars => Registry'
    BY RegistryNext
  <1>3. Registry => TypeOK /\ KeysMatchReaders /\ NoIdleReader /\ SubscriptionsBacked
    BY DEF Registry
  <1> QED
    BY <1>1, <1>2, <1>3, PTL DEF Spec

\* For arbitrary clients: no DDS reader is left without a subscriber
\* (reader.rs:166).
THEOREM NoReaderIsIdle == Spec => []NoIdleReader
  BY RegistryConsistent, PTL

\* For arbitrary clients: a shared reader outlives the departure of one of its
\* subscribers for all the others.
THEOREM OthersAlwaysStaySubscribed == Spec => OthersStaySubscribed
  <1>1. Init => Registry
    BY RegistryInit DEF Followed
  <1>2. Registry /\ [Next]_vars => Registry'
    BY RegistryNext
  <1> DEFINE OthersStay(s) ==
               \A id \in DOMAIN readers : \A other \in readers[id].subscribers \ {s} :
                  id \in DOMAIN readers' /\ other \in readers'[id].subscribers
  <1>3. Registry => \A s \in Sessions : Acts(s) => OthersStay(s)
    <2> SUFFICES ASSUME Registry, NEW s \in Sessions, Acts(s) PROVE OthersStay(s)
      OBVIOUS
    <2>1. ASSUME NEW rq \in Requests, rq[1] = s, SubscribeShared(s, rq[2], rq[3])
          PROVE  OthersStay(s)
      <3>1. rq[2] \in Topics /\ rq[3] \in QosSets
        BY RequestsAssumption
      <3> DEFINE id == key_to_reader[ReaderKey(rq[2], rq[3])]
      <3>2. /\ DOMAIN readers' = DOMAIN readers
            /\ readers'[id].subscribers = readers[id].subscribers \cup {s}
            /\ \A j \in DOMAIN readers : j # id => readers'[j] = readers[j]
        BY <2>1, <3>1, SharedLemma
      <3> HIDE DEF id
      <3> QED BY <3>2
    <2>2. ASSUME NEW rq \in Requests, SubscribeNew(s, rq[2], rq[3])
          PROVE  OthersStay(s)
      <3>1. next_reader_id \notin DOMAIN readers
        BY DEF Registry, TypeOK
      <3> QED BY <2>2, <3>1 DEF SubscribeNew, insert
    <2>3. ASSUME NEW ids, Leave(ids, s) PROVE OthersStay(s)
      <3>1. Left(ids, s)
        BY <2>3, LeaveLemma
      <3>2. \A id \in DOMAIN readers : id \notin DOMAIN readers' => readers[id].subscribers = {s}
        BY <3>1 DEF Left
      <3>3. \A id \in DOMAIN readers' : readers[id].subscribers \ {s} \subseteq readers'[id].subscribers
        BY <3>1 DEF Left
      <3> QED BY <3>2, <3>3
    <2> QED
      BY <2>1, <2>2, <2>3 DEF Acts, subscribe, unsubscribe, remove_session
  <1> QED
    BY <1>1, <1>2, <1>3, PTL DEF Spec, OthersStaySubscribed

\* A reader keeps the key it was created under for as long as it lives.
LEMMA ReadersKeepKeys ==
    ASSUME Registry, [Next]_vars, NEW id \in DOMAIN readers, id \in DOMAIN readers'
    PROVE  readers'[id].topic = readers[id].topic /\ readers'[id].qos = readers[id].qos
  <1> DEFINE Kept == readers'[id].topic = readers[id].topic /\ readers'[id].qos = readers[id].qos
  <1>1. ASSUME NEW s \in Sessions, NEW t \in Topics, NEW q \in QosSets, SubscribeShared(s, t, q)
        PROVE  Kept
    BY <1>1, SharedLemma
  <1>2. ASSUME NEW s, NEW t, NEW q, SubscribeNew(s, t, q) PROVE Kept
    <2>1. id # next_reader_id
      BY DEF Registry, TypeOK
    <2> QED BY <1>2, <2>1 DEF SubscribeNew, insert
  <1>3. ASSUME NEW ids, NEW s, Leave(ids, s) PROVE Kept
    BY <1>3, LeaveLemma DEF Left
  <1>4. ASSUME NEW rq \in Requests, subscribe(rq[1], rq[2], rq[3]) PROVE Kept
    <2>1. rq[1] \in Sessions /\ rq[2] \in Topics /\ rq[3] \in QosSets
      BY <1>4, RequestsAssumption
    <2> QED BY <1>1, <1>2, <1>4, <2>1 DEF subscribe
  <1>5. CASE UNCHANGED vars
    BY <1>5 DEF vars
  <1> QED BY <1>3, <1>4, <1>5 DEF Next, Acts, unsubscribe, remove_session

\* Only the session that acts joins a fan-out list.
LEMMA OnlyActorJoins ==
    ASSUME Registry, NEW s \in Sessions, Acts(s), NEW id \in DOMAIN readers',
           NEW u \in readers'[id].subscribers, u # s
    PROVE  id \in DOMAIN readers /\ u \in readers[id].subscribers
  <1>1. ASSUME NEW t \in Topics, NEW q \in QosSets, SubscribeShared(s, t, q)
        PROVE  id \in DOMAIN readers /\ u \in readers[id].subscribers
    BY <1>1, SharedLemma
  <1>2. ASSUME NEW t \in Topics, NEW q \in QosSets, SubscribeNew(s, t, q)
        PROVE  id \in DOMAIN readers /\ u \in readers[id].subscribers
    BY <1>2 DEF SubscribeNew, insert, DdsReader
  <1>3. ASSUME NEW ids, Leave(ids, s)
        PROVE  id \in DOMAIN readers /\ u \in readers[id].subscribers
    BY <1>3 DEF Leave, Registry, TypeOK, ReaderType
  <1>4. ASSUME NEW rq \in Requests, rq[1] = s, subscribe(s, rq[2], rq[3])
        PROVE  id \in DOMAIN readers /\ u \in readers[id].subscribers
    <2>1. rq[2] \in Topics /\ rq[3] \in QosSets
      BY <1>4, RequestsAssumption
    <2> QED BY <1>1, <1>2, <1>4, <2>1 DEF subscribe
  <1> QED BY <1>3, <1>4 DEF Acts, unsubscribe, remove_session

-----------------------------------------------------------------------------
(* Subscriptions that can, and that can no longer, be removed.             *)

\* What TrackLostByResubscribeOnly says of one step.
TrackKept ==
    \A id \in DOMAIN readers' : \A s \in readers'[id].subscribers :
       \/ Tracked(s, id)'
       \/ id \in DOMAIN readers /\ s \in readers[id].subscribers /\ ~Tracked(s, id)
       \/ \E rq \in Requests :
             /\ rq[1] = s /\ rq[2] = readers[id].topic
             /\ ReaderKey(rq[2], rq[3]) # KeyOf(id)
             /\ subscribe(s, rq[2], rq[3])

\* An entry for another session or topic, and the reader it leads to, stay.
LEMMA OtherEntryStays ==
    ASSUME NEW u, NEW j, NEW k, k # <<u, readers[j].topic>>, NEW id,
           session_subscriptions' = insert(session_subscriptions, k, id),
           readers'[j].topic = readers[j].topic, Tracked(u, j)
    PROVE  Tracked(u, j)'
  BY DEF Tracked, insert

\* subscribe leads the entry of its session and topic to the reader it found
\* or made; only a reader with another key can lose it.
LEMMA SubscribeKeepsTrack ==
    ASSUME Registry, NEW s \in Sessions, NEW t \in Topics, NEW q \in QosSets,
           <<s, t, q>> \in Requests, subscribe(s, t, q)
    PROVE  TrackKept
  <1> SUFFICES ASSUME NEW j \in DOMAIN readers', NEW u \in readers'[j].subscribers,
                      ~Tracked(u, j)'
               PROVE  /\ j \in DOMAIN readers /\ u \in readers[j].subscribers
                      /\ Tracked(u, j) =>
                           /\ u = s /\ t = readers[j].topic
                           /\ ReaderKey(t, q) # KeyOf(j)
    <2>1. /\ <<s, t, q>> \in Requests /\ <<s, t, q>>[1] = s
          /\ <<s, t, q>>[2] = t /\ <<s, t, q>>[3] = q
      OBVIOUS
    <2> QED BY <2>1 DEF TrackKept
  <1>1. CASE SubscribeShared(s, t, q)
    <2> DEFINE id == key_to_reader[ReaderKey(t, q)]
    <2>1. /\ id \in DOMAIN readers
          /\ KeyOf(id) = ReaderKey(t, q)
          /\ readers[id].topic = t
          /\ DOMAIN readers' = DOMAIN readers
          /\ readers'[id].topic = readers[id].topic
          /\ readers'[id].subscribers = readers[id].subscribers \cup {s}
          /\ \A i \in DOMAIN readers : i # id => readers'[i] = readers[i]
      BY <1>1, SharedLemma
    <2>2. session_subscriptions' = insert(session_subscriptions, <<s, t>>, id)
      BY <1>1 DEF SubscribeShared
    <2>3. \A i \in DOMAIN readers : KeyOf(i) = ReaderKey(t, q) => i = id
      BY DEF Registry, KeysMatchReaders
    <2> HIDE DEF id
    <2>4. ~(j = id /\ u = s)
      BY <2>1, <2>2 DEF Tracked, insert
    <2>5. j \in DOMAIN readers /\ u \in readers[j].subscribers
      BY <2>1, <2>4
    <2>6. readers'[j].topic = readers[j].topic
      BY <2>1
    <2>7. ASSUME Tracked(u, j) PROVE u = s /\ t = readers[j].topic
      BY <2>2, <2>6, <2>7, OtherEntryStays
    <2>8. ASSUME Tracked(u, j) PROVE ReaderKey(t, q) # KeyOf(j)
      BY <2>3, <2>4, <2>5, <2>7, <2>8
    <2> QED BY <2>5, <2>7, <2>8
  <1>2. CASE SubscribeNew(s, t, q)
    <2>0. PICK id : id = next_reader_id
      OBVIOUS
    <2>1. id \notin DOMAIN readers
      BY <2>0 DEF Registry, TypeOK
    <2>2. /\ DOMAIN readers' = DOMAIN readers \cup {id}
          /\ readers'[id] = DdsReader(t, q, {s})
          /\ \A i \in DOMAIN readers : readers'[i] = readers[i]
          /\ session_subscriptions' = insert(session_subscriptions, <<s, t>>, id)
      BY <1>2, <2>0, <2>1 DEF SubscribeNew, insert
    <2>3. readers'[id].topic = t /\ readers'[id].subscribers = {s}
      BY <2>2 DEF DdsReader
    <2>4. j # id
      BY <2>2, <2>3 DEF Tracked, insert
    <2>5. j \in DOMAIN readers /\ u \in readers[j].subscribers
          /\ readers'[j].topic = readers[j].topic
      BY <2>2, <2>4
    <2>6. ASSUME Tracked(u, j) PROVE u = s /\ t = readers[j].topic
      BY <2>2, <2>5, <2>6, OtherEntryStays
    <2>7. ReaderKey(t, q) # KeyOf(j)
      BY <1>2, <2>5 DEF Registry, KeysMatchReaders, SubscribeNew, Shared
    <2> QED BY <2>5, <2>6, <2>7
  <1> QED BY <1>1, <1>2 DEF subscribe

\* Dropping the entries K takes the session off the readers they lead to.
LEMMA LeaveKeepsTrack ==
    ASSUME Registry, NEW s \in Sessions,
           NEW K, K \subseteq DOMAIN session_subscriptions, \A k \in K : k[1] = s,
           session_subscriptions' = remove(session_subscriptions, K),
           NEW ids, ids = {session_subscriptions[k] : k \in K},
           Leave(ids, s)
    PROVE  TrackKept
  <1> SUFFICES ASSUME NEW j \in DOMAIN readers', NEW u \in readers'[j].subscribers
               PROVE  /\ j \in DOMAIN readers /\ u \in readers[j].subscribers
                      /\ Tracked(u, j) => Tracked(u, j)'
    BY DEF TrackKept
  <1>1. Left(ids, s)
    BY LeaveLemma
  <1>2. /\ DOMAIN session_subscriptions' = DOMAIN session_subscriptions \ K
        /\ \A k \in DOMAIN session_subscriptions' :
              session_subscriptions'[k] = session_subscriptions[k]
    BY DEF remove, Restrict
  <1>3. /\ j \in DOMAIN readers
        /\ readers'[j].topic = readers[j].topic
        /\ readers'[j].subscribers = IF j \in ids THEN readers[j].subscribers \ {s}
                                                  ELSE readers[j].subscribers
    BY <1>1 DEF Left
  <1>4. u \in readers[j].subscribers /\ ~(u = s /\ j \in ids)
    BY <1>3
  <1>5. ASSUME Tracked(u, j) PROVE Tracked(u, j)'
    <2>1. <<u, readers[j].topic>> \notin K
      <3> SUFFICES ASSUME <<u, readers[j].topic>> \in K PROVE FALSE
        OBVIOUS
      <3>1. <<u, readers[j].topic>>[1] = s /\ j \in ids
        BY <1>5 DEF Tracked
      <3> QED BY <3>1, <1>4
    <2> QED BY <2>1, <1>2, <1>3, <1>5 DEF Tracked
  <1> QED BY <1>3, <1>4, <1>5

\* What unsubscribe and remove_session drop, in the form the lemmas take it.
LEMMA UnsubscribeShape ==
    ASSUME NEW s, NEW t, unsubscribe(s, t), NEW K, K = {<<s, t>>},
           NEW ids, ids = {session_subscriptions[k] : k \in K}
    PROVE  /\ K \subseteq DOMAIN session_subscriptions /\ \A k \in K : k[1] = s
           /\ session_subscriptions' = remove(session_subscriptions, K)
           /\ Leave(ids, s)
  <1>1. ids = {session_subscriptions[<<s, t>>]}
    OBVIOUS
  <1> QED BY <1>1 DEF unsubscribe

LEMMA RemoveSessionShape ==
    ASSUME NEW s, remove_session(s), NEW K, K = SubKeys(s),
           NEW ids, ids = {session_subscriptions[k] : k \in K}
    PROVE  /\ K \subseteq DOMAIN session_subscriptions /\ \A k \in K : k[1] = s
           /\ session_subscriptions' = remove(session_subscriptions, K)
           /\ Leave(ids, s)
  BY DEF remove_session, SubKeys

\* Every step keeps the track of subscriptions in the sense above.
LEMMA TrackStep == ASSUME Registry, [Next]_vars PROVE TrackKept
  <1>1. ASSUME NEW rq \in Requests, subscribe(rq[1], rq[2], rq[3]) PROVE TrackKept
    <2>1. /\ rq[1] \in Sessions /\ rq[2] \in Topics /\ rq[3] \in QosSets
          /\ <<rq[1], rq[2], rq[3]>> \in Requests
      BY RequestsAssumption
    <2> QED BY <1>1, <2>1, SubscribeKeepsTrack
  <1>2. ASSUME NEW s \in Sessions, NEW t \in Topics, unsubscribe(s, t) PROVE TrackKept
    <2> DEFINE K == {<<s, t>>}
               ids == {session_subscriptions[k] : k \in K}
    <2>1. /\ K \subseteq DOMAIN session_subscriptions /\ \A k \in K : k[1] = s
          /\ session_subscriptions' = remove(session_subscriptions, K) /\ Leave(ids, s)
      BY <1>2, UnsubscribeShape
    <2> HIDE DEF K
    <2> QED BY <2>1, LeaveKeepsTrack
  <1>3. ASSUME NEW s \in Sessions, remove_session(s) PROVE TrackKept
    <2> DEFINE K == SubKeys(s)
               ids == {session_subscriptions[k] : k \in K}
    <2>1. /\ K \subseteq DOMAIN session_subscriptions /\ \A k \in K : k[1] = s
          /\ session_subscriptions' = remove(session_subscriptions, K) /\ Leave(ids, s)
      BY <1>3, RemoveSessionShape
    <2> HIDE DEF K
    <2> QED BY <2>1, LeaveKeepsTrack
  <1>4. CASE UNCHANGED vars
    BY <1>4 DEF vars, TrackKept, Tracked
  <1> QED
    BY <1>1, <1>2, <1>3, <1>4 DEF Next, Acts

\* The subscriptions of a client with one key for the topic stay tracked.
LEMMA FollowedNext == Followed /\ [Next]_vars => Followed'
  <1> SUFFICES ASSUME Followed, [Next]_vars,
                      NEW id \in DOMAIN readers', NEW s \in readers'[id].subscribers,
                      OneKey(s, readers'[id].topic), ~Tracked(s, id)'
               PROVE  FALSE
    BY RegistryNext DEF Followed, OneKeyTracked, OneKey, ReaderKey
  <1>0. Registry /\ Registry'
    BY RegistryNext DEF Followed
  <1>1. CASE id \in DOMAIN readers /\ s \in readers[id].subscribers /\ ~Tracked(s, id)
    <2>1. readers'[id].topic = readers[id].topic
      BY <1>0, <1>1, ReadersKeepKeys
    <2> QED BY <1>1, <2>1 DEF Followed, OneKeyTracked
  <1>2. CASE \E rq \in Requests :
                /\ rq[1] = s /\ rq[2] = readers[id].topic
                /\ ReaderKey(rq[2], rq[3]) # KeyOf(id)
                /\ subscribe(s, rq[2], rq[3])
    <2>1. PICK a \in Requests : /\ a[1] = s /\ a[2] = readers[id].topic
                                /\ ReaderKey(a[2], a[3]) # KeyOf(id)
                                /\ subscribe(s, a[2], a[3])
      BY <1>2
    <2>2. CASE id \in DOMAIN readers
      <3>1. readers'[id].topic = readers[id].topic /\ KeyOf(id)' = KeyOf(id)
        BY <1>0, <2>2, ReadersKeepKeys DEF KeyOf
      <3>2. PICK b \in Requests : /\ b[1] = s /\ b[2] = readers'[id].topic
                                  /\ ReaderKey(b[2], b[3]) = KeyOf(id)'
        BY <1>0 DEF Registry, SubscribersAsked, ReaderKey
      <3> QED BY <2>1, <3>1, <3>2 DEF OneKey
    <2>3. CASE id \notin DOMAIN readers
      <3>1. a[2] \in Topics /\ a[3] \in QosSets /\ s \in Sessions
        BY <2>1, RequestsAssumption
      <3>2. SubscribeNew(s, a[2], a[3])
        BY <1>0, <2>1, <2>3, <3>1, SharedLemma DEF subscribe
      <3>3. /\ id = next_reader_id
            /\ readers'[id] = DdsReader(a[2], a[3], {s})
            /\ session_subscriptions' = insert(session_subscriptions, <<s, a[2]>>, id)
        BY <2>3, <3>2 DEF SubscribeNew, insert
      <3>4. readers'[id].topic = a[2]
        BY <3>3 DEF DdsReader
      <3> QED BY <3>3, <3>4 DEF Tracked, insert
    <2> QED BY <2>2, <2>3
  <1> QED
    BY <1>0, <1>1, <1>2, TrackStep DEF TrackKept

\* For arbitrary clients: a subscription that can no longer be removed is one
\* whose session asked for the same topic with another QoS since.
THEOREM TrackAlwaysLostByResubscribe == Spec => TrackLostByResubscribeOnly
  <1>1. Init => Registry
    BY RegistryInit DEF Followed
  <1>2. Registry /\ [Next]_vars => Registry'
    BY RegistryNext
  <1>3. Registry /\ [Next]_vars => TrackKept
    BY TrackStep
  <1> QED
    BY <1>1, <1>2, <1>3, PTL DEF Spec, TrackLostByResubscribeOnly, TrackKept

\* remove_session leaves the session on untracked lists only.
LEMMA DisconnectLeaves ==
    ASSUME Followed, NEW s \in Sessions, remove_session(s), NEW id \in DOMAIN readers',
           s \in readers'[id].subscribers
    PROVE  id \in DOMAIN readers /\ ~Tracked(s, id) /\ ~OneKey(s, readers[id].topic)
  <1> DEFINE K == SubKeys(s)
             ids == {session_subscriptions[k] : k \in K}
  <1>1. Left(ids, s)
    BY LeaveLemma DEF Followed, remove_session
  <1>2. /\ id \in DOMAIN readers /\ s \in readers[id].subscribers /\ id \notin ids
    BY <1>1 DEF Left
  <1>3. ~Tracked(s, id)
    <2> SUFFICES ASSUME Tracked(s, id) PROVE FALSE
      OBVIOUS
    <2>1. <<s, readers[id].topic>> \in K /\ session_subscriptions[<<s, readers[id].topic>>] = id
      BY DEF Tracked, SubKeys
    <2> QED BY <2>1, <1>2
  <1> QED BY <1>2, <1>3 DEF Followed, OneKeyTracked

\* For arbitrary clients: a disconnect leaves the session in no fan-out list
\* but those that a second QoS on the same topic had taken out of its reach
\* (what unregister_session keeps, and fails to keep, of docs/protocol.md:401).
THEOREM DisconnectIsComplete == Spec => DisconnectRemovesSubscriptions
  <1>1. Init => Followed
    BY RegistryInit
  <1>2. Followed /\ [Next]_vars => Followed'
    BY FollowedNext
  <1>3. Followed =>
          \A s \in Sessions :
             remove_session(s) =>
                \A id \in DOMAIN readers' : s \in readers'[id].subscribers =>
                   ~Tracked(s, id) /\ ~OneKey(s, readers[id].topic)
    BY DisconnectLeaves
  <1> QED
    BY <1>1, <1>2, <1>3, PTL DEF Spec, DisconnectRemovesSubscriptions

-----------------------------------------------------------------------------
(* The registry implements Subscriptions.                                  *)

\* The fan-out lists after a subscribe, whether it found or made the reader.
LEMMA SubscribeMaps ==
    ASSUME Registry, Registry', NEW s \in Sessions, NEW t \in Topics, NEW q \in QosSets,
           subscribe(s, t, q)
    PROVE  FanOut' = FanOut \cup {<<s, ReaderKey(t, q)>>}
  <1> DEFINE key == ReaderKey(t, q)
  <1>1. /\ key \in DOMAIN key_to_reader'
        /\ s \in readers'[key_to_reader'[key]].subscribers
        /\ DOMAIN key_to_reader' = DOMAIN key_to_reader \cup {key}
        /\ \A k \in DOMAIN key_to_reader :
              /\ key_to_reader'[k] = key_to_reader[k]
              /\ key_to_reader[k] \in DOMAIN readers
              /\ k # key => readers'[key_to_reader[k]].subscribers
                              = readers[key_to_reader[k]].subscribers
        /\ key \in DOMAIN key_to_reader =>
              readers'[key_to_reader[key]].subscribers
                = readers[key_to_reader[key]].subscribers \cup {s}
        /\ key \notin DOMAIN key_to_reader =>
              readers'[key_to_reader'[key]].subscribers = {s}
    <2>1. CASE SubscribeShared(s, t, q)
      <3>1. /\ key_to_reader[key] \in DOMAIN readers
            /\ DOMAIN readers' = DOMAIN readers
            /\ readers'[key_to_reader[key]].subscribers
                 = readers[key_to_reader[key]].subscribers \cup {s}
            /\ \A j \in DOMAIN readers : j # key_to_reader[key] => readers'[j] = readers[j]
        BY <2>1, SharedLemma
      <3>2. key_to_reader' = key_to_reader /\ key \in DOMAIN key_to_reader
        BY <2>1 DEF SubscribeShared, Shared
      <3>3. \A k \in DOMAIN key_to_reader :
               /\ key_to_reader[k] \in DOMAIN readers
               /\ k # key => key_to_reader[k] # key_to_reader[key]
        BY <3>2 DEF Registry, KeysMatchReaders
      <3> HIDE DEF key
      <3> QED BY <3>1, <3>2, <3>3
    <2>2. CASE SubscribeNew(s, t, q)
      <3>1. next_reader_id \notin DOMAIN readers
        BY DEF Registry, TypeOK
      <3>2. /\ readers'[next_reader_id] = DdsReader(t, q, {s})
            /\ \A j \in DOMAIN readers : readers'[j] = readers[j]
        BY <2>2, <3>1 DEF SubscribeNew, insert
      <3>3. /\ DOMAIN key_to_reader' = DOMAIN key_to_reader \cup {key}
            /\ key_to_reader'[key] = next_reader_id
            /\ \A k \in DOMAIN key_to_reader : k # key => key_to_reader'[k] = key_to_reader[k]
        BY <2>2 DEF SubscribeNew, insert
      <3>4. /\ key \notin DOMAIN key_to_reader
            /\ \A k \in DOMAIN key_to_reader : key_to_reader[k] \in DOMAIN readers
        BY <2>2 DEF Registry, KeysMatchReaders, SubscribeNew, Shared
      <3>5. DdsReader(t, q, {s}).subscribers = {s}
        BY DEF DdsReader
      <3> HIDE DEF key
      <3> QED BY <3>2, <3>3, <3>4, <3>5
    <2> QED BY <2>1, <2>2 DEF subscribe
  <1> HIDE DEF key
  <1>2. ASSUME NEW u \in Sessions, NEW k
        PROVE  <<u, k>> \in FanOut' <=> <<u, k>> \in FanOut \/ (u = s /\ k = key)
    <2>1. <<u, k>> \in FanOut' <=> /\ k \in DOMAIN key_to_reader'
                                  /\ u \in readers'[key_to_reader'[k]].subscribers
      BY DEF FanOut
    <2>2. <<u, k>> \in FanOut <=> /\ k \in DOMAIN key_to_reader
                                 /\ u \in readers[key_to_reader[k]].subscribers
      BY DEF FanOut
    <2>3. CASE k = key
      BY <2>1, <2>2, <2>3, <1>1
    <2>4. CASE k # key
      BY <2>1, <2>2, <2>4, <1>1
    <2> QED BY <2>3, <2>4
  <1>3. /\ \A p \in FanOut : \E u \in Sessions : \E k : p = <<u, k>>
        /\ \A p \in FanOut' : \E u \in Sessions : \E k : p = <<u, k>>
    BY DEF FanOut
  <1>4. \A p \in FanOut' : p \in FanOut \cup {<<s, key>>}
    BY <1>2, <1>3
  <1>5. \A p \in FanOut \cup {<<s, key>>} : p \in FanOut'
    BY <1>2, <1>3
  <1> QED
    BY <1>4, <1>5 DEF key

\* The fan-out lists after a Leave: the session is off the readers it named.
LEMMA LeaveMaps ==
    ASSUME Registry, NEW s, NEW ids, Leave(ids, s)
    PROVE  FanOut' = {p \in FanOut : ~(p[1] = s /\ key_to_reader[p[2]] \in ids)}
  <1>1. Left(ids, s)
    BY LeaveLemma
  <1>2. \A k \in DOMAIN key_to_reader : key_to_reader[k] \in DOMAIN readers
    BY DEF Registry, KeysMatchReaders
  <1>3. ASSUME NEW u \in Sessions, NEW k
        PROVE  <<u, k>> \in FanOut' <=>
                 <<u, k>> \in FanOut /\ ~(u = s /\ key_to_reader[k] \in ids)
    <2> DEFINE id == key_to_reader[k]
    <2>1. <<u, k>> \in FanOut' <=> /\ k \in DOMAIN key_to_reader'
                                  /\ u \in readers'[key_to_reader'[k]].subscribers
      BY DEF FanOut
    <2>2. <<u, k>> \in FanOut <=> /\ k \in DOMAIN key_to_reader
                                 /\ u \in readers[id].subscribers
      BY DEF FanOut
    <2>3. CASE k \notin DOMAIN key_to_reader
      BY <2>1, <2>2, <2>3, <1>1 DEF Left
    <2>4. CASE k \in DOMAIN key_to_reader /\ id \notin DOMAIN readers'
      <3>1. k \notin DOMAIN key_to_reader'
        BY <2>4, <1>1 DEF Left
      <3>2. id \in ids /\ readers[id].subscribers = {s}
        BY <2>4, <1>1, <1>2 DEF Left
      <3> QED BY <3>1, <3>2, <2>1, <2>2
    <2>5. CASE k \in DOMAIN key_to_reader /\ id \in DOMAIN readers'
      <3>1. k \in DOMAIN key_to_reader' /\ key_to_reader'[k] = id
        BY <2>5, <1>1 DEF Left
      <3>2. readers'[id].subscribers = IF id \in ids THEN readers[id].subscribers \ {s}
                                                    ELSE readers[id].subscribers
        BY <2>5, <1>1 DEF Left
      <3> HIDE DEF id
      <3>3. u \in readers'[id].subscribers <=>
              u \in readers[id].subscribers /\ ~(u = s /\ id \in ids)
        BY <3>2
      <3> QED BY <3>1, <3>3, <2>1, <2>2, <2>5 DEF id
    <2> QED BY <2>3, <2>4, <2>5
  <1>4. /\ \A p \in FanOut : \E u \in Sessions : \E k : p = <<u, k>>
        /\ \A p \in FanOut' : \E u \in Sessions : \E k : p = <<u, k>>
    BY DEF FanOut
  <1>5. ASSUME NEW p \in FanOut'
        PROVE  p \in FanOut /\ ~(p[1] = s /\ key_to_reader[p[2]] \in ids)
    <2>1. PICK u \in Sessions : \E k : p = <<u, k>>
      BY <1>4
    <2>2. PICK k : p = <<u, k>>
      BY <2>1
    <2> QED BY <2>2, <1>3
  <1>6. ASSUME NEW p \in FanOut, ~(p[1] = s /\ key_to_reader[p[2]] \in ids)
        PROVE  p \in FanOut'
    <2>1. PICK u \in Sessions : \E k : p = <<u, k>>
      BY <1>4
    <2>2. PICK k : p = <<u, k>>
      BY <2>1
    <2> QED BY <2>2, <1>3, <1>6
  <1> QED
    BY <1>5, <1>6

\* What was subscribed last, after a subscribe: its pair replaces the one of
\* the same session and topic.
LEMMA SubscribeMapsLatest ==
    ASSUME Registry, Registry', NEW s \in Sessions, NEW t \in Topics, NEW q \in QosSets,
           subscribe(s, t, q)
    PROVE  Latest' = (Latest \ Abstract!Of(s, t)) \cup {<<s, ReaderKey(t, q)>>}
  <1> DEFINE key == ReaderKey(t, q)
  <1>1. PICK id :
          /\ DOMAIN key_to_reader' = DOMAIN key_to_reader \cup {key}
          /\ key_to_reader'[key] = id
          /\ \A k \in DOMAIN key_to_reader : key_to_reader'[k] = key_to_reader[k]
          /\ session_subscriptions' = insert(session_subscriptions, <<s, t>>, id)
          /\ key \in DOMAIN key_to_reader \/ id \notin DOMAIN readers
    <2>1. CASE SubscribeShared(s, t, q)
      BY <2>1 DEF SubscribeShared, Shared
    <2>2. CASE SubscribeNew(s, t, q)
      <3>1. next_reader_id \notin DOMAIN readers
        BY DEF Registry, TypeOK
      <3>2. key \notin DOMAIN key_to_reader
        BY <2>2 DEF Registry, KeysMatchReaders, SubscribeNew, Shared
      <3> QED BY <2>2, <3>1, <3>2 DEF SubscribeNew, insert
    <2> QED BY <2>1, <2>2 DEF subscribe
  <1>2. key[1] = t
    BY DEF ReaderKey
  <1> HIDE DEF key
  <1>3. /\ DOMAIN session_subscriptions' = DOMAIN session_subscriptions \cup {<<s, t>>}
        /\ session_subscriptions'[<<s, t>>] = id
        /\ \A x \in DOMAIN session_subscriptions :
              x # <<s, t>> => session_subscriptions'[x] = session_subscriptions[x]
    BY <1>1 DEF insert
  \* No two keys lead to one reader, and no entry leads to the new one.
  <1>4. \A k \in DOMAIN key_to_reader' : key_to_reader'[k] = id => k = key
    BY <1>1 DEF Registry, KeysMatchReaders
  <1>5. \A x \in DOMAIN session_subscriptions : session_subscriptions[x] \in DOMAIN readers
    BY DEF Registry, SubscriptionsBacked
  <1>6. \A x \in DOMAIN session_subscriptions : \A k \in DOMAIN key_to_reader :
           session_subscriptions[x] = key_to_reader[k] => x[2] = k[1]
    BY DEF Registry, SubscriptionsBacked, KeysMatchReaders, KeyOf
  <1>7. ASSUME NEW u \in Sessions, NEW k
        PROVE  <<u, k>> \in Latest' <=>
                 \/ <<u, k>> \in Latest /\ ~(u = s /\ k[1] = t)
                 \/ u = s /\ k = key
    <2>1. <<u, k>> \in Latest' <=>
             /\ k \in DOMAIN key_to_reader'
             /\ <<u, k[1]>> \in DOMAIN session_subscriptions'
             /\ session_subscriptions'[<<u, k[1]>>] = key_to_reader'[k]
      BY DEF Latest
    <2>2. <<u, k>> \in Latest <=>
             /\ k \in DOMAIN key_to_reader
             /\ <<u, k[1]>> \in DOMAIN session_subscriptions
             /\ session_subscriptions[<<u, k[1]>>] = key_to_reader[k]
      BY DEF Latest
    <2>3. CASE u = s /\ k[1] = t
      <3>1. <<u, k>> \in Latest' <=> k \in DOMAIN key_to_reader' /\ id = key_to_reader'[k]
        BY <2>1, <2>3, <1>3
      <3> QED BY <3>1, <2>3, <1>1, <1>4
    <2>4. CASE ~(u = s /\ k[1] = t)
      <3>1. <<u, k[1]>> # <<s, t>>
        BY <2>4
      <3>2. /\ <<u, k[1]>> \in DOMAIN session_subscriptions' <=>
                  <<u, k[1]>> \in DOMAIN session_subscriptions
            /\ <<u, k[1]>> \in DOMAIN session_subscriptions =>
                  session_subscriptions'[<<u, k[1]>>] = session_subscriptions[<<u, k[1]>>]
        BY <3>1, <1>3
      <3>3. CASE k \in DOMAIN key_to_reader
        BY <3>2, <3>3, <2>1, <2>2, <2>4, <1>1, <1>2
      <3>4. CASE k \notin DOMAIN key_to_reader
        <4>1. <<u, k>> \in Latest' => k = key /\ id \notin DOMAIN readers
          BY <3>4, <2>1, <1>1
        <4>2. <<u, k>> \notin Latest'
          BY <4>1, <3>2, <2>1, <1>1, <1>5
        <4>3. ~(u = s /\ k = key)
          BY <2>4, <1>2
        <4> QED BY <4>2, <4>3, <3>4, <2>2
      <3> QED BY <3>3, <3>4
    <2> QED BY <2>3, <2>4
  <1>8. /\ \A p \in Latest : \E u \in Sessions : \E k : p = <<u, k>>
        /\ \A p \in Latest' : \E u \in Sessions : \E k : p = <<u, k>>
    BY DEF Latest
  <1>9. \A u \in Sessions : \A k :
           <<u, k>> \in Latest \ Abstract!Of(s, t) <=>
             <<u, k>> \in Latest /\ ~(u = s /\ k[1] = t)
    BY DEF Abstract!Of
  <1>10. \A p \in Latest' : p \in (Latest \ Abstract!Of(s, t)) \cup {<<s, key>>}
    BY <1>7, <1>8, <1>9
  <1>11. \A p \in (Latest \ Abstract!Of(s, t)) \cup {<<s, key>>} : p \in Latest'
    BY <1>7, <1>8, <1>9
  <1> QED
    BY <1>10, <1>11 DEF key

\* Dropping the entries K of a session drops their pairs from both sets.
LEMMA LeaveDrops ==
    ASSUME Registry, Registry', NEW s \in Sessions,
           NEW K, K \subseteq DOMAIN session_subscriptions, \A k \in K : k[1] = s,
           session_subscriptions' = remove(session_subscriptions, K),
           NEW ids, ids = {session_subscriptions[k] : k \in K},
           Leave(ids, s)
    PROVE  Abstract!Drop({p \in Latest : p[1] = s /\ <<s, p[2][1]>> \in K})
  <1> DEFINE Gone == {p \in Latest : p[1] = s /\ <<s, p[2][1]>> \in K}
  <1>1. Left(ids, s)
    BY LeaveLemma
  <1>2. FanOut' = {p \in FanOut : ~(p[1] = s /\ key_to_reader[p[2]] \in ids)}
    BY LeaveMaps
  <1>3. /\ DOMAIN session_subscriptions' = DOMAIN session_subscriptions \ K
        /\ \A k \in DOMAIN session_subscriptions' :
              session_subscriptions'[k] = session_subscriptions[k]
    BY DEF remove, Restrict
  <1>4. \A x \in K : \E u : \E v : x = <<u, v>>
    BY DEF Registry, TypeOK
  <1>5. ASSUME NEW p \in FanOut, p[1] = s
        PROVE  key_to_reader[p[2]] \in ids <=> p \in Gone
    <2>1. p \in Sessions \X DOMAIN key_to_reader /\ p[2] \in DOMAIN key_to_reader
      BY DEF FanOut
    <2>2. /\ key_to_reader[p[2]] \in DOMAIN readers
          /\ readers[key_to_reader[p[2]]].topic = p[2][1]
      BY <2>1 DEF Registry, KeysMatchReaders, KeyOf
    <2>3. ASSUME key_to_reader[p[2]] \in ids PROVE p \in Gone
      <3>1. PICK x \in K : session_subscriptions[x] = key_to_reader[p[2]]
        BY <2>3
      <3>2. x[2] = p[2][1] /\ x[1] = s
        BY <3>1, <2>2 DEF Registry, SubscriptionsBacked
      <3>3. x = <<s, p[2][1]>>
        BY <3>2, <1>4
      <3> QED BY <3>1, <3>3, <2>1, <1>5 DEF Latest
    <2>4. ASSUME p \in Gone PROVE key_to_reader[p[2]] \in ids
      BY <2>4, <1>5 DEF Latest
    <2> QED BY <2>3, <2>4
  <1>6. FanOut' = FanOut \ Gone
    BY <1>2, <1>5
  <1>7. \A p \in Latest' : p \in Latest \ Gone
    <2> SUFFICES ASSUME NEW p \in Latest' PROVE p \in Latest \ Gone
      OBVIOUS
    <2>1. /\ p \in Sessions \X DOMAIN key_to_reader'
          /\ <<p[1], p[2][1]>> \in DOMAIN session_subscriptions'
          /\ session_subscriptions'[<<p[1], p[2][1]>>] = key_to_reader'[p[2]]
      BY DEF Latest
    <2>2. /\ p[2] \in DOMAIN key_to_reader /\ key_to_reader'[p[2]] = key_to_reader[p[2]]
          /\ DOMAIN key_to_reader' \subseteq DOMAIN key_to_reader
      BY <2>1, <1>1 DEF Left
    <2>3. p \in Latest
      BY <2>1, <2>2, <1>3 DEF Latest
    <2>4. p \notin Gone
      BY <2>1, <1>3
    <2> QED BY <2>3, <2>4
  <1>8. \A p \in Latest \ Gone : p \in Latest'
    <2> SUFFICES ASSUME NEW p \in Latest, p \notin Gone PROVE p \in Latest'
      OBVIOUS
    <2>1. /\ p \in Sessions \X DOMAIN key_to_reader /\ p[2] \in DOMAIN key_to_reader
          /\ <<p[1], p[2][1]>> \in DOMAIN session_subscriptions
          /\ session_subscriptions[<<p[1], p[2][1]>>] = key_to_reader[p[2]]
      BY DEF Latest
    <2>2. <<p[1], p[2][1]>> \notin K
      <3> SUFFICES ASSUME <<p[1], p[2][1]>> \in K PROVE FALSE
        OBVIOUS
      <3>1. <<p[1], p[2][1]>>[1] = s
        OBVIOUS
      <3> QED BY <3>1
    <2>3. /\ <<p[1], p[2][1]>> \in DOMAIN session_subscriptions'
          /\ session_subscriptions'[<<p[1], p[2][1]>>] = key_to_reader[p[2]]
      BY <2>1, <2>2, <1>3
    <2>4. key_to_reader[p[2]] \in DOMAIN readers'
      BY <2>3 DEF Registry, SubscriptionsBacked
    <2>5. p[2] \in DOMAIN key_to_reader' /\ key_to_reader'[p[2]] = key_to_reader[p[2]]
      BY <2>1, <2>4, <1>1 DEF Left
    <2> QED BY <2>1, <2>3, <2>5 DEF Latest
  <1>9. Latest' = Latest \ Gone
    BY <1>7, <1>8
  <1> QED
    BY <1>6, <1>9 DEF Abstract!Drop

\* unsubscribe is the Unsubscribe of the abstract specification.
LEMMA UnsubscribeMaps ==
    ASSUME Registry, Registry', NEW s \in Sessions, NEW t \in Topics, unsubscribe(s, t)
    PROVE  Abstract!Unsubscribe(s, t)
  <1> DEFINE K == {<<s, t>>}
             ids == {session_subscriptions[k] : k \in K}
  <1>1. /\ K \subseteq DOMAIN session_subscriptions /\ \A k \in K : k[1] = s
        /\ session_subscriptions' = remove(session_subscriptions, K) /\ Leave(ids, s)
    BY UnsubscribeShape
  <1>2. {p \in Latest : p[1] = s /\ <<s, p[2][1]>> \in K} = Abstract!Of(s, t)
    BY DEF Abstract!Of
  <1> HIDE DEF K
  <1>3. Abstract!Drop({p \in Latest : p[1] = s /\ <<s, p[2][1]>> \in K})
    BY <1>1, LeaveDrops
  <1> QED
    BY <1>2, <1>3 DEF Abstract!Unsubscribe

\* remove_session is the Disconnect of the abstract specification.
LEMMA RemoveSessionMaps ==
    ASSUME Registry, Registry', NEW s \in Sessions, remove_session(s)
    PROVE  Abstract!Disconnect(s)
  <1> DEFINE K == SubKeys(s)
             ids == {session_subscriptions[k] : k \in K}
  <1>1. /\ K \subseteq DOMAIN session_subscriptions /\ \A k \in K : k[1] = s
        /\ session_subscriptions' = remove(session_subscriptions, K) /\ Leave(ids, s)
    BY RemoveSessionShape
  <1>2. {p \in Latest : p[1] = s /\ <<s, p[2][1]>> \in K} = {p \in Latest : p[1] = s}
    BY DEF Latest, SubKeys
  <1> HIDE DEF K
  <1>3. Abstract!Drop({p \in Latest : p[1] = s /\ <<s, p[2][1]>> \in K})
    BY <1>1, LeaveDrops
  <1> QED
    BY <1>2, <1>3 DEF Abstract!Disconnect

\* For arbitrary clients, those with several QoS for one topic included, the
\* registry with its ids, indexes and reference counts implements the two sets
\* of Subscriptions: every step is a Subscribe, an Unsubscribe or a Disconnect
\* that removes what was subscribed last, or changes neither set.
THEOREM RegistryImplementsSubscriptions == Spec => ImplementsSubscriptions
  <1>1. Init => Registry
    BY RegistryInit DEF Followed
  <1>2. Registry /\ [Next]_vars => Registry'
    BY RegistryNext
  <1>3. Init => Abstract!Init
    BY DEF Init, EmptyMap, FanOut, Latest, Abstract!Init
  <1>4. Registry /\ Registry' /\ [Next]_vars => [Abstract!Next]_<<FanOut, Latest>>
    <2> SUFFICES ASSUME Registry, Registry', [Next]_vars
                 PROVE  Abstract!Next \/ UNCHANGED <<FanOut, Latest>>
      OBVIOUS
    <2>1. ASSUME NEW rq \in Requests, subscribe(rq[1], rq[2], rq[3])
          PROVE  Abstract!Next
      <3>1. rq[1] \in Sessions /\ rq[2] \in Topics /\ rq[3] \in QosSets
        BY RequestsAssumption
      <3>2. ReaderKey(rq[2], rq[3])[1] = rq[2]
        BY DEF ReaderKey
      <3>3. Abstract!Subscribe(rq[1], ReaderKey(rq[2], rq[3]))
        BY <2>1, <3>1, <3>2, SubscribeMaps, SubscribeMapsLatest DEF Abstract!Subscribe
      <3>4. ReaderKey(rq[2], rq[3]) \in RequestKeys
        BY DEF RequestKeys
      <3> QED BY <3>1, <3>3, <3>4 DEF Abstract!Next
    <2>2. ASSUME NEW s \in Sessions, NEW t \in Topics, unsubscribe(s, t)
          PROVE  Abstract!Next
      BY <2>2, UnsubscribeMaps DEF Abstract!Next
    <2>3. ASSUME NEW s \in Sessions, remove_session(s) PROVE Abstract!Next
      BY <2>3, RemoveSessionMaps DEF Abstract!Next
    <2>4. CASE UNCHANGED vars
      BY <2>4 DEF vars, FanOut, Latest
    <2> QED BY <2>1, <2>2, <2>3, <2>4 DEF Next, Acts
  <1> QED
    BY <1>1, <1>2, <1>3, <1>4, PTL DEF Spec, ImplementsSubscriptions, Abstract!Spec
=============================================================================
