---------------------------- MODULE GoConn_proofs ----------------------------
(***************************************************************************)
(* Proofs about GoConn, for any number of calls and any size of the id     *)
(* space that gives each of them an id of its own.                         *)
(***************************************************************************)
EXTENDS GoConn, FiniteSetTheorems, TLAPS

\* There are fewer calls on a connection than request ids (2^32 with the 0
\* that is skipped).
EnoughIds == IsFiniteSet(Calls) /\ Cardinality(Calls) < IdSpace

-----------------------------------------------------------------------------
(* The inductive invariant.                                                *)

\* The calls that have taken an id, and how many ids were given out since.
Taken == {c \in Calls : id[c] # 0}
Age(r) == IF r <= nextID THEN nextID - r ELSE nextID + (IdSpace - 1) - r

\* Ids are given out in a cycle, and no id in use is as old as the cycle is
\* long.
IdsFresh ==
    /\ nextID \in 0 .. IdSpace - 1
    /\ id \in [Calls -> 0 .. IdSpace - 1]
    /\ \A c \in Taken : nextID # 0 /\ Age(id[c]) < Cardinality(Taken)
    /\ \A c, d \in Taken : id[c] = id[d] => c = d

\* A call has an id from the moment it is stored or sent.
CallsTyped ==
    /\ state \in [Calls -> {"idle", "stored", "waiting"} \cup Returned]
    /\ \A r \in DOMAIN pending : pending[r] \in Calls
    /\ \A c \in Calls : state[c] = "idle" => id[c] = 0
    /\ \A c \in Calls : state[c] \in {"stored", "waiting"} => id[c] # 0

\* A request names the call it is of, and bears its id, ...
Requests == [id : Nat, of : Calls]
RequestsOwned ==
    /\ to_bridge \in Seq(Requests)
    /\ \A i \in 1 .. Len(to_bridge) : to_bridge[i].id = id[to_bridge[i].of]

\* ... and so does an answer.
Answers == [id : Nat, of : Seq(Calls), type : {"Ok", "Error", "Data"}]
OwnId(m) ==
    \/ m.id = 0 /\ m.of = <<>>
    \/ \E c \in Calls : m.of = <<c>> /\ m.id = id[c]
AnswersOwned ==
    /\ from_bridge \in Seq(Answers)
    /\ \A i \in 1 .. Len(from_bridge) : OwnId(from_bridge[i])

\* A call is given, and returns, its own answer.
Own(answer, c) == answer = <<>> \/ answer[1].of = <<c>>
HeldOwned == held = <<>> \/ \E c \in Calls : held[1].to = c /\ held[1].msg.of = <<c>>
ChannelsOwned ==
    /\ DOMAIN ch = Calls /\ DOMAIN got = Calls
    /\ \A c \in Calls : Own(ch[c], c) /\ Own(got[c], c)

MessagesOwned == RequestsOwned /\ AnswersOwned /\ HeldOwned /\ ChannelsOwned

\* The stages an exchange goes through.
Asking(c) == \E i \in 1 .. Len(to_bridge) : to_bridge[i].of = c
Answering(c) == \E i \in 1 .. Len(from_bridge) : from_bridge[i].of = <<c>>
Handing(c) == held # <<>> /\ held[1].to = c
Handed(c) == ch[c] # <<>>

\* An exchange is at one stage at a time, once, and at none before it is sent.
ExchangedOnce ==
    /\ \A i, j \in 1 .. Len(to_bridge) : to_bridge[i].of = to_bridge[j].of => i = j
    /\ \A i, j \in 1 .. Len(from_bridge) :
          from_bridge[i].id # 0 /\ from_bridge[i].of = from_bridge[j].of => i = j
    /\ \A c \in Calls :
          /\ Asking(c) => ~Answering(c) /\ ~Handing(c) /\ ~Handed(c)
          /\ Answering(c) => ~Handing(c) /\ ~Handed(c)
          /\ Handing(c) => ~Handed(c)
          /\ state[c] \in {"idle", "stored"} =>
                ~Asking(c) /\ ~Answering(c) /\ ~Handing(c) /\ ~Handed(c)

Exchange == IdsFresh /\ CallsTyped /\ PendingIsExact /\ MessagesOwned /\ ExchangedOnce

\* No call is made yet.
LEMMA ExchangeInit == Init => Exchange
  <1> SUFFICES ASSUME Init PROVE Exchange
    OBVIOUS
  <1>1. Taken = {} /\ IdsFresh
    BY ConnConstants DEF Init, IdsFresh, Taken
  <1>2. CallsTyped /\ PendingIsExact
    BY DEF Init, CallsTyped, PendingIsExact, EmptyMap
  <1>3. MessagesOwned
    BY DEF Init, MessagesOwned, RequestsOwned, AnswersOwned, HeldOwned, ChannelsOwned, Own
  <1>4. ExchangedOnce
    BY DEF Init, ExchangedOnce, Asking, Answering, Handing, Handed
  <1> QED BY <1>1, <1>2, <1>3, <1>4 DEF Exchange

-----------------------------------------------------------------------------
(* Request ids.                                                            *)

\* nextRequestID goes round 1 .. IdSpace - 1 (conn.go:85-92).
LEMMA NextInCycle ==
    ASSUME nextID \in 0 .. IdSpace - 1
    PROVE  nextRequestID = IF nextID = IdSpace - 1 THEN 1 ELSE nextID + 1
  <1>1. IdSpace \in Nat /\ IdSpace > 1
    BY ConnConstants
  <1>2. CASE nextID = IdSpace - 1
    <2>1. (nextID + 1) % IdSpace = 0
      BY <1>1, <1>2
    <2> QED BY <1>2, <2>1 DEF nextRequestID
  <1>3. CASE nextID # IdSpace - 1
    <2>1. (nextID + 1) % IdSpace = nextID + 1
      BY <1>1, <1>3
    <2> QED BY <1>1, <1>3, <2>1 DEF nextRequestID
  <1> QED BY <1>2, <1>3

\* The id a call takes is in nobody else's use.
LEMMA TakeId ==
    ASSUME EnoughIds, IdsFresh, NEW c \in Calls, id[c] = 0,
           nextID' = nextRequestID, id' = [id EXCEPT ![c] = nextRequestID]
    PROVE  /\ IdsFresh'
           /\ id'[c] # 0
           /\ \A d \in Calls : d # c => id'[d] = id[d] /\ id'[d] # id'[c]
  <1>1. IdSpace \in Nat /\ IdSpace > 1
    BY ConnConstants
  <1>2. /\ nextID \in Nat /\ nextID <= IdSpace - 1
        /\ nextID' = IF nextID = IdSpace - 1 THEN 1 ELSE nextID + 1
        /\ id'[c] = nextID'
        /\ \A d \in Calls : d # c => id'[d] = id[d]
        /\ id' \in [Calls -> 0 .. IdSpace - 1]
    BY <1>1, NextInCycle DEF IdsFresh
  <1>3. /\ Taken' = Taken \cup {c} /\ c \notin Taken
        /\ IsFiniteSet(Taken) /\ Taken \subseteq Calls
    BY <1>1, <1>2, FS_Subset DEF Taken, EnoughIds
  <1>4. /\ Cardinality(Taken) \in Nat
        /\ Cardinality(Taken') = Cardinality(Taken) + 1
        /\ Cardinality(Taken') <= Cardinality(Calls)
        /\ Cardinality(Calls) \in Nat
    BY <1>3, FS_AddElement, FS_CardinalityType, FS_Subset DEF EnoughIds
  <1>5. \A d \in Taken : Age(id[d])' = Age(id[d]) + 1 /\ id[d] # nextID'
    <2> SUFFICES ASSUME NEW d \in Taken
                 PROVE  Age(id[d])' = Age(id[d]) + 1 /\ id[d] # nextID'
      OBVIOUS
    <2>1. /\ id[d] \in Nat /\ id[d] # 0 /\ id[d] <= IdSpace - 1
          /\ nextID # 0 /\ Age(id[d]) < Cardinality(Taken)
          /\ id'[d] = id[d]
      BY <1>1, <1>2, <1>3 DEF IdsFresh, Taken
    <2>2. Age(id[d]) + 1 < IdSpace - 1
      BY <1>1, <1>2, <1>4, <2>1 DEF Age, EnoughIds
    <2> QED BY <1>1, <1>2, <2>1, <2>2 DEF Age
  <1>6. Age(id[c])' = 0
    BY <1>1, <1>2 DEF Age
  <1>7. \A d \in Taken' : nextID' # 0 /\ Age(id[d])' < Cardinality(Taken')
    <2> SUFFICES ASSUME NEW d \in Taken'
                 PROVE  nextID' # 0 /\ Age(id[d])' < Cardinality(Taken')
      OBVIOUS
    <2>1. CASE d = c
      BY <1>1, <1>2, <1>4, <1>6, <2>1
    <2>2. CASE d # c
      <3>1. d \in Taken /\ Age(id[d]) < Cardinality(Taken) /\ Age(id[d]) \in Int
        BY <1>1, <1>2, <1>3, <2>2 DEF IdsFresh, Age, Taken
      <3> QED BY <1>1, <1>2, <1>4, <1>5, <3>1
    <2> QED BY <2>1, <2>2
  <1>8. \A d \in Calls : d # c => id'[d] # id'[c]
    BY <1>1, <1>2, <1>5 DEF Taken
  <1>9. \A d, e \in Taken' : id'[d] = id'[e] => d = e
    BY <1>2, <1>3, <1>8 DEF IdsFresh, Taken
  <1>10. nextID' \in 0 .. IdSpace - 1
    BY <1>1, <1>2
  <1> QED BY <1>1, <1>2, <1>7, <1>8, <1>9, <1>10 DEF IdsFresh

\* Other steps leave the ids alone.
LEMMA IdsFrame ==
    ASSUME IdsFresh, UNCHANGED <<nextID, id>>
    PROVE  IdsFresh'
  BY DEF IdsFresh, Taken, Age

-----------------------------------------------------------------------------
(* Calls.                                                                  *)

\* A step that moves no message, and gives an id only to a call that has none
\* under way, keeps who owns what ...
LEMMA MessagesFrame ==
    ASSUME MessagesOwned, UNCHANGED <<to_bridge, from_bridge, held, ch, got>>,
           \A c \in Calls : Asking(c) \/ Answering(c) => id'[c] = id[c]
    PROVE  MessagesOwned'
  <1>1. ASSUME NEW i \in 1 .. Len(to_bridge)
        PROVE  to_bridge[i].id = id'[to_bridge[i].of]
    <2>1. to_bridge[i] \in Requests /\ to_bridge[i].id = id[to_bridge[i].of]
      BY DEF MessagesOwned, RequestsOwned
    <2>2. Asking(to_bridge[i].of)
      BY DEF Asking
    <2> QED BY <2>1, <2>2 DEF Requests
  <1>2. ASSUME NEW i \in 1 .. Len(from_bridge)
        PROVE  OwnId(from_bridge[i])'
    <2>1. OwnId(from_bridge[i])
      BY DEF MessagesOwned, AnswersOwned
    <2>2. ASSUME NEW c \in Calls, from_bridge[i].of = <<c>> PROVE id'[c] = id[c]
      BY <2>2 DEF Answering
    <2> QED BY <2>1, <2>2 DEF OwnId
  <1> QED
    BY <1>1, <1>2 DEF MessagesOwned, RequestsOwned, AnswersOwned, HeldOwned, ChannelsOwned, Own

\* ... and, as long as no call goes back to where it was before it was sent,
\* that an exchange is at one stage.
LEMMA StagesFrame ==
    ASSUME ExchangedOnce, UNCHANGED <<to_bridge, from_bridge, held, ch>>,
           \A c \in Calls : state'[c] \in {"idle", "stored"} => state[c] \in {"idle", "stored"}
    PROVE  ExchangedOnce'
  BY DEF ExchangedOnce, Asking, Answering, Handing, Handed

\* The closed check, the id and the entry in pending (conn.go:106-112).
LEMMA StoreKeeps ==
    ASSUME EnoughIds, Exchange, NEW c \in Calls, Store(c)
    PROVE  Exchange'
  <1>1. /\ state[c] = "idle" /\ id[c] = 0
        /\ nextID' = nextRequestID /\ id' = [id EXCEPT ![c] = nextRequestID]
        /\ UNCHANGED <<to_bridge, from_bridge, held, ch, got>>
    BY DEF Exchange, CallsTyped, Store, link
  <1>2. /\ IdsFresh'
        /\ id'[c] # 0
        /\ \A d \in Calls : d # c => id'[d] = id[d] /\ id'[d] # id'[c]
    BY <1>1, TakeId DEF Exchange
  <1>3. /\ state'[c] = "stored" /\ \A d \in Calls : d # c => state'[d] = state[d]
        /\ state' \in [Calls -> {"idle", "stored", "waiting"} \cup Returned]
        /\ id'[c] = nextRequestID
    BY <1>1 DEF Store, Exchange, CallsTyped, IdsFresh
  <1>4. CallsTyped'
    BY <1>2, <1>3 DEF Exchange, CallsTyped, Store, insert
  <1>5. PendingIsExact'
    <2>1. /\ DOMAIN pending' = DOMAIN pending \cup {id'[c]}
          /\ pending'[id'[c]] = c
          /\ \A r \in DOMAIN pending : r # id'[c] => pending'[r] = pending[r]
      BY <1>3 DEF Store, insert
    <2>2. \A r \in DOMAIN pending :
             pending[r] \in Calls /\ pending[r] # c /\ r # id'[c]
      BY <1>1, <1>2 DEF Exchange, CallsTyped, PendingIsExact
    <2>3. \A r \in DOMAIN pending' :
             state'[pending'[r]] \in {"stored", "waiting"} /\ id'[pending'[r]] = r
      BY <1>2, <1>3, <2>1, <2>2 DEF Exchange, PendingIsExact
    <2>4. ASSUME NEW d \in Calls, state'[d] \in {"stored", "waiting"}
          PROVE  id'[d] \in DOMAIN pending' /\ pending'[id'[d]] = d
      BY <1>2, <1>3, <2>1, <2>2, <2>4 DEF Exchange, PendingIsExact
    <2> QED BY <2>3, <2>4 DEF PendingIsExact
  <1>6. MessagesOwned'
    BY <1>1, <1>2, MessagesFrame DEF Exchange, ExchangedOnce
  <1>7. ExchangedOnce'
    BY <1>1, <1>3, StagesFrame DEF Exchange
  <1> QED BY <1>2, <1>4, <1>5, <1>6, <1>7 DEF Exchange

\* A request is sent: the exchange of its call begins.
LEMMA Asks ==
    ASSUME MessagesOwned, ExchangedOnce, NEW c \in Calls,
           state[c] \in {"idle", "stored"}, state'[c] \notin {"idle", "stored"},
           \A d \in Calls : d # c => state'[d] = state[d] /\ id'[d] = id[d],
           id'[c] \in Nat,
           to_bridge' = Append(to_bridge, [id |-> id'[c], of |-> c]),
           UNCHANGED <<from_bridge, held, ch, got>>
    PROVE  MessagesOwned' /\ ExchangedOnce'
  <1> DEFINE n == Len(to_bridge)
             m == [id |-> id'[c], of |-> c]
  <1>1. ~Asking(c) /\ ~Answering(c) /\ ~Handing(c) /\ ~Handed(c)
    BY DEF ExchangedOnce
  <1>2. /\ n \in Nat /\ Len(to_bridge') = n + 1
        /\ to_bridge'[n + 1] = m /\ to_bridge' \in Seq(Requests)
        /\ \A i \in 1 .. n : to_bridge'[i] = to_bridge[i] /\ to_bridge[i] \in Requests
    <2>1. m \in Requests
      BY DEF Requests
    <2> QED BY <2>1 DEF MessagesOwned, RequestsOwned
  <1>3. \A i \in 1 .. n : to_bridge[i].of # c /\ to_bridge[i].of \in Calls
    BY <1>1, <1>2 DEF Asking, Requests
  <1>4. RequestsOwned'
    <2>1. ASSUME NEW i \in 1 .. Len(to_bridge')
          PROVE  to_bridge'[i].id = id'[to_bridge'[i].of]
      <3>1. CASE i = n + 1
        BY <1>2, <3>1
      <3>2. CASE i \in 1 .. n
        BY <1>2, <1>3, <3>2 DEF MessagesOwned, RequestsOwned
      <3> QED BY <1>2, <3>1, <3>2
    <2> QED BY <1>2, <2>1 DEF RequestsOwned
  <1>5. AnswersOwned'
    <2>1. ASSUME NEW i \in 1 .. Len(from_bridge)
          PROVE  OwnId(from_bridge[i])'
      <3>1. OwnId(from_bridge[i]) /\ from_bridge[i].of # <<c>>
        BY <1>1 DEF MessagesOwned, AnswersOwned, Answering
      <3> QED BY <3>1 DEF OwnId
    <2> QED BY <2>1 DEF MessagesOwned, AnswersOwned
  <1>6. HeldOwned' /\ ChannelsOwned'
    BY DEF MessagesOwned, HeldOwned, ChannelsOwned, Own
  <1>7. \A d \in Calls : Asking(d)' <=> Asking(d) \/ d = c
    BY <1>2, <1>3 DEF Asking
  <1>8. \A d \in Calls : /\ Answering(d)' <=> Answering(d)
                         /\ Handing(d)' <=> Handing(d)
                         /\ Handed(d)' <=> Handed(d)
    BY DEF Answering, Handing, Handed
  <1>9. \A i, j \in 1 .. Len(to_bridge') : to_bridge'[i].of = to_bridge'[j].of => i = j
    BY <1>2, <1>3 DEF ExchangedOnce
  <1>10. ExchangedOnce'
    BY <1>1, <1>7, <1>8, <1>9 DEF ExchangedOnce
  <1> QED BY <1>4, <1>5, <1>6, <1>10 DEF MessagesOwned

\* A call that returns takes its own entry, and no other, out of pending.
LEMMA ReturnsKeeps ==
    ASSUME Exchange, NEW c \in Calls, NEW how \in Returned,
           state[c] \in {"stored", "waiting"}, Returns(c, how)
    PROVE  IdsFresh' /\ CallsTyped' /\ PendingIsExact'
  <1>1. /\ UNCHANGED <<nextID, id>>
        /\ state'[c] = how /\ how \notin {"idle", "stored", "waiting"}
        /\ \A d \in Calls : d # c => state'[d] = state[d]
        /\ state' \in [Calls -> {"idle", "stored", "waiting"} \cup Returned]
    BY DEF Returns, Exchange, CallsTyped, Returned
  <1>2. /\ DOMAIN pending' = DOMAIN pending \ {id[c]}
        /\ \A r \in DOMAIN pending' : pending'[r] = pending[r]
    BY DEF Returns, remove, Restrict
  <1>3. IdsFresh'
    BY <1>1, IdsFrame DEF Exchange
  <1>4. CallsTyped'
    BY <1>1, <1>2 DEF Exchange, CallsTyped
  <1>5. \A r \in DOMAIN pending' :
           state'[pending'[r]] \in {"stored", "waiting"} /\ id'[pending'[r]] = r
    BY <1>1, <1>2 DEF Exchange, CallsTyped, PendingIsExact
  <1>6. ASSUME NEW d \in Calls, state'[d] \in {"stored", "waiting"}
        PROVE  id'[d] \in DOMAIN pending' /\ pending'[id'[d]] = d
    <2>1. d # c /\ state[d] \in {"stored", "waiting"}
      BY <1>1, <1>6
    <2>2. id[d] # id[c]
      BY <2>1 DEF Exchange, PendingIsExact
    <2> QED BY <1>1, <1>2, <2>1, <2>2 DEF Exchange, PendingIsExact
  <1> QED BY <1>3, <1>4, <1>5, <1>6 DEF PendingIsExact

\* Every step of a call keeps the invariant.
LEMMA CallingKeeps ==
    ASSUME EnoughIds, Exchange, NEW c \in Calls, Calling(c)
    PROVE  Exchange'
  <1>1. CASE Store(c)
    BY <1>1, StoreKeeps
  <1>2. CASE Refuse(c)
    <2>1. /\ UNCHANGED <<nextID, id, pending, to_bridge, from_bridge, held, ch, got>>
          /\ state[c] = "idle" /\ state' = [state EXCEPT ![c] = "failed"]
      BY <1>2 DEF Refuse, link
    <2>2. CallsTyped' /\ PendingIsExact'
      BY <2>1 DEF Exchange, CallsTyped, PendingIsExact, Returned
    <2>3. ExchangedOnce'
      BY <2>1, StagesFrame DEF Exchange, CallsTyped
    <2> QED BY <2>1, <2>2, <2>3, IdsFrame, MessagesFrame DEF Exchange
  <1>3. CASE Send(c)
    <2>1. /\ UNCHANGED <<nextID, id, pending, from_bridge, held, ch, got>>
          /\ state[c] = "stored" /\ state' = [state EXCEPT ![c] = "waiting"]
          /\ to_bridge' = Append(to_bridge, [id |-> id[c], of |-> c]) \/ to_bridge' = to_bridge
      BY <1>3 DEF Send, Written
    <2>2. /\ state'[c] = "waiting" /\ \A d \in Calls : d # c => state'[d] = state[d]
          /\ id[c] \in Nat
      BY <2>1, ConnConstants DEF Exchange, CallsTyped, IdsFresh
    <2>3. CallsTyped' /\ PendingIsExact'
      BY <2>1 DEF Exchange, CallsTyped, PendingIsExact, Returned
    <2>4. MessagesOwned' /\ ExchangedOnce'
      <3>1. CASE to_bridge' = Append(to_bridge, [id |-> id[c], of |-> c])
        BY <2>1, <2>2, <3>1, Asks DEF Exchange
      <3>2. CASE to_bridge' = to_bridge
        BY <2>1, <2>2, <3>2, MessagesFrame, StagesFrame DEF Exchange
      <3> QED BY <2>1, <3>1, <3>2
    <2> QED BY <2>1, <2>3, <2>4, IdsFrame DEF Exchange
  <1>4. CASE SendFails(c) \/ TimesOut(c) \/ SeesClose(c)
    <2>1. /\ state[c] \in {"stored", "waiting"} /\ Returns(c, "failed")
          /\ UNCHANGED <<ch, got>>
      BY <1>4 DEF SendFails, TimesOut, SeesClose
    <2>2. IdsFresh' /\ CallsTyped' /\ PendingIsExact'
      BY <2>1, ReturnsKeeps DEF Returned
    <2>3. UNCHANGED <<id, to_bridge, from_bridge, held>> /\ state' = [state EXCEPT ![c] = "failed"]
      BY <2>1 DEF Returns, link
    <2>4. MessagesOwned' /\ ExchangedOnce'
      BY <2>1, <2>3, MessagesFrame, StagesFrame DEF Exchange, CallsTyped
    <2> QED BY <2>2, <2>4 DEF Exchange
  <1>5. CASE GetsAnswer(c)
    <2>1. PICK how \in {"refused", "answered"} : Returns(c, how)
      BY <1>5 DEF GetsAnswer
    <2>2. /\ state[c] = "waiting" /\ ch[c] # <<>>
          /\ got' = [got EXCEPT ![c] = ch[c]] /\ ch' = [ch EXCEPT ![c] = <<>>]
          /\ UNCHANGED <<id, to_bridge, from_bridge, held>>
          /\ state' = [state EXCEPT ![c] = how]
      BY <1>5, <2>1 DEF GetsAnswer, Returns, link
    <2>3. IdsFresh' /\ CallsTyped' /\ PendingIsExact'
      BY <2>1, <2>2, ReturnsKeeps DEF Returned
    <2>4. ChannelsOwned'
      BY <2>2 DEF Exchange, MessagesOwned, ChannelsOwned, Own
    <2>5. RequestsOwned' /\ AnswersOwned' /\ HeldOwned'
      BY <2>2 DEF Exchange, MessagesOwned, RequestsOwned, AnswersOwned, HeldOwned, OwnId
    <2>6. \A d \in Calls : /\ Asking(d)' <=> Asking(d)
                           /\ Answering(d)' <=> Answering(d)
                           /\ Handing(d)' <=> Handing(d)
                           /\ Handed(d)' => Handed(d)
                           /\ state'[d] \in {"idle", "stored"} => state[d] \in {"idle", "stored"}
      BY <2>2 DEF Exchange, MessagesOwned, ChannelsOwned, CallsTyped,
                  Asking, Answering, Handing, Handed
    <2>7. ExchangedOnce'
      BY <2>2, <2>6 DEF Exchange, ExchangedOnce
    <2> QED BY <2>3, <2>4, <2>5, <2>7 DEF Exchange, MessagesOwned
  <1>6. CASE Publish(c)
    <2>1. /\ state[c] = "idle" /\ id[c] = 0
          /\ nextID' = nextRequestID /\ id' = [id EXCEPT ![c] = nextRequestID]
          /\ UNCHANGED <<pending, from_bridge, held, ch, got>>
          /\ \/ /\ state' = [state EXCEPT ![c] = "sent"]
                /\ \/ to_bridge' = Append(to_bridge, [id |-> nextRequestID, of |-> c])
                   \/ to_bridge' = to_bridge
             \/ state' = [state EXCEPT ![c] = "failed"] /\ to_bridge' = to_bridge
      BY <1>6 DEF Publish, Written, Exchange, CallsTyped
    <2>2. /\ IdsFresh'
          /\ id'[c] # 0
          /\ \A d \in Calls : d # c => id'[d] = id[d] /\ id'[d] # id'[c]
      BY <2>1, TakeId DEF Exchange
    <2>3. /\ id'[c] = nextRequestID /\ id'[c] \in Nat
          /\ state'[c] \in {"sent", "failed"}
          /\ \A d \in Calls : d # c => state'[d] = state[d]
          /\ state' \in [Calls -> {"idle", "stored", "waiting"} \cup Returned]
      BY <2>1, <2>2, ConnConstants DEF Exchange, CallsTyped, IdsFresh, Returned
    <2>4. CallsTyped' /\ PendingIsExact'
      BY <2>1, <2>2, <2>3 DEF Exchange, CallsTyped, PendingIsExact
    <2>5. MessagesOwned' /\ ExchangedOnce'
      <3>1. CASE to_bridge' = Append(to_bridge, [id |-> nextRequestID, of |-> c])
        BY <2>1, <2>2, <2>3, <3>1, Asks DEF Exchange
      <3>2. CASE to_bridge' = to_bridge
        <4>1. \A d \in Calls : Asking(d) \/ Answering(d) => id'[d] = id[d]
          BY <2>1, <2>2 DEF Exchange, ExchangedOnce
        <4> QED BY <2>1, <2>3, <3>2, <4>1, MessagesFrame, StagesFrame DEF Exchange
      <3> QED BY <2>1, <3>1, <3>2
    <2> QED BY <2>2, <2>4, <2>5 DEF Exchange
  <1> QED BY <1>1, <1>2, <1>3, <1>4, <1>5, <1>6 DEF Calling

-----------------------------------------------------------------------------
(* recvLoop and the bridge.                                                *)

\* Steps that leave the calls alone and move messages only.
LEMMA ExchangeMoves ==
    ASSUME Exchange, UNCHANGED calls, MessagesOwned', ExchangedOnce'
    PROVE  Exchange'
  <1>1. UNCHANGED <<nextID, pending, state, id, got>>
    BY DEF calls
  <1>2. IdsFresh'
    BY <1>1, IdsFrame DEF Exchange
  <1> QED BY <1>1, <1>2 DEF Exchange, CallsTyped, PendingIsExact

\* The message recvLoop reads, and those that remain.
LEMMA HeadLeaves ==
    ASSUME MessagesOwned, ExchangedOnce, from_bridge # <<>>,
           from_bridge' = Tail(from_bridge), UNCHANGED id
    PROVE  /\ AnswersOwned'
           /\ OwnId(Head(from_bridge))
           /\ \A c \in Calls : Answering(c)' => Answering(c)
           /\ \A c \in Calls :
                 Head(from_bridge).of = <<c>> =>
                    Answering(c) /\ (Head(from_bridge).id # 0 => ~Answering(c)')
           /\ \A i, j \in 1 .. Len(from_bridge') :
                 from_bridge'[i].id # 0 /\ from_bridge'[i].of = from_bridge'[j].of => i = j
  <1> DEFINE n == Len(from_bridge)
  <1>1. /\ n \in Nat /\ n > 0 /\ Len(from_bridge') = n - 1
        /\ Head(from_bridge) = from_bridge[1]
        /\ from_bridge' \in Seq(Answers)
        /\ \A i \in 1 .. Len(from_bridge') :
              i + 1 \in 1 .. n /\ from_bridge'[i] = from_bridge[i + 1]
    BY DEF MessagesOwned, AnswersOwned
  <1>2. \A i \in 1 .. n : OwnId(from_bridge[i])
    BY DEF MessagesOwned, AnswersOwned
  <1>3. AnswersOwned'
    <2>1. ASSUME NEW i \in 1 .. Len(from_bridge') PROVE OwnId(from_bridge[i])'
      <3>1. OwnId(from_bridge[i + 1]) /\ from_bridge'[i] = from_bridge[i + 1]
        BY <1>1, <1>2
      <3> QED BY <3>1 DEF OwnId
    <2> QED BY <1>1, <2>1 DEF AnswersOwned
  <1>4. ASSUME NEW c \in Calls, Answering(c)' PROVE Answering(c)
    <2>1. PICK i \in 1 .. Len(from_bridge') : from_bridge'[i].of = <<c>>
      BY <1>4 DEF Answering
    <2> QED BY <1>1, <2>1 DEF Answering
  <1>5. ASSUME NEW c \in Calls, Head(from_bridge).of = <<c>>
        PROVE  Answering(c) /\ (Head(from_bridge).id # 0 => ~Answering(c)')
    <2>1. Answering(c)
      BY <1>1, <1>5 DEF Answering
    <2>2. ASSUME Head(from_bridge).id # 0, Answering(c)' PROVE FALSE
      <3>1. PICK i \in 1 .. Len(from_bridge') : from_bridge'[i].of = <<c>>
        BY <2>2 DEF Answering
      <3>2. from_bridge[1].id # 0 /\ from_bridge[1].of = from_bridge[i + 1].of /\ 1 # i + 1
        BY <1>1, <1>5, <2>2, <3>1
      <3> QED BY <1>1, <3>1, <3>2 DEF ExchangedOnce
    <2> QED BY <2>1, <2>2
  <1>6. ASSUME NEW i \in 1 .. Len(from_bridge'), NEW j \in 1 .. Len(from_bridge'),
               from_bridge'[i].id # 0, from_bridge'[i].of = from_bridge'[j].of
        PROVE  i = j
    <2>1. i + 1 = j + 1
      BY <1>1, <1>6 DEF ExchangedOnce
    <2>2. i \in Nat /\ j \in Nat
      BY <1>1
    <2> QED BY <2>1, <2>2
  <1>7. OwnId(Head(from_bridge))
    BY <1>1, <1>2
  <1> QED BY <1>3, <1>4, <1>5, <1>6, <1>7

\* pending leads to the call that the answer is of (conn.go:288-290).
LEMMA RecvKeeps ==
    ASSUME Exchange, RecvAnswer \/ RecvOther
    PROVE  Exchange'
  <1> DEFINE m == Head(from_bridge)
  <1>1. /\ held = <<>> /\ from_bridge # <<>> /\ from_bridge' = Tail(from_bridge)
        /\ UNCHANGED <<calls, ch, to_bridge, id, got, state>>
    BY DEF RecvAnswer, RecvOther, Reads, calls
  <1>2. /\ AnswersOwned'
        /\ OwnId(m)
        /\ \A c \in Calls : Answering(c)' => Answering(c)
        /\ \A c \in Calls :
              m.of = <<c>> => Answering(c) /\ (m.id # 0 => ~Answering(c)')
        /\ \A i, j \in 1 .. Len(from_bridge') :
              from_bridge'[i].id # 0 /\ from_bridge'[i].of = from_bridge'[j].of => i = j
    BY <1>1, HeadLeaves DEF Exchange
  <1>3. RequestsOwned' /\ ChannelsOwned'
    BY <1>1 DEF Exchange, MessagesOwned, RequestsOwned, ChannelsOwned, Own
  <1>4. \A c \in Calls : (Asking(c)' <=> Asking(c)) /\ (Handed(c)' <=> Handed(c)) /\ ~Handing(c)
    BY <1>1 DEF Asking, Handed, Handing
  <1>5. CASE RecvOther
    <2>1. held' = <<>>
      BY <1>1, <1>5 DEF RecvOther
    <2>2. HeldOwned' /\ \A c \in Calls : ~Handing(c)'
      BY <2>1 DEF HeldOwned, Handing
    <2>3. ExchangedOnce'
      BY <1>1, <1>2, <1>4, <2>2 DEF Exchange, ExchangedOnce
    <2> QED BY <1>1, <1>2, <1>3, <2>2, <2>3, ExchangeMoves DEF MessagesOwned
  <1>6. CASE RecvAnswer
    <2>1. /\ m.id # 0 /\ m.id \in DOMAIN pending
          /\ held' = <<[to |-> pending[m.id], msg |-> m]>>
      BY <1>6 DEF RecvAnswer, Awaited
    <2>2. PICK c \in Calls : m.of = <<c>> /\ m.id = id[c]
      BY <1>2, <2>1 DEF OwnId
    <2>3. pending[m.id] \in Calls /\ id[pending[m.id]] = m.id
      BY <2>1 DEF Exchange, CallsTyped, PendingIsExact
    <2>4. pending[m.id] = c
      BY <2>1, <2>2, <2>3 DEF Exchange, IdsFresh, Taken
    <2>5. HeldOwned' /\ \A d \in Calls : Handing(d)' <=> d = c
      BY <2>1, <2>2, <2>4 DEF HeldOwned, Handing
    <2>6. /\ Answering(c) /\ ~Answering(c)'
      BY <1>2, <2>1, <2>2
    <2>7. ExchangedOnce'
      <3>1. ASSUME NEW d \in Calls
            PROVE  /\ Asking(d)' => ~Answering(d)' /\ ~Handing(d)' /\ ~Handed(d)'
                   /\ Answering(d)' => ~Handing(d)' /\ ~Handed(d)'
                   /\ Handing(d)' => ~Handed(d)'
                   /\ state'[d] \in {"idle", "stored"} =>
                         ~Asking(d)' /\ ~Answering(d)' /\ ~Handing(d)' /\ ~Handed(d)'
        BY <1>1, <1>2, <1>4, <2>5, <2>6 DEF Exchange, ExchangedOnce
      <3> QED BY <1>1, <1>2, <3>1 DEF Exchange, ExchangedOnce
    <2> QED BY <1>1, <1>2, <1>3, <2>5, <2>7, ExchangeMoves DEF MessagesOwned
  <1> QED BY <1>5, <1>6

\* The send on the channel (conn.go:290).
LEMMA DeliverKeeps ==
    ASSUME Exchange, Deliver
    PROVE  Exchange'
  <1>1. PICK c \in Calls : held # <<>> /\ held[1].to = c /\ held[1].msg.of = <<c>>
    BY DEF Exchange, MessagesOwned, HeldOwned, Deliver
  <1>2. /\ ch' = [ch EXCEPT ![c] = <<held[1].msg>>] /\ held' = <<>>
        /\ UNCHANGED <<calls, to_bridge, from_bridge, id, got, state>>
    BY <1>1 DEF Deliver, link, calls
  <1>3. RequestsOwned' /\ AnswersOwned' /\ HeldOwned'
    BY <1>2 DEF Exchange, MessagesOwned, RequestsOwned, AnswersOwned, HeldOwned, OwnId
  <1>4. ChannelsOwned'
    BY <1>1, <1>2 DEF Exchange, MessagesOwned, ChannelsOwned, Own
  <1>5. \A d \in Calls : /\ Asking(d)' <=> Asking(d)
                         /\ Answering(d)' <=> Answering(d)
                         /\ ~Handing(d)'
                         /\ Handed(d)' => Handed(d) \/ Handing(d)
    BY <1>1, <1>2 DEF Exchange, MessagesOwned, ChannelsOwned, Asking, Answering, Handing, Handed
  <1>6. ExchangedOnce'
    BY <1>2, <1>5 DEF Exchange, ExchangedOnce
  <1> QED BY <1>2, <1>3, <1>4, <1>6, ExchangeMoves DEF MessagesOwned

\* The bridge's messages arrive behind those that are on their way.
LEMMA AnswerJoins ==
    ASSUME MessagesOwned, ExchangedOnce, UNCHANGED id,
           NEW m \in Answers, OwnId(m), from_bridge' = Append(from_bridge, m),
           \A c \in Calls : m.of = <<c>> => ~Answering(c)
    PROVE  /\ AnswersOwned'
           /\ \A c \in Calls : Answering(c)' <=> Answering(c) \/ m.of = <<c>>
           /\ \A i, j \in 1 .. Len(from_bridge') :
                 from_bridge'[i].id # 0 /\ from_bridge'[i].of = from_bridge'[j].of => i = j
  <1> DEFINE n == Len(from_bridge)
  <1>1. /\ n \in Nat /\ Len(from_bridge') = n + 1
        /\ from_bridge'[n + 1] = m /\ from_bridge' \in Seq(Answers)
        /\ \A i \in 1 .. n : from_bridge'[i] = from_bridge[i] /\ OwnId(from_bridge[i])
    BY DEF MessagesOwned, AnswersOwned
  <1>2. AnswersOwned'
    <2>1. ASSUME NEW i \in 1 .. Len(from_bridge') PROVE OwnId(from_bridge[i])'
      <3>1. OwnId(from_bridge'[i])
        BY <1>1
      <3> QED BY <3>1 DEF OwnId
    <2> QED BY <1>1, <2>1 DEF AnswersOwned
  <1>3. \A c \in Calls : Answering(c)' <=> Answering(c) \/ m.of = <<c>>
    BY <1>1 DEF Answering
  <1>4. \A i \in 1 .. n : from_bridge[i].id # 0 \/ m.id # 0 => from_bridge[i].of # m.of
    BY <1>1 DEF OwnId, Answering
  <1>5. \A i, j \in 1 .. Len(from_bridge') :
           from_bridge'[i].id # 0 /\ from_bridge'[i].of = from_bridge'[j].of => i = j
    BY <1>1, <1>4 DEF ExchangedOnce
  <1> QED BY <1>2, <1>3, <1>5

LEMMA BridgeKeeps ==
    ASSUME Exchange, BridgeAnswers \/ BridgeNotifies
    PROVE  Exchange'
  <1>1. UNCHANGED <<calls, ch, held, id, got, state>>
    BY DEF BridgeAnswers, BridgeNotifies, calls
  <1>2. HeldOwned' /\ ChannelsOwned'
    BY <1>1 DEF Exchange, MessagesOwned, HeldOwned, ChannelsOwned, Own
  <1>3. \A c \in Calls : (Handed(c)' <=> Handed(c)) /\ (Handing(c)' <=> Handing(c))
    BY <1>1 DEF Handed, Handing
  <1>4. CASE BridgeNotifies
    <2> DEFINE m == [id |-> 0, of |-> <<>>, type |-> "Data"]
    <2>0. m \in Answers /\ OwnId(m) /\ \A c \in Calls : m.of # <<c>>
      <3>1. <<>> \in Seq(Calls) /\ \A c \in Calls : <<>> # <<c>>
        OBVIOUS
      <3>2. m \in Answers
        BY <3>1 DEF Answers
      <3>3. OwnId(m)
        BY DEF OwnId
      <3> QED BY <3>1, <3>2, <3>3
    <2>1. /\ from_bridge' = Append(from_bridge, m) /\ to_bridge' = to_bridge
          /\ m \in Answers /\ OwnId(m) /\ \A c \in Calls : m.of # <<c>>
      BY <1>4, <2>0 DEF BridgeNotifies
    <2>2. /\ AnswersOwned'
          /\ \A c \in Calls : Answering(c)' <=> Answering(c)
          /\ \A i, j \in 1 .. Len(from_bridge') :
                from_bridge'[i].id # 0 /\ from_bridge'[i].of = from_bridge'[j].of => i = j
      BY <1>1, <2>1, AnswerJoins DEF Exchange
    <2>3. RequestsOwned' /\ \A c \in Calls : Asking(c)' <=> Asking(c)
      BY <1>1, <2>1 DEF Exchange, MessagesOwned, RequestsOwned, Asking
    <2>4. ExchangedOnce'
      BY <1>1, <1>3, <2>1, <2>2, <2>3 DEF Exchange, ExchangedOnce
    <2> QED BY <1>1, <1>2, <2>2, <2>3, <2>4, ExchangeMoves DEF MessagesOwned
  <1>5. CASE BridgeAnswers
    <2> DEFINE n == Len(to_bridge)
               q == to_bridge[1]
    <2>1. PICK type \in {"Ok", "Error"} :
             from_bridge' = Append(from_bridge, [id |-> q.id, of |-> <<q.of>>, type |-> type])
      BY <1>5 DEF BridgeAnswers, Exchange, MessagesOwned, RequestsOwned
    <2> DEFINE m == [id |-> q.id, of |-> <<q.of>>, type |-> type]
    <2>2. /\ n \in Nat /\ n > 0 /\ Len(to_bridge') = n - 1
          /\ to_bridge' \in Seq(Requests)
          /\ q \in Requests /\ q.id = id[q.of]
          /\ \A i \in 1 .. Len(to_bridge') :
                i + 1 \in 1 .. n /\ to_bridge'[i] = to_bridge[i + 1]
      BY <1>5 DEF BridgeAnswers, Exchange, MessagesOwned, RequestsOwned
    <2>3. q.of \in Calls /\ q.id \in Nat
      BY <2>2 DEF Requests
    <2>4. Asking(q.of)
      BY <2>2 DEF Asking
    <2>5. /\ m \in Answers /\ OwnId(m)
          /\ \A c \in Calls : m.of = <<c>> <=> c = q.of
      <3>1. <<q.of>> \in Seq(Calls) /\ \A c \in Calls : <<q.of>> = <<c>> <=> c = q.of
        BY <2>3
      <3>2. m \in Answers
        BY <2>1, <2>3, <3>1 DEF Answers
      <3>3. OwnId(m)
        BY <2>2, <2>3 DEF OwnId
      <3> QED BY <3>1, <3>2, <3>3
    <2>6. ~Answering(q.of) /\ ~Handing(q.of) /\ ~Handed(q.of)
          /\ state[q.of] \notin {"idle", "stored"}
      BY <2>3, <2>4 DEF Exchange, ExchangedOnce
    <2>7. /\ AnswersOwned'
          /\ \A c \in Calls : Answering(c)' <=> Answering(c) \/ c = q.of
          /\ \A i, j \in 1 .. Len(from_bridge') :
                from_bridge'[i].id # 0 /\ from_bridge'[i].of = from_bridge'[j].of => i = j
      BY <1>1, <2>1, <2>5, <2>6, AnswerJoins DEF Exchange
    <2>8. RequestsOwned'
      BY <1>1, <2>2 DEF Exchange, MessagesOwned, RequestsOwned
    <2>9. \A i, j \in 1 .. Len(to_bridge') : to_bridge'[i].of = to_bridge'[j].of => i = j
      <3> SUFFICES ASSUME NEW i \in 1 .. Len(to_bridge'), NEW j \in 1 .. Len(to_bridge'),
                          to_bridge'[i].of = to_bridge'[j].of
                   PROVE  i + 1 = j + 1
        BY <2>2
      <3> QED BY <2>2, SMTT(30) DEF Exchange, ExchangedOnce
    <2>10. ASSUME NEW c \in Calls, Asking(c)' PROVE Asking(c) /\ c # q.of
      <3>1. PICK i \in 1 .. Len(to_bridge') : to_bridge'[i].of = c
        BY <2>10 DEF Asking
      <3>2. i + 1 \in 1 .. n /\ i + 1 # 1 /\ to_bridge[i + 1].of = c /\ 1 \in 1 .. n
        BY <2>2, <3>1
      <3>3. c # q.of
        BY <3>2 DEF Exchange, ExchangedOnce
      <3> QED BY <3>2, <3>3 DEF Asking
    <2>11. ASSUME NEW d \in Calls
           PROVE  /\ Asking(d)' => ~Answering(d)' /\ ~Handing(d)' /\ ~Handed(d)'
                  /\ Answering(d)' => ~Handing(d)' /\ ~Handed(d)'
                  /\ Handing(d)' => ~Handed(d)'
                  /\ state'[d] \in {"idle", "stored"} =>
                        ~Asking(d)' /\ ~Answering(d)' /\ ~Handing(d)' /\ ~Handed(d)'
      BY <1>1, <1>3, <2>6, <2>7, <2>10 DEF Exchange, ExchangedOnce
    <2>12. ExchangedOnce'
      BY <2>7, <2>9, <2>11 DEF ExchangedOnce
    <2> QED BY <1>1, <1>2, <2>7, <2>8, <2>12, ExchangeMoves DEF MessagesOwned
  <1> QED BY <1>4, <1>5

\* Every step keeps the invariant.
LEMMA ExchangeStep ==
    ASSUME EnoughIds, Exchange, [Next]_vars
    PROVE  Exchange'
  <1>1. ASSUME NEW c \in Calls, Calling(c) PROVE Exchange'
    BY <1>1, CallingKeeps
  <1>2. CASE RecvAnswer \/ RecvOther
    BY <1>2, RecvKeeps
  <1>3. CASE Deliver
    BY <1>3, DeliverKeeps
  <1>4. CASE BridgeAnswers \/ BridgeNotifies
    BY <1>4, BridgeKeeps
  <1>5. CASE RecvEnds \/ CloseSwaps \/ close \/ LinkBreaks \/ UNCHANGED vars
    <2>1. UNCHANGED <<calls, id, state, got, ch, held, to_bridge, from_bridge>>
      BY <1>5 DEF RecvEnds, CloseSwaps, close, CloseShuts, CloseReturns, LinkBreaks, vars, link, calls
    <2> QED BY <2>1, MessagesFrame, StagesFrame, ExchangeMoves DEF Exchange
  <1> QED BY <1>1, <1>2, <1>3, <1>4, <1>5 DEF Next, recvLoop

LEMMA ExchangeInvariant ==
    ASSUME EnoughIds PROVE Spec => []Exchange
  <1>1. Exchange /\ [Next]_vars => Exchange'
    BY ExchangeStep
  <1> QED BY <1>1, ExchangeInit, PTL DEF Spec

-----------------------------------------------------------------------------
(* Theorems.                                                               *)

\* As long as a connection makes fewer calls than there are ids, a call
\* returns the answer to its own request or none (sendAndWait, conn.go:105-137,
\* and recvLoop's hand-over, conn.go:288-291).
THEOREM AnswersAlwaysMatch ==
    ASSUME EnoughIds PROVE Spec => []AnswersMatch
  <1>1. Exchange => AnswersMatch
    BY DEF Exchange, MessagesOwned, ChannelsOwned, Own, AnswersMatch
  <1> QED BY <1>1, ExchangeInvariant, PTL

\* recvLoop's send on a channel never waits: a channel is used for one answer.
THEOREM RecvNeverWaits ==
    ASSUME EnoughIds PROVE Spec => []RecvNeverBlocks
  <1>1. Exchange => RecvNeverBlocks
    BY DEF Exchange, MessagesOwned, HeldOwned, ExchangedOnce, Handing, Handed, RecvNeverBlocks
  <1> QED BY <1>1, ExchangeInvariant, PTL

\* pending holds the calls in progress and nothing else, although every way
\* out of sendAndWait deletes by id (conn.go:112-127).
THEOREM PendingAlwaysExact ==
    ASSUME EnoughIds PROVE Spec => []PendingIsExact
  <1>1. Exchange => PendingIsExact
    BY DEF Exchange
  <1> QED BY <1>1, ExchangeInvariant, PTL
==============================================================================
