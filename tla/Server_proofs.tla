---------------------------- MODULE Server_proofs ----------------------------
(***************************************************************************)
(* The accept loop keeps count of its tasks, those lost to a panic         *)
(* included, and never has more of them than max_connections, for any      *)
(* peers and any limit.                                                    *)
(***************************************************************************)
EXTENDS Server, FiniteSetTheorems, TLAPS

\* The connections that wait for the loop, in the listener's queue or in peek,
\* have no task yet, and each waits in one place only.
Queued ==
    /\ \A i \in 1 .. Len(backlog) : conn[backlog[i]] = "waiting"
    /\ \A i, j \in 1 .. Len(backlog) : backlog[i] = backlog[j] => i = j
    /\ \A p \in Peers : loop = <<p>> =>
          conn[p] = "waiting" /\ \A i \in 1 .. Len(backlog) : backlog[i] # p

\* The loop waits in peek only after it saw a free connection.  Tasks that end
\* meanwhile free more, and no other task is spawned before the loop is back.
RoomKept ==
    /\ active_connections <= max_connections
    /\ loop # <<>> => active_connections < max_connections

\* What the counter stands for.
Charged == Tasks \cup Lost

\* The inductive invariant.
Counted ==
    /\ TypeOK
    /\ IsFiniteSet(Charged) /\ CountMatchesTasks
    /\ Queued
    /\ RoomKept

\* A step that changes no connection into a task or out of one, but by a panic.
LEMMA SameTasks ==
    ASSUME Charged' = Charged, UNCHANGED active_connections, IsFiniteSet(Charged),
           CountMatchesTasks
    PROVE  IsFiniteSet(Charged)' /\ CountMatchesTasks'
  BY DEF CountMatchesTasks, Charged

\* A task that ends lowers the counter to the number of the others.
LEMMA TaskEnds ==
    ASSUME Counted, NEW p \in Tasks, conn' = [conn EXCEPT ![p] = "closed"],
           active_connections' = active_connections - 1,
           UNCHANGED <<backlog, loop, sent, server>>
    PROVE  Counted'
  <1> USE DEF Counted
  <1>1. Charged' = Charged \ {p}
    BY DEF Charged, Tasks, Lost, TypeOK
  <1>2. /\ IsFiniteSet(Charged \ {p})
        /\ Cardinality(Charged \ {p}) = Cardinality(Charged) - 1
    BY FS_RemoveElement DEF Charged
  <1>3. IsFiniteSet(Charged)' /\ CountMatchesTasks'
    BY <1>1, <1>2 DEF CountMatchesTasks, Charged
  <1>4. active_connections' \in Nat
    BY <1>3, FS_CardinalityType DEF CountMatchesTasks, Charged
  <1>5. TypeOK'
    BY <1>4 DEF TypeOK
  <1>6. p \in Peers /\ conn[p] # "waiting"
    BY DEF Charged, Tasks, Lost
  <1>7. Queued'
    BY <1>6 DEF Queued, TypeOK
  <1>8. RoomKept'
    BY ServerConstants DEF RoomKept, TypeOK
  <1> QED
    BY <1>3, <1>5, <1>7, <1>8

\* The connection at the head of the backlog, which the loop takes off it.
LEMMA HeadOfBacklog ==
    ASSUME Counted, backlog # <<>>
    PROVE  /\ Head(backlog) \in Peers
           /\ conn[Head(backlog)] = "waiting"
           /\ Tail(backlog) \in Seq(Peers)
           /\ \A i \in 1 .. Len(Tail(backlog)) :
                 i + 1 \in 1 .. Len(backlog) /\ Tail(backlog)[i] = backlog[i + 1]
           /\ \A i \in 1 .. Len(Tail(backlog)) : Tail(backlog)[i] # Head(backlog)
  <1>1. backlog \in Seq(Peers) /\ Len(backlog) \in Nat /\ Len(backlog) >= 1
    BY DEF Counted, TypeOK
  <1>2. Head(backlog) = backlog[1] /\ Head(backlog) \in Peers
    BY <1>1
  <1>3. /\ Tail(backlog) \in Seq(Peers)
        /\ \A i \in 1 .. Len(Tail(backlog)) :
              i + 1 \in 1 .. Len(backlog) /\ Tail(backlog)[i] = backlog[i + 1]
    BY <1>1
  <1>4. ASSUME NEW i \in 1 .. Len(Tail(backlog)), Tail(backlog)[i] = Head(backlog)
        PROVE  FALSE
    <2>1. i + 1 \in 1 .. Len(backlog) /\ backlog[i + 1] = backlog[1]
      BY <1>2, <1>3, <1>4
    <2>2. 1 \in 1 .. Len(backlog)
      BY <1>1
    <2>3. i + 1 = 1
      BY <2>1, <2>2 DEF Counted, Queued
    <2> QED BY <2>3
  <1>5. conn[Head(backlog)] = "waiting"
    BY <1>1, <1>2 DEF Counted, Queued
  <1> QED
    BY <1>2, <1>3, <1>4, <1>5

\* Each step of the peers, the loop and the tasks keeps the invariant.
LEMMA CountedStep ==
    ASSUME Counted, [Next]_vars
    PROVE  Counted'
  <1> USE DEF Counted
  <1>1. ASSUME NEW p \in Peers, Connect(p)
        PROVE  Counted'
    <2>1. Charged' = Charged
      BY <1>1 DEF Connect, Charged, Tasks, Lost, TypeOK
    <2>2. IsFiniteSet(Charged)' /\ CountMatchesTasks'
      BY <2>1, SameTasks, <1>1 DEF Connect
    <2>3. TypeOK'
      BY <1>1 DEF Connect, TypeOK
    <2>4. \A i \in 1 .. Len(backlog) : backlog[i] \in Peers /\ backlog[i] # p
      BY <1>1 DEF Connect, TypeOK, Queued
    <2>5. /\ Len(backlog') = Len(backlog) + 1 /\ Len(backlog) \in Nat
          /\ \A i \in 1 .. Len(backlog) : backlog'[i] = backlog[i]
          /\ backlog'[Len(backlog) + 1] = p
      BY <1>1 DEF Connect, TypeOK
    <2>6. \A i \in 1 .. Len(backlog') : i \in 1 .. Len(backlog) \/ i = Len(backlog) + 1
      BY <2>5
    <2>7. conn' = [conn EXCEPT ![p] = "waiting"] /\ loop' = loop /\ conn[p] = "away"
      BY <1>1 DEF Connect
    <2>8. \A i \in 1 .. Len(backlog') : conn'[backlog'[i]] = "waiting"
      BY <2>4, <2>5, <2>6, <2>7 DEF Queued, TypeOK
    <2>9. \A i, j \in 1 .. Len(backlog') : backlog'[i] = backlog'[j] => i = j
      BY <2>4, <2>5, <2>6 DEF Queued
    <2>10. \A x \in Peers : loop' = <<x>> =>
              conn'[x] = "waiting" /\ \A i \in 1 .. Len(backlog') : backlog'[i] # x
      BY <2>4, <2>5, <2>6, <2>7 DEF Queued, TypeOK
    <2>11. RoomKept'
      BY <1>1 DEF Connect, RoomKept
    <2> QED BY <2>2, <2>3, <2>8, <2>9, <2>10, <2>11 DEF Queued
  <1>2. ASSUME NEW p \in Peers, Request(p) \/ HangUp(p)
        PROVE  Counted'
    <2>1. Charged' = Charged
      BY <1>2 DEF Request, HangUp, Charged, Tasks, Lost
    <2>2. IsFiniteSet(Charged)' /\ CountMatchesTasks'
      BY <2>1, SameTasks, <1>2 DEF Request, HangUp
    <2>3. TypeOK' /\ Queued' /\ RoomKept'
      BY <1>2 DEF Request, HangUp, TypeOK, Queued, RoomKept
    <2> QED BY <2>2, <2>3
  <1>3. ASSUME Signal \/ Stop
        PROVE  Counted'
    <2>1. Charged' = Charged
      BY <1>3 DEF Signal, Stop, Charged, Tasks, Lost
    <2>2. IsFiniteSet(Charged)' /\ CountMatchesTasks'
      BY <2>1, SameTasks, <1>3 DEF Signal, Stop
    <2>3. TypeOK' /\ Queued' /\ RoomKept'
      BY <1>3 DEF Signal, Stop, TypeOK, Queued, RoomKept
    <2> QED BY <2>2, <2>3
  <1>4. ASSUME Reject
        PROVE  Counted'
    <2>0. backlog # <<>> /\ loop = <<>> /\ loop' = <<>> /\ backlog' = Tail(backlog)
      BY <1>4 DEF Reject
    <2> DEFINE h == Head(backlog)
    <2>1. conn' = [conn EXCEPT ![h] = "rejected"]
      BY <1>4 DEF Reject
    <2>2. Charged' = Charged
      BY <2>0, <2>1, HeadOfBacklog DEF Charged, Tasks, Lost, TypeOK
    <2>3. IsFiniteSet(Charged)' /\ CountMatchesTasks'
      BY <2>2, SameTasks, <1>4 DEF Reject
    <2>4. TypeOK'
      BY <1>4, HeadOfBacklog DEF Reject, TypeOK
    <2>5. \A i \in 1 .. Len(backlog') : conn'[backlog'[i]] = "waiting"
      BY <2>0, <2>1, HeadOfBacklog DEF Queued, TypeOK
    <2>6. \A i, j \in 1 .. Len(backlog') : backlog'[i] = backlog'[j] => i = j
      BY <2>0, HeadOfBacklog DEF Queued
    <2>7. \A p \in Peers : loop' # <<p>>
      BY <2>0
    <2>8. RoomKept'
      BY <1>4 DEF Reject, RoomKept
    <2> QED BY <2>3, <2>4, <2>5, <2>6, <2>7, <2>8 DEF Queued
  <1>5. ASSUME Accept
        PROVE  Counted'
    <2>0. /\ backlog # <<>> /\ loop' = <<Head(backlog)>> /\ backlog' = Tail(backlog)
          /\ UNCHANGED <<conn, active_connections>>
      BY <1>5 DEF Accept
    <2>1. Charged' = Charged
      BY <2>0 DEF Charged, Tasks, Lost
    <2>2. IsFiniteSet(Charged)' /\ CountMatchesTasks'
      BY <2>0, <2>1, SameTasks
    <2>3. TypeOK'
      BY <1>5, HeadOfBacklog DEF Accept, TypeOK
    <2>4. \A i \in 1 .. Len(backlog') : conn'[backlog'[i]] = "waiting"
      BY <2>0, HeadOfBacklog DEF Queued
    <2>5. \A i, j \in 1 .. Len(backlog') : backlog'[i] = backlog'[j] => i = j
      BY <2>0, HeadOfBacklog DEF Queued
    <2>6. ASSUME NEW p \in Peers, loop' = <<p>>
          PROVE  conn'[p] = "waiting" /\ \A i \in 1 .. Len(backlog') : backlog'[i] # p
      <3>1. p = Head(backlog)
        BY <2>0, <2>6
      <3> QED BY <2>0, <3>1, HeadOfBacklog
    <2>7. RoomKept'
      BY <1>5, ServerConstants DEF Accept, Full, RoomKept, TypeOK
    <2> QED BY <2>2, <2>3, <2>4, <2>5, <2>6, <2>7 DEF Queued
  <1>6. ASSUME NEW p \in Peers, AnswerHealth(p)
        PROVE  Counted'
    <2>1. Charged' = Charged
      BY <1>6 DEF AnswerHealth, Charged, Tasks, Lost, TypeOK, Queued
    <2>2. IsFiniteSet(Charged)' /\ CountMatchesTasks'
      BY <2>1, SameTasks, <1>6 DEF AnswerHealth
    <2>3. TypeOK'
      BY <1>6 DEF AnswerHealth, TypeOK
    <2>4. Queued'
      BY <1>6 DEF AnswerHealth, Queued, TypeOK
    <2>5. RoomKept'
      BY <1>6 DEF AnswerHealth, RoomKept
    <2> QED BY <2>2, <2>3, <2>4, <2>5
  <1>7. ASSUME NEW p \in Peers, Spawn(p)
        PROVE  Counted'
    <2>1. Charged' = Charged \cup {p} /\ p \notin Charged
      BY <1>7 DEF Spawn, Charged, Tasks, Lost, TypeOK, Queued
    <2>2. /\ IsFiniteSet(Charged \cup {p})
          /\ Cardinality(Charged \cup {p}) = Cardinality(Charged) + 1
      BY <2>1, FS_AddElement
    <2>3. IsFiniteSet(Charged)' /\ CountMatchesTasks'
      BY <1>7, <2>1, <2>2 DEF Spawn, CountMatchesTasks, Charged
    <2>4. TypeOK'
      BY <1>7 DEF Spawn, TypeOK
    <2>5. Queued'
      BY <1>7 DEF Spawn, Queued, TypeOK
    <2>6. RoomKept'
      BY <1>7, ServerConstants DEF Spawn, RoomKept, TypeOK
    <2> QED BY <2>3, <2>4, <2>5, <2>6
  <1>8. ASSUME NEW p \in Peers, Upgrade(p)
        PROVE  Counted'
    <2>1. Charged' = Charged
      BY <1>8 DEF Upgrade, Charged, Tasks, Lost, TypeOK
    <2>2. IsFiniteSet(Charged)' /\ CountMatchesTasks'
      BY <2>1, SameTasks, <1>8 DEF Upgrade
    <2>3. TypeOK'
      BY <1>8 DEF Upgrade, TypeOK
    <2>4. Queued' /\ RoomKept'
      BY <1>8 DEF Upgrade, Queued, TypeOK, RoomKept
    <2> QED BY <2>2, <2>3, <2>4
  <1>9. ASSUME NEW p \in Peers, UpgradeFails(p)
        PROVE  Counted'
    <2>1. p \in Tasks
      BY <1>9 DEF UpgradeFails, Charged, Tasks, Lost
    <2> QED BY <1>9, <2>1, TaskEnds DEF UpgradeFails
  <1>10. ASSUME NEW p \in Peers, SessionEnds(p)
         PROVE  Counted'
    <2>1. p \in Tasks
      BY <1>10 DEF SessionEnds, Charged, Tasks, Lost
    <2> QED BY <1>10, <2>1, TaskEnds DEF SessionEnds
  <1>11. ASSUME NEW p \in Peers, SessionPanics(p)
         PROVE  Counted'
    <2>1. Charged' = Charged
      BY <1>11 DEF SessionPanics, Charged, Tasks, Lost, TypeOK
    <2>2. IsFiniteSet(Charged)' /\ CountMatchesTasks'
      BY <2>1, SameTasks, <1>11 DEF SessionPanics
    <2>3. TypeOK'
      BY <1>11 DEF SessionPanics, TypeOK
    <2>4. Queued' /\ RoomKept'
      BY <1>11 DEF SessionPanics, Queued, TypeOK, RoomKept
    <2> QED BY <2>2, <2>3, <2>4
  <1>12. ASSUME UNCHANGED vars
         PROVE  Counted'
    BY <1>12 DEF vars, TypeOK, Charged, Tasks, Lost, CountMatchesTasks, Queued, RoomKept
  <1> QED
    BY <1>1, <1>2, <1>3, <1>4, <1>5, <1>6, <1>7, <1>8, <1>9, <1>10, <1>11, <1>12
    DEF Next, Iterate

\* The invariant holds of a server that just started.
LEMMA CountedInit ==
    ASSUME Init
    PROVE  Counted
  <1>1. Charged = {}
    BY DEF Init, Charged, Tasks, Lost
  <1>2. IsFiniteSet(Charged) /\ CountMatchesTasks
    BY <1>1, FS_EmptySet DEF Init, CountMatchesTasks, Charged
  <1>3. TypeOK /\ Queued /\ RoomKept
    BY ServerConstants DEF Init, TypeOK, Queued, RoomKept
  <1> QED
    BY <1>2, <1>3 DEF Counted

\* For any peers and any limit the counter of server.rs:24 is the number of the
\* tasks that run and of those that ended in a panic (sertype.rs:747): neither
\* ordinary way out loses or repeats its fetch_sub, and a panic keeps its place.
THEOREM CountAlwaysMatches == Spec => []CountMatchesTasks
  <1>1. Counted => CountMatchesTasks
    BY DEF Counted
  <1> QED
    BY <1>1, CountedInit, CountedStep, PTL DEF Spec

\* For any peers there are never more than max_connections tasks, although
\* server.rs:37 reads the counter before the await in peek and line 57 raises
\* it after.
THEOREM LimitAlwaysHolds == Spec => []ConnectionLimit
  <1>1. ASSUME Counted
        PROVE  ConnectionLimit
    <2>1. IsFiniteSet(Charged) /\ Cardinality(Charged) <= max_connections
      BY <1>1 DEF Counted, CountMatchesTasks, Charged, RoomKept
    <2>2. IsFiniteSet(Tasks) /\ Cardinality(Tasks) <= Cardinality(Charged)
      BY <2>1, FS_Subset DEF Charged
    <2>3. Cardinality(Tasks) \in Nat /\ Cardinality(Charged) \in Nat
      BY <2>1, <2>2, FS_CardinalityType
    <2> QED BY <2>1, <2>2, <2>3, ServerConstants DEF ConnectionLimit
  <1> QED
    BY <1>1, CountedInit, CountedStep, PTL DEF Spec
=============================================================================
