-------------------------- MODULE GoClient_proofs --------------------------
(***************************************************************************)
(* Proofs about GoClient, for any number of subscriptions and writers, any *)
(* capacity of the channels and any bounds: the life of the connections,   *)
(* the lists, the delivery of data and what restoreState brings back.      *)
(***************************************************************************)
EXTENDS GoClient, SequenceTheorems, FiniteSetTheorems, TLAPS

-----------------------------------------------------------------------------
(* The connections.                                                        *)

\* e is the connection dialled last; those before it are closed.
IsNewest(l, e) ==
    /\ e \in Conns /\ l[e] # "none"
    /\ \A f \in Conns : (f < e => l[f] = "closed") /\ (f > e => l[f] = "none")

\* Where watchLoop is tells which connection the client uses.
Connections ==
    /\ link \in [Conns -> {"none", "up", "lost", "closed"}]
    /\ IsNewest(link, newest)
    /\ watch \in {"watching", "dropped", "retry", "dialled", "restoring", "done"}
    /\ closing \in {"no", "asked", "shut", "closed"}
    /\ watch = "watching" => conn = newest /\ link[newest] \in {"up", "lost"}
    /\ watch = "dropped" => conn = 0 /\ link[newest] = "lost"
    /\ watch = "retry" => conn = 0 /\ link[newest] = "closed"
    /\ watch \in {"dialled", "restoring"} => conn = 0 /\ link[newest] \in {"up", "lost"}
    /\ watch = "done" => conn = newest \/ (conn = 0 /\ link[newest] = "closed")
    /\ closing \in {"shut", "closed"} => watch = "done" /\ conn = 0

-----------------------------------------------------------------------------
(* The lists.                                                              *)

Places ==
    {"new", "asked", "carried", "live", "marked", "unlisted", "ending", "ended", "failed"}

\* Objects are listed once, from the OK to their request until they are given
\* up; a channel is closed not before.
Lists ==
    /\ at \in [Objects -> Places]
    /\ subs \in Seq(Subs) /\ IsInjective(subs)
    /\ writers \in Seq(Writers) /\ IsInjective(writers)
    /\ \A x \in ToSet(subs) : at[x] = "live"
    /\ \A w \in ToSet(writers) : at[w] \in {"live", "marked"}
    /\ shut \subseteq Subs
    /\ \A x \in shut : at[x] \in {"live", "unlisted", "ending", "ended"}

-----------------------------------------------------------------------------
(* The delivery of data.                                                   *)

Deliveries ==
    [msg : Nat, step : {"check", "send", "drop", "resend", "panic"}, targets : Seq(Subs)]

\* deliverData hands out the newest message, to each target once.
Handing ==
    delivery # <<>> =>
       LET d == delivery[1]
       IN  /\ delivery = <<d>> /\ d \in Deliveries
           /\ d.msg = data_made
           /\ d.targets # <<>> /\ IsInjective(d.targets)
           /\ \A x \in ToSet(d.targets) : handed[x] < d.msg

\* A channel holds messages in order, all later than the one received last.
InOrder(ch, last) ==
    /\ ch \in Seq(Nat) /\ last \in Nat
    /\ \A i \in 1 .. Len(ch) : last < ch[i]
    /\ \A i, j \in 1 .. Len(ch) : i < j => ch[i] < ch[j]

\* What the user received last or finds last in the channel.
Latest(ch, last) == IF ch = <<>> THEN last ELSE ch[Len(ch)]

\* deliverData has made room in the channel of x and not used it yet.
Resending(x) ==
    /\ delivery # <<>>
    /\ delivery[1].step \in {"resend", "panic"} /\ Head(delivery[1].targets) = x

ChannelOk(x) ==
    /\ InOrder(chan[x], seen[x]) /\ Len(chan[x]) <= ChanSize
    /\ handed[x] \in Nat /\ handed[x] <= data_made
    /\ Latest(chan[x], seen[x]) <= handed[x]
    /\ ~Resending(x) => Latest(chan[x], seen[x]) = handed[x]
    /\ Resending(x) /\ delivery[1].step = "resend" => Len(chan[x]) < ChanSize

Channels ==
    /\ data_made \in Nat
    /\ DOMAIN chan = Subs /\ DOMAIN seen = Subs /\ DOMAIN handed = Subs
    /\ Handing
    /\ \A x \in Subs : ChannelOk(x)

\* Close closes channels when nothing is handed out any more; only an
\* Unsubscribe closes one that a delivery is about to use.
Closings ==
    /\ closing = "closed" => delivery = <<>>
    /\ \A x \in shut : at[x] = "live" => closing = "closed"
    /\ Panicked => Head(delivery[1].targets) \in shut

-----------------------------------------------------------------------------
(* What the bridge's sessions serve.                                       *)

Given == ToSet(subs) \cup (ToSet(writers) \ w_closed)

\* The session of connection e serves x under what its object holds.
ServedOn(e, x) ==
    IF x \in Subs THEN TopicOf[x] \in served[e] ELSE <<writerID[x], x>> \in made[e]

\* Ids are given out once.
Ids ==
    /\ next_id \in Nat \ {0}
    /\ writerID \in [Writers -> Nat]
    /\ made \in [Conns -> SUBSET ((Nat \ {0}) \X Writers)]
    /\ \A w \in Writers : writerID[w] < next_id
    /\ \A e \in Conns : \A p \in made[e] :
          /\ p[1] < next_id
          /\ \A w \in Writers : p[1] = writerID[w] => p[2] = w
          /\ \A f \in Conns : \A q \in made[f] : p[1] = q[1] => p[2] = q[2]

\* Calls use connections that were in use, not the one being restored.
Uses ==
    /\ DOMAIN on = Objects /\ DOMAIN served = Conns
    /\ \A x \in Objects :
          /\ on[x] \in 0 .. newest
          /\ at[x] \in {"asked", "carried", "live", "marked", "unlisted", "ending"} =>
                on[x] \in Conns
          /\ watch \in {"dialled", "restoring"} => on[x] < newest

\* What restoreState copied was listed.
Copied ==
    /\ todo \in Seq(Objects) /\ copied \subseteq Objects
    /\ \A x \in copied : at[x] \notin {"new", "asked", "carried"}

\* What is carried out is still so when the OK arrives.
CarriedOut ==
    \A x \in Objects : at[x] = "carried" =>
       IF x \in Subs THEN TopicOf[x] \in served[on[x]]
       ELSE \E p \in made[on[x]] : p[2] = x

\* The newest connection serves what was made on it and what was restored.
Restored ==
    /\ \A x \in Given : on[x] = newest => ServedOn(newest, x)
    /\ watch = "restoring" =>
          \A x \in Given \cap copied : x \in ToSet(todo) \/ ServedOn(newest, x)
    /\ conn # 0 => \A x \in Given \cap copied : ServedOn(newest, x)

Service == Ids /\ Uses /\ Copied /\ CarriedOut /\ Restored

-----------------------------------------------------------------------------
(* The connections: every step is a step of watchLoop, of Close or of the  *)
(* network, or leaves them alone.                                          *)

LEMMA NewestIs ==
    ASSUME NEW l, NEW e, IsNewest(l, e)
    PROVE  (CHOOSE x \in 0 .. MaxConns :
               /\ x # 0 => l[x] # "none"
               /\ \A f \in Conns : f > x => l[f] = "none") = e
  <1>1. MaxConns \in Nat
    BY ClientConstants
  <1>2. /\ e \in 0 .. MaxConns /\ e # 0
        /\ l[e] # "none" /\ \A f \in Conns : f > e => l[f] = "none"
    BY <1>1 DEF IsNewest, Conns
  <1>3. ASSUME NEW x \in 0 .. MaxConns, x # 0 => l[x] # "none",
               \A f \in Conns : f > x => l[f] = "none"
        PROVE  x = e
    <2>1. ~(x < e)
      BY <1>1, <1>2, <1>3 DEF IsNewest, Conns
    <2>2. ~(x > e)
      BY <1>1, <1>2, <1>3 DEF IsNewest, Conns
    <2> QED BY <1>1, <1>2, <2>1, <2>2
  <1> QED BY <1>2, <1>3

LEMMA NewestIsNow == ASSUME NEW e, IsNewest(link, e) PROVE newest = e
  BY NewestIs DEF newest

LEMMA NewestIsNext == ASSUME NEW e, IsNewest(link', e) PROVE newest' = e
  BY NewestIs DEF newest

connections == <<conn, link, watch, closing>>

LEMMA ConnectionsInit == Init => Connections
  <1> SUFFICES ASSUME Init PROVE Connections
    OBVIOUS
  <1>1. 1 \in Conns /\ Conns \subseteq Nat
    BY ClientConstants DEF Conns
  <1>2. link = [e \in Conns |-> IF e = 1 THEN "up" ELSE "none"]
    BY DEF Init
  <1>3. IsNewest(link, 1)
    BY <1>1, <1>2, ClientConstants DEF IsNewest, Conns
  <1>4. newest = 1
    BY <1>3, NewestIsNow
  <1> QED BY <1>1, <1>2, <1>3, <1>4 DEF Init, Connections

LEMMA SameConnections ==
    ASSUME Connections, UNCHANGED connections PROVE Connections' /\ newest' = newest
  <1>1. newest' = newest
    BY NewestIsNext DEF Connections, connections
  <1> QED BY <1>1 DEF Connections, connections

\* A step that gives the newest connection another state.
LEMMA Relink ==
    ASSUME Connections, NEW k \in {"up", "lost", "closed"},
           link' = [link EXCEPT ![newest] = k]
    PROVE  /\ link' \in [Conns -> {"none", "up", "lost", "closed"}]
           /\ newest' = newest /\ IsNewest(link', newest') /\ link'[newest'] = k
  <1>1. newest \in Conns /\ link'[newest] = k
        /\ \A f \in Conns : f # newest => link'[f] = link[f]
    BY DEF Connections, IsNewest
  <1>2. newest \in Nat /\ Conns \subseteq Nat
    BY <1>1 DEF Conns
  <1>3. \A f \in Conns : (f < newest => f # newest) /\ (f > newest => f # newest)
    BY <1>2
  <1>4. IsNewest(link', newest)
    BY <1>1, <1>3 DEF Connections, IsNewest
  <1>5. newest' = newest
    BY <1>4, NewestIsNext
  <1> QED BY <1>1, <1>4, <1>5 DEF Connections

\* A dial makes a connection after the newest one.
LEMMA DialKeepsConnections ==
    ASSUME Connections, Dial PROVE Connections' /\ newest' = newest + 1
  <1> DEFINE e == newest + 1
  <1>1. /\ link' = [link EXCEPT ![e] = "up"] /\ watch' = "dialled"
        /\ UNCHANGED <<conn, closing>> /\ watch = "retry" /\ newest < MaxConns
    BY DEF Dial
  <1>2. newest \in Nat /\ e \in Conns /\ e \in Nat /\ Conns \subseteq Nat
    BY <1>1, ClientConstants DEF Connections, IsNewest, Conns
  <1>3. /\ link'[e] = "up" /\ link' \in [Conns -> {"none", "up", "lost", "closed"}]
        /\ \A f \in Conns : f # e => link'[f] = link[f]
    BY <1>1, <1>2 DEF Connections
  <1>4. IsNewest(link', e)
    <2>1. ASSUME NEW f \in Conns, f < e PROVE link'[f] = "closed"
      <3>1. f < newest \/ f = newest
        BY <1>2, <2>1
      <3>2. f # e
        BY <1>2, <2>1
      <3> QED BY <1>1, <1>3, <3>1, <3>2 DEF Connections, IsNewest
    <2>2. ASSUME NEW f \in Conns, f > e PROVE link'[f] = "none"
      <3>1. f > newest /\ f # e
        BY <1>2, <2>2
      <3> QED BY <1>3, <3>1 DEF Connections, IsNewest
    <2> QED BY <1>2, <1>3, <2>1, <2>2 DEF IsNewest
  <1>5. newest' = e
    BY <1>4, NewestIsNext
  <1> QED BY <1>1, <1>3, <1>4, <1>5 DEF Connections

LEMMA WatchKeepsConnections ==
    ASSUME Connections, watchLoop PROVE Connections'
  <1> DEFINE states == {"none", "up", "lost", "closed"}
  <1>1. ASSUME link' = link PROVE newest' = newest
    BY <1>1, NewestIsNext DEF Connections
  <1>2. CASE Quit \/ GiveUp \/ CopyLists \/ Restore \/ RestoreSkips
    BY <1>1, <1>2 DEF Quit, GiveUp, CopyLists, Restore, RestoreSkips, Connections
  <1>3. CASE DropConn \/ Install
    BY <1>1, <1>3 DEF DropConn, Install, Connections
  <1>4. CASE CloseOld \/ RestoreFails
    <2>1. /\ link' = [link EXCEPT ![newest] = "closed"] /\ watch' = "retry"
          /\ UNCHANGED <<conn, closing>> /\ watch \in {"dropped", "restoring"}
      BY <1>4 DEF CloseOld, RestoreFails
    <2>2. /\ link' \in [Conns -> states]
          /\ newest' = newest /\ IsNewest(link', newest') /\ link'[newest'] = "closed"
      BY <2>1, Relink
    <2> QED BY <2>1, <2>2 DEF Connections
  <1>5. CASE Dial
    BY <1>5, DialKeepsConnections
  <1> QED BY <1>2, <1>3, <1>4, <1>5 DEF watchLoop

LEMMA CloseKeepsConnections ==
    ASSUME Connections, CloseAsked \/ Close PROVE Connections' /\ newest' = newest
  <1>1. ASSUME link' = link PROVE newest' = newest
    BY <1>1, NewestIsNext DEF Connections
  <1>2. CASE CloseAsked \/ CloseLists
    BY <1>1, <1>2 DEF CloseAsked, CloseLists, Connections, loop
  <1>3. CASE CloseConn
    <2>1. newest \in Conns /\ 0 \notin Conns
      BY DEF Connections, IsNewest, Conns
    <2>2. CASE conn = newest
      <3>1. link' = [link EXCEPT ![newest] = "closed"]
        BY <1>3, <2>2 DEF CloseConn, Connections
      <3>2. /\ link' \in [Conns -> {"none", "up", "lost", "closed"}]
            /\ newest' = newest /\ IsNewest(link', newest') /\ link'[newest'] = "closed"
        BY <3>1, Relink
      <3> QED BY <1>3, <3>2 DEF CloseConn, Connections, loop
    <2>3. CASE conn = 0
      <3>1. link' = link
        BY <1>3, <2>1, <2>3 DEF CloseConn, Connections
      <3> QED BY <1>1, <1>3, <2>1, <2>3, <3>1 DEF CloseConn, Connections, loop
    <2> QED BY <1>3, <2>2, <2>3 DEF CloseConn, Connections
  <1> QED BY <1>2, <1>3 DEF Close

LEMMA LossKeepsConnections ==
    ASSUME Connections, NEW e \in Conns, LinkLost(e) PROVE Connections' /\ newest' = newest
  <1>1. e = newest
    <2>1. newest \in Nat /\ Conns \subseteq Nat /\ link[e] = "up"
      BY DEF Connections, IsNewest, Conns, LinkLost
    <2>2. ~(e < newest) /\ ~(e > newest)
      BY <2>1 DEF Connections, IsNewest
    <2> QED BY <2>1, <2>2
  <1>2. /\ link' = [link EXCEPT ![newest] = "lost"] /\ UNCHANGED <<conn, watch, closing>>
        /\ link[newest] = "up"
    BY <1>1 DEF LinkLost, loop
  <1>3. /\ link' \in [Conns -> {"none", "up", "lost", "closed"}]
        /\ newest' = newest /\ IsNewest(link', newest') /\ link'[newest'] = "lost"
    BY <1>2, Relink
  <1> QED BY <1>2, <1>3 DEF Connections

\* The steps of user goroutines and of deliverData.
LEMMA ElsewhereNothing ==
    /\ \A x \in Objects : User(x) => UNCHANGED connections
    /\ \A x \in Subs : Receive(x) => UNCHANGED connections
    /\ DataArrives \/ deliverData \/ DialFails => UNCHANGED connections
  <1>1. ASSUME NEW x \in Objects, User(x) PROVE UNCHANGED connections
    BY <1>1 DEF User, Begin, Ask, AskNobody, Carried, Listed, Fails, Mark, Unlist, End,
                Ended, loop, connections
  <1>2. ASSUME NEW x \in Subs, Receive(x) PROVE UNCHANGED connections
    BY <1>2 DEF Receive, loop, connections
  <1>3. ASSUME DataArrives PROVE UNCHANGED connections
    BY <1>3 DEF DataArrives, loop, connections
  <1>4. ASSUME deliverData PROVE UNCHANGED connections
    BY <1>4 DEF deliverData, CheckSub, SendFirst, DropOldest, SendAgain, At, loop, connections
  <1>5. ASSUME DialFails PROVE UNCHANGED connections
    BY <1>5 DEF DialFails, connections
  <1> QED BY <1>1, <1>2, <1>3, <1>4, <1>5

LEMMA ConnectionsStep == Connections /\ [Next]_vars => Connections'
  <1> SUFFICES ASSUME Connections, [Next]_vars PROVE Connections'
    OBVIOUS
  <1>1. ASSUME UNCHANGED vars PROVE UNCHANGED connections
    BY <1>1 DEF vars, loop, connections
  <1>2. CASE \E x \in Objects : User(x)
    BY <1>2, ElsewhereNothing, SameConnections
  <1>3. CASE \E x \in Subs : Receive(x)
    BY <1>3, ElsewhereNothing, SameConnections
  <1>4. CASE DataArrives \/ deliverData \/ DialFails \/ UNCHANGED vars
    BY <1>1, <1>4, ElsewhereNothing, SameConnections
  <1> QED BY <1>2, <1>3, <1>4, WatchKeepsConnections, CloseKeepsConnections,
             LossKeepsConnections DEF Next

\* The client never holds two connections and uses the newest; after Close
\* there is none (client.go, watchLoop, reconnect and Close).
THEOREM AlwaysOneConnection == Spec => []OneConnection
  <1>1. Connections => OneConnection
    <2> SUFFICES ASSUME Connections PROVE OneConnection
      OBVIOUS
    <2> DEFINE open == {e \in Conns : link[e] \in {"up", "lost"}}
    <2>1. newest \in Nat /\ Conns \subseteq Nat /\ newest \in Conns
      BY DEF Connections, IsNewest, Conns
    <2>2. ASSUME NEW e \in Conns, e # newest PROVE link[e] \in {"none", "closed"}
      <3>1. e < newest \/ e > newest
        BY <2>1, <2>2
      <3> QED BY <3>1 DEF Connections, IsNewest
    <2>3. open \subseteq {newest}
      BY <2>2
    <2>4. Cardinality(open) <= 1
      <3>1. IsFiniteSet({newest}) /\ Cardinality({newest}) = 1
        BY FS_Singleton
      <3>2. Cardinality(open) <= Cardinality({newest})
        BY <2>3, <3>1, FS_Subset
      <3> QED BY <3>1, <3>2
    <2>5. conn # 0 => conn = newest
      BY DEF Connections
    <2>6. ASSUME closing \in {"shut", "closed"}, NEW e \in Conns
          PROVE  conn = 0 /\ link[e] \in {"none", "closed"}
      <3>1. conn = 0 /\ link[newest] = "closed"
        BY <2>1, <2>6 DEF Connections, Conns
      <3> QED BY <2>2, <3>1
    <2> QED BY <2>1, <2>4, <2>5, <2>6 DEF OneConnection
  <1> QED BY <1>1, ConnectionsInit, ConnectionsStep, PTL DEF Spec

-----------------------------------------------------------------------------
(* Sequences without repetitions.                                          *)

LEMMA AppendedOnce ==
    ASSUME NEW S, NEW s \in Seq(S), IsInjective(s), NEW e \in S, e \notin ToSet(s)
    PROVE  /\ Append(s, e) \in Seq(S) /\ IsInjective(Append(s, e))
           /\ ToSet(Append(s, e)) = ToSet(s) \cup {e}
  <1> DEFINE n == Len(s)
             t == Append(s, e)
  <1>1. /\ n \in Nat /\ DOMAIN s = 1 .. n /\ t \in Seq(S) /\ DOMAIN t = 1 .. n + 1
        /\ t[n + 1] = e /\ \A i \in 1 .. n : t[i] = s[i]
    OBVIOUS
  <1> HIDE DEF n, t
  <1>2. \A i \in 1 .. n + 1 : i \in 1 .. n \/ i = n + 1
    BY <1>1
  <1>3. \A i \in 1 .. n : s[i] # e
    BY <1>1 DEF ToSet
  <1>4. IsInjective(t)
    BY <1>1, <1>2, <1>3 DEF IsInjective
  <1>5. n + 1 \in 1 .. n + 1 /\ \A i \in 1 .. n : i \in 1 .. n + 1
    BY <1>1
  <1>6. ToSet(t) = ToSet(s) \cup {e}
    BY <1>1, <1>2, <1>5 DEF ToSet
  <1> QED BY <1>1, <1>4, <1>6 DEF t

LEMMA ToSetConcat ==
    ASSUME NEW S, NEW s \in Seq(S), NEW t \in Seq(S) PROVE ToSet(s \o t) = ToSet(s) \cup ToSet(t)
  <1> DEFINE m == Len(s)
             n == Len(t)
  <1>1. /\ m \in Nat /\ n \in Nat /\ DOMAIN s = 1 .. m /\ DOMAIN t = 1 .. n
        /\ DOMAIN (s \o t) = 1 .. m + n
        /\ \A i \in 1 .. m + n : (s \o t)[i] = IF i <= m THEN s[i] ELSE t[i - m]
    BY ConcatProperties
  <1> HIDE DEF m, n
  <1>2. \A i \in 1 .. m + n : i <= m => i \in 1 .. m
    BY <1>1
  <1>3. \A i \in 1 .. m + n : ~(i <= m) => i - m \in 1 .. n
    BY <1>1
  <1>4. \A i \in 1 .. m : i \in 1 .. m + n /\ i <= m
    BY <1>1
  <1>5. \A i \in 1 .. n : m + i \in 1 .. m + n /\ ~(m + i <= m) /\ (m + i) - m = i
    BY <1>1
  <1>6. ToSet(s \o t) \subseteq ToSet(s) \cup ToSet(t)
    BY <1>1, <1>2, <1>3 DEF ToSet
  <1>7. ToSet(s) \subseteq ToSet(s \o t)
    BY <1>1, <1>4 DEF ToSet
  <1>8. ToSet(t) \subseteq ToSet(s \o t)
    <2>1. \A i \in 1 .. n : m + i \in DOMAIN (s \o t) /\ (s \o t)[m + i] = t[i]
      BY <1>1, <1>5
    <2> QED BY <1>1, <2>1, ZenonT(30) DEF ToSet
  <1> QED BY <1>6, <1>7, <1>8

LEMMA ToSetTail ==
    ASSUME NEW S, NEW s \in Seq(S), s # <<>> PROVE ToSet(s) = {Head(s)} \cup ToSet(Tail(s))
  <1> DEFINE n == Len(s)
             t == Tail(s)
  <1>1. /\ n \in Nat /\ n > 0 /\ DOMAIN s = 1 .. n /\ Head(s) = s[1]
        /\ t \in Seq(S) /\ Len(t) = n - 1 /\ \A i \in 1 .. n - 1 : t[i] = s[i + 1]
    BY HeadTailProperties
  <1>2. DOMAIN t = 1 .. n - 1
    BY <1>1
  <1> HIDE DEF n, t
  <1>3. \A i \in 1 .. n - 1 : i + 1 \in 1 .. n
    BY <1>1
  <1>4. \A i \in 1 .. n : i = 1 \/ (i - 1 \in 1 .. n - 1 /\ (i - 1) + 1 = i)
    BY <1>1
  <1>5. ToSet(t) \subseteq ToSet(s) /\ Head(s) \in ToSet(s)
    BY <1>1, <1>2, <1>3 DEF ToSet
  <1>7. ToSet(s) \subseteq {Head(s)} \cup ToSet(t)
    <2> SUFFICES ASSUME NEW i \in 1 .. n PROVE s[i] \in {Head(s)} \cup ToSet(t)
      BY <1>1 DEF ToSet
    <2>1. CASE i = 1
      BY <1>1, <2>1
    <2>2. CASE i # 1
      <3>1. i - 1 \in DOMAIN t /\ s[i] = t[i - 1]
        BY <1>1, <1>2, <1>4, <2>2
      <3> QED BY <3>1 DEF ToSet
    <2> QED BY <2>1, <2>2
  <1> QED BY <1>5, <1>7 DEF t

LEMMA RemovedAt ==
    ASSUME NEW S, NEW s \in Seq(S), NEW i \in 1 .. Len(s)
    PROVE  /\ RemoveAt(s, i) \in Seq(S)
           /\ Len(RemoveAt(s, i)) = Len(s) - 1
           /\ \A j \in 1 .. Len(s) - 1 :
                 RemoveAt(s, i)[j] = IF j < i THEN s[j] ELSE s[j + 1]
  <1> DEFINE n == Len(s)
             a == SubSeq(s, 1, i - 1)
             b == SubSeq(s, i + 1, n)
  <1>1. n \in Nat /\ i \in Nat /\ 1 <= i /\ i <= n
    OBVIOUS
  <1>2. a \in Seq(S) /\ Len(a) = i - 1 /\ \A j \in 1 .. i - 1 : a[j] = s[j]
    BY SubSeqProperties
  <1>3. b \in Seq(S) /\ Len(b) = n - i /\ \A j \in 1 .. n - i : b[j] = s[i + j]
    BY SubSeqProperties
  <1>4. RemoveAt(s, i) = a \o b
    BY DEF RemoveAt
  <1> HIDE DEF n, a, b
  <1>5. /\ a \o b \in Seq(S) /\ Len(a \o b) = (i - 1) + (n - i)
        /\ \A j \in 1 .. (i - 1) + (n - i) :
              (a \o b)[j] = IF j <= i - 1 THEN a[j] ELSE b[j - (i - 1)]
    <2>1. a \in Seq(S) /\ b \in Seq(S)
      BY <1>2, <1>3
    <2>2. /\ a \o b \in Seq(S) /\ Len(a \o b) = Len(a) + Len(b)
          /\ \A j \in 1 .. Len(a) + Len(b) :
                (a \o b)[j] = IF j <= Len(a) THEN a[j] ELSE b[j - Len(a)]
      BY <2>1, ConcatProperties
    <2> QED BY <1>2, <1>3, <2>2
  <1>6. ASSUME NEW j \in 1 .. n - 1
        PROVE  (a \o b)[j] = IF j < i THEN s[j] ELSE s[j + 1]
    <2>1. CASE j < i
      <3>1. j \in 1 .. i - 1 /\ j \in 1 .. (i - 1) + (n - i) /\ j <= i - 1
        BY <1>1, <1>6, <2>1
      <3> QED BY <1>2, <1>5, <2>1, <3>1
    <2>2. CASE ~(j < i)
      <3>1. /\ j - (i - 1) \in 1 .. n - i /\ j \in 1 .. (i - 1) + (n - i)
            /\ ~(j <= i - 1) /\ i + (j - (i - 1)) = j + 1
        BY <1>1, <1>6, <2>2
      <3> QED BY <1>3, <1>5, <2>2, <3>1
    <2> QED BY <2>1, <2>2
  <1>7. (i - 1) + (n - i) = n - 1
    BY <1>1
  <1> QED BY <1>4, <1>5, <1>6, <1>7 DEF n

\* Taking out what is there once takes it out.
LEMMA Removed ==
    ASSUME NEW S, NEW s \in Seq(S), IsInjective(s), NEW e
    PROVE  /\ RemoveFirst(s, e) \in Seq(S) /\ IsInjective(RemoveFirst(s, e))
           /\ ToSet(RemoveFirst(s, e)) = ToSet(s) \ {e}
  <1> DEFINE n == Len(s)
  <1>1. n \in Nat /\ DOMAIN s = 1 .. n
    OBVIOUS
  <1>2. CASE ~ \E i \in 1 .. n : s[i] = e
    <2>1. RemoveFirst(s, e) = s
      BY <1>2 DEF RemoveFirst
    <2>2. e \notin ToSet(s)
      BY <1>1, <1>2 DEF ToSet
    <2> QED BY <2>1, <2>2
  <1>3. CASE \E i \in 1 .. n : s[i] = e
    <2>1. PICK i \in 1 .. n : s[i] = e
      BY <1>3
    <2>2. {k \in 1 .. Len(s) : s[k] = e} = {i}
      BY <1>1, <2>1 DEF IsInjective
    <2>3. Min({i}) = i
      BY <1>1, <2>1 DEF Min
    <2>4. RemoveFirst(s, e) = RemoveAt(s, i)
      BY <1>3, <2>2, <2>3 DEF RemoveFirst, SelectInSeq
    <2> DEFINE t == RemoveAt(s, i)
    <2>5. /\ t \in Seq(S) /\ Len(t) = n - 1
          /\ \A j \in 1 .. n - 1 : t[j] = IF j < i THEN s[j] ELSE s[j + 1]
      BY RemovedAt
    <2>6. DOMAIN t = 1 .. n - 1
      BY <2>5
    <2> DEFINE from(j) == IF j < i THEN j ELSE j + 1
    <2> HIDE DEF t, n
    <2>7. \A j \in 1 .. n - 1 : from(j) \in 1 .. n /\ from(j) # i /\ t[j] = s[from(j)]
      BY <1>1, <2>1, <2>5
    <2>8. \A j, k \in 1 .. n - 1 : from(j) = from(k) => j = k
      BY <1>1, <2>1
    <2>9. \A k \in 1 .. n : k # i => \E j \in 1 .. n - 1 : from(j) = k
      <3> SUFFICES ASSUME NEW k \in 1 .. n, k # i PROVE \E j \in 1 .. n - 1 : from(j) = k
        OBVIOUS
      <3>1. CASE k < i
        <4>1. k \in 1 .. n - 1 /\ from(k) = k
          BY <1>1, <2>1, <3>1
        <4> QED BY <4>1
      <3>2. CASE k > i
        <4>1. k - 1 \in 1 .. n - 1 /\ from(k - 1) = k
          BY <1>1, <2>1, <3>2
        <4> QED BY <4>1
      <3> QED BY <1>1, <2>1, <3>1, <3>2
    <2> HIDE DEF from
    <2>10. IsInjective(t)
      BY <1>1, <2>6, <2>7, <2>8 DEF IsInjective
    <2>11. ToSet(t) \subseteq ToSet(s) \ {e}
      BY <1>1, <2>1, <2>6, <2>7 DEF IsInjective, ToSet
    <2>12. ToSet(s) \ {e} \subseteq ToSet(t)
      <3> SUFFICES ASSUME NEW k \in 1 .. n, s[k] # e PROVE s[k] \in ToSet(t)
        BY <1>1 DEF ToSet
      <3>1. PICK j \in 1 .. n - 1 : from(j) = k
        BY <2>1, <2>9
      <3>2. t[j] = s[k]
        BY <2>7, <3>1
      <3> QED BY <2>6, <3>2 DEF ToSet
    <2> QED BY <2>4, <2>5, <2>10, <2>11, <2>12 DEF t
  <1> QED BY <1>2, <1>3

-----------------------------------------------------------------------------
(* The lists.                                                              *)

listed == <<at, subs, writers, shut>>

LEMMA ListsInit == Init => Lists
  <1> SUFFICES ASSUME Init PROVE Lists
    OBVIOUS
  <1>1. /\ subs = <<>> /\ writers = <<>> /\ shut = {}
        /\ at = [x \in Objects |-> "new"]
    BY DEF Init
  <1>2. ToSet(<<>>) = {} /\ IsInjective(<<>>) /\ <<>> \in Seq(Subs) /\ <<>> \in Seq(Writers)
    BY DEF ToSet, IsInjective
  <1> QED BY <1>1, <1>2 DEF Lists, Places

\* A goroutine moves that has nothing listed before or after, or a writer.
LEMMA MovesUnlisted ==
    ASSUME Lists, NEW x \in Objects, NEW p \in Places, at' = [at EXCEPT ![x] = p],
           UNCHANGED <<subs, writers, shut>>,
           at[x] \notin {"live", "marked"} \/ (x \in Writers /\ p \in {"live", "marked"}),
           at[x] \in {"unlisted", "ending", "ended"} => p \in {"ending", "ended"}
    PROVE  Lists'
  <1>1. /\ ToSet(subs) \subseteq Subs /\ ToSet(writers) \subseteq Writers
        /\ Subs \cap Writers = {}
    BY ClientConstants DEF Lists, ToSet
  <1>2. \A y \in ToSet(subs) : at'[y] = at[y]
    BY <1>1 DEF Lists, Places, Objects
  <1>3. \A w \in ToSet(writers) : at'[w] = at[w] \/ at'[w] \in {"live", "marked"}
    <2> SUFFICES ASSUME NEW w \in ToSet(writers)
                 PROVE  at'[w] = at[w] \/ at'[w] \in {"live", "marked"}
      OBVIOUS
    <2>1. w \in Objects /\ at[w] \in {"live", "marked"}
      BY <1>1 DEF Lists, Objects
    <2>2. CASE w = x
      BY <2>1, <2>2 DEF Lists
    <2>3. CASE w # x
      BY <2>1, <2>3 DEF Lists
    <2> QED BY <2>2, <2>3
  <1>4. \A y \in shut : at'[y] = at[y] \/ at'[y] \in {"ending", "ended"}
    BY <1>1 DEF Lists, Places, Objects
  <1>5. at' \in [Objects -> Places]
    BY DEF Lists
  <1> QED BY <1>2, <1>3, <1>4, <1>5 DEF Lists

LEMMA UserKeepsLists ==
    ASSUME Lists, NEW x \in Objects, User(x) PROVE Lists'
  <1>0. x \in Subs \/ x \in Writers
    BY DEF Objects
  <1>1. CASE Begin(x) \/ Carried(x) \/ Fails(x) \/ End(x) \/ Ended(x)
    BY <1>1, MovesUnlisted
       DEF Begin, Ask, AskNobody, Carried, Fails, End, Ended, Places, lists, data
  <1>2. CASE Mark(x)
    BY <1>2, MovesUnlisted DEF Mark, Places, data
  <1>3. CASE Listed(x)
    <2>1. /\ at[x] = "carried" /\ at' = [at EXCEPT ![x] = "live"] /\ shut' = shut
          /\ at' \in [Objects -> Places] /\ at'[x] = "live"
          /\ \A y \in Objects : y # x => at'[y] = at[y]
      BY <1>3 DEF Listed, Lists, Places, data
    <2>2. x \notin ToSet(subs) /\ x \notin ToSet(writers) /\ x \notin shut
      BY <2>1 DEF Lists
    <2>3. \A y \in ToSet(subs) \cup ToSet(writers) \cup shut : at'[y] = at[y]
      BY <2>1, <2>2 DEF Lists, ToSet, Objects
    <2>4. CASE x \in Subs
      <3>1. subs' = Append(subs, x) /\ writers' = writers
        BY <1>3, <2>4 DEF Listed
      <3>2. subs' \in Seq(Subs) /\ IsInjective(subs') /\ ToSet(subs') = ToSet(subs) \cup {x}
        BY <2>2, <2>4, <3>1, AppendedOnce DEF Lists
      <3> QED BY <2>1, <2>3, <3>1, <3>2 DEF Lists
    <2>5. CASE x \notin Subs
      <3>1. writers' = Append(writers, x) /\ subs' = subs
        BY <1>3, <2>5 DEF Listed
      <3>2. /\ writers' \in Seq(Writers) /\ IsInjective(writers')
            /\ ToSet(writers') = ToSet(writers) \cup {x}
        BY <1>0, <2>2, <2>5, <3>1, AppendedOnce DEF Lists
      <3> QED BY <2>1, <2>3, <3>1, <3>2 DEF Lists
    <2> QED BY <2>4, <2>5
  <1>4. CASE Unlist(x)
    <2>1. /\ at' = [at EXCEPT ![x] = "unlisted"]
          /\ subs' = RemoveFirst(subs, x) /\ writers' = RemoveFirst(writers, x)
          /\ shut' = shut \cup ({x} \cap Subs)
      BY <1>4 DEF Unlist
    <2>2. /\ at' \in [Objects -> Places] /\ at'[x] = "unlisted"
          /\ \A y \in Objects : y # x => at'[y] = at[y]
      BY <2>1 DEF Lists, Places
    <2>3. /\ subs' \in Seq(Subs) /\ IsInjective(subs') /\ ToSet(subs') = ToSet(subs) \ {x}
      BY <2>1, Removed DEF Lists
    <2>4. /\ writers' \in Seq(Writers) /\ IsInjective(writers')
          /\ ToSet(writers') = ToSet(writers) \ {x}
      BY <2>1, Removed DEF Lists
    <2>5. ToSet(subs) \cup ToSet(writers) \cup shut \subseteq Objects
      BY DEF Lists, ToSet, Objects
    <2>6. /\ \A y \in ToSet(subs') : at'[y] = at[y]
          /\ \A y \in ToSet(writers') : at'[y] = at[y]
          /\ \A y \in shut' : at'[y] = at[y] \/ at'[y] = "unlisted"
      BY <2>1, <2>2, <2>3, <2>4, <2>5
    <2>7. \A y \in shut' : y \in shut \/ at'[y] = "unlisted"
      BY <2>1, <2>2
    <2> QED BY <2>1, <2>2, <2>3, <2>4, <2>6, <2>7 DEF Lists
  <1> QED BY <1>1, <1>2, <1>3, <1>4 DEF User

LEMMA ListsStep == Lists /\ [Next]_vars => Lists'
  <1> SUFFICES ASSUME Lists, [Next]_vars PROVE Lists'
    OBVIOUS
  <1>1. ASSUME UNCHANGED listed PROVE Lists'
    BY <1>1 DEF listed, Lists
  <1>2. CASE \E x \in Objects : User(x)
    BY <1>2, UserKeepsLists
  <1>3. CASE \E x \in Subs : Receive(x)
    BY <1>1, <1>3 DEF Receive, lists, user, listed
  <1>4. CASE DataArrives
    BY <1>1, <1>4 DEF DataArrives, lists, user, listed
  <1>5. CASE deliverData
    BY <1>1, <1>5 DEF deliverData, CheckSub, SendFirst, DropOldest, SendAgain, At,
                      lists, user, listed
  <1>6. CASE \E e \in Conns : LinkLost(e)
    BY <1>1, <1>6 DEF LinkLost, lists, user, data, listed
  <1>7. CASE watchLoop \/ DialFails
    BY <1>1, <1>7 DEF watchLoop, DialFails, Quit, DropConn, CloseOld, GiveUp, Dial, CopyLists,
                      Restore, RestoreSkips, RestoreFails, Install, lists, user, data, listed
  <1>8. CASE CloseAsked \/ CloseConn \/ UNCHANGED vars
    BY <1>1, <1>8 DEF CloseAsked, CloseConn, vars, lists, user, data, listed
  <1>9. CASE CloseLists
    <2>1. /\ subs' = <<>> /\ writers' = <<>> /\ shut' = shut \cup ToSet(subs) /\ at' = at
      BY <1>9 DEF CloseLists, user
    <2>2. ToSet(<<>>) = {} /\ IsInjective(<<>>) /\ <<>> \in Seq(Subs) /\ <<>> \in Seq(Writers)
      BY DEF ToSet, IsInjective
    <2>3. ToSet(subs) \subseteq Subs
      BY DEF Lists, ToSet
    <2> QED BY <2>1, <2>2, <2>3 DEF Lists
  <1> QED BY <1>2, <1>3, <1>4, <1>5, <1>6, <1>7, <1>8, <1>9 DEF Next, Close

-----------------------------------------------------------------------------
(* A channel in order.                                                     *)

LEMMA UpToLatest ==
    ASSUME NEW ch, NEW last, InOrder(ch, last)
    PROVE  /\ Latest(ch, last) \in Nat /\ last <= Latest(ch, last)
           /\ \A i \in 1 .. Len(ch) : ch[i] \in Nat /\ ch[i] <= Latest(ch, last)
  <1> DEFINE n == Len(ch)
  <1>1. ch \in Seq(Nat) /\ last \in Nat /\ n \in Nat /\ (ch # <<>> => n > 0)
        /\ \A i \in 1 .. n : ch[i] \in Nat
    BY DEF InOrder
  <1>2. CASE ch = <<>>
    BY <1>1, <1>2 DEF Latest
  <1>3. CASE ch # <<>>
    <2>1. Latest(ch, last) = ch[n] /\ last < ch[n] /\ n \in 1 .. n /\ ch[n] \in Nat
      BY <1>1, <1>3 DEF Latest, InOrder
    <2>2. ASSUME NEW i \in 1 .. n PROVE ch[i] \in Nat /\ ch[i] <= ch[n]
      <3>1. i = n \/ i < n
        BY <1>1
      <3>2. i < n => ch[i] < ch[n]
        BY <2>1 DEF InOrder
      <3> QED BY <1>1, <2>1, <3>1, <3>2
    <2> QED BY <1>1, <2>1, <2>2
  <1> QED BY <1>2, <1>3

LEMMA TailInOrder ==
    ASSUME NEW ch, NEW last, InOrder(ch, last), ch # <<>>
    PROVE  /\ InOrder(Tail(ch), last) /\ InOrder(Tail(ch), Head(ch))
           /\ Latest(Tail(ch), Head(ch)) = Latest(ch, last)
           /\ Latest(Tail(ch), last) <= Latest(ch, last)
           /\ Len(Tail(ch)) = Len(ch) - 1
  <1> DEFINE n == Len(ch)
             t == Tail(ch)
  <1>1. /\ ch \in Seq(Nat) /\ last \in Nat /\ n \in Nat /\ n > 0
        /\ t \in Seq(Nat) /\ Len(t) = n - 1 /\ \A i \in 1 .. n - 1 : t[i] = ch[i + 1]
        /\ Head(ch) = ch[1] /\ \A i \in 1 .. n : ch[i] \in Nat
        /\ (t = <<>> <=> n = 1)
    <2>1. ch \in Seq(Nat) /\ last \in Nat
      BY DEF InOrder
    <2>2. n \in Nat /\ n > 0 /\ Head(ch) = ch[1] /\ \A i \in 1 .. n : ch[i] \in Nat
      BY <2>1
    <2>3. t \in Seq(Nat) /\ Len(t) = n - 1 /\ \A i \in 1 .. n - 1 : t[i] = ch[i + 1]
      BY <2>1, HeadTailProperties
    <2>4. t = <<>> <=> Len(t) = 0
      BY <2>3, EmptySeq
    <2> QED BY <2>1, <2>2, <2>3, <2>4, SMTT(30)
  <1>2. /\ \A i \in 1 .. n : last < ch[i]
        /\ \A i, j \in 1 .. n : i < j => ch[i] < ch[j]
    BY DEF InOrder
  <1> HIDE DEF n, t
  <1>3. \A i \in 1 .. n - 1 : 1 \in 1 .. n /\ i + 1 \in 1 .. n /\ 1 < i + 1
    BY <1>1
  <1>4. /\ \A i \in 1 .. n - 1 : last < t[i] /\ ch[1] < t[i]
        /\ \A i, j \in 1 .. n - 1 : i < j => t[i] < t[j]
    BY <1>1, <1>2, <1>3, SMTT(30)
  <1>5. InOrder(t, last) /\ InOrder(t, ch[1])
    BY <1>1, <1>4 DEF InOrder
  <1>6. Latest(ch, last) = ch[n]
    BY DEF Latest, n
  <1>7. CASE n = 1
    <2>1. Latest(t, ch[1]) = ch[n] /\ Latest(t, last) = last /\ last < ch[n] /\ ch[n] \in Nat
      BY <1>1, <1>2, <1>7 DEF Latest
    <2> QED BY <1>1, <1>5, <1>6, <2>1 DEF n, t
  <1>8. CASE n # 1
    <2>1. n - 1 \in 1 .. n - 1 /\ (n - 1) + 1 = n /\ ch[n] \in Nat
      BY <1>1, <1>8
    <2>2. t[n - 1] = ch[n] /\ t # <<>> /\ Len(t) = n - 1
      BY <1>1, <1>8, <2>1
    <2>3. Latest(t, ch[1]) = ch[n] /\ Latest(t, last) = ch[n]
      BY <2>2 DEF Latest
    <2> QED BY <1>1, <1>5, <1>6, <2>1, <2>3 DEF n, t
  <1> QED BY <1>7, <1>8

LEMMA AppendInOrder ==
    ASSUME NEW ch, NEW last, InOrder(ch, last), NEW m \in Nat, Latest(ch, last) < m
    PROVE  InOrder(Append(ch, m), last) /\ Latest(Append(ch, m), last) = m
  <1> DEFINE n == Len(ch)
             t == Append(ch, m)
  <1>1. /\ ch \in Seq(Nat) /\ last \in Nat /\ n \in Nat
        /\ t \in Seq(Nat) /\ Len(t) = n + 1 /\ t[n + 1] = m /\ t # <<>>
        /\ \A i \in 1 .. n : t[i] = ch[i]
    <2>1. ch \in Seq(Nat) /\ last \in Nat
      BY DEF InOrder
    <2> QED BY <2>1, AppendProperties
  <1>2. /\ \A i \in 1 .. n : last < ch[i] /\ ch[i] < m
        /\ \A i, j \in 1 .. n : i < j => ch[i] < ch[j]
        /\ last < m
    <2>1. last < m
      BY <1>1, UpToLatest
    <2>2. \A i \in 1 .. n : ch[i] < m
      BY <1>1, UpToLatest
    <2> QED BY <2>1, <2>2 DEF InOrder
  <1> HIDE DEF n, t
  <1>3. \A i \in 1 .. n + 1 : i \in 1 .. n \/ i = n + 1
    BY <1>1
  <1>4. \A i \in 1 .. n + 1 : last < t[i]
    BY <1>1, <1>2, <1>3
  <1>5. \A i, j \in 1 .. n + 1 : i < j => i \in 1 .. n /\ (j \in 1 .. n \/ j = n + 1)
    BY <1>1
  <1>6. \A i, j \in 1 .. n + 1 : i < j => t[i] < t[j]
    BY <1>1, <1>2, <1>5
  <1>7. InOrder(t, last)
    BY <1>1, <1>4, <1>6 DEF InOrder
  <1>8. Latest(t, last) = m
    BY <1>1 DEF Latest
  <1> QED BY <1>7, <1>8 DEF t

-----------------------------------------------------------------------------
(* deliverData and the user's receives.                                    *)

flows == <<chan, seen, handed, delivery, data_made>>

LEMMA ChannelsInit == Init => Channels
  <1> SUFFICES ASSUME Init PROVE Channels
    OBVIOUS
  <1>1. /\ chan = [x \in Subs |-> <<>>] /\ seen = [x \in Subs |-> 0]
        /\ handed = [x \in Subs |-> 0] /\ delivery = <<>> /\ data_made = 0
    BY DEF Init
  <1>2. InOrder(<<>>, 0) /\ Latest(<<>>, 0) = 0 /\ Len(<<>>) = 0
    BY DEF InOrder, Latest
  <1>3. \A x \in Subs : ChannelOk(x)
    BY <1>1, <1>2, ClientConstants DEF ChannelOk, Resending
  <1> QED BY <1>1, <1>3 DEF Channels, Handing

LEMMA SameChannels == ASSUME Channels, UNCHANGED flows PROVE Channels'
  BY DEF Channels, Handing, ChannelOk, Resending, flows

\* Subscriptions that the delivery is not at keep what they have.
LEMMA SameChannel ==
    ASSUME NEW x \in Subs, ChannelOk(x), ~Resending(x), ~Resending(x)',
           chan'[x] = chan[x], seen'[x] = seen[x], handed'[x] = handed[x],
           data_made \in Nat, data_made' \in Nat, data_made <= data_made'
    PROVE  ChannelOk(x)'
  BY DEF ChannelOk

\* What is known of a delivery.
LEMMA AtTarget ==
    ASSUME Channels, NEW x \in Subs, NEW step, At(x, step)
    PROVE  LET d == delivery[1]
           IN  /\ delivery = <<d>> /\ d \in Deliveries /\ d.step = step
               /\ d.msg = data_made /\ data_made' = data_made /\ seen' = seen
               /\ d.targets # <<>> /\ d.targets \in Seq(Subs) /\ IsInjective(d.targets)
               /\ x = Head(d.targets) /\ handed[x] < d.msg
               /\ \A y \in ToSet(d.targets) : handed[y] < d.msg
               /\ \A y \in Subs : Resending(y) => y = x /\ step \in {"resend", "panic"}
  <1> DEFINE d == delivery[1]
  <1>1. /\ delivery # <<>> /\ x = Head(d.targets) /\ d.step = step
        /\ data_made' = data_made /\ seen' = seen
    BY DEF At
  <1>2. /\ delivery = <<d>> /\ d \in Deliveries /\ d.msg = data_made
        /\ d.targets # <<>> /\ IsInjective(d.targets)
        /\ \A y \in ToSet(d.targets) : handed[y] < d.msg
    BY <1>1 DEF Channels, Handing
  <1>3. d.targets \in Seq(Subs)
    BY <1>2 DEF Deliveries
  <1>4. x \in ToSet(d.targets)
    BY <1>1, <1>2, <1>3 DEF ToSet
  <1>5. \A y \in Subs : Resending(y) => y = x /\ step \in {"resend", "panic"}
    BY <1>1 DEF Resending
  <1> QED BY <1>1, <1>2, <1>3, <1>4, <1>5

\* The delivery goes on to the next target, which has not been handed the
\* message.
LEMMA TargetDone ==
    ASSUME Channels, NEW x \in Subs, NEW step, At(x, step), NextTarget,
           \A y \in Subs : y # x => handed'[y] = handed[y]
    PROVE  Handing' /\ \A y \in Subs : ~Resending(y)'
  <1> DEFINE d == delivery[1]
             s == d.targets
             t == Tail(s)
  <1>1. /\ d \in Deliveries /\ d.msg = data_made /\ data_made' = data_made
        /\ s # <<>> /\ s \in Seq(Subs) /\ IsInjective(s) /\ x = Head(s)
        /\ \A y \in ToSet(s) : handed[y] < d.msg
    BY AtTarget
  <1>2. delivery' = Deliver(d.msg, t)
    BY DEF NextTarget
  <1>3. CASE t = <<>>
    <2>1. delivery' = <<>>
      BY <1>2, <1>3 DEF Deliver
    <2> QED BY <2>1 DEF Handing, Resending
  <1>4. CASE t # <<>>
    <2> DEFINE d2 == [msg |-> d.msg, step |-> "check", targets |-> t]
    <2>1. delivery' = <<d2>> /\ delivery'[1] = d2
      BY <1>2, <1>4 DEF Deliver
    <2> DEFINE n == Len(s)
    <2>2. /\ n \in Nat /\ n > 0 /\ DOMAIN s = 1 .. n /\ x = s[1]
          /\ t \in Seq(Subs) /\ DOMAIN t = 1 .. n - 1 /\ \A i \in 1 .. n - 1 : t[i] = s[i + 1]
      <3>1. n \in Nat /\ n > 0 /\ DOMAIN s = 1 .. n /\ x = s[1]
        BY <1>1
      <3>2. t \in Seq(Subs) /\ Len(t) = n - 1 /\ \A i \in 1 .. n - 1 : t[i] = s[i + 1]
        BY <1>1, HeadTailProperties
      <3>3. DOMAIN t = 1 .. Len(t)
        BY <3>2
      <3> QED BY <3>1, <3>2, <3>3
    <2> HIDE DEF n, t, s
    <2>3. \A i \in 1 .. n - 1 : 1 \in 1 .. n /\ i + 1 \in 1 .. n /\ i + 1 # 1
      BY <2>2
    <2>4. \A i, j \in 1 .. n - 1 : i + 1 = j + 1 => i = j
      BY <2>2
    <2>5. IsInjective(t)
      <3>1. \A i, j \in 1 .. n : s[i] = s[j] => i = j
        BY <1>1, <2>2 DEF IsInjective
      <3>2. \A i, j \in 1 .. n - 1 : t[i] = t[j] => i + 1 = j + 1
        BY <2>2, <2>3, <3>1
      <3> QED BY <2>2, <2>4, <3>2 DEF IsInjective
    <2>6. ASSUME NEW y \in ToSet(t) PROVE handed'[y] < d.msg
      <3>1. PICK i \in 1 .. n - 1 : y = s[i + 1]
        BY <2>2 DEF ToSet
      <3>2. y \in ToSet(s) /\ y # x /\ y \in Subs
        <4>1. i + 1 \in 1 .. n /\ 1 \in 1 .. n /\ i + 1 # 1
          BY <2>3
        <4>2. y # x
          BY <1>1, <2>2, <3>1, <4>1 DEF IsInjective
        <4>3. y \in ToSet(s) /\ ToSet(s) \subseteq Subs
          BY <1>1, <2>2, <3>1, <4>1, SMTT(30) DEF ToSet
        <4> QED BY <4>2, <4>3
      <3> QED BY <1>1, <3>2
    <2>7. d2 \in Deliveries
      BY <1>1, <2>2 DEF Deliveries
    <2>8. Handing'
      BY <1>1, <1>4, <2>1, <2>5, <2>6, <2>7 DEF Handing
    <2>9. \A y \in Subs : ~Resending(y)'
      BY <2>1 DEF Resending
    <2> QED BY <2>8, <2>9
  <1> QED BY <1>3, <1>4

\* The delivery stays at its target.
LEMMA TargetStays ==
    ASSUME Channels, NEW x \in Subs, NEW step, At(x, step), handed' = handed,
           NEW to \in {"send", "drop", "resend", "panic"}, GoTo(to)
    PROVE  /\ Handing' /\ delivery' # <<>>
           /\ delivery'[1].step = to /\ Head(delivery'[1].targets) = x
           /\ \A y \in Subs : Resending(y)' <=> y = x /\ to \in {"resend", "panic"}
  <1> DEFINE d == delivery[1]
             d2 == [d EXCEPT !.step = to]
  <1>1. /\ d \in Deliveries /\ d.msg = data_made /\ data_made' = data_made
        /\ d.targets # <<>> /\ IsInjective(d.targets) /\ x = Head(d.targets)
        /\ \A y \in ToSet(d.targets) : handed[y] < d.msg
    BY AtTarget
  <1>2. delivery' = <<d2>> /\ delivery'[1] = d2 /\ delivery' # <<>>
    BY DEF GoTo
  <1>3. d2 \in Deliveries /\ d2.msg = d.msg /\ d2.targets = d.targets /\ d2.step = to
    BY <1>1 DEF Deliveries
  <1> HIDE DEF d, d2
  <1>4. Handing'
    BY <1>1, <1>2, <1>3 DEF Handing
  <1> QED BY <1>1, <1>2, <1>3, <1>4 DEF Resending

LEMMA ReceiveKeepsChannels ==
    ASSUME Channels, NEW x \in Subs, Receive(x) PROVE Channels'
  <1>1. /\ chan[x] # <<>> /\ seen' = [seen EXCEPT ![x] = Head(chan[x])]
        /\ chan' = [chan EXCEPT ![x] = Tail(@)]
        /\ UNCHANGED <<handed, delivery, data_made>>
    BY DEF Receive
  <1>2. /\ DOMAIN chan' = Subs /\ DOMAIN seen' = Subs
        /\ chan'[x] = Tail(chan[x]) /\ seen'[x] = Head(chan[x])
        /\ \A y \in Subs : y # x => chan'[y] = chan[y] /\ seen'[y] = seen[y]
    BY <1>1 DEF Channels
  <1>3. ChannelOk(x) /\ data_made \in Nat
    BY DEF Channels
  <1>4. \A y \in Subs : Resending(y)' <=> Resending(y)
    BY <1>1 DEF Resending
  <1>5. /\ InOrder(chan'[x], seen'[x]) /\ Len(chan'[x]) = Len(chan[x]) - 1
        /\ Latest(chan'[x], seen'[x]) = Latest(chan[x], seen[x])
    BY <1>1, <1>2, <1>3, TailInOrder DEF ChannelOk
  <1>6. Len(chan[x]) \in Nat /\ ChanSize \in Nat
    BY <1>3, ClientConstants DEF ChannelOk, InOrder
  <1>7. ChannelOk(x)'
    BY <1>1, <1>3, <1>4, <1>5, <1>6 DEF ChannelOk
  <1>8. \A y \in Subs : y # x => ChannelOk(y)'
    BY <1>1, <1>2, <1>4 DEF Channels, ChannelOk
  <1>9. Handing'
    BY <1>1 DEF Channels, Handing
  <1> QED BY <1>1, <1>2, <1>7, <1>8, <1>9 DEF Channels

\* Targets are listed subscriptions, each once.
LEMMA TargetsOnce ==
    ASSUME Lists, NEW t, NEW q \in Targets(t) PROVE q \in Seq(Subs) /\ IsInjective(q)
  <1>1. q \in SeqOf(Subs, Len(subs)) /\ \A i, j \in DOMAIN q :
           i < j => \E k, l \in DOMAIN subs : k < l /\ q[i] = subs[k] /\ q[j] = subs[l]
    BY DEF Targets
  <1>2. Len(subs) \in Nat /\ DOMAIN subs = 1 .. Len(subs)
    BY DEF Lists
  <1>3. PICK m \in 0 .. Len(subs) : q \in [1 .. m -> Subs]
    BY <1>1 DEF SeqOf
  <1>4. m \in Nat /\ q \in Seq(Subs) /\ DOMAIN q = 1 .. m
    BY <1>2, <1>3, IsASeq
  <1>5. ASSUME NEW i \in 1 .. m, NEW j \in 1 .. m, i < j PROVE q[i] # q[j]
    <2>1. PICK k, l \in DOMAIN subs : k < l /\ q[i] = subs[k] /\ q[j] = subs[l]
      BY <1>1, <1>4, <1>5, SMTT(30)
    <2>2. k # l
      BY <1>2, <2>1
    <2> QED BY <2>1, <2>2 DEF Lists, IsInjective
  <1>6. \A i, j \in 1 .. m : i = j \/ i < j \/ j < i
    BY <1>4
  <1> QED BY <1>4, <1>5, <1>6 DEF IsInjective

LEMMA ArrivalKeepsChannels ==
    ASSUME Channels, Lists, DataArrives PROVE Channels'
  <1> DEFINE m == data_made + 1
  <1>1. /\ delivery = <<>> /\ data_made' = m /\ UNCHANGED <<chan, seen, handed>>
        /\ data_made \in Nat /\ m \in Nat /\ data_made < m
    BY DEF DataArrives, Channels
  <1>2. PICK q : q \in Seq(Subs) /\ IsInjective(q) /\ q # <<>> /\ delivery' = Deliver(m, q)
    <2>1. \E e \in Conns : \E t \in served[e] : \E q \in Targets(t) \ {<<>>} :
             delivery' = Deliver(m, q)
      BY DEF DataArrives
    <2> QED BY <2>1, TargetsOnce
  <1> DEFINE d == [msg |-> m, step |-> "check", targets |-> q]
  <1>3. delivery' = <<d>> /\ delivery'[1] = d
    BY <1>2 DEF Deliver
  <1>4. d \in Deliveries
    BY <1>1, <1>2 DEF Deliveries
  <1>5. ToSet(q) \subseteq Subs
    BY <1>2 DEF ToSet
  <1>6. \A x \in Subs : handed[x] \in Nat /\ handed[x] <= data_made
    BY DEF Channels, ChannelOk
  <1>7. \A x \in ToSet(q) : handed'[x] < m
    BY <1>1, <1>5, <1>6
  <1>8. Handing'
    BY <1>1, <1>2, <1>3, <1>4, <1>7 DEF Handing
  <1>9. \A x \in Subs : ~Resending(x) /\ ~Resending(x)'
    BY <1>1, <1>3 DEF Resending
  <1>10. \A x \in Subs : ChannelOk(x)'
    BY <1>1, <1>9, SameChannel DEF Channels
  <1> QED BY <1>1, <1>8, <1>10 DEF Channels

\* A send puts the newest message at the end.
LEMMA SentKeepsChannels ==
    ASSUME Channels, NEW x \in Subs, NEW step, At(x, step), NextTarget,
           Len(chan[x]) < ChanSize,
           chan' = [chan EXCEPT ![x] = Append(@, delivery[1].msg)],
           handed' = [handed EXCEPT ![x] = delivery[1].msg]
    PROVE  Channels'
  <1> DEFINE m == delivery[1].msg
  <1>1. /\ m = data_made /\ data_made' = data_made /\ seen' = seen /\ handed[x] < m
        /\ \A y \in Subs : Resending(y) => y = x
    BY AtTarget
  <1>2. /\ DOMAIN chan' = Subs /\ DOMAIN handed' = Subs
        /\ chan'[x] = Append(chan[x], m) /\ handed'[x] = m
        /\ \A y \in Subs : y # x => chan'[y] = chan[y] /\ handed'[y] = handed[y]
    BY DEF Channels
  <1>3. Handing' /\ \A y \in Subs : ~Resending(y)'
    BY <1>2, TargetDone
  <1>4. m \in Nat /\ ChannelOk(x)
    BY <1>1 DEF Channels
  <1>5. /\ InOrder(chan[x], seen[x]) /\ handed[x] \in Nat
        /\ Latest(chan[x], seen[x]) <= handed[x]
    BY <1>4 DEF ChannelOk
  <1>6. Latest(chan[x], seen[x]) < m
    BY <1>1, <1>4, <1>5, UpToLatest
  <1>7. InOrder(chan'[x], seen'[x]) /\ Latest(chan'[x], seen'[x]) = m
    BY <1>1, <1>2, <1>4, <1>5, <1>6, AppendInOrder
  <1>8. Len(chan'[x]) <= ChanSize
    <2>1. chan[x] \in Seq(Nat)
      BY <1>5 DEF InOrder
    <2>2. Len(chan[x]) \in Nat /\ Len(chan'[x]) = Len(chan[x]) + 1
      BY <1>2, <1>4, <2>1, AppendProperties
    <2> QED BY <2>2, ClientConstants
  <1>9. ChannelOk(x)'
    BY <1>1, <1>2, <1>3, <1>4, <1>7, <1>8 DEF ChannelOk
  <1>10. \A y \in Subs : y # x => ChannelOk(y)'
    BY <1>1, <1>2, <1>3, <1>4, SameChannel DEF Channels
  <1> QED BY <1>1, <1>2, <1>3, <1>4, <1>9, <1>10 DEF Channels

\* A step that moves no message and goes on to another place.
LEMMA IdleKeepsChannels ==
    ASSUME Channels, NEW x \in Subs, NEW step, At(x, step), UNCHANGED <<chan, handed>>,
           \/ NextTarget /\ step = "check"
           \/ step \in {"check", "send"} /\ \E to \in {"send", "drop", "panic"} : GoTo(to)
           \/ GoTo("panic")
    PROVE  Channels'
  <1>1. /\ data_made' = data_made /\ seen' = seen /\ data_made \in Nat
        /\ \A y \in Subs : Resending(y) => y = x /\ step \in {"resend", "panic"}
    BY AtTarget DEF Channels
  <1>2. CASE NextTarget /\ step = "check"
    <2>1. Handing' /\ \A y \in Subs : ~Resending(y)' /\ ~Resending(y)
      BY <1>1, <1>2, TargetDone
    <2>2. \A y \in Subs : ChannelOk(y)'
      BY <1>1, <2>1, SameChannel DEF Channels
    <2> QED BY <1>1, <2>1, <2>2 DEF Channels
  <1>3. ASSUME NEW to \in {"send", "drop", "panic"}, GoTo(to),
               to # "panic" => step \in {"check", "send"}
        PROVE  Channels'
    <2>1. /\ Handing' /\ delivery'[1].step = to
          /\ \A y \in Subs : Resending(y)' <=> y = x /\ to \in {"resend", "panic"}
      BY <1>3, TargetStays
    <2>2. \A y \in Subs : y # x => ChannelOk(y)'
      BY <1>1, <2>1, SameChannel DEF Channels
    <2>3. ChannelOk(x)'
      <3>1. CASE to = "panic"
        BY <1>1, <2>1, <3>1 DEF Channels, ChannelOk
      <3>2. CASE to # "panic"
        <4>1. ~Resending(x) /\ ~Resending(x)'
          BY <1>1, <1>3, <2>1, <3>2
        <4> QED BY <1>1, <4>1, SameChannel DEF Channels
      <3> QED BY <3>1, <3>2
    <2> QED BY <1>1, <2>1, <2>2, <2>3 DEF Channels
  <1> QED BY <1>2, <1>3

LEMMA DropKeepsChannels ==
    ASSUME Channels, NEW x \in Subs, DropOldest(x) PROVE Channels'
  <1>1. /\ At(x, "drop") /\ GoTo("resend") /\ handed' = handed
        /\ chan' = [chan EXCEPT ![x] = IF @ = <<>> THEN @ ELSE Tail(@)]
    BY DEF DropOldest
  <1>2. /\ data_made' = data_made /\ seen' = seen /\ data_made \in Nat
        /\ \A y \in Subs : ~Resending(y)
    BY <1>1, AtTarget DEF Channels
  <1>3. /\ Handing' /\ delivery'[1].step = "resend"
        /\ \A y \in Subs : Resending(y)' <=> y = x
    BY <1>1, TargetStays
  <1>4. /\ DOMAIN chan' = Subs
        /\ chan'[x] = IF chan[x] = <<>> THEN <<>> ELSE Tail(chan[x])
        /\ \A y \in Subs : y # x => chan'[y] = chan[y]
    BY <1>1 DEF Channels
  <1>5. \A y \in Subs : y # x => ChannelOk(y)'
    BY <1>1, <1>2, <1>3, <1>4, SameChannel DEF Channels
  <1>6. /\ InOrder(chan[x], seen[x]) /\ Len(chan[x]) <= ChanSize /\ handed[x] \in Nat
        /\ handed[x] <= data_made /\ Latest(chan[x], seen[x]) <= handed[x]
    BY DEF Channels, ChannelOk
  <1>7. Len(chan[x]) \in Nat /\ ChanSize \in Nat /\ ChanSize > 0
    BY <1>6, ClientConstants DEF InOrder
  <1>8. /\ InOrder(chan'[x], seen[x]) /\ Latest(chan'[x], seen[x]) <= handed[x]
        /\ Len(chan'[x]) < ChanSize
    <2>1. CASE chan[x] = <<>>
      <3>1. chan'[x] = chan[x] /\ Len(chan[x]) = 0
        BY <1>4, <2>1
      <3> QED BY <1>6, <1>7, <3>1
    <2>2. CASE chan[x] # <<>>
      <3>1. /\ InOrder(Tail(chan[x]), seen[x]) /\ Len(Tail(chan[x])) = Len(chan[x]) - 1
            /\ Latest(Tail(chan[x]), seen[x]) <= Latest(chan[x], seen[x])
        BY <1>6, <2>2, TailInOrder
      <3>2. Latest(Tail(chan[x]), seen[x]) \in Nat /\ Latest(chan[x], seen[x]) \in Nat
        BY <1>6, <3>1, UpToLatest
      <3> QED BY <1>4, <1>6, <1>7, <2>2, <3>1, <3>2
    <2> QED BY <2>1, <2>2
  <1>9. ChannelOk(x)'
    BY <1>1, <1>2, <1>3, <1>6, <1>7, <1>8 DEF ChannelOk
  <1> QED BY <1>1, <1>2, <1>3, <1>4, <1>5, <1>9 DEF Channels

LEMMA DeliverKeepsChannels ==
    ASSUME Channels, deliverData PROVE Channels'
  <1>1. PICK x \in Subs : CheckSub(x) \/ SendFirst(x) \/ DropOldest(x) \/ SendAgain(x)
    BY DEF deliverData
  <1>2. CASE CheckSub(x)
    BY <1>2, IdleKeepsChannels DEF CheckSub
  <1>3. CASE SendFirst(x)
    BY <1>3, IdleKeepsChannels, SentKeepsChannels DEF SendFirst, TrySend
  <1>4. CASE DropOldest(x)
    BY <1>4, DropKeepsChannels
  <1>5. CASE SendAgain(x)
    <2>1. Resending(x) /\ delivery[1].step = "resend"
      BY <1>5 DEF SendAgain, At, Resending
    <2>2. Len(chan[x]) < ChanSize /\ Len(chan[x]) \in Nat /\ ChanSize \in Nat
      BY <2>1, ClientConstants DEF Channels, ChannelOk, InOrder
    <2>3. ~(Len(chan[x]) >= ChanSize)
      BY <2>2
    <2> QED BY <1>5, <2>3, IdleKeepsChannels, SentKeepsChannels DEF SendAgain, TrySend
  <1> QED BY <1>1, <1>2, <1>3, <1>4, <1>5

LEMMA ChannelsStep == Channels /\ Lists /\ [Next]_vars => Channels'
  <1> SUFFICES ASSUME Channels, Lists, [Next]_vars PROVE Channels'
    OBVIOUS
  <1>1. CASE \E x \in Subs : Receive(x)
    BY <1>1, ReceiveKeepsChannels
  <1>2. CASE DataArrives \/ deliverData
    BY <1>2, ArrivalKeepsChannels, DeliverKeepsChannels
  <1>3. CASE \E x \in Objects : User(x)
    BY <1>3, SameChannels DEF User, Begin, Ask, AskNobody, Carried, Listed, Fails, Mark,
                              Unlist, End, Ended, data, flows
  <1>4. CASE \E e \in Conns : LinkLost(e)
    BY <1>4, SameChannels DEF LinkLost, data, flows
  <1>5. CASE watchLoop \/ DialFails
    BY <1>5, SameChannels DEF watchLoop, DialFails, Quit, DropConn, CloseOld, GiveUp, Dial,
                              CopyLists, Restore, RestoreSkips, RestoreFails, Install, data, flows
  <1>6. CASE CloseAsked \/ Close \/ UNCHANGED vars
    BY <1>6, SameChannels DEF CloseAsked, Close, CloseConn, CloseLists, vars, data, flows
  <1> QED BY <1>1, <1>2, <1>3, <1>4, <1>5, <1>6 DEF Next

LEMMA ClosingsInit == Init => Closings
  BY DEF Init, Closings, Panicked

\* Only connections and channels count for Closings.
LEMMA ClosingsStep == Connections /\ Lists /\ Channels /\ Closings /\ [Next]_vars => Closings'
  <1> SUFFICES ASSUME Connections, Lists, Channels, Closings, [Next]_vars PROVE Closings'
    OBVIOUS
  <1>1. ASSUME UNCHANGED <<closing, shut, at, delivery>> PROVE Closings'
    BY <1>1 DEF Closings, Panicked
  <1>2. CASE \E x \in Subs : Receive(x)
    BY <1>1, <1>2 DEF Receive, user
  <1>3. CASE DataArrives
    <2>1. /\ UNCHANGED <<closing, shut, at>>
          /\ \E e \in Conns : link[e] = "up"
          /\ \E q : q # <<>> /\ delivery' = Deliver(data_made + 1, q)
      BY <1>3 DEF DataArrives, user
    <2>2. closing # "closed"
      <3>1. PICK e \in Conns : link[e] = "up"
        BY <2>1
      <3>2. e \in Nat /\ newest \in Nat /\ newest \in Conns /\ newest # 0
        BY DEF Connections, IsNewest, Conns
      <3>3. ~(e < newest) /\ ~(e > newest)
        BY <3>1 DEF Connections, IsNewest
      <3>4. e = newest
        BY <3>2, <3>3
      <3> QED BY <3>1, <3>2, <3>4 DEF Connections
    <2>3. ~Panicked'
      BY <2>1 DEF Panicked, Deliver
    <2> QED BY <2>1, <2>2, <2>3 DEF Closings
  <1>4. CASE deliverData
    <2>1. PICK x \in Subs : CheckSub(x) \/ SendFirst(x) \/ DropOldest(x) \/ SendAgain(x)
      BY <1>4 DEF deliverData
    <2>2. PICK step : At(x, step)
      BY <2>1 DEF CheckSub, SendFirst, DropOldest, SendAgain
    <2>3. delivery # <<>> /\ UNCHANGED <<closing, shut, at>>
      BY <2>2 DEF At, user
    <2>4. closing # "closed"
      BY <2>3 DEF Closings
    <2>5. \/ NextTarget \/ GoTo("send") \/ GoTo("drop") \/ GoTo("resend")
          \/ GoTo("panic") /\ x \in shut
      BY <2>1 DEF CheckSub, SendFirst, DropOldest, SendAgain, TrySend
    <2>6. Panicked' => Head(delivery'[1].targets) \in shut
      <3>1. CASE NextTarget
        <4>1. ~Panicked'
          BY <3>1 DEF NextTarget, Deliver, Panicked
        <4> QED BY <4>1
      <3>2. ASSUME NEW to \in {"send", "drop", "resend", "panic"}, GoTo(to)
            PROVE  delivery'[1].step = to /\ Head(delivery'[1].targets) = x
        <4>1. /\ delivery[1] \in Deliveries /\ x = Head(delivery[1].targets)
              /\ delivery'[1] = [delivery[1] EXCEPT !.step = to]
          BY <2>2, <3>2, AtTarget DEF GoTo
        <4> QED BY <4>1 DEF Deliveries
      <3> QED BY <2>5, <3>1, <3>2 DEF Panicked
    <2> QED BY <2>3, <2>4, <2>6 DEF Closings
  <1>5. CASE \E x \in Objects : User(x)
    <2>1. PICK x \in Objects : User(x)
      BY <1>5
    <2>2. closing' = closing /\ delivery' = delivery /\ shut \subseteq shut'
          /\ \A y \in shut' : at'[y] = "live" => y \in shut /\ at[y] = "live"
      <3>1. CASE Begin(x) \/ Carried(x) \/ Fails(x) \/ End(x) \/ Ended(x) \/ Mark(x) \/ Listed(x)
        <4>1. /\ closing' = closing /\ delivery' = delivery /\ shut' = shut
              /\ \E p \in Places : at' = [at EXCEPT ![x] = p] /\ (p = "live" => at[x] = "carried")
          BY <3>1 DEF Begin, Ask, AskNobody, Carried, Fails, End, Ended, Mark, Listed, data, Places
        <4>2. \A y \in shut : y \in Objects /\ at[y] # "carried"
          BY DEF Lists, Objects
        <4> QED BY <4>1, <4>2 DEF Lists
      <3>2. CASE Unlist(x)
        <4>1. /\ closing' = closing /\ delivery' = delivery /\ shut' = shut \cup ({x} \cap Subs)
              /\ at' = [at EXCEPT ![x] = "unlisted"]
          BY <3>2 DEF Unlist
        <4>2. shut \subseteq Objects /\ at'[x] = "unlisted"
              /\ \A y \in Objects : y # x => at'[y] = at[y]
          BY <4>1 DEF Lists, Objects
        <4> QED BY <4>1, <4>2
      <3> QED BY <2>1, <3>1, <3>2 DEF User
    <2> QED BY <2>2 DEF Closings, Panicked
  <1>6. CASE (\E e \in Conns : LinkLost(e)) \/ watchLoop \/ DialFails \/ UNCHANGED vars
    BY <1>1, <1>6 DEF LinkLost, watchLoop, DialFails, Quit, DropConn, CloseOld, GiveUp, Dial,
                      CopyLists, Restore, RestoreSkips, RestoreFails, Install, data, user, vars
  <1>7. CASE CloseAsked \/ CloseConn
    BY <1>7 DEF CloseAsked, CloseConn, data, user, Closings, Panicked
  <1>8. CASE CloseLists
    BY <1>8 DEF CloseLists, Closings, Panicked
  <1> QED BY <1>2, <1>3, <1>4, <1>5, <1>6, <1>7, <1>8 DEF Next, Close

DeliveryInv == Connections /\ Lists /\ Channels /\ Closings

LEMMA DeliveryInvariant == Spec => []DeliveryInv
  <1>1. Init => DeliveryInv
    BY ConnectionsInit, ListsInit, ChannelsInit, ClosingsInit DEF DeliveryInv
  <1>2. DeliveryInv /\ [Next]_vars => DeliveryInv'
    BY ConnectionsStep, ListsStep, ChannelsStep, ClosingsStep DEF DeliveryInv
  <1> QED BY <1>1, <1>2, PTL DEF Spec

\* For every capacity of a channel and every order of receives and sends, what
\* deliverData drops is the oldest message, never the newest (client.go,
\* deliverData).
THEOREM OldestAlwaysDropped == Spec => []OldestIsDropped
  <1>1. Channels => OldestIsDropped
    <2> SUFFICES ASSUME Channels, NEW x \in Subs
                 PROVE  LET got == <<seen[x]>> \o chan[x]
                        IN  /\ \A i, j \in DOMAIN got : i < j => got[i] < got[j]
                            /\ delivery = <<>> => got[Len(got)] = handed[x]
      BY DEF OldestIsDropped
    <2> DEFINE ch == chan[x]
               got == <<seen[x]>> \o ch
               n == Len(ch)
    <2>1. ChannelOk(x) /\ InOrder(ch, seen[x])
      BY DEF Channels, ChannelOk
    <2>2. /\ ch \in Seq(Nat) /\ seen[x] \in Nat /\ n \in Nat
          /\ \A i \in 1 .. n : seen[x] < ch[i]
          /\ \A i, j \in 1 .. n : i < j => ch[i] < ch[j]
      BY <2>1 DEF InOrder
    <2>3. /\ Len(got) = n + 1 /\ DOMAIN got = 1 .. n + 1 /\ got[1] = seen[x]
          /\ \A i \in 2 .. n + 1 : got[i] = ch[i - 1]
      BY <2>2
    <2>4. Latest(ch, seen[x]) = got[n + 1]
      <3>1. CASE ch = <<>>
        BY <2>3, <3>1 DEF Latest
      <3>2. CASE ch # <<>>
        <4>1. n + 1 \in 2 .. n + 1 /\ (n + 1) - 1 = n
          BY <2>2, <3>2
        <4> QED BY <2>3, <3>2, <4>1 DEF Latest
      <3> QED BY <3>1, <3>2
    <2> HIDE DEF ch, got, n
    <2>5. ASSUME NEW i \in 1 .. n + 1, NEW j \in 1 .. n + 1, i < j PROVE got[i] < got[j]
      <3>1. j \in 2 .. n + 1 /\ j - 1 \in 1 .. n
        BY <2>2, <2>5
      <3>2. CASE i = 1
        BY <2>2, <2>3, <3>1, <3>2
      <3>3. CASE i # 1
        <4>1. i \in 2 .. n + 1 /\ i - 1 \in 1 .. n /\ i - 1 < j - 1
          BY <2>2, <2>5, <3>3
        <4> QED BY <2>2, <2>3, <3>1, <4>1
      <3> QED BY <3>2, <3>3
    <2>6. delivery = <<>> => Latest(ch, seen[x]) = handed[x]
      BY <2>1 DEF ChannelOk, Resending, ch
    <2> QED BY <2>3, <2>4, <2>5, <2>6 DEF got, ch
  <1> QED BY <1>1, DeliveryInvariant, PTL DEF DeliveryInv

\* Client.Close never closes a channel under a running delivery (client.go,
\* Close and deliverData).
THEOREM CloseNeverCausesPanic == Spec => []CloseNeverPanics
  <1>1. Closings => CloseNeverPanics
    BY DEF Closings, CloseNeverPanics, Panicked
  <1> QED BY <1>1, DeliveryInvariant, PTL DEF DeliveryInv

-----------------------------------------------------------------------------
(* Writer ids.                                                             *)

LEMMA IdsInit == Init => Ids
  <1> SUFFICES ASSUME Init PROVE Ids
    OBVIOUS
  <1>1. next_id = 1 /\ writerID = [w \in Writers |-> 0] /\ made = [e \in Conns |-> {}]
    BY DEF Init
  <1> QED BY <1>1 DEF Ids

\* A writer is made under a new id, which its Writer may hold at once.
LEMMA MakeKeepsIds ==
    ASSUME Ids, NEW e \in Conns, NEW w \in Writers, Make(e, w),
           writerID' = writerID \/ writerID' = [writerID EXCEPT ![w] = next_id]
    PROVE  Ids'
  <1>1. /\ next_id' = next_id + 1 /\ next_id \in Nat /\ next_id # 0
        /\ made' = [made EXCEPT ![e] = @ \cup {<<next_id, w>>}]
    BY DEF Make, Ids
  <1>2. /\ writerID' \in [Writers -> Nat]
        /\ \A v \in Writers : writerID'[v] = writerID[v] \/ (v = w /\ writerID'[v] = next_id)
    BY <1>1 DEF Ids
  <1>3. \A v \in Writers : writerID[v] \in Nat /\ writerID[v] < next_id
    BY DEF Ids
  <1>4. \A v \in Writers : writerID'[v] < next_id'
    BY <1>1, <1>2, <1>3
  <1>5. made' \in [Conns -> SUBSET ((Nat \ {0}) \X Writers)]
    BY <1>1 DEF Ids
  <1>6. \A f \in Conns : \A p \in made'[f] : p \in made[f] \/ p = <<next_id, w>>
    BY <1>1 DEF Ids
  <1>7. \A f \in Conns : \A p \in made[f] : p[1] \in Nat /\ p[1] < next_id
    BY DEF Ids
  <1>8. ASSUME NEW f \in Conns, NEW p \in made'[f]
        PROVE  /\ p[1] < next_id'
               /\ \A v \in Writers : p[1] = writerID'[v] => p[2] = v
               /\ \A g \in Conns : \A q \in made'[g] : p[1] = q[1] => p[2] = q[2]
    <2>1. CASE p \in made[f]
      <3>1. p[1] \in Nat /\ p[1] < next_id /\ p[1] # next_id
        BY <1>1, <1>7, <2>1
      <3>2. p[1] < next_id'
        BY <1>1, <3>1
      <3>3. \A v \in Writers : p[1] = writerID'[v] => p[2] = v
        BY <1>2, <2>1, <3>1 DEF Ids
      <3>4. \A g \in Conns : \A q \in made'[g] : p[1] = q[1] => p[2] = q[2]
        BY <1>6, <2>1, <3>1 DEF Ids
      <3> QED BY <3>2, <3>3, <3>4
    <2>2. CASE p = <<next_id, w>>
      <3>1. p[1] = next_id /\ p[2] = w /\ p[1] < next_id'
        BY <1>1, <2>2
      <3>2. \A v \in Writers : p[1] = writerID'[v] => p[2] = v
        BY <1>1, <1>2, <1>3, <3>1
      <3>3. \A g \in Conns : \A q \in made'[g] : p[1] = q[1] => p[2] = q[2]
        BY <1>1, <1>6, <1>7, <3>1
      <3> QED BY <3>1, <3>2, <3>3
    <2> QED BY <1>6, <1>8, <2>1, <2>2
  <1> QED BY <1>1, <1>2, <1>4, <1>5, <1>8 DEF Ids

LEMMA SameIds == ASSUME Ids, UNCHANGED <<writerID, made, next_id>> PROVE Ids'
  BY DEF Ids

\* A Writer takes over an id that was made for it; a writer is deleted.
LEMMA FewerKeepIds ==
    ASSUME Ids, next_id' = next_id, made' \in [Conns -> SUBSET ((Nat \ {0}) \X Writers)],
           \A e \in Conns : made'[e] \subseteq made[e],
           \/ writerID' = writerID
           \/ \E w \in Writers : \E e \in Conns : \E p \in made[e] :
                 p[2] = w /\ writerID' = [writerID EXCEPT ![w] = p[1]]
    PROVE  Ids'
  <1>1. CASE writerID' = writerID
    BY <1>1 DEF Ids
  <1>2. ASSUME NEW w \in Writers, NEW e \in Conns, NEW p \in made[e], p[2] = w,
               writerID' = [writerID EXCEPT ![w] = p[1]]
        PROVE  Ids'
    <2>1. p[1] \in Nat /\ p[1] < next_id
      BY <1>2 DEF Ids
    <2>2. /\ writerID' \in [Writers -> Nat] /\ writerID'[w] = p[1]
          /\ \A v \in Writers : v # w => writerID'[v] = writerID[v]
      BY <1>2, <2>1 DEF Ids
    <2>3. \A v \in Writers : writerID'[v] < next_id
      BY <2>1, <2>2 DEF Ids
    <2>4. \A f \in Conns : \A q \in made[f] : q[1] = p[1] => q[2] = w
      BY <1>2 DEF Ids
    <2>5. \A f \in Conns : \A q \in made'[f] : \A v \in Writers :
             q[1] = writerID'[v] => q[2] = v
      BY <2>2, <2>4 DEF Ids
    <2> QED BY <2>2, <2>3, <2>5 DEF Ids
  <1> QED BY <1>1, <1>2

LEMMA IdsStep == Connections /\ Uses /\ Copied /\ Ids /\ [Next]_vars => Ids'
  <1> SUFFICES ASSUME Connections, Uses, Copied, Ids, [Next]_vars PROVE Ids'
    OBVIOUS
  <1>1. CASE \E x \in Objects : User(x)
    <2>1. PICK x \in Objects : User(x)
      BY <1>1
    <2>2. CASE Begin(x) \/ Fails(x) \/ End(x) \/ Mark(x) \/ Unlist(x)
      BY <2>2, SameIds DEF Begin, Ask, AskNobody, Fails, End, Mark, Unlist, lists, bridge
    <2>3. CASE Carried(x)
      <3>1. on[x] \in Conns /\ writerID' = writerID
        BY <2>3 DEF Uses, Carried, lists
      <3>2. CASE x \in Subs
        BY <2>3, <3>1, <3>2, SameIds DEF Carried, Serve
      <3>3. CASE x \notin Subs
        BY <2>3, <3>1, <3>3, MakeKeepsIds DEF Carried, Objects
      <3> QED BY <3>2, <3>3
    <2>4. CASE Listed(x)
      <3>1. on[x] \in Conns /\ UNCHANGED <<next_id, made>>
        BY <2>4 DEF Uses, Listed, bridge
      <3>2. made' \in [Conns -> SUBSET ((Nat \ {0}) \X Writers)]
        BY <3>1 DEF Ids
      <3> QED BY <2>4, <3>1, <3>2, FewerKeepIds DEF Listed, Objects
    <2>5. CASE Ended(x)
      <3>1. on[x] \in Conns /\ next_id' = next_id /\ writerID' = writerID
        BY <2>5 DEF Uses, Ended, lists
      <3>2. \/ made' = made
            \/ made' = [made EXCEPT ![on[x]] = {p \in @ : x \in Subs \/ p[1] # writerID[x]}]
        BY <2>5 DEF Ended
      <3>3. /\ made' \in [Conns -> SUBSET ((Nat \ {0}) \X Writers)]
            /\ \A e \in Conns : made'[e] \subseteq made[e]
        BY <3>1, <3>2 DEF Ids
      <3> QED BY <3>1, <3>3, FewerKeepIds
    <2> QED BY <2>1, <2>2, <2>3, <2>4, <2>5 DEF User
  <1>2. CASE Restore
    <2>1. newest \in Conns /\ Head(todo) \in Objects
      BY <1>2 DEF Restore, Connections, IsNewest, Copied
    <2>2. CASE Head(todo) \in Subs
      BY <1>2, <2>2, SameIds DEF Restore, Serve
    <2>3. CASE Head(todo) \notin Subs
      <3>1. Head(todo) \in Writers /\ Make(newest, Head(todo))
            /\ writerID' = [writerID EXCEPT ![Head(todo)] = next_id]
        BY <1>2, <2>1, <2>3 DEF Restore, Objects
      <3> QED BY <2>1, <3>1, MakeKeepsIds
    <2> QED BY <2>2, <2>3
  <1>3. CASE Quit \/ DropConn \/ CloseOld \/ GiveUp \/ Dial \/ CopyLists \/ RestoreSkips
             \/ RestoreFails \/ Install \/ DialFails
    BY <1>3, SameIds DEF Quit, DropConn, CloseOld, GiveUp, Dial, CopyLists, RestoreSkips,
                         RestoreFails, Install, DialFails, lists, bridge
  <1>4. CASE (\E x \in Subs : Receive(x)) \/ DataArrives \/ deliverData
             \/ (\E e \in Conns : LinkLost(e))
    BY <1>4, SameIds DEF Receive, DataArrives, deliverData, CheckSub, SendFirst, DropOldest,
                         SendAgain, At, LinkLost, lists, bridge
  <1>5. CASE CloseAsked \/ Close \/ UNCHANGED vars
    BY <1>5, SameIds DEF CloseAsked, Close, CloseConn, CloseLists, vars, lists, bridge
  <1> QED BY <1>1, <1>2, <1>3, <1>4, <1>5 DEF Next, watchLoop

-----------------------------------------------------------------------------
(* The connections that calls use.                                         *)

LEMMA UsesInit == Init => Uses
  <1> SUFFICES ASSUME Init PROVE Uses
    OBVIOUS
  <1>1. /\ on = [x \in Objects |-> 0] /\ at = [x \in Objects |-> "new"]
        /\ watch = "watching" /\ DOMAIN served = Conns
    BY DEF Init
  <1>2. newest \in Conns
    BY ConnectionsInit DEF Connections, IsNewest
  <1>3. 0 \in 0 .. newest
    BY <1>2 DEF Conns
  <1> QED BY <1>1, <1>3 DEF Uses

\* A step of watchLoop that leaves the calls alone.
LEMMA SameUses ==
    ASSUME Uses, UNCHANGED <<on, at>>, DOMAIN served' = DOMAIN served, newest' = newest,
           watch' \in {"dialled", "restoring"} => watch \in {"dialled", "restoring"}
    PROVE  Uses'
  BY DEF Uses

LEMMA UserKeepsUses ==
    ASSUME Connections, Lists, Uses, NEW x \in Objects, User(x) PROVE Uses'
  <1>1. newest' = newest /\ UNCHANGED <<watch, link, conn>>
    <2>1. UNCHANGED connections
      BY ElsewhereNothing
    <2> QED BY <2>1, SameConnections DEF connections
  <1>2. newest \in Conns /\ newest \in Nat
    BY DEF Connections, IsNewest, Conns
  <1>3. DOMAIN served' = Conns
    <2>1. CASE Carried(x)
      BY <2>1 DEF Carried, Serve, Make, Uses
    <2>2. CASE Ended(x)
      BY <2>2 DEF Ended, Uses
    <2>3. CASE ~Carried(x) /\ ~Ended(x)
      BY <2>3 DEF User, Begin, Ask, AskNobody, Listed, Fails, Mark, Unlist, End, bridge, Uses
    <2> QED BY <2>1, <2>2, <2>3
  <1>4. CASE Ask(x, "new", "asked") \/ Ask(x, "unlisted", "ending")
    <2>1. /\ conn # 0 /\ on' = [on EXCEPT ![x] = conn]
          /\ \E p \in Places : at' = [at EXCEPT ![x] = p]
      BY <1>4 DEF Ask, Places
    <2>2. conn = newest /\ watch \notin {"dialled", "restoring"}
      BY <2>1 DEF Connections
    <2>3. /\ DOMAIN on' = Objects /\ on'[x] = newest
          /\ \A y \in Objects : y # x => on'[y] = on[y] /\ at'[y] = at[y]
      BY <2>1, <2>2 DEF Uses, Lists
    <2>4. newest \in 0 .. newest
      BY <1>2
    <2> QED BY <1>1, <1>2, <1>3, <2>2, <2>3, <2>4 DEF Uses
  <1>5. CASE ~(Ask(x, "new", "asked") \/ Ask(x, "unlisted", "ending"))
    <2> DEFINE busy == {"asked", "carried", "live", "marked", "unlisted", "ending"}
    <2>1. /\ on' = on
          /\ \E p \in Places :
                at' = [at EXCEPT ![x] = p] /\ (p \in busy => at[x] \in busy)
      BY <1>5 DEF User, Begin, AskNobody, Carried, Listed, Fails, Mark, Unlist, End, Ended, Places
    <2>2. \A y \in Objects : at'[y] \in busy => at[y] \in busy
      BY <2>1 DEF Lists
    <2> QED BY <1>1, <1>3, <2>1, <2>2 DEF Uses
  <1> QED BY <1>4, <1>5

LEMMA UsesStep == Connections /\ Lists /\ Uses /\ [Next]_vars => Uses'
  <1> SUFFICES ASSUME Connections, Lists, Uses, [Next]_vars PROVE Uses'
    OBVIOUS
  <1>1. CASE \E x \in Objects : User(x)
    BY <1>1, UserKeepsUses
  <1>2. ASSUME UNCHANGED link PROVE newest' = newest
    BY <1>2, NewestIsNext DEF Connections
  <1>3. CASE Quit \/ DropConn \/ GiveUp \/ CopyLists \/ RestoreSkips \/ Install \/ DialFails
    BY <1>2, <1>3, SameUses DEF Quit, DropConn, GiveUp, CopyLists, RestoreSkips,
                                Install, DialFails, user, bridge
  <1>4. CASE Restore
    BY <1>2, <1>4, SameUses DEF Restore, Serve, Make, user
  <1>5. CASE CloseOld \/ RestoreFails
    <2>1. /\ link' = [link EXCEPT ![newest] = "closed"] /\ UNCHANGED <<on, at, served>>
          /\ watch' = "retry"
      BY <1>5 DEF CloseOld, RestoreFails, user, bridge
    <2>2. newest' = newest
      BY <2>1, Relink
    <2> QED BY <2>1, <2>2, SameUses
  <1>6. CASE Dial
    <2>1. /\ link' = [link EXCEPT ![newest + 1] = "up"] /\ watch = "retry"
          /\ newest < MaxConns /\ UNCHANGED <<on, at, served>>
      BY <1>6 DEF Dial, user, bridge
    <2>2. newest \in Nat /\ newest \in Conns /\ newest + 1 \in Conns
      BY <2>1, ClientConstants DEF Connections, IsNewest, Conns
    <2>3. newest' = newest + 1
      BY <1>6, DialKeepsConnections
    <2>4. \A x \in Objects : on[x] \in 0 .. newest + 1 /\ on[x] < newest + 1
      BY <2>2 DEF Uses
    <2> QED BY <2>1, <2>3, <2>4 DEF Uses
  <1>7. CASE \E e \in Conns : LinkLost(e)
    <2>1. UNCHANGED <<on, at, served, watch>>
      BY <1>7 DEF LinkLost, user, bridge, loop
    <2>2. PICK e \in Conns : LinkLost(e)
      BY <1>7
    <2>3. newest' = newest
      BY <2>2, LossKeepsConnections
    <2> QED BY <2>1, <2>3, SameUses
  <1>8. CASE (\E x \in Subs : Receive(x)) \/ DataArrives \/ deliverData
    BY <1>2, <1>8, SameUses DEF Receive, DataArrives, deliverData, CheckSub, SendFirst, DropOldest,
                                SendAgain, At, user, loop, bridge
  <1>9. CASE CloseAsked \/ CloseLists \/ UNCHANGED vars
    BY <1>2, <1>9, SameUses DEF CloseAsked, CloseLists, vars, user, loop, bridge
  <1>10. CASE CloseConn
    BY <1>10, CloseKeepsConnections, SameUses DEF CloseConn, Close, user, loop, bridge
  <1> QED BY <1>1, <1>3, <1>4, <1>5, <1>6, <1>7, <1>8, <1>9, <1>10 DEF Next, watchLoop, Close

-----------------------------------------------------------------------------
(* What the sessions serve.                                                *)

LEMMA GivenFacts ==
    ASSUME Lists
    PROVE  Given \subseteq Objects /\ \A x \in Given : at[x] \in {"live", "marked"}
  BY DEF Lists, Given, ToSet, Objects

LEMMA CopiedStep == Lists /\ Copied /\ [Next]_vars => Copied'
  <1> SUFFICES ASSUME Lists, Copied, [Next]_vars PROVE Copied'
    OBVIOUS
  <1>1. ASSUME UNCHANGED <<at, copied>>, todo' \in Seq(Objects) PROVE Copied'
    BY <1>1 DEF Copied
  <1>2. todo \in Seq(Objects) /\ <<>> \in Seq(Objects)
        /\ (todo # <<>> => Tail(todo) \in Seq(Objects))
    BY DEF Copied
  <1>3. CASE \E x \in Objects : User(x)
    <2>1. PICK x \in Objects : User(x)
      BY <1>3
    <2>2. /\ UNCHANGED <<todo, copied>>
          /\ \E p \in Places : /\ at' = [at EXCEPT ![x] = p]
                               /\ (p \in {"new", "asked", "carried"} =>
                                     at[x] \in {"new", "asked", "carried"})
      BY <2>1 DEF User, Begin, Ask, AskNobody, Carried, Listed, Fails, Mark, Unlist, End,
                  Ended, loop, Places
    <2> QED BY <2>2 DEF Copied, Lists
  <1>4. CASE CopyLists
    <2>1. todo' = writers \o subs /\ copied' = ToSet(todo') /\ at' = at
      BY <1>4 DEF CopyLists, user
    <2>2. writers \in Seq(Objects) /\ subs \in Seq(Objects)
      BY SeqMonotonic DEF Lists, Objects
    <2>3. todo' \in Seq(Objects)
      BY <2>1, <2>2
    <2>4. ToSet(todo') = ToSet(writers) \cup ToSet(subs)
      BY <2>1, <2>2, ToSetConcat
    <2>5. copied' \subseteq Objects /\ \A x \in copied' : at[x] \in {"live", "marked"}
      BY <2>1, <2>4 DEF Lists, ToSet, Objects
    <2> QED BY <2>1, <2>3, <2>5 DEF Copied
  <1>5. CASE Quit \/ DropConn \/ CloseOld \/ GiveUp \/ Dial \/ Restore \/ RestoreSkips
             \/ RestoreFails \/ Install \/ DialFails
    BY <1>1, <1>2, <1>5 DEF Quit, DropConn, CloseOld, GiveUp, Dial, Restore, RestoreSkips,
                            RestoreFails, Install, DialFails, user
  <1>6. CASE (\E x \in Subs : Receive(x)) \/ DataArrives \/ deliverData
             \/ (\E e \in Conns : LinkLost(e))
    BY <1>1, <1>2, <1>6 DEF Receive, DataArrives, deliverData, CheckSub, SendFirst, DropOldest,
                            SendAgain, At, LinkLost, loop, user
  <1>7. CASE CloseAsked \/ Close \/ UNCHANGED vars
    BY <1>1, <1>2, <1>7 DEF CloseAsked, Close, CloseConn, CloseLists, vars, loop, user
  <1> QED BY <1>3, <1>4, <1>5, <1>6, <1>7 DEF Next, watchLoop

\* A request of x takes nothing from the others.
LEMMA OthersServed ==
    ASSUME TopicsApart, Ids, Uses, NEW x \in Objects, User(x),
           NEW y \in Objects, y # x, NEW e \in Conns
    PROVE  /\ ServedOn(e, y) => ServedOn(e, y)'
           /\ y \in Subs /\ TopicOf[y] \in served[e] => TopicOf[y] \in served'[e]
           /\ (\E p \in made[e] : p[2] = y) => \E p \in made'[e] : p[2] = y
  <1>1. y \notin Subs => y \in Writers /\ writerID'[y] = writerID[y]
    <2>1. y \notin Subs => y \in Writers
      BY DEF Objects
    <2>2. writerID' = writerID \/ \E n : writerID' = [writerID EXCEPT ![x] = n]
      BY DEF User, Begin, Ask, AskNobody, Carried, Listed, Fails, Mark, Unlist, End, Ended, lists
    <2> QED BY <2>1, <2>2 DEF Ids
  <1>2. CASE Ended(x)
    <2>1. on[x] \in Conns
      BY <1>2 DEF Uses, Ended
    <2>2. \/ UNCHANGED <<served, made>>
          \/ /\ served' = IF x \in Subs THEN [served EXCEPT ![on[x]] = @ \ {TopicOf[x]}]
                          ELSE served
             /\ made' = [made EXCEPT ![on[x]] = {p \in @ : x \in Subs \/ p[1] # writerID[x]}]
      BY <1>2 DEF Ended
    <2>3. y \in Subs /\ TopicOf[y] \in served[e] => TopicOf[y] \in served'[e]
      BY <2>1, <2>2 DEF TopicsApart, Uses
    <2>4. ASSUME NEW p \in made[e], p[2] = y PROVE p \in made'[e]
      <3>1. x \notin Subs => p[1] # writerID[x]
        BY <2>4 DEF Ids, Objects
      <3> QED BY <2>1, <2>2, <3>1 DEF Ids
    <2>5. ServedOn(e, y) => ServedOn(e, y)'
      BY <1>1, <2>3, <2>4 DEF ServedOn
    <2> QED BY <2>3, <2>4, <2>5
  <1>3. CASE ~Ended(x)
    <2>1. served[e] \subseteq served'[e] /\ made[e] \subseteq made'[e]
      <3>1. CASE Carried(x)
        <4>1. on[x] \in Conns
          BY <3>1 DEF Uses, Carried
        <4> QED BY <3>1, <4>1 DEF Carried, Serve, Make, Uses, Ids
      <3>2. CASE ~Carried(x)
        BY <1>3, <3>2 DEF User, Begin, Ask, AskNobody, Listed, Fails, Mark, Unlist, End, bridge
      <3> QED BY <3>1, <3>2
    <2> QED BY <1>1, <2>1 DEF ServedOn
  <1> QED BY <1>2, <1>3

\* restoreState only adds to the newest session; no other step but a request
\* of the user changes what is served.
LEMMA RestoreServes ==
    ASSUME Connections, Copied, Ids, Uses, Restore, NEW x, x = Head(todo)
    PROVE  /\ newest' = newest /\ newest \in Conns /\ x \in Objects
           /\ \A e \in Conns : served[e] \subseteq served'[e] /\ made[e] \subseteq made'[e]
           /\ ServedOn(newest, x)'
           /\ \A y \in Objects : ServedOn(newest, y) => ServedOn(newest, y)'
           /\ todo # <<>> /\ todo' = Tail(todo) /\ watch = "restoring" /\ watch' = watch
           /\ UNCHANGED <<conn, subs, writers, w_closed, at, on, copied>>
  <1>1. /\ todo # <<>> /\ todo' = Tail(todo) /\ watch = "restoring" /\ watch' = watch
        /\ UNCHANGED <<conn, subs, writers, w_closed, at, on, copied, link>>
    BY DEF Restore, user
  <1>2. newest' = newest /\ newest \in Conns
    BY <1>1, NewestIsNext DEF Connections, IsNewest
  <1>3. x \in Objects
    BY <1>1 DEF Copied
  <1>4. ASSUME \A e \in Conns : served[e] \subseteq served'[e] /\ made[e] \subseteq made'[e],
               NEW y \in Objects, ServedOn(newest, y),
               y \notin Subs => writerID'[y] = writerID[y]
        PROVE  ServedOn(newest, y)'
    <2>1. served[newest] \subseteq served'[newest] /\ made[newest] \subseteq made'[newest]
      BY <1>2, <1>4
    <2>2. CASE y \in Subs
      BY <1>2, <1>4, <2>1, <2>2 DEF ServedOn
    <2>3. CASE y \notin Subs
      BY <1>2, <1>4, <2>1, <2>3 DEF ServedOn
    <2> QED BY <2>2, <2>3
  <1>5. CASE x \in Subs
    <2>1. Serve(newest, x) /\ writerID' = writerID
      BY <1>5 DEF Restore
    <2>2. made' = made /\ \A e \in Conns : served[e] \subseteq served'[e]
      BY <2>1 DEF Serve, Uses
    <2>3. TopicOf[x] \in served'[newest]
      BY <1>2, <2>1 DEF Serve, Uses
    <2>4. ServedOn(newest, x)'
      BY <1>2, <1>5, <2>3 DEF ServedOn
    <2> QED BY <1>1, <1>2, <1>3, <1>4, <2>1, <2>2, <2>4
  <1>6. CASE x \notin Subs
    <2>1. Make(newest, x) /\ writerID' = [writerID EXCEPT ![x] = next_id] /\ x \in Writers
      BY <1>3, <1>6 DEF Restore, Objects
    <2>2. served' = served /\ \A e \in Conns : made[e] \subseteq made'[e]
      BY <2>1 DEF Make, Ids
    <2>3. writerID'[x] = next_id /\ \A w \in Writers : w # x => writerID'[w] = writerID[w]
      BY <2>1 DEF Ids
    <2>4. <<next_id, x>> \in made'[newest]
      BY <1>2, <2>1 DEF Make, Ids
    <2>5. ServedOn(newest, x)'
      BY <1>2, <1>6, <2>3, <2>4 DEF ServedOn
    <2>6. \A y \in Objects : y # x /\ y \notin Subs => writerID'[y] = writerID[y]
      BY <2>3 DEF Objects
    <2>7. \A y \in Objects : ServedOn(newest, y) => ServedOn(newest, y)'
      BY <1>4, <2>2, <2>5, <2>6
    <2> QED BY <1>1, <1>2, <1>3, <2>2, <2>5, <2>7
  <1> QED BY <1>5, <1>6

\* The steps that change neither what is listed nor what is served.
Quiet ==
    /\ UNCHANGED <<lists, user, bridge>>
    /\ \/ Quit \/ DropConn \/ CloseOld \/ GiveUp \/ Dial \/ CopyLists \/ RestoreSkips
       \/ RestoreFails \/ Install \/ DialFails \/ DataArrives \/ deliverData \/ CloseAsked
       \/ CloseConn \/ UNCHANGED vars
       \/ (\E x \in Subs : Receive(x)) \/ (\E e \in Conns : LinkLost(e))

LEMMA QuietSteps ==
    [Next]_vars =>
       (\E x \in Objects : User(x)) \/ Restore \/ CloseLists \/ Quiet
  <1> SUFFICES ASSUME [Next]_vars, ~(\E x \in Objects : User(x)), ~Restore, ~CloseLists
               PROVE  Quiet
    OBVIOUS
  <1>1. \/ Quit \/ DropConn \/ CloseOld \/ GiveUp \/ Dial \/ CopyLists \/ RestoreSkips
        \/ RestoreFails \/ Install \/ DialFails \/ DataArrives \/ deliverData \/ CloseAsked
        \/ CloseConn \/ UNCHANGED vars
        \/ (\E x \in Subs : Receive(x)) \/ (\E e \in Conns : LinkLost(e))
    BY DEF Next, watchLoop, Close
  <1>2. UNCHANGED <<lists, user, bridge>>
    <2>1. CASE Quit \/ DropConn \/ CloseOld \/ GiveUp \/ Dial \/ CopyLists \/ RestoreSkips
               \/ RestoreFails \/ Install \/ DialFails \/ CloseAsked \/ CloseConn \/ UNCHANGED vars
      BY <2>1 DEF Quit, DropConn, CloseOld, GiveUp, Dial, CopyLists, RestoreSkips, RestoreFails,
                  Install, DialFails, CloseAsked, CloseConn, vars
    <2>2. CASE DataArrives \/ deliverData
      BY <2>2 DEF DataArrives, deliverData, CheckSub, SendFirst, DropOldest, SendAgain, At
    <2>3. CASE (\E x \in Subs : Receive(x)) \/ (\E e \in Conns : LinkLost(e))
      BY <2>3 DEF Receive, LinkLost
    <2> QED BY <1>1, <2>1, <2>2, <2>3
  <1> QED BY <1>1, <1>2 DEF Quiet

LEMMA CarriedOutStep ==
    ASSUME TopicsApart
    PROVE  Connections /\ Lists /\ Service /\ [Next]_vars => CarriedOut'
  <1> SUFFICES ASSUME Connections, Lists, Service, [Next]_vars PROVE CarriedOut'
    OBVIOUS
  <1> USE DEF Service
  <1>1. CASE \E x \in Objects : User(x)
    <2>1. PICK x \in Objects : User(x)
      BY <1>1
    <2>2. ASSUME NEW y \in Objects, y # x, at'[y] = "carried"
          PROVE  IF y \in Subs THEN TopicOf[y] \in served'[on'[y]]
                 ELSE \E p \in made'[on'[y]] : p[2] = y
      <3>1. at[y] = "carried" /\ on'[y] = on[y]
        BY <2>1, <2>2 DEF User, Begin, Ask, AskNobody, Carried, Listed, Fails, Mark, Unlist, End,
                          Ended, Lists, Uses
      <3>2. on[y] \in Conns
        BY <3>1 DEF Uses
      <3> QED BY <2>1, <2>2, <3>1, <3>2, OthersServed DEF CarriedOut
    <2>3. ASSUME at'[x] = "carried"
          PROVE  IF x \in Subs THEN TopicOf[x] \in served'[on'[x]]
                 ELSE \E p \in made'[on'[x]] : p[2] = x
      <3>1. Carried(x)
        BY <2>1, <2>3 DEF User, Begin, Ask, AskNobody, Listed, Fails, Mark, Unlist, End, Ended, Lists
      <3>2. on' = on /\ on[x] \in Conns
        BY <3>1 DEF Carried, Uses
      <3>3. CASE x \in Subs
        BY <3>1, <3>2, <3>3 DEF Carried, Serve, Uses
      <3>4. CASE x \notin Subs
        <4>1. <<next_id, x>> \in made'[on'[x]]
          BY <3>1, <3>2, <3>4 DEF Carried, Make, Ids
        <4> QED BY <3>4, <4>1
      <3> QED BY <3>3, <3>4
    <2> QED BY <2>2, <2>3 DEF CarriedOut
  <1>2. ASSUME UNCHANGED <<at, on>>,
               \A e \in Conns : served[e] \subseteq served'[e] /\ made[e] \subseteq made'[e]
        PROVE  CarriedOut'
    <2> SUFFICES ASSUME NEW x \in Objects, at[x] = "carried"
                 PROVE  IF x \in Subs THEN TopicOf[x] \in served'[on[x]]
                        ELSE \E p \in made'[on[x]] : p[2] = x
      BY <1>2 DEF CarriedOut
    <2>1. on[x] \in Conns
      BY DEF Uses
    <2> QED BY <1>2, <2>1 DEF CarriedOut
  <1>3. CASE Restore
    BY <1>2, <1>3, RestoreServes
  <1>4. CASE CloseLists
    BY <1>2, <1>4 DEF CloseLists, user, bridge
  <1>5. CASE Quiet
    BY <1>2, <1>5 DEF Quiet, user, bridge
  <1> QED BY <1>1, <1>3, <1>4, <1>5, QuietSteps

\* What a step of x's goroutine does to the objects given to the user.
LEMMA UserGives ==
    ASSUME Lists, NEW x \in Objects, User(x)
    PROVE  \A y \in Given' : (y \in Given /\ y # x) \/ (y = x /\ Listed(x))
  <1>1. Lists'
    BY UserKeepsLists
  <1>2. ASSUME NEW y \in Given', y # x PROVE y \in Given
    <2>1. CASE Listed(x)
      <3>1. /\ x \in Subs => subs' = Append(subs, x) /\ writers' = writers
            /\ x \notin Subs => writers' = Append(writers, x) /\ subs' = subs
            /\ w_closed' = w_closed /\ at[x] = "carried"
        BY <2>1 DEF Listed
      <3>2. x \notin ToSet(subs) /\ x \notin ToSet(writers)
        BY <3>1 DEF Lists
      <3>3. CASE x \in Subs
        <4>0. subs' = Append(subs, x) /\ subs \in Seq(Subs) /\ IsInjective(subs)
          BY <3>1, <3>3 DEF Lists
        <4>1. ToSet(subs') = ToSet(subs) \cup {x}
          BY <3>2, <3>3, <4>0, AppendedOnce
        <4> QED BY <1>2, <3>1, <3>3, <4>1 DEF Given
      <3>4. CASE x \notin Subs
        <4>0. /\ writers' = Append(writers, x) /\ writers \in Seq(Writers)
              /\ IsInjective(writers) /\ x \in Writers
          BY <3>1, <3>4 DEF Lists, Objects
        <4>1. ToSet(writers') = ToSet(writers) \cup {x}
          BY <3>2, <4>0, AppendedOnce
        <4> QED BY <1>2, <3>1, <3>4, <4>1 DEF Given
      <3> QED BY <3>3, <3>4
    <2>2. CASE Unlist(x)
      <3>1. /\ subs' = RemoveFirst(subs, x) /\ writers' = RemoveFirst(writers, x)
            /\ w_closed' = w_closed
        BY <2>2 DEF Unlist
      <3>2. ToSet(subs') = ToSet(subs) \ {x} /\ ToSet(writers') = ToSet(writers) \ {x}
        BY <3>1, Removed DEF Lists
      <3> QED BY <1>2, <3>1, <3>2 DEF Given
    <2>3. CASE ~Listed(x) /\ ~Unlist(x)
      <3>1. subs' = subs /\ writers' = writers /\ w_closed \subseteq w_closed'
        BY <2>3 DEF User, Begin, Ask, AskNobody, Carried, Fails, Mark, End, Ended, lists
      <3> QED BY <1>2, <3>1 DEF Given
    <2> QED BY <2>1, <2>2, <2>3
  <1>3. ASSUME x \in Given' PROVE Listed(x)
    <2>1. at'[x] \in {"live", "marked"} /\ (x \in ToSet(subs') => at'[x] = "live")
      BY <1>1, <1>3 DEF Lists, Given
    <2>2. Listed(x) \/ Mark(x)
      BY <2>1 DEF User, Begin, Ask, AskNobody, Carried, Fails, Unlist, End, Ended, Lists
    <2>3. ~Mark(x)
      <3> SUFFICES ASSUME Mark(x) PROVE FALSE
        OBVIOUS
      <3>1. at'[x] = "marked" /\ x \in w_closed'
        BY DEF Mark, Lists
      <3> QED BY <1>3, <2>1, <3>1 DEF Given
    <2> QED BY <2>2, <2>3
  <1> SUFFICES ASSUME NEW y \in Given' PROVE (y \in Given /\ y # x) \/ (y = x /\ Listed(x))
    OBVIOUS
  <1>4. CASE y = x
    BY <1>3, <1>4
  <1>5. CASE y # x
    BY <1>2, <1>5
  <1> QED BY <1>4, <1>5

LEMMA UserKeepsRestored ==
    ASSUME TopicsApart, Connections, Lists, Service, NEW x \in Objects, User(x)
    PROVE  Restored'
  <1> USE DEF Service
  <1>1. newest' = newest /\ newest \in Conns /\ UNCHANGED <<watch, conn, todo, copied>>
    <2>1. UNCHANGED connections
      BY ElsewhereNothing
    <2>2. UNCHANGED <<todo, copied>>
      BY DEF User, Begin, Ask, AskNobody, Carried, Listed, Fails, Mark, Unlist, End, Ended, loop
    <2> QED BY <2>1, <2>2, SameConnections DEF connections, Connections, IsNewest
  <1>2. \A y \in Objects : y # x => on'[y] = on[y]
    BY DEF User, Begin, Ask, AskNobody, Carried, Listed, Fails, Mark, Unlist, End, Ended, Uses
  <1>3. Given \subseteq Objects
    BY GivenFacts
  <1>4. ASSUME NEW y \in Given, y # x, ServedOn(newest, y) PROVE ServedOn(newest, y)'
    <2>1. y \in Objects
      BY <1>3
    <2>2. PICK e \in Conns : e = newest
      BY <1>1
    <2>3. ServedOn(e, y)'
      BY <1>4, <2>1, <2>2, OthersServed
    <2> QED BY <1>1, <2>2, <2>3 DEF ServedOn
  <1>5. ASSUME Listed(x) PROVE x \notin copied /\ (on'[x] = newest => ServedOn(newest, x)')
    <2>1. /\ at[x] = "carried" /\ on' = on /\ UNCHANGED <<served, made>>
      BY <1>5 DEF Listed, bridge
    <2>2. x \notin copied
      BY <2>1 DEF Copied
    <2>3. on[x] \in Conns
      BY <2>1 DEF Uses
    <2>4. CASE x \in Subs
      BY <1>1, <2>1, <2>2, <2>4 DEF CarriedOut, ServedOn
    <2>5. CASE x \notin Subs
      <3>1. PICK p \in made[on[x]] : p[2] = x /\ writerID' = [writerID EXCEPT ![x] = p[1]]
        BY <1>5, <2>5 DEF Listed
      <3>2. p = <<p[1], p[2]>> /\ x \in Writers
        BY <2>3, <2>5, <3>1 DEF Ids, Objects
      <3>3. writerID'[x] = p[1]
        BY <3>1, <3>2 DEF Ids
      <3>4. <<writerID'[x], x>> \in made'[on[x]]
        BY <2>1, <3>1, <3>2, <3>3
      <3> QED BY <1>1, <2>1, <2>2, <2>5, <3>4 DEF ServedOn
    <2> QED BY <2>4, <2>5
  <1>6. ASSUME NEW y \in Given', on'[y] = newest PROVE ServedOn(newest, y)'
    <2>1. CASE y = x
      BY <1>5, <1>6, <2>1, UserGives
    <2>2. CASE y # x
      <3>1. y \in Given /\ on[y] = newest
        BY <1>2, <1>3, <1>6, <2>2, UserGives
      <3> QED BY <1>4, <2>2, <3>1 DEF Restored
    <2> QED BY <2>1, <2>2
  <1>7. ASSUME NEW y \in Given' \cap copied PROVE y \in Given \cap copied /\ y # x
    BY <1>5, <1>7, UserGives
  <1>8. ASSUME watch = "restoring", NEW y \in Given' \cap copied
        PROVE  y \in ToSet(todo) \/ ServedOn(newest, y)'
    BY <1>4, <1>7, <1>8 DEF Restored
  <1>9. ASSUME conn # 0, NEW y \in Given' \cap copied PROVE ServedOn(newest, y)'
    BY <1>4, <1>7, <1>9 DEF Restored
  <1> QED BY <1>1, <1>6, <1>8, <1>9 DEF Restored

LEMMA QuietKeepsRestored ==
    ASSUME Connections, Lists, Service, Quiet PROVE Restored'
  <1> USE DEF Service
  <1>1. /\ UNCHANGED <<subs, writers, writerID, w_closed, at, on, served, made>>
        /\ Given' = Given /\ \A e \in Conns : \A x \in Objects : ServedOn(e, x)' <=> ServedOn(e, x)
    BY DEF Quiet, lists, user, bridge, Given, ServedOn
  <1>2. Given \subseteq Objects /\ newest \in Conns
    BY GivenFacts DEF Connections, IsNewest
  <1>3. ASSUME newest' = newest PROVE \A x \in Given : ServedOn(newest, x)' <=> ServedOn(newest, x)
    BY <1>1, <1>3 DEF ServedOn
  <1>4. ASSUME link' = link PROVE newest' = newest
    BY <1>4, NewestIsNext DEF Connections
  <1>5. ASSUME newest' = newest, conn' = conn \/ conn' = 0, copied' = copied,
               watch' = "restoring" => watch = "restoring" /\ todo' = todo
        PROVE  Restored'
    BY <1>1, <1>3, <1>5 DEF Restored
  <1>6. CASE Dial
    <2>1. newest' = newest + 1 /\ watch' = "dialled" /\ conn' = conn /\ watch = "retry"
      BY <1>6, DialKeepsConnections DEF Dial
    <2>2. conn' = 0
      BY <2>1 DEF Connections
    <2>3. \A x \in Objects : on[x] # newest + 1
      BY <1>2 DEF Uses, Conns
    <2> QED BY <1>1, <1>2, <2>1, <2>2, <2>3 DEF Restored
  <1>7. CASE CopyLists
    <2>1. /\ copied' = ToSet(todo') /\ conn' = conn /\ watch = "dialled" /\ link' = link
      BY <1>7 DEF CopyLists
    <2>2. newest' = newest /\ conn' = 0
      BY <1>4, <2>1 DEF Connections
    <2> QED BY <1>1, <1>3, <2>1, <2>2 DEF Restored
  <1>8. CASE RestoreSkips
    <2>1. /\ todo # <<>> /\ Skippable(Head(todo)) /\ todo' = Tail(todo)
          /\ watch = "restoring" /\ UNCHANGED <<watch, copied, conn, link>>
      BY <1>8 DEF RestoreSkips
    <2>2. Head(todo) \notin Given
      BY <2>1, ClientConstants DEF Skippable, Given, Lists, ToSet
    <2>3. ToSet(todo) = {Head(todo)} \cup ToSet(todo')
      BY <2>1, ToSetTail DEF Copied
    <2>4. newest' = newest
      BY <1>4, <2>1
    <2> QED BY <1>1, <1>3, <2>1, <2>2, <2>3, <2>4 DEF Restored
  <1>9. CASE Install
    <2>1. /\ todo = <<>> /\ watch = "restoring" /\ watch' = "watching" /\ copied' = copied
          /\ newest' = newest
      BY <1>4, <1>9 DEF Install
    <2>2. ToSet(todo) = {}
      BY <2>1 DEF ToSet
    <2> QED BY <1>1, <1>3, <2>1, <2>2 DEF Restored
  <1>10. CASE CloseOld \/ RestoreFails
    <2>1. /\ link' = [link EXCEPT ![newest] = "closed"] /\ watch' = "retry"
          /\ UNCHANGED <<copied, conn>>
      BY <1>10 DEF CloseOld, RestoreFails
    <2>2. newest' = newest
      BY <2>1, Relink
    <2> QED BY <1>5, <2>1, <2>2
  <1>11. CASE Quit \/ DropConn \/ GiveUp \/ DialFails
    BY <1>4, <1>5, <1>11 DEF Quit, DropConn, GiveUp, DialFails
  <1>12. CASE DataArrives \/ deliverData \/ UNCHANGED vars \/ \E x \in Subs : Receive(x)
    BY <1>4, <1>5, <1>12 DEF DataArrives, deliverData, CheckSub, SendFirst, DropOldest, SendAgain,
                             At, vars, Receive, loop
  <1>13. CASE CloseAsked \/ CloseConn
    <2>1. newest' = newest
      BY <1>13, CloseKeepsConnections DEF Close
    <2>2. UNCHANGED <<watch, todo, copied>> /\ (conn' = conn \/ conn' = 0)
      BY <1>13 DEF CloseAsked, CloseConn, loop
    <2> QED BY <1>5, <2>1, <2>2
  <1>14. CASE \E e \in Conns : LinkLost(e)
    <2>1. newest' = newest
      BY <1>14, LossKeepsConnections
    <2>2. UNCHANGED <<watch, todo, copied, conn>>
      BY <1>14 DEF LinkLost, loop
    <2> QED BY <1>5, <2>1, <2>2
  <1> QED BY <1>6, <1>7, <1>8, <1>9, <1>10, <1>11, <1>12, <1>13, <1>14 DEF Quiet

LEMMA RestoredStep ==
    ASSUME TopicsApart
    PROVE  Connections /\ Lists /\ Service /\ [Next]_vars => Restored'
  <1> SUFFICES ASSUME Connections, Lists, Service, [Next]_vars PROVE Restored'
    OBVIOUS
  <1> USE DEF Service
  <1>1. CASE \E x \in Objects : User(x)
    BY <1>1, UserKeepsRestored
  <1>2. CASE Quiet
    BY <1>2, QuietKeepsRestored
  <1>3. CASE CloseLists
    <2>1. subs' = <<>> /\ writers' = <<>>
      BY <1>3 DEF CloseLists
    <2>2. Given' = {}
      BY <2>1 DEF Given, ToSet
    <2> QED BY <2>2 DEF Restored
  <1>4. CASE Restore
    <2>1. PICK x : x = Head(todo)
      OBVIOUS
    <2>2. /\ newest' = newest /\ ServedOn(newest, x)'
          /\ \A y \in Objects : ServedOn(newest, y) => ServedOn(newest, y)'
          /\ todo # <<>> /\ todo' = Tail(todo) /\ watch = "restoring" /\ watch' = watch
          /\ UNCHANGED <<conn, subs, writers, w_closed, at, on, copied>>
      BY <1>4, <2>1, RestoreServes
    <2>3. Given' = Given /\ Given \subseteq Objects
      BY <2>2, GivenFacts DEF Given
    <2>4. ToSet(todo) = {x} \cup ToSet(todo')
      BY <2>1, <2>2, ToSetTail DEF Copied
    <2> QED BY <2>2, <2>3, <2>4 DEF Restored
  <1> QED BY <1>1, <1>2, <1>3, <1>4, QuietSteps

LEMMA ServiceInit == Init => Service
  <1> SUFFICES ASSUME Init PROVE Service
    OBVIOUS
  <1>1. /\ subs = <<>> /\ writers = <<>> /\ todo = <<>> /\ copied = {}
        /\ at = [x \in Objects |-> "new"]
    BY DEF Init
  <1>2. Given = {}
    BY <1>1 DEF Given, ToSet
  <1>3. Copied
    BY <1>1 DEF Copied
  <1>4. CarriedOut
    BY <1>1 DEF CarriedOut
  <1>5. Restored
    BY <1>2 DEF Restored
  <1> QED BY <1>3, <1>4, <1>5, IdsInit, UsesInit DEF Service

\* On an installed connection everything that restoreState copied or that was
\* made on it is served, for clients with one subscription per topic
\* (client.go, restoreState, Subscribe and CreateWriter).
THEOREM CopiedAlwaysServed == ASSUME TopicsApart PROVE Spec => []CopiedAreServed
  <1> DEFINE Inv == Connections /\ Lists /\ Service
  <1>1. Init => Inv
    BY ConnectionsInit, ListsInit, ServiceInit
  <1>2. Inv /\ [Next]_vars => Inv'
    <2> SUFFICES ASSUME Inv, [Next]_vars PROVE Inv'
      OBVIOUS
    <2>1. Connections' /\ Lists'
      BY ConnectionsStep, ListsStep
    <2>2. Ids' /\ Uses' /\ Copied'
      BY IdsStep, UsesStep, CopiedStep DEF Service
    <2>3. CarriedOut' /\ Restored'
      BY CarriedOutStep, RestoredStep
    <2> QED BY <2>1, <2>2, <2>3 DEF Service
  <1>3. Inv => CopiedAreServed
    <2> SUFFICES ASSUME Inv, conn # 0, NEW x \in Given, x \in copied \/ on[x] = conn
                 PROVE  IF x \in Subs THEN TopicOf[x] \in served[conn]
                        ELSE <<writerID[x], x>> \in made[conn]
      BY DEF CopiedAreServed, Given
    <2>1. conn = newest
      BY DEF Connections
    <2>2. ServedOn(newest, x)
      BY <2>1 DEF Service, Restored
    <2> QED BY <2>1, <2>2 DEF ServedOn
  <1> QED BY <1>1, <1>2, <1>3, PTL DEF Spec
=============================================================================
