------------------------ MODULE WriterRegistry_proofs ------------------------
(***************************************************************************)
(* Proofs about WriterRegistry, for every set of sessions, topics and QoS  *)
(* sets, as long as fewer writers are created than there are ids.          *)
(***************************************************************************)
EXTENDS WriterRegistry, TLAPS

\* The inductive invariant: each number leads, under its own id, to a live
\* writer of the one session that lists it, and no number is from the future.
Ownership ==
    /\ TypeOK
    /\ writers_created <= MaxWriters
    /\ ListedWritersOwned
    /\ OwnedWritersListed

NoWrap == MaxWriters < WriterIdSpace

-----------------------------------------------------------------------------
(* Below the wrap a number is its own id.                                  *)

\* next_writer_id (writer.rs:14-17) has not wrapped: number n got id n.
LEMMA IdOfLemma ==
    ASSUME NoWrap, NEW n \in 1 .. MaxWriters
    PROVE  IdOf(n) = n
  BY WriterConstants DEF NoWrap, IdOf

\* The empty registry satisfies the invariant.
LEMMA OwnershipInit == Init => Ownership
  BY WriterConstants DEF Init, EmptyMap, Ownership, TypeOK, ListedWritersOwned, OwnedWritersListed

\* register with a fresh id (writer.rs:115-123) keeps the invariant.
LEMMA RegisterKeepsOwnership ==
    ASSUME NoWrap, Ownership, NEW s \in Sessions, NEW t \in Topics, NEW q \in QosSets,
           register(s, t, q)
    PROVE  Ownership'
  <1>0. PICK w : w = writers_created + 1
    OBVIOUS
  <1>1. /\ writers_created \in Nat /\ w \in 1 .. MaxWriters /\ w \in Nat
        /\ writers_created' = w /\ next_writer_id = w
    BY <1>0, WriterConstants DEF Ownership, TypeOK, register, next_writer_id, IdOf, NoWrap
  <1>2. \A u \in Sessions : \A n \in session_writers[u] :
           n \in 1 .. MaxWriters /\ n < w /\ IdOf(n) = n
    BY <1>0, <1>1, IdOfLemma, WriterConstants DEF Ownership, TypeOK
  <1>3. IdOf(w) = w
    BY <1>1, IdOfLemma
  <1> DEFINE rec == [topic |-> t, qos |-> normalize(q), owner |-> s]
  <1>4. /\ DOMAIN writers' = DOMAIN writers \cup {w}
        /\ writers'[w] = rec
        /\ \A x \in DOMAIN writers : x # w => writers'[x] = writers[x]
        /\ writers' = [x \in DOMAIN writers' |-> writers'[x]]
    BY <1>1 DEF register, insert
  <1>5. rec \in WriterType /\ rec.owner = s
    BY DEF WriterType
  <1>6. /\ session_writers' = [session_writers EXCEPT ![s] = @ \cup {w}]
        /\ session_writers \in [Sessions -> SUBSET (1 .. writers_created)]
    BY <1>0 DEF register, Ownership, TypeOK
  <1>7. \A x \in DOMAIN writers : x # w
    BY <1>2 DEF Ownership, OwnedWritersListed, TypeOK, WriterType
  <1> HIDE DEF rec
  <1>8. TypeOK'
    <2>1. \A x \in DOMAIN writers' : writers'[x] \in WriterType
      BY <1>4, <1>5 DEF Ownership, TypeOK
    <2>2. writers' \in [DOMAIN writers' -> WriterType]
      BY <2>1, <1>4
    <2>3. DOMAIN writers' \subseteq Nat
      BY <1>1, <1>4 DEF Ownership, TypeOK
    <2>4. session_writers' \in [Sessions -> SUBSET (1 .. w)]
      BY <1>0, <1>1, <1>6
    <2> QED BY <1>1, <2>2, <2>3, <2>4 DEF TypeOK
  <1>9. ListedWritersOwned'
    <2> SUFFICES ASSUME NEW u \in Sessions, NEW n \in session_writers'[u]
                 PROVE  IdOf(n) \in DOMAIN writers' /\ writers'[IdOf(n)].owner = u
      BY DEF ListedWritersOwned, Owns, IdOf
    <2>1. CASE n = w
      <3>1. u = s
        BY <2>1, <1>2, <1>6, <1>1
      <3> QED BY <3>1, <2>1, <1>3, <1>4, <1>5
    <2>2. CASE n # w
      <3>1. n \in session_writers[u]
        BY <2>2, <1>6
      <3>2. IdOf(n) \in DOMAIN writers /\ writers[IdOf(n)].owner = u
        BY <3>1 DEF Ownership, ListedWritersOwned, Owns
      <3> QED BY <3>2, <1>4, <1>7
    <2> QED BY <2>1, <2>2
  <1>10. OwnedWritersListed'
    <2> SUFFICES ASSUME NEW x \in DOMAIN writers'
                 PROVE  \E n \in session_writers'[writers'[x].owner] : IdOf(n) = x
      BY DEF OwnedWritersListed, IdOf
    <2>1. CASE x = w
      BY <2>1, <1>3, <1>4, <1>5, <1>6
    <2>2. CASE x # w
      <3>1. x \in DOMAIN writers /\ writers'[x] = writers[x] /\ writers[x].owner \in Sessions
        BY <2>2, <1>4 DEF Ownership, TypeOK, WriterType
      <3>2. PICK n \in session_writers[writers[x].owner] : IdOf(n) = x
        BY <3>1 DEF Ownership, OwnedWritersListed
      <3> QED BY <3>1, <3>2, <1>6
    <2> QED BY <2>1, <2>2
  <1>11. writers_created' <= MaxWriters
    BY <1>1, WriterConstants
  <1> QED
    BY <1>8, <1>9, <1>10, <1>11 DEF Ownership

\* delete by the owner (writer.rs:145-159) keeps the invariant.
LEMMA DeleteKeepsOwnership ==
    ASSUME NoWrap, Ownership, NEW s \in Sessions, NEW w \in DOMAIN writers, delete(s, w)
    PROVE  Ownership'
  <1>1. /\ DOMAIN writers' = DOMAIN writers \ {w}
        /\ \A x \in DOMAIN writers' : writers'[x] = writers[x]
        /\ writers' = [x \in DOMAIN writers' |-> writers'[x]]
    BY DEF delete, remove, Restrict
  <1>2. /\ session_writers' = [session_writers EXCEPT ![s] = {n \in @ : IdOf(n) # w}]
        /\ session_writers \in [Sessions -> SUBSET (1 .. writers_created)]
        /\ writers_created' = writers_created
        /\ writers[w].owner = s
    BY DEF delete, Owns, Ownership, TypeOK
  <1>3. \A u \in Sessions : \A n :
           n \in session_writers'[u] <=> n \in session_writers[u] /\ ~(u = s /\ IdOf(n) = w)
    BY <1>2
  <1>4. TypeOK'
    <2>1. session_writers' \in [Sessions -> SUBSET (1 .. writers_created)]
      BY <1>2
    <2>2. \A x \in DOMAIN writers' : writers'[x] \in WriterType
      BY <1>1 DEF Ownership, TypeOK
    <2>3. writers' \in [DOMAIN writers' -> WriterType]
      BY <1>1, <2>2
    <2> QED BY <1>1, <1>2, <2>1, <2>3 DEF Ownership, TypeOK
  <1>5. ListedWritersOwned'
    <2> SUFFICES ASSUME NEW u \in Sessions, NEW n \in session_writers'[u]
                 PROVE  IdOf(n) \in DOMAIN writers' /\ writers'[IdOf(n)].owner = u
      BY DEF ListedWritersOwned, Owns, IdOf
    <2>1. n \in session_writers[u] /\ ~(u = s /\ IdOf(n) = w)
      BY <1>3
    <2>2. IdOf(n) \in DOMAIN writers /\ writers[IdOf(n)].owner = u
      BY <2>1 DEF Ownership, ListedWritersOwned, Owns
    <2> QED BY <2>1, <2>2, <1>1, <1>2
  <1>6. OwnedWritersListed'
    <2> SUFFICES ASSUME NEW x \in DOMAIN writers'
                 PROVE  \E n \in session_writers'[writers'[x].owner] : IdOf(n) = x
      BY DEF OwnedWritersListed, IdOf
    <2>1. /\ x \in DOMAIN writers /\ x # w /\ writers'[x] = writers[x]
          /\ writers[x].owner \in Sessions
      BY <1>1 DEF Ownership, TypeOK, WriterType
    <2>2. PICK n \in session_writers[writers[x].owner] : IdOf(n) = x
      BY <2>1 DEF Ownership, OwnedWritersListed
    <2> QED BY <2>1, <2>2, <1>3
  <1> QED
    BY <1>2, <1>4, <1>5, <1>6 DEF Ownership

\* remove_session (writer.rs:162-168) keeps the invariant.
LEMMA RemoveSessionKeepsOwnership ==
    ASSUME NoWrap, Ownership, NEW s \in Sessions, remove_session(s)
    PROVE  Ownership'
  <1> DEFINE mine == {IdOf(n) : n \in session_writers[s]}
  <1>1. /\ DOMAIN writers' = DOMAIN writers \ mine
        /\ \A x \in DOMAIN writers' : writers'[x] = writers[x]
        /\ writers' = [x \in DOMAIN writers' |-> writers'[x]]
    BY DEF remove_session, remove, Restrict
  <1>2. /\ session_writers' = [session_writers EXCEPT ![s] = {}]
        /\ session_writers \in [Sessions -> SUBSET (1 .. writers_created)]
        /\ writers_created' = writers_created
    BY DEF remove_session, Ownership, TypeOK
  <1>3. \A u \in Sessions : \A n :
           n \in session_writers'[u] <=> n \in session_writers[u] /\ u # s
    BY <1>2
  <1>4. \A x \in DOMAIN writers : x \in mine <=> writers[x].owner = s
    BY DEF Ownership, ListedWritersOwned, OwnedWritersListed, Owns
  <1> HIDE DEF mine
  <1>5. TypeOK'
    <2>1. session_writers' \in [Sessions -> SUBSET (1 .. writers_created)]
      BY <1>2
    <2>2. \A x \in DOMAIN writers' : writers'[x] \in WriterType
      BY <1>1 DEF Ownership, TypeOK
    <2>3. writers' \in [DOMAIN writers' -> WriterType]
      BY <1>1, <2>2
    <2> QED BY <1>1, <1>2, <2>1, <2>3 DEF Ownership, TypeOK
  <1>6. ListedWritersOwned'
    <2> SUFFICES ASSUME NEW u \in Sessions, NEW n \in session_writers'[u]
                 PROVE  IdOf(n) \in DOMAIN writers' /\ writers'[IdOf(n)].owner = u
      BY DEF ListedWritersOwned, Owns, IdOf
    <2>1. n \in session_writers[u] /\ u # s
      BY <1>3
    <2>2. IdOf(n) \in DOMAIN writers /\ writers[IdOf(n)].owner = u
      BY <2>1 DEF Ownership, ListedWritersOwned, Owns
    <2> QED BY <2>1, <2>2, <1>1, <1>4
  <1>7. OwnedWritersListed'
    <2> SUFFICES ASSUME NEW x \in DOMAIN writers'
                 PROVE  \E n \in session_writers'[writers'[x].owner] : IdOf(n) = x
      BY DEF OwnedWritersListed, IdOf
    <2>1. /\ x \in DOMAIN writers /\ writers'[x] = writers[x]
          /\ writers[x].owner \in Sessions /\ writers[x].owner # s
      BY <1>1, <1>4 DEF Ownership, TypeOK, WriterType
    <2>2. PICK n \in session_writers[writers[x].owner] : IdOf(n) = x
      BY <2>1 DEF Ownership, OwnedWritersListed
    <2> QED BY <2>1, <2>2, <1>3
  <1> QED
    BY <1>2, <1>5, <1>6, <1>7 DEF Ownership

\* Every method keeps the invariant while ids are fresh.
LEMMA OwnershipNext == NoWrap /\ Ownership /\ [Next]_vars => Ownership'
  <1> SUFFICES ASSUME NoWrap, Ownership, [Next]_vars PROVE Ownership'
    OBVIOUS
  <1>1. CASE UNCHANGED vars
    BY <1>1 DEF vars, Ownership, TypeOK, ListedWritersOwned, OwnedWritersListed, Owns, IdOf
  <1> QED
    BY <1>1, RegisterKeepsOwnership, DeleteKeepsOwnership, RemoveSessionKeepsOwnership
       DEF Next, Acts

\* Only the session that acts gets new writers.
LEMMA OnlyActorGains ==
    ASSUME NEW s \in Sessions, Acts(s), NEW w \in DOMAIN writers', writers'[w].owner # s
    PROVE  w \in DOMAIN writers /\ writers'[w] = writers[w]
  <1>1. ASSUME NEW t, NEW q, register(s, t, q) PROVE w \in DOMAIN writers /\ writers'[w] = writers[w]
    BY <1>1 DEF register, insert
  <1>2. ASSUME NEW x, delete(s, x) PROVE w \in DOMAIN writers /\ writers'[w] = writers[w]
    BY <1>2 DEF delete, remove, Restrict
  <1>3. ASSUME remove_session(s) PROVE w \in DOMAIN writers /\ writers'[w] = writers[w]
    BY <1>3 DEF remove_session, remove, Restrict
  <1> QED BY <1>1, <1>2, <1>3 DEF Acts

\* remove_session leaves the session no writer.
LEMMA DisconnectDeletes ==
    ASSUME Ownership, NEW s \in Sessions, remove_session(s), NEW w \in DOMAIN writers'
    PROVE  w \in DOMAIN writers /\ writers'[w] = writers[w] /\ writers'[w].owner # s
  <1>1. /\ w \in DOMAIN writers /\ writers'[w] = writers[w]
        /\ w \notin {IdOf(n) : n \in session_writers[s]}
    BY DEF remove_session, remove, Restrict
  <1>2. \E n \in session_writers[writers[w].owner] : IdOf(n) = w
    BY <1>1 DEF Ownership, OwnedWritersListed
  <1> QED BY <1>1, <1>2

\* While ids have not wrapped, what sessions list and what they own is the
\* same, so get, delete, find_by_topic and remove_session act on the
\* session's own writers and on all of them.
THEOREM OwnershipAgrees ==
    ASSUME NoWrap PROVE Spec => [](TypeOK /\ ListedWritersOwned /\ OwnedWritersListed)
  <1>1. Init => Ownership
    BY OwnershipInit
  <1>2. Ownership /\ [Next]_vars => Ownership'
    BY OwnershipNext
  <1>3. Ownership => TypeOK /\ ListedWritersOwned /\ OwnedWritersListed
    BY DEF Ownership
  <1> QED
    BY <1>1, <1>2, <1>3, PTL DEF Spec

\* While ids have not wrapped, no session deletes or replaces a writer of
\* another session, neither by id nor by disconnecting.
THEOREM WritersSafeFromOthers ==
    ASSUME NoWrap PROVE Spec => OthersKeepWriters
  <1>1. Init => Ownership
    BY OwnershipInit
  <1>2. Ownership /\ [Next]_vars => Ownership'
    BY OwnershipNext
  <1> DEFINE OthersKept(s) == \A w \in DOMAIN writers :
                                writers[w].owner # s =>
                                   w \in DOMAIN writers' /\ writers'[w] = writers[w]
  <1>3. Ownership => \A s \in Sessions : Acts(s) => OthersKept(s)
    <2> SUFFICES ASSUME Ownership, NEW s \in Sessions, Acts(s) PROVE OthersKept(s)
      OBVIOUS
    <2>1. ASSUME NEW t \in Topics, NEW q \in QosSets, register(s, t, q)
          PROVE  OthersKept(s)
      <3>1. /\ writers_created \in Nat
            /\ next_writer_id = writers_created + 1
        BY <2>1, WriterConstants DEF Ownership, TypeOK, register, next_writer_id, IdOf, NoWrap
      <3>2. \A u \in Sessions : \A n \in session_writers[u] :
               IdOf(n) = n /\ n # writers_created + 1
        BY IdOfLemma, WriterConstants DEF Ownership, TypeOK
      <3>3. next_writer_id \notin DOMAIN writers
        BY <3>1, <3>2 DEF Ownership, OwnedWritersListed, TypeOK, WriterType
      <3>4. \A w \in DOMAIN writers : w \in DOMAIN writers' /\ writers'[w] = writers[w]
        BY <2>1, <3>3 DEF register, insert
      <3> QED BY <3>4
    <2>2. ASSUME NEW w \in DOMAIN writers, delete(s, w)
          PROVE  OthersKept(s)
      BY <2>2 DEF delete, Owns, remove, Restrict
    <2>3. ASSUME remove_session(s) PROVE OthersKept(s)
      <3>1. \A n \in session_writers[s] : writers[IdOf(n)].owner = s
        BY DEF Ownership, ListedWritersOwned, Owns
      <3> QED BY <2>3, <3>1 DEF remove_session, remove, Restrict
    <2> QED BY <2>1, <2>2, <2>3 DEF Acts
  <1> QED
    BY <1>1, <1>2, <1>3, PTL DEF Spec, OthersKeepWriters
=============================================================================
