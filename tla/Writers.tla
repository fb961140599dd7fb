------------------------------ MODULE Writers ------------------------------
(***************************************************************************)
(* The state and the methods of WriterRegistry in src/dds/writer.rs: the   *)
(* DDS writers of the bridge, explicit (CREATE_WRITER) and implicit        *)
(* (topic-name writes), each owned by the session that made it.            *)
(*                                                                         *)
(* NEXT_WRITER_ID is a u32 that fetch_add wraps.  Writers are numbered in  *)
(* the order they are made; IdOf gives number n the id it gets.  A         *)
(* session's list of ids is only ever pushed to at the end, so it is       *)
(* modelled by the set of its numbers: the list is that set in order.      *)
(***************************************************************************)
EXTENDS Integers, Qos, Maps

CONSTANTS
    Sessions,       \* session ids
    Topics,         \* (topic_name, type_name) pairs
    QosSets,        \* the QoS sets requests carry
    WriterIdSpace,  \* 2^32 in the code: how many different ids a u32 has
    MaxWriters      \* bound: how many writers a behaviour may create

ASSUME WriterConstants == WriterIdSpace \in Nat \ {0} /\ MaxWriters \in Nat

VARIABLES
    writers,          \* writer_id -> (DdsWriter, session_id)
    session_writers,  \* session_id -> list of writer_ids
    writers_created   \* how often next_writer_id was called

IdOf(n) == n % WriterIdSpace
next_writer_id == IdOf(writers_created + 1)

\* Mutant of register: the session's list is not updated.
register_Unlisted(s, t, q) ==
    /\ writers_created < MaxWriters
    /\ writers' = insert(writers, next_writer_id,
                         [topic |-> t, qos |-> normalize(q), owner |-> s])
    /\ writers_created' = writers_created + 1
    /\ UNCHANGED session_writers

\* DdsWriter::new followed by register: the entry under a wrapped id is
\* overwritten, the list of its former owner is not.
register(s, t, q) ==
    /\ writers_created < MaxWriters
    /\ writers' = insert(writers, next_writer_id,
                         [topic |-> t, qos |-> normalize(q), owner |-> s])
    /\ session_writers' = [session_writers EXCEPT ![s] = @ \cup {writers_created + 1}]
    /\ writers_created' = writers_created + 1

\* Mutant of Owns: the session id is not compared.
Owns_Anyone(s, w) == w \in DOMAIN writers

\* get answers Ok: the id is known and belongs to the session.
Owns(s, w) == w \in DOMAIN writers /\ writers[w].owner = s

\* Mutant of delete: the id stays in the session's list.
delete_StaysListed(s, w) ==
    /\ Owns(s, w)
    /\ writers' = remove(writers, {w})
    /\ UNCHANGED <<session_writers, writers_created>>

delete(s, w) ==
    /\ Owns(s, w)
    /\ writers' = remove(writers, {w})
    /\ session_writers' = [session_writers EXCEPT ![s] = {n \in @ : IdOf(n) # w}]
    /\ UNCHANGED writers_created

\* The listed ids are removed whoever owns them by now.
remove_session(s) ==
    /\ writers' = remove(writers, {IdOf(n) : n \in session_writers[s]})
    /\ session_writers' = [session_writers EXCEPT ![s] = {}]
    /\ UNCHANGED writers_created

\* The writers among which find_by_topic returns the first of the list; it does
\* not look at the owner.
Reusable(s, t, q) ==
    {n \in session_writers[s] :
        /\ IdOf(n) \in DOMAIN writers
        /\ writers[IdOf(n)].topic = t
        /\ normalized_eq(writers[IdOf(n)].qos, q)}

\* What the bridge does on behalf of session s.
Acts(s) ==
    \/ \E t \in Topics, q \in QosSets : register(s, t, q)
    \/ \E w \in DOMAIN writers : delete(s, w)
    \/ remove_session(s)

-----------------------------------------------------------------------------
(* Properties.                                                             *)

\* What a session lists is live and its own, so its disconnect deletes no
\* writer of another session and a topic-name write uses its own writer.
ListedWritersOwned ==
    \A s \in Sessions : \A n \in session_writers[s] : Owns(s, IdOf(n))

\* What a session owns it lists, so its disconnect deletes all of it
\* (docs/protocol.md:402, "All Writers created by this client are deleted").
OwnedWritersListed ==
    \A w \in DOMAIN writers :
       \E n \in session_writers[writers[w].owner] : IdOf(n) = w

\* No request or disconnect of one session deletes or replaces a writer of
\* another (writer.rs:145-168: delete checks the owner, remove_session does not).
OthersKeepWriters ==
    [][\A s \in Sessions : Acts(s) =>
          \A w \in DOMAIN writers :
             writers[w].owner # s =>
                w \in DOMAIN writers' /\ writers'[w] = writers[w]
      ]_<<writers, session_writers, writers_created>>
=============================================================================
