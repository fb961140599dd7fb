--------------------------- MODULE WriterRegistry ---------------------------
(***************************************************************************)
(* WriterRegistry of src/dds/writer.rs on its own: sessions call its       *)
(* methods in any order.                                                   *)
(***************************************************************************)
EXTENDS Writers

vars == <<writers, session_writers, writers_created>>

Init ==
    /\ writers = EmptyMap
    /\ session_writers = [s \in Sessions |-> {}]
    /\ writers_created = 0

Next == \E s \in Sessions : Acts(s)

Spec == Init /\ [][Next]_vars

WriterType == [topic : Topics, qos : {normalize(q) : q \in QosSets}, owner : Sessions]

\* The types of the three pieces of state.
TypeOK ==
    /\ writers_created \in Nat
    /\ DOMAIN writers \subseteq Nat
    /\ writers \in [DOMAIN writers -> WriterType]
    /\ session_writers \in [Sessions -> SUBSET (1 .. writers_created)]
=============================================================================
