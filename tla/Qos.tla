--------------------------------- MODULE Qos ---------------------------------
(***************************************************************************)
(* QoS sets as the bridge compares them (src/src/qos.rs).                  *)
(*                                                                         *)
(* A policy is a record of its wire id (1 .. 13, policy_id()) and the      *)
(* tuple of its fields; a QosSet is the sequence of policies of a request, *)
(* in the order the client sent them.  parse_qos refuses a repeated id, so *)
(* WellFormed is what every handler may assume of a parsed set.  The       *)
(* fields of Partition are its names; a name is one token here, every      *)
(* other field is its number.                                              *)
(***************************************************************************)
EXTENDS Naturals, Sequences, SequencesExt

PolicyId == 1 .. 13

\* The field values is_default() compares a policy with, by policy id:
\* Reliability, Durability, History, Deadline, LatencyBudget,
\* OwnershipStrength, Liveliness, DestinationOrder, Presentation, Partition,
\* Ownership, WriterDataLifecycle, TimeBasedFilter.
PolicyDefault ==
    << <<1, 100>>, <<0>>, <<0, 1>>, <<0>>, <<0>>,
       <<0>>, <<0, 0>>, <<0>>, <<0, 0, 0>>, <<>>,
       <<0>>, <<1>>, <<0>> >>

Policy(id, value) == [id |-> id, value |-> value]

is_default(p) == p.value = PolicyDefault[p.id]

WellFormed(q) == \A i, j \in DOMAIN q : q[i].id = q[j].id => i = j

normalize(q) == SelectSeq(q, LAMBDA p : ~is_default(p))

\* Equality of writers' QoS: same non-default policies, in any order.
normalized_eq(a, b) ==
    LET na == normalize(a)
        nb == normalize(b)
    IN  /\ Len(na) = Len(nb)
        /\ \A i \in DOMAIN na : \E j \in DOMAIN nb : na[i] = nb[j]

\* The bytes serialize_qos writes, one token per field: the count, then each
\* policy's id and fields, a Partition's names preceded by their number.
serialize_policy(p) ==
    IF p.id = 10 THEN <<p.id, Len(p.value)>> \o p.value ELSE <<p.id>> \o p.value

serialize_qos(q) ==
    <<Len(q)>> \o FlattenSeq([i \in DOMAIN q |-> serialize_policy(q[i])])
=============================================================================
