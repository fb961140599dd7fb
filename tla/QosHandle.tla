----------------------------- MODULE QosHandle -----------------------------
(***************************************************************************)
(* QosHandle::from_qos_set of src/dds/qos_handle.rs: the arguments of the  *)
(* dds_qset_* calls that a QoS set turns into.  A duration stays in the    *)
(* milliseconds of the wire; the factor to nanoseconds fits an i64 for     *)
(* every u32.                                                              *)
(***************************************************************************)
EXTENDS Integers, Qos

CONSTANT WordBytes   \* bytes of a u32: 4 in the code

Infinite == -1       \* i64::MAX nanoseconds

\* `match kind { 0 => .., 1 => .., _ => last }` with enumerators 0 .. last.
Kind(k, last) == IF k < last THEN k ELSE last

\* `as i32` of a u32.
AsI32(n) == IF n < 2^(8 * WordBytes - 1) THEN n ELSE n - 2^(8 * WordBytes)

OrInfinite(ms) == IF ms = 0 THEN Infinite ELSE ms

\* CString::new(..).unwrap_or_default(): a name with a NUL becomes empty.
CName(name) == IF 0 \in ToSet(name) THEN <<>> ELSE name

Setting(p) ==
    LET v == p.value
    IN  CASE p.id = 1 -> <<Kind(v[1], 1), v[2]>>
          [] p.id = 2 -> <<Kind(v[1], 3)>>
          [] p.id = 3 -> <<Kind(v[1], 1), AsI32(v[2])>>
          [] p.id = 4 -> <<OrInfinite(v[1])>>
          [] p.id = 6 -> <<AsI32(v[1])>>
          [] p.id = 7 -> <<Kind(v[1], 2), OrInfinite(v[2])>>
          [] p.id \in {8, 11} -> <<Kind(v[1], 1)>>
          [] p.id = 9 -> <<Kind(v[1], 2), v[2] # 0, v[3] # 0>>
          [] p.id = 10 -> [i \in DOMAIN v |-> CName(v[i])]
          [] p.id = 12 -> <<v[1] # 0>>
          [] p.id \in {5, 13} -> v

\* The calls in the order of the set; none at all, and a NULL qos for DDS,
\* when the set is empty.
from_qos_set(q) == [i \in DOMAIN q |-> [id |-> q[i].id, args |-> Setting(q[i])]]
=============================================================================
