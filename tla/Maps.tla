-------------------------------- MODULE Maps --------------------------------
(***************************************************************************)
(* The std::collections::HashMap operations the registries use, on a map   *)
(* modelled as a function whose domain is the set of its present keys.     *)
(* Lookup is application, contains_key is membership in the domain.        *)
(***************************************************************************)
EXTENDS Functions

EmptyMap == [k \in {} |-> {}]

\* insert(k, v): adds the entry or overwrites the one that is there.
insert(f, k, v) == [x \in DOMAIN f \cup {k} |-> IF x = k THEN v ELSE f[x]]

\* remove(k) for every k of a set of keys; an absent key is ignored.
remove(f, keys) == Restrict(f, DOMAIN f \ keys)
=============================================================================
