------------------------------- MODULE MCDict -------------------------------
EXTENDS Dict
CONSTANTS k1, k2, k3, v1, v2
(* Two keys collide on every probe, the third from the second one on.       *)
MCHash == [k \in Keys |-> IF k \in {k1, k2} THEN 1 ELSE 2]
Symmetry == Permutations({k1, k2}) \cup Permutations({v1, v2})
=============================================================================
