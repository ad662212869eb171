------------------------------- MODULE MCSort -------------------------------
(* list.sort() on every list of up to six elements with three keys, and of   *)
(* nine with two, where three runs wait and the outer two are merged first.  *)
EXTENDS Timsort

MCInputs == UNION {[1..n -> 1..3] : n \in 0..6} \cup [1..9 -> 1..2]
=============================================================================
