------------------------------ MODULE Buffers ------------------------------
(* How runtime/src/deque.rs and list/mutation.rs move the items of a buffer: *)
(* loops that copy or swap two slots at each turn.  A buffer is a function   *)
(* of its slots.                                                             *)
EXTENDS Integers, Sequences

\* The slots of from, copied one after the other to those of to.
Copies(data, to, from) ==
  LET after[k \in 0..Len(to)] ==
        IF k = 0 THEN data
        ELSE [after[k - 1] EXCEPT ![to[k]] = after[k - 1][from[k]]]
  IN  after[Len(to)]

\* The slots of left, swapped one after the other with those of right.
Swaps(data, left, right) ==
  LET after[k \in 0..Len(left)] ==
        IF k = 0 THEN data
        ELSE [after[k - 1] EXCEPT ![left[k]] = after[k - 1][right[k]],
                                  ![right[k]] = after[k - 1][left[k]]]
  IN  after[Len(left)]
=============================================================================
