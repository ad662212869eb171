------------------------------- MODULE PyExc -------------------------------
(* What Python promises of exceptions and blocks, with no thread-local      *)
(* state: every handler knows the exception it caught.                      *)
EXTENDS Naturals, Sequences

CONSTANT Ids  \* exceptions

VARIABLES
  blocks,   \* the active blocks of all frames, innermost first
  raising,  \* the exception in flight, 0 for none
  bound     \* exceptions the program holds in a variable

vars == <<blocks, raising, bound>>

(* A call; a try with except clauses; a finally or with, which may not be   *)
(* skipped; a handler and the exception it caught.                          *)
Block(kind) == [kind |-> kind, exc |-> 0]

Init == blocks = <<>> /\ raising = 0 /\ bound = {}

Enter == /\ raising = 0
         /\ \E k \in {"call", "try", "cleanup"} : blocks' = <<Block(k)>> \o blocks
         /\ UNCHANGED <<raising, bound>>

Leave == /\ raising = 0 /\ blocks # <<>>
         /\ blocks' = Tail(blocks)
         /\ UNCHANGED <<raising, bound>>

(* The frames and blocks an exception abandons, finally and with never.     *)
Abandon == \E n \in 0..Len(blocks) :
             /\ \A i \in 1..n : blocks[i].kind # "cleanup"
             /\ blocks' = SubSeq(blocks, n + 1, Len(blocks))

Handling(x) == \E i \in DOMAIN blocks :
                 /\ blocks[i] = [kind |-> "handler", exc |-> x]
                 /\ \A j \in 1..i - 1 : blocks[j].kind # "handler"

Unused(x) == /\ x \notin bound
             /\ \A i \in DOMAIN blocks : blocks[i].exc # x

(* raise X(...), raise e, and the bare raise of the innermost handler.      *)
Raise == /\ raising = 0
         /\ \E x \in Ids : /\ Unused(x) \/ x \in bound \/ Handling(x)
                           /\ raising' = x
         /\ Abandon
         /\ UNCHANGED bound

Propagate == /\ raising # 0
             /\ Abandon
             /\ UNCHANGED <<raising, bound>>

Catch == /\ raising # 0 /\ blocks # <<>>
         /\ Head(blocks).kind \in {"try", "cleanup"}
         /\ blocks' = <<[kind |-> "handler", exc |-> raising]>> \o Tail(blocks)
         /\ bound' \in {bound, bound \cup {raising}}
         /\ raising' = 0

Next == Enter \/ Leave \/ Raise \/ Propagate \/ Catch
Spec == Init /\ [][Next]_vars
=============================================================================
