------------------------------ MODULE SlabAbs ------------------------------
(* What the collector expects of the small-object allocator: a slot it hands *)
(* out holds no other object, a sweep condemns some of the allocated slots,  *)
(* and gives back exactly those, each once.                                  *)
CONSTANT Slots

VARIABLES live,      \* slots that hold an object
          doomed     \* slots condemned by the sweep under way, not yet given back

vars == <<live, doomed>>

Init == live = {} /\ doomed = {}

Alloc(s) == /\ s \in Slots \ live
            /\ live' = live \cup {s}
            /\ UNCHANGED doomed

Condemn(ss) == /\ doomed = {}
               /\ doomed' = ss
               /\ UNCHANGED live

Release(s) == /\ s \in doomed
              /\ live' = live \ {s}
              /\ doomed' = doomed \ {s}

Next == \/ \E s \in Slots : Alloc(s) \/ Release(s)
        \/ \E ss \in SUBSET live : Condemn(ss)

Spec == Init /\ [][Next]_vars

(* A condemned slot is still allocated until it is released. *)
DoomedLive == doomed \subseteq live
=============================================================================
