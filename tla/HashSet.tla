------------------------------ MODULE HashSet ------------------------------
(* A set, runtime/src/set/: one open-addressing table that holds elements,  *)
(* empty slots and tombstones, with the iterators over it.                  *)
(*                                                                          *)
(* An element is equal to itself only and hashing runs no user code.  Slots *)
(* count from 0, as in the code.                                            *)
EXTENDS Integers, SequencesExt, FiniteSetsExt, Probing

CONSTANTS Elems,
          Hash,       \* hash_hashable_obj
          Empty,      \* Value(0)
          Tombstone,
          MinCap,     \* least capacity: 8 in the code
          Requests,   \* bound: capacities asked of rt_make_set
          Others,     \* bound: the other operands, as sequences of their elements
          MaxCap      \* bound: capacity

HashSetAssumption == /\ Hash \in [Elems -> Nat]
                     /\ Empty \notin Elems /\ Tombstone \notin Elems
                     /\ Empty # Tombstone
                     /\ MinCap \in Nat /\ MinCap >= 4 /\ MaxCap \in Nat
                     /\ Requests \subseteq Nat /\ Others \subseteq Seq(Elems)

VARIABLES
  set,      \* [entries, len, tombstones]
  iter,     \* the iterator in use
  fixed,    \* history: no element came or went since it was made
  yielded,  \* history: the elements it has yielded, while fixed
  rebuilt   \* history: the table was rebuilt since, while fixed

vars == <<set, iter, fixed, yielded, rebuilt>>

Capacity(s) == Cardinality(DOMAIN s.entries)
LiveSlots(s) == {i \in DOMAIN s.entries : s.entries[i] \in Elems}
ElemsOf(s) == {s.entries[i] : i \in LiveSlots(s)}

Fresh(cap) == [entries |-> [i \in 0..cap - 1 |-> Empty], len |-> 0, tombstones |-> 0]

NoIter == [index |-> -1]
Done == [index |-> -2]

(* rt_make_set *)
Init == /\ \E n \in Requests :
             set = Fresh(NextPowerOf2(IF n < MinCap THEN MinCap ELSE n))
        /\ iter = NoIter
        /\ fixed = TRUE /\ yielded = <<>> /\ rebuilt = FALSE
----------------------------------------------------------------------------
(* find_slot_generic.  The probe hash + i(i+1)/2 ends at an empty slot, at  *)
(* the element, or after as many steps as there are slots; an insertion     *)
(* takes the first tombstone it passed.                                     *)
Slot(cap, e, i) == Probe(Hash[e], i, cap)
At(s, e, i) == s.entries[Slot(Capacity(s), e, i)]
Probes(s) == 0..Capacity(s) - 1
Ends(s, e, i) == i = Capacity(s) \/ At(s, e, i) \in {Empty, e}
End(s, e) == CHOOSE i \in 0..Capacity(s) : /\ Ends(s, e, i)
                                           /\ \A h \in 0..i - 1 : ~Ends(s, e, h)

FindSlot(s, e) ==
  LET end == End(s, e)
  IN IF end < Capacity(s) /\ At(s, e, end) = e THEN Slot(Capacity(s), e, end) ELSE -1

InsertSlot(s, e) ==
  LET end == End(s, e)
      found == end < Capacity(s) /\ At(s, e, end) = e
      passed == {i \in 0..end - 1 : At(s, e, i) = Tombstone}
  IN CASE ~found /\ passed # {} -> Slot(Capacity(s), e, Min(passed))
       [] ~found /\ passed = {} /\ end = Capacity(s) -> -1
       [] OTHER -> Slot(Capacity(s), e, end)

(* set_resize: the elements, by slot, in a new table.                       *)
Place(s, e) ==
  LET free == {i \in Probes(s) : At(s, e, i) = Empty}
  IN [entries |-> [s.entries EXCEPT ![Slot(Capacity(s), e, Min(free))] = e],
      len |-> s.len + 1,
      tombstones |-> s.tombstones]

Resize(s, cap) ==
  LET moved[i \in 0..Capacity(s)] ==
        IF i = 0 THEN Fresh(cap)
        ELSE IF s.entries[i - 1] \in Elems THEN Place(moved[i - 1], s.entries[i - 1])
        ELSE moved[i - 1]
  IN moved[Capacity(s)]

(* rt_set_add.  The table is rebuilt when three quarters of it are filled,  *)
(* tombstones included, at its own capacity if less than half is live.      *)
Fill(s) == s.len + s.tombstones

MakeRoom(s) ==
  CASE Fill(s) * 4 < Capacity(s) * 3 -> s
    [] Fill(s) * 4 >= Capacity(s) * 3 /\ s.len * 2 < Capacity(s) -> Resize(s, Capacity(s))
    [] OTHER -> Resize(s, 2 * Capacity(s))

AddedCounted(s0, e) ==   \* mutant: a reused tombstone is still counted
  LET s == MakeRoom(s0)
      slot == InsertSlot(s, e)
  IN IF slot < 0 \/ s.entries[slot] = e THEN s
     ELSE [s EXCEPT !.entries[slot] = e, !.len = @ + 1]

Added(s0, e) ==
  LET s == MakeRoom(s0)
      slot == InsertSlot(s, e)
  IN IF slot < 0 \/ s.entries[slot] = e THEN s
     ELSE [entries |-> [s.entries EXCEPT ![slot] = e],
           len |-> s.len + 1,
           tombstones |-> IF s.entries[slot] = Tombstone THEN s.tombstones - 1
                          ELSE s.tombstones]

(* Slots of elements made tombstones: rt_set_remove, rt_set_discard,        *)
(* rt_set_pop and the in-place intersection and difference.                 *)
Buried(s, slots) ==
  [entries |-> [i \in DOMAIN s.entries |-> IF i \in slots THEN Tombstone ELSE s.entries[i]],
   len |-> s.len - Cardinality(slots),
   tombstones |-> s.tombstones + Cardinality(slots)]

Removed(s, e) == Buried(s, {FindSlot(s, e)} \ {-1})
Holding(s, S) == {i \in LiveSlots(s) : s.entries[i] \in S}

(* In-place symmetric difference with a set whose elements come in the      *)
(* order other: what is to be added is decided before anything is removed.  *)
SymmetricDifference(s, other) ==
  LET after[i \in 0..Len(other)] ==
        IF i = 0 THEN Buried(s, Holding(s, ToSet(other)))
        ELSE IF FindSlot(s, other[i]) < 0 THEN Added(after[i - 1], other[i])
        ELSE after[i - 1]
  IN after[Len(other)]
----------------------------------------------------------------------------
(* The program.  s is the set after one of its calls.                       *)
Becomes(s) == /\ Capacity(s) <= MaxCap
              /\ set' = s
              /\ fixed' = (fixed /\ ElemsOf(s) = ElemsOf(set))
              /\ yielded' = IF fixed' THEN yielded ELSE <<>>
              /\ UNCHANGED iter

Add(e) == /\ Becomes(Added(set, e))
          /\ rebuilt' = (fixed' /\ (rebuilt \/ MakeRoom(set) # set))

Shrink(s) == Becomes(s) /\ rebuilt' = (fixed' /\ rebuilt)

Discard(e) == Shrink(Removed(set, e))
Pop == LiveSlots(set) # {} /\ Shrink(Buried(set, {Min(LiveSlots(set))}))
Clear == Shrink(Fresh(Capacity(set)))
IntersectionUpdate(S) == Shrink(Buried(set, Holding(set, Elems \ S)))
DifferenceUpdate(S) == Shrink(Buried(set, Holding(set, S)))
SymmetricDifferenceUpdate(other) == /\ other # <<>>
                                    /\ Shrink(SymmetricDifference(set, other))

(* rt_iter_set and iter_next_set: the slots in order, and a guard on len.   *)
Iterate(it) == /\ iter' = it
               /\ fixed' = TRUE /\ yielded' = <<>> /\ rebuilt' = FALSE
               /\ UNCHANGED set

MakeIter == Iterate([index |-> 0, expected |-> set.len])

Iterating == iter \notin {NoIter, Done}
Rest == {i \in LiveSlots(set) : i >= iter.index}

IterNext == /\ Iterating /\ set.len = iter.expected
            /\ Rest # {}
            /\ iter' = [iter EXCEPT !.index = Min(Rest) + 1]
            /\ yielded' = IF fixed THEN Append(yielded, set.entries[Min(Rest)]) ELSE <<>>
            /\ UNCHANGED <<set, fixed, rebuilt>>

IterEnd == /\ Iterating /\ set.len = iter.expected
           /\ Rest = {}
           /\ iter' = Done
           /\ UNCHANGED <<set, fixed, yielded, rebuilt>>

IterRaises == Iterating /\ set.len # iter.expected /\ Iterate(NoIter)

Next == \/ \E e \in Elems : Add(e) \/ Discard(e)
        \/ Pop \/ Clear
        \/ \E S \in SUBSET Elems : IntersectionUpdate(S) \/ DifferenceUpdate(S)
        \/ \E other \in Others : SymmetricDifferenceUpdate(other)
        \/ MakeIter \/ IterNext \/ IterEnd \/ IterRaises

Spec == Init /\ [][Next]_vars
----------------------------------------------------------------------------
TypeOK ==
  /\ DOMAIN set.entries = 0..Capacity(set) - 1 /\ PowerOf2(Capacity(set))
  /\ \A i \in DOMAIN set.entries : set.entries[i] \in Elems \cup {Empty, Tombstone}
  /\ set.len \in Nat /\ set.tombstones \in Nat
  /\ iter \in {NoIter, Done} \cup [index : 0..Capacity(set), expected : Nat]
  /\ yielded \in Seq(Elems) /\ fixed \in BOOLEAN /\ rebuilt \in BOOLEAN

(* Over any sequence of calls the two counters are those of the table, and  *)
(* a probe always meets an empty slot ("Table is full (shouldn't happen     *)
(* with proper load factor)", hash_table_utils.rs:341): no addition is lost *)
(* and no lookup walks the whole table.                                     *)
FillExact ==
  /\ set.len = Cardinality(LiveSlots(set))
  /\ set.tombstones = Cardinality({i \in DOMAIN set.entries : set.entries[i] = Tombstone})
  /\ \E i \in DOMAIN set.entries : set.entries[i] = Empty

(* An element is found exactly when it is there, in the one slot that holds *)
(* it, whatever tombstones lie before it and wherever a rebuild moved it.   *)
ContainsExact ==
  \A e \in Elems : LET slot == FindSlot(set, e)
                   IN {i \in DOMAIN set.entries : set.entries[i] = e}
                        = (IF slot < 0 THEN {} ELSE {slot})

(* In every state the program may reach, each call would change the set as  *)
(* Python's does.                                                           *)
CallsExact ==
  /\ \A e \in Elems : /\ ElemsOf(Added(set, e)) = ElemsOf(set) \cup {e}
                      /\ ElemsOf(Removed(set, e)) = ElemsOf(set) \ {e}
  /\ \A other \in Others :
       ElemsOf(SymmetricDifference(set, other))
         = (ElemsOf(set) \ ToSet(other)) \cup (ToSet(other) \ ElemsOf(set))

(* While no element comes or goes, and no addition of one that is there     *)
(* rebuilds the table, an iteration yields each element once.               *)
IterationExact ==
  fixed /\ ~rebuilt => /\ IsInjective(yielded)
                       /\ ToSet(yielded) \subseteq ElemsOf(set)
                       /\ iter = Done => ToSet(yielded) = ElemsOf(set)
=============================================================================
