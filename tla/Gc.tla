--------------------------------- MODULE Gc ---------------------------------
(* The collector of runtime/src/gc.rs with the weak string pool of          *)
(* string/interning.rs, and the program above them: native code that moves  *)
(* object pointers between shadow-stack roots, static slots, object fields  *)
(* and one register.                                                        *)
(*                                                                          *)
(* An object is an address; its fields are the set of addresses they hold;  *)
(* a string is its text.  What an address holds between a free and the next *)
(* gc_alloc is not modelled (SlabAbs is what the sweep needs of slab.rs).   *)
(* The program is one thread: a collection runs inside gc_alloc and nothing *)
(* interleaves with it, so each phase is a step and the mutator waits.      *)
EXTENDS Integers, FiniteSetsExt, SequencesExt

CONSTANTS
  Objs,          \* addresses
  Texts,         \* contents of strings short enough to intern
  RootSlots,     \* root slots of a shadow frame
  Statics,       \* static slots: globals, class attributes, exceptions, sys
  Null,          \* the null pointer, and "no text"
  MaxDepth,      \* bound: shadow frames
  Sizes,         \* sizes a non-string object may have
  SlabMax,       \* SLAB_MAX_SIZE
  MinThreshold,  \* the 1 MiB floor of the collection threshold
  Stress         \* built with gc_stress_test

GcAssumption == /\ Null \notin Objs /\ Null \notin Texts
                /\ IsFiniteSet(Objs)
                /\ Sizes \subseteq Nat \ {0} /\ Sizes # {}
                /\ SlabMax \in Nat \ {0} /\ MinThreshold \in Nat
                /\ MaxDepth \in Nat /\ Stress \in BOOLEAN

Ptrs == Objs \cup {Null}
Frames == [RootSlots -> Ptrs]
AllocRequests == [size : Nat \ {0}, text : Texts \cup {Null}]
NoRequest == [size |-> 1, text |-> Null]

VARIABLES
  live,       \* addresses that hold an object
  size,       \* header.size
  refs,       \* the addresses an object's fields hold
  text,       \* a string's content, Null for other objects
  stack,      \* the shadow stack, innermost frame first
  statics,    \* what the static slots hold
  reg,        \* the pointer the running code holds in no root
  pool,       \* STRING_POOL
  phase,      \* "run", a phase of collect_impl, or "alloc"
  request,    \* the gc_alloc call that is waiting for memory
  marked,     \* objects whose mark bit is set
  pending,    \* roots mark_roots has not handed to mark_object
  worklist,   \* mark_object's worklist
  total,      \* total_allocated
  threshold

objects == <<live, size, refs, text, pool, total>>
roots == <<stack, statics, reg>>
marking == <<marked, pending, worklist>>
vars == <<live, size, refs, text, pool, total, stack, statics, reg, phase,
          request, marked, pending, worklist, threshold>>

(* What mark_roots hands to mark_object, and what is reachable from a set:  *)
(* the objects in every set that contains it and is closed under fields.    *)
Roots == ({stack[i][s] : i \in DOMAIN stack, s \in RootSlots}
            \cup {statics[s] : s \in Statics}) \ {Null}
Closed(S) == \A o \in S : refs[o] \subseteq S
ReachFrom(R) == {o \in Objs : \A S \in SUBSET Objs :
                                R \subseteq S /\ Closed(S) => o \in S}
Usable == ReachFrom(Roots \cup ({reg} \ {Null}))

Init == /\ live = {}
        /\ size = [o \in Objs |-> 1]
        /\ refs = [o \in Objs |-> {}]
        /\ text = [o \in Objs |-> Null]
        /\ stack = <<>>
        /\ statics = [s \in Statics |-> Null]
        /\ reg = Null
        /\ pool = {}
        /\ phase = "run"
        /\ request = NoRequest
        /\ marked = {} /\ pending = {} /\ worklist = {}
        /\ total = 0
        /\ threshold = MinThreshold
-----------------------------------------------------------------------------
(* The program between allocations.  A pointer it stores is one it can      *)
(* reach or holds in its register.                                          *)
Running == phase = "run" /\ UNCHANGED <<phase, request, marking, threshold>>

(* gc_push in a prologue that has zeroed its roots, gc_pop in the epilogue, *)
(* unwind_below past the frames an exception abandons.                      *)
Push == /\ Running
        /\ Len(stack) < MaxDepth
        /\ stack' = Cons([s \in RootSlots |-> Null], stack)
        /\ UNCHANGED <<objects, statics, reg>>

Pop == /\ Running
       /\ stack # <<>>
       /\ stack' = Tail(stack)
       /\ UNCHANGED <<objects, statics, reg>>

Unwind(n) == /\ Running
             /\ n \in 1..Len(stack)
             /\ stack' = SubSeq(stack, n + 1, Len(stack))
             /\ reg' = Null
             /\ UNCHANGED <<objects, statics>>

StoreRoot(s, p) == /\ Running
                   /\ stack # <<>>
                   /\ stack' = [stack EXCEPT ![1] = [@ EXCEPT ![s] = p]]
                   /\ UNCHANGED <<objects, statics, reg>>

StoreStatic(s, p) == /\ Running
                     /\ statics' = [statics EXCEPT ![s] = p]
                     /\ UNCHANGED <<objects, stack, reg>>

SetFields(o, ps) == /\ Running
                    /\ text[o] = Null
                    /\ refs' = [refs EXCEPT ![o] = ps]
                    /\ UNCHANGED <<live, size, text, pool, total, roots>>

(* gc_alloc's entry.  The register is caller-saved and nothing traces it:   *)
(* what the caller did not root it has lost.                                *)
Trigger == Stress \/ total > threshold

Request(r) == /\ phase = "run"
              /\ request' = r
              /\ reg' = Null
              /\ IF Trigger
                   THEN phase' = "mark" /\ pending' = Roots
                   ELSE phase' = "alloc" /\ UNCHANGED pending
              /\ UNCHANGED <<objects, stack, statics, marked, worklist, threshold>>

(* rt_make_str_interned: a pooled string with this text, or a request for   *)
(* one.  rt_make_str_impl asks for the smallest size a string fits, which   *)
(* counts as 1.                                                             *)
Interned(t) == {p \in pool : text[p] = t}

InternHit(t) == /\ Running
                /\ \E p \in Interned(t) : reg' = p
                /\ UNCHANGED <<objects, stack, statics>>

InternMiss(t) == Interned(t) = {} /\ Request([size |-> 1, text |-> t])

NewObjectShort(n) == Request([size |-> n - 1, text |-> Null])  \* mutant
NewObject(n) == Request([size |-> n, text |-> Null])
-----------------------------------------------------------------------------
(* collect_impl.  mark_roots, then mark_object with its explicit worklist:  *)
(* an object is marked when it is enqueued, so it is enqueued once.         *)
MarkRoot(o) ==
  /\ phase = "mark" /\ worklist = {}
  /\ o \in pending
  /\ pending' = pending \ {o}
  /\ worklist' = {o} \ marked
  /\ marked' = marked \cup {o}
  /\ UNCHANGED <<objects, roots, phase, request, threshold>>

TraceNoFields(o) ==   \* mutant: the fields are not traced
  /\ phase = "mark"
  /\ o \in worklist
  /\ worklist' = worklist \ {o}
  /\ UNCHANGED <<objects, roots, phase, request, marked, pending, threshold>>

TraceAgain(o) ==      \* mutant: the mark is not tested before enqueueing
  /\ phase = "mark"
  /\ o \in worklist
  /\ worklist' = (worklist \ {o}) \cup refs[o]
  /\ marked' = marked \cup refs[o]
  /\ UNCHANGED <<objects, roots, phase, request, pending, threshold>>

Trace(o) ==
  /\ phase = "mark"
  /\ o \in worklist
  /\ worklist' = (worklist \ {o}) \cup (refs[o] \ marked)
  /\ marked' = marked \cup refs[o]
  /\ UNCHANGED <<objects, roots, phase, request, pending, threshold>>

MarkEndEarly ==       \* mutant: some roots are not marked
  /\ phase = "mark" /\ worklist = {}
  /\ phase' = "prune"
  /\ UNCHANGED <<objects, roots, request, marking, threshold>>

MarkEnd ==
  /\ phase = "mark" /\ pending = {} /\ worklist = {}
  /\ phase' = "prune"
  /\ UNCHANGED <<objects, roots, request, marking, threshold>>

(* sweep: the pool first, while the marks still tell, then slab.sweep() and *)
(* the large objects, each freeing the unmarked and unmarking the rest.     *)
PruneNothing ==       \* mutant: the pool is not pruned
  /\ phase = "prune"
  /\ phase' = "slab"
  /\ UNCHANGED <<objects, roots, request, marking, threshold>>

Prune ==
  /\ phase = "prune"
  /\ pool' = pool \cap marked
  /\ phase' = "slab"
  /\ UNCHANGED <<live, size, refs, text, total, roots, request, marking, threshold>>

(* The bytes of the objects in S are counted one by one: this is the sum of *)
(* their header.size.                                                       *)
Bytes(S) == UNION {{o} \X (1..size[o]) : o \in S}
SumSizes(S) == Cardinality(Bytes(S))
SaturatingSub(a, b) == IF a > b THEN a - b ELSE 0
Small == {o \in live : size[o] <= SlabMax}

Free(dead) == /\ live' = live \ dead
              /\ refs' = [o \in Objs |-> IF o \in dead THEN {} ELSE refs[o]]
              /\ text' = [o \in Objs |-> IF o \in dead THEN Null ELSE text[o]]
              /\ size' = [o \in Objs |-> IF o \in dead THEN 1 ELSE size[o]]
              /\ total' = SaturatingSub(total, SumSizes(dead))

SweepSlabKeepsMarks ==  \* mutant: the survivors are not unmarked
  /\ phase = "slab"
  /\ Free(Small \ marked)
  /\ phase' = "large"
  /\ UNCHANGED <<pool, roots, request, marking, threshold>>

SweepSlab ==
  /\ phase = "slab"
  /\ Free(Small \ marked)
  /\ marked' = marked \ Small
  /\ phase' = "large"
  /\ UNCHANGED <<pool, roots, request, pending, worklist, threshold>>

SweepLarge ==
  /\ phase = "large"
  /\ Free(live \ (Small \cup marked))
  /\ marked' = marked \cap Small
  /\ phase' = "alloc"
  /\ threshold' = LET t == 2 * total' IN IF t > MinThreshold THEN t ELSE MinThreshold
  /\ UNCHANGED <<pool, roots, request, pending, worklist>>

(* The rest of gc_alloc: a slot, its header and zeroed body; an interned    *)
(* string then enters the pool.                                             *)
AllocateUncounted(o) ==  \* mutant: total_allocated is not updated
  /\ phase = "alloc"
  /\ o \in Objs \ live
  /\ live' = live \cup {o}
  /\ size' = [size EXCEPT ![o] = request.size]
  /\ text' = [text EXCEPT ![o] = request.text]
  /\ refs' = [refs EXCEPT ![o] = {}]
  /\ pool' = IF request.text = Null THEN pool ELSE pool \cup {o}
  /\ reg' = o
  /\ phase' = "run" /\ request' = NoRequest
  /\ UNCHANGED <<total, stack, statics, marking, threshold>>

Allocate(o) ==
  /\ phase = "alloc"
  /\ o \in Objs \ live
  /\ live' = live \cup {o}
  /\ size' = [size EXCEPT ![o] = request.size]
  /\ text' = [text EXCEPT ![o] = request.text]
  /\ refs' = [refs EXCEPT ![o] = {}]
  /\ total' = total + request.size
  /\ pool' = IF request.text = Null THEN pool ELSE pool \cup {o}
  /\ reg' = o
  /\ phase' = "run" /\ request' = NoRequest
  /\ UNCHANGED <<stack, statics, marking, threshold>>

Mutate == /\ phase = "run"
          /\ \/ Push \/ Pop
             \/ \E n \in 1..MaxDepth : Unwind(n)
             \/ \E s \in RootSlots, p \in Usable \cup {Null} : StoreRoot(s, p)
             \/ \E s \in Statics, p \in Usable \cup {Null} : StoreStatic(s, p)
             \/ \E o \in Usable : \E ps \in SUBSET Usable : SetFields(o, ps)
             \/ \E t \in Texts : InternHit(t) \/ InternMiss(t)
             \/ \E n \in Sizes : NewObject(n)

Collect == \/ \E o \in Objs : MarkRoot(o) \/ Trace(o)
           \/ MarkEnd \/ Prune \/ SweepSlab \/ SweepLarge

Next == Mutate \/ Collect \/ \E o \in Objs : Allocate(o)

Spec == Init /\ [][Next]_vars
(* A collection is a loop on the mutator's thread: once entered, it runs.   *)
FairSpec == Spec /\ WF_vars(Collect)
-----------------------------------------------------------------------------
HeapTypeOK ==
  /\ live \subseteq Objs
  /\ size \in [Objs -> Nat \ {0}]
  /\ refs \in [Objs -> SUBSET Objs]
  /\ text \in [Objs -> Texts \cup {Null}]
  /\ stack \in Seq(Frames)
  /\ statics \in [Statics -> Ptrs]
  /\ reg \in Ptrs
  /\ pool \subseteq Objs
  /\ phase \in {"run", "mark", "prune", "slab", "large", "alloc"}
  /\ request \in AllocRequests
  /\ marked \subseteq Objs /\ pending \subseteq Objs /\ worklist \subseteq Objs

TypeOK == HeapTypeOK /\ total \in Nat /\ threshold \in Nat

(* Whatever the program can reach, or has just been given, is allocated: no *)
(* phase of a collection frees it and no stored pointer dangles.            *)
NoDangling == Usable \subseteq live

(* The weak pool never outlives its strings, at any point where it could be *)
(* read, and holds one string per text, though a collection may run between *)
(* rt_make_str_interned's lookup and its insertion.                         *)
PoolSound ==
  /\ pool \subseteq live
  /\ \A p, q \in pool : text[p] # Null /\ (text[p] = text[q] => p = q)

(* A collection keeps exactly what was reachable: cycles included, all      *)
(* garbage is gone when it ends, and no mark is left for the next one.      *)
CollectsExactly ==
  [][SweepLarge => live' = ReachFrom(Roots) /\ marked' = {}]_vars

(* total_allocated is the size of the live objects, between the two halves  *)
(* of a sweep as well, and the heap exceeds its threshold by at most the    *)
(* last object.                                                             *)
HeapAccounted ==
  /\ total = SumSizes(live)
  /\ phase = "run" => \E n \in Sizes \cup {1} : total <= threshold + n

(* Marking ends on every object graph: each collection reaches its end.     *)
CollectionEnds == (phase = "mark") ~> (phase = "alloc")
=============================================================================
