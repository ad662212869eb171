------------------------------- MODULE Slab -------------------------------
(* One size class of the small-object allocator, runtime/src/slab.rs, with  *)
(* the two things gc.rs does to a slot: gc_alloc writes the header of the   *)
(* slot it gets, and mark_roots marks what a collection keeps.              *)
(*                                                                          *)
(* A slot is <<page, index>>; byte offsets are counted in slots.  The       *)
(* in-band linked lists of free slots are sequences, head first: a slot     *)
(* linked twice shows as a repeated element.  slab.rs sweeps each class on  *)
(* its own, so one class is the whole algorithm.                            *)
EXTENDS Naturals, SequencesExt

CONSTANTS SlotsPerPage,  \* PAGE_SIZE / slot_size
          MaxPages,      \* bound: pages the operating system will give
          Reentrant      \* may a finalizer allocate?  slab.rs:170 promises that
                         \* a sweep survives it; today's finalizers do not

ASSUME SlabAssumption == /\ SlotsPerPage \in Nat \ {0}
                         /\ MaxPages \in Nat \ {0}
                         /\ Reentrant \in BOOLEAN

Pages == 1..MaxPages
Slots == Pages \X (0..SlotsPerPage - 1)

VARIABLES
  pages,      \* pages.len()
  upTo,       \* allocated_up_to of each page
  cursor,     \* bump cursor, an offset into the last page
  sized,      \* slots whose header.size is not 0
  marked,     \* slots whose mark bit is set
  free,       \* the list at free_head
  pc,         \* "idle", or the phase of the sweep
  at,         \* phase 1: the slot the scan is at
  preFree,    \* pre_existing_free_head's list
  toFinalize, \* to_finalize
  done,       \* phase 2: how many of to_finalize are finalized
  kept        \* history: what the collector marked before this sweep

heap == <<pages, upTo, cursor, sized>>
sweep == <<pc, at, preFree, toFinalize, done, kept>>
vars == <<pages, upTo, cursor, sized, marked, free, pc, at, preFree,
          toFinalize, done, kept>>

(* Slots below their page's high-water mark: all that were ever handed out. *)
Carved == {s \in Slots : s[1] <= pages /\ s[2] < upTo[s[1]]}

Init == /\ pages = 0
        /\ upTo = [p \in Pages |-> 0]
        /\ cursor = 0
        /\ sized = {}
        /\ marked = {}
        /\ free = <<>>
        /\ pc = "idle"
        /\ at = <<1, 0>>
        /\ preFree = <<>>
        /\ toFinalize = <<>>
        /\ done = 0
        /\ kept = {}
----------------------------------------------------------------------------
(* SizeClass::alloc, its three sources in order; HandOut is the header that *)
(* gc_alloc writes before anything else can run.                            *)
HandOut(s) == /\ sized' = sized \cup {s}
              /\ marked' = marked \ {s}

AllocFree == /\ free # <<>>
             /\ HandOut(Head(free))
             /\ free' = Tail(free)
             /\ UNCHANGED <<pages, upTo, cursor>>

AllocBump == /\ free = <<>>
             /\ pages > 0 /\ cursor < SlotsPerPage
             /\ HandOut(<<pages, cursor>>)
             /\ cursor' = cursor + 1
             /\ upTo' = [upTo EXCEPT ![pages] = @ + 1]
             /\ UNCHANGED <<pages, free>>

AllocNewPage == /\ free = <<>>
                /\ pages = 0 \/ cursor = SlotsPerPage
                /\ pages < MaxPages
                /\ pages' = pages + 1
                /\ upTo' = [upTo EXCEPT ![pages + 1] = 1]
                /\ cursor' = 1
                /\ HandOut(<<pages + 1, 0>>)
                /\ UNCHANGED free

Alloc == AllocFree \/ AllocBump \/ AllocNewPage

(* The mutator allocates between collections; a finalizer in phase 2, when  *)
(* free_head is null.                                                       *)
MutatorAlloc == pc = "idle" /\ Alloc /\ UNCHANGED sweep
FinalizerAlloc == Reentrant /\ pc = "finalize" /\ Alloc /\ UNCHANGED sweep
----------------------------------------------------------------------------
(* Mutant: the scan includes the slot after the last.                       *)
SweepLimitPastEnd(p) == upTo[p] + 1

(* sweep_limit of a page; phase 1 stores it back as allocated_up_to.        *)
MaxOf(a, b) == IF a > b THEN a ELSE b
SweepLimit(p) == IF p = pages THEN MaxOf(cursor, upTo[p]) ELSE upTo[p]

(* A collection has marked ss: sweep_class drops the free list and scans.   *)
SweepStart(ss) ==
  /\ pc = "idle"
  /\ marked' = ss /\ kept' = ss
  /\ free' = <<>>
  /\ preFree' = <<>> /\ toFinalize' = <<>> /\ done' = 0
  /\ at' = <<1, 0>>
  /\ pc' = "scan"
  /\ UNCHANGED heap

(* Mutants: a reachable slot keeps its mark; marks are ignored.             *)
ClassifyKeepsMark(s) ==
  \/ /\ s \notin sized
     /\ preFree' = Cons(s, preFree)
     /\ UNCHANGED <<toFinalize, marked>>
  \/ /\ s \in sized \ marked
     /\ toFinalize' = Append(toFinalize, s)
     /\ UNCHANGED <<preFree, marked>>
  \/ /\ s \in sized \cap marked
     /\ UNCHANGED <<preFree, toFinalize, marked>>

ClassifyIgnoresMark(s) ==
  \/ /\ s \notin sized
     /\ preFree' = Cons(s, preFree)
     /\ UNCHANGED <<toFinalize, marked>>
  \/ /\ s \in sized
     /\ toFinalize' = Append(toFinalize, s)
     /\ UNCHANGED <<preFree, marked>>

(* Phase 1, one slot: link a free one, condemn an unmarked one, unmark a    *)
(* reachable one.                                                           *)
Classify(s) ==
  \/ /\ s \notin sized
     /\ preFree' = Cons(s, preFree)
     /\ UNCHANGED <<toFinalize, marked>>
  \/ /\ s \in sized \ marked
     /\ toFinalize' = Append(toFinalize, s)
     /\ UNCHANGED <<preFree, marked>>
  \/ /\ s \in sized \cap marked
     /\ marked' = marked \ {s}
     /\ UNCHANGED <<preFree, toFinalize>>

ScanSlot ==
  /\ pc = "scan"
  /\ at[1] <= pages /\ at[2] < SweepLimit(at[1])
  /\ Classify(at)
  /\ at' = <<at[1], at[2] + 1>>
  /\ upTo' = [upTo EXCEPT ![at[1]] = SweepLimit(at[1])]
  /\ UNCHANGED <<pages, cursor, sized, free, pc, done, kept>>

ScanNextPage ==
  /\ pc = "scan"
  /\ at[1] <= pages /\ at[2] >= SweepLimit(at[1])
  /\ at' = <<at[1] + 1, 0>>
  /\ UNCHANGED <<heap, marked, free, pc, preFree, toFinalize, done, kept>>

ScanEnd ==
  /\ pc = "scan"
  /\ at[1] > pages
  /\ pc' = "finalize"
  /\ UNCHANGED <<heap, marked, free, at, preFree, toFinalize, done, kept>>

(* Phase 2: finalize_object_by_tag on the next condemned slot.              *)
Finalize ==
  /\ pc = "finalize"
  /\ done < Len(toFinalize)
  /\ done' = done + 1
  /\ UNCHANGED <<heap, marked, free, pc, at, preFree, toFinalize, kept>>

FinalizeEnd ==
  /\ pc = "finalize"
  /\ done = Len(toFinalize)
  /\ free' = <<>>             \* new_free_head
  /\ pc' = "relink"
  /\ UNCHANGED <<heap, marked, at, preFree, toFinalize, done, kept>>

(* Phase 3: pop the two lists onto the new free list; a condemned slot gets *)
(* header.size = 0 as it goes.                                              *)
RelinkFree ==
  /\ pc = "relink"
  /\ preFree # <<>>
  /\ free' = Cons(Head(preFree), free)
  /\ preFree' = Tail(preFree)
  /\ UNCHANGED <<heap, marked, pc, at, toFinalize, done, kept>>

RelinkFinalizedKeepsSize ==   \* mutant: header.size is not reset
  /\ pc = "relink"
  /\ preFree = <<>> /\ toFinalize # <<>>
  /\ free' = Cons(Head(toFinalize), free)
  /\ toFinalize' = Tail(toFinalize)
  /\ UNCHANGED <<heap, marked, pc, at, preFree, done, kept>>

RelinkFinalized ==
  /\ pc = "relink"
  /\ preFree = <<>> /\ toFinalize # <<>>
  /\ sized' = sized \ {Head(toFinalize)}
  /\ free' = Cons(Head(toFinalize), free)
  /\ toFinalize' = Tail(toFinalize)
  /\ UNCHANGED <<pages, upTo, cursor, marked, pc, at, preFree, done, kept>>

SweepEndEarly ==              \* mutant: to_finalize is not relinked
  /\ pc = "relink"
  /\ preFree = <<>>
  /\ pc' = "idle" /\ kept' = {}
  /\ UNCHANGED <<heap, marked, free, at, preFree, toFinalize, done>>

SweepEnd ==
  /\ pc = "relink"
  /\ preFree = <<>> /\ toFinalize = <<>>
  /\ pc' = "idle" /\ kept' = {}
  /\ UNCHANGED <<heap, marked, free, at, preFree, toFinalize, done>>

SweepStep == \/ ScanSlot \/ ScanNextPage \/ ScanEnd
             \/ Finalize \/ FinalizeEnd
             \/ RelinkFree \/ RelinkFinalized \/ SweepEnd

Next == \/ MutatorAlloc \/ FinalizerAlloc
        \/ \E ss \in SUBSET sized : SweepStart(ss)
        \/ SweepStep

(* A sweep is a loop on the mutator's own thread: once started it runs.     *)
Spec == Init /\ [][Next]_vars
FairSpec == Spec /\ WF_vars(SweepStep)
----------------------------------------------------------------------------
TypeOK ==
  /\ pages \in 0..MaxPages
  /\ upTo \in [Pages -> 0..SlotsPerPage]
  /\ cursor \in 0..SlotsPerPage
  /\ sized \subseteq Slots
  /\ marked \subseteq Slots
  /\ free \in Seq(Slots)
  /\ pc \in {"idle", "scan", "finalize", "relink"}
  /\ at \in (1..MaxPages + 1) \X (0..SlotsPerPage)
  /\ preFree \in Seq(Slots)
  /\ toFinalize \in Seq(Slots)
  /\ done \in Nat
  /\ kept \subseteq Slots

(* Between collections the free list holds every carved slot without an     *)
(* object, once: a slot linked twice would be handed out twice, one left    *)
(* out would be lost for good, one that holds an object would be given to   *)
(* another.  The bump cursor is the last page's high-water mark, so the     *)
(* slot it hands out is one the next sweep will visit.                      *)
FreeListSound ==
  pc = "idle" => /\ IsInjective(free)
                 /\ ToSet(free) = Carved \ sized
                 /\ pages > 0 => cursor = upTo[pages]

(* No phase of a sweep takes a slot the collector marked, and when the      *)
(* sweep is over no slot still carries a mark that would keep it (and hide  *)
(* what it points to) in the next collection.                               *)
KeptSurvive ==
  /\ kept \subseteq sized
  /\ pc = "idle" => marked = {}

(* The phases together implement SlabAbs: exactly the condemned slots are   *)
(* released, each once, and none is handed out before it is released.       *)
Doomed == CASE pc = "scan" -> sized \ kept
            [] pc \in {"finalize", "relink"} -> ToSet(toFinalize)
            [] OTHER -> {}
Abs == INSTANCE SlabAbs WITH live <- sized, doomed <- Doomed
ImplementsAbs == Abs!Spec

(* Every object the collector did not mark is back on the free list by the  *)
(* end of the sweep that found it, whatever its finalizers allocate.        *)
GarbageReclaimed ==
  \A s \in Slots : (pc = "scan" /\ s \in sized \ kept) ~> (s \in ToSet(free))
=============================================================================
