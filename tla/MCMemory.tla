------------------------------ MODULE MCMemory ------------------------------
(* The memory of a compiled program, side by side: the slab allocator, the   *)
(* collector with a collection at every allocation, and the root slots the   *)
(* compiler gives a function.  The models share no state, so a behaviour     *)
(* uses one of them and the others stay in their initial state.              *)
EXTENDS Slab

CONSTANTS Objs, Texts, RootSlots, Statics, Null, MaxDepth, Sizes, SlabMax, MinThreshold, Stress,
          Objects

VARIABLES
  using,
  live, size, refs, text, stack, statics, reg, pool, phase, request, marks,
  pending, worklist, total, threshold,
  function, stage, liveIn, work, scan, run, store, dead

gcVars == <<live, size, refs, text, pool, total, stack, statics, reg, phase,
            request, marks, pending, worklist, threshold>>
rootVars == <<function, stage, liveIn, work, scan, run, store, dead>>

(* Functions of two locals: a loop that may be protected, and what follows.  *)
New(l) == [dst |-> l, from |-> 0, uses |-> {}, alloc |-> TRUE]
Move(a, b) == [dst |-> a, from |-> b, uses |-> {b}, alloc |-> FALSE]
Show(l) == [dst |-> 0, from |-> 0, uses |-> {l}, alloc |-> TRUE]
Quiet(l) == [dst |-> 0, from |-> 0, uses |-> {l}, alloc |-> FALSE]
Basic(insts, uses, to, h) == [insts |-> insts, uses |-> uses, to |-> to, handler |-> h]
Body == {New(1), Move(1, 2), Quiet(2), Show(1), New(2)}
Functions ==
  [c \in [a : {New(2), Move(2, 1)}, b : Body, c : Body, d : Body, h : {0, 4},
          e : {Move(2, 1), Quiet(1), Show(2)}] |->
    [nl |-> 2,
     blocks |-> <<Basic(<<New(1), c.a>>, {}, {2}, 0),
                  Basic(<<c.b, c.c>>, {}, {2, 3}, c.h),
                  Basic(<<c.d>>, {2}, {}, 0),
                  Basic(<<c.e>>, {}, {3}, 0)>>]]
Simplest == CHOOSE f \in DOMAIN Functions : TRUE

G == INSTANCE Gc WITH marked <- marks
R == INSTANCE Roots WITH at <- run

ASSUME MemoryAssumption == G!GcAssumption /\ R!RootsAssumption

MemoryInit ==
  /\ using \in {"slab", "collector", "roots"}
  /\ Init /\ G!Init /\ R!Init
  /\ using # "roots" => function = Simplest
MemoryNext ==
  /\ UNCHANGED using
  /\ \/ using = "slab" /\ Next /\ UNCHANGED <<gcVars, rootVars>>
     \/ using = "collector" /\ G!Next /\ UNCHANGED <<vars, rootVars>>
     \/ using = "roots" /\ R!Next /\ UNCHANGED <<vars, gcVars>>
MemorySpec ==
  /\ MemoryInit /\ [][MemoryNext]_<<using, vars, gcVars, rootVars>>
  /\ WF_vars(SweepStep) /\ WF_gcVars(G!Collect)

\* Marking ends on every object graph, with a collection at every allocation.
CollectionEnds == G!CollectionEnds
\* No instruction, block end or handler reads an object that was freed.
UsesLive == R!UsesLive
\* A local has a root slot exactly if the analysis found it live at a point
\* that may collect.
RootsExact == R!RootsExact
=============================================================================
