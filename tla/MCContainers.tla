---------------------------- MODULE MCContainers ----------------------------
(* The heap of the runtime and the hash containers in it, side by side: the  *)
(* collector, dict and set.  The models share no state, so a behaviour uses  *)
(* one of them: the heap then stays as it starts, and a container that is    *)
(* not used is not there.  Keys k1 and k2 collide on every probe and meet k3 *)
(* on the second; k4, only an element of sets, wraps around.                 *)
EXTENDS Dict

CONSTANTS k1, k2, k3, k4, v1, v2,
          Elems, SetHash, Empty, Tombstone, SetRequests, Others, MaxCap,
          Objs, Texts, RootSlots, Statics, Null, MaxDepth, Sizes, SlabMax, MinThreshold, Stress

VARIABLES
  using,
  set, place, same, yielded, rehashed,
  live, size, refs, text, stack, statics, reg, pool, phase, request, marked,
  pending, worklist, total, threshold
setVars == <<set, place, same, yielded, rehashed>>
heapVars == <<live, size, refs, text, pool, total, stack, statics, reg, phase,
              request, marked, pending, worklist, threshold>>

MCHash == [k \in Keys |-> IF k \in {k1, k2} THEN 1 ELSE 2]
MCSetHash == [e \in Elems |-> CASE e \in {k1, k2} -> 1 [] e = k3 -> 2 [] OTHER -> 7]
MCOthers == {SetToSeq(K) : K \in SUBSET Elems}

HSet == INSTANCE HashSet WITH Hash <- SetHash, Requests <- SetRequests,
                              iter <- place, fixed <- same, rebuilt <- rehashed
Heap == INSTANCE Gc

ASSUME ContainersAssumption ==
  DictAssumption /\ HSet!HashSetAssumption /\ Heap!GcAssumption

ContainersInit ==
  /\ using \in {"collector", "dict", "set"}
  /\ Heap!Init
  /\ IF using = "dict" THEN Init
     ELSE dict = Null /\ iter = Null /\ fixed = Null /\ seen = Null /\ rebuilt = Null
  /\ IF using = "set" THEN HSet!Init
     ELSE set = Null /\ place = Null /\ same = Null /\ yielded = Null /\ rehashed = Null
ContainersNext ==
  /\ UNCHANGED using
  /\ \/ using = "collector" /\ Heap!Next /\ UNCHANGED <<vars, setVars>>
     \/ using = "dict" /\ Next /\ UNCHANGED <<heapVars, setVars>>
     \/ using = "set" /\ HSet!Next /\ UNCHANGED <<heapVars, vars>>
ContainersSpec == ContainersInit /\ [][ContainersNext]_<<using, vars, setVars, heapVars>>

\* Nothing orders addresses, keys or values: those that the hash does not tell
\* apart may be permuted.
Symmetry == Permutations(Objs) \cup Permutations({k1, k2}) \cup Permutations({v1, v2})

\* The heap's records, the tables and the iterators are of their types.
ContainersTypeOK ==
  /\ Heap!TypeOK
  /\ using = "dict" => TypeOK
  /\ using = "set" => HSet!TypeOK
\* In a dict and in a set a lookup finds a key exactly when it is there, in the
\* one place that holds it, whatever tombstones and rebuilds came before.
ContainersLookupExact ==
  /\ using = "dict" => LookupExact
  /\ using = "set" => HSet!ContainsExact
\* While no key comes or goes, an iteration over a dict repeats and reorders
\* none, and one over a set that is not rebuilt yields each once.
ContainersIterationSound ==
  /\ using = "dict" => IterationSound
  /\ using = "set" => HSet!IterationExact
\* In every state the program may reach, each call on a dict or a set changes
\* the keys it names and no other, as Python's does.
ContainersCallsExact ==
  /\ using = "dict" => CallsExact
  /\ using = "set" => HSet!CallsExact
\* The counters of a set are those of its table, and an empty slot remains.
FillExact == using = "set" => HSet!FillExact
\* A dict is Python's insertion-ordered mapping.
DictIsPython ==
  /\ using = "dict" => Py!Init
  /\ [][using = "dict" => Items(dict') = Items(dict) \/ Py!Next]_vars
\* Whatever the program can reach is allocated.
NoDangling == Heap!NoDangling
\* The weak string pool never outlives its strings and holds one per text.
PoolSound == Heap!PoolSound
\* total_allocated is the size of the live objects, and the heap exceeds its
\* threshold by at most the last object.
HeapAccounted == Heap!HeapAccounted
\* A collection keeps exactly what was reachable and leaves no mark.
CollectsExactly == Heap!CollectsExactly
=============================================================================
