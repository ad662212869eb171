---------------------------- MODULE MemoryProofs ----------------------------
(* Theorems of Slab, for every number of pages and of slots in a page.  And   *)
(* of Roots: every local the program still reads survives every collection,  *)
(* for every family of well-formed functions.                                *)
EXTENDS MCMemory, SeqLemmas, TLAPS

Seen == {s \in Carved : s[1] < at[1] \/ (s[1] = at[1] /\ s[2] < at[2])}

(* The part of the strengthening that no phase disturbs.                    *)
Geometry ==
  /\ pages > 0 => cursor = upTo[pages]
  /\ \A p \in Pages : p > pages => upTo[p] = 0
  /\ sized \subseteq Carved
  /\ kept \subseteq sized
  /\ marked \subseteq kept

Lists == IsInjective(free) /\ IsInjective(preFree) /\ IsInjective(toFinalize)

(* What the three lists hold in each phase.                                 *)
Idle == pc = "idle" => /\ ToSet(free) = Carved \ sized
                       /\ preFree = <<>> /\ toFinalize = <<>>
                       /\ marked = {} /\ kept = {}
Scan == pc = "scan" => /\ free = <<>>
                       /\ ToSet(preFree) = Seen \ sized
                       /\ ToSet(toFinalize) = (Seen \cap sized) \ kept
                       /\ marked = kept \ Seen
                       /\ at[1] <= pages + 1
                       /\ at[1] = pages + 1 => at[2] = 0
                       /\ at[1] <= pages => at[2] <= upTo[at[1]]
Fin == pc = "finalize" => /\ free = <<>>
                          /\ ToSet(preFree) = Carved \ sized
                          /\ ToSet(toFinalize) \subseteq sized \ kept
                          /\ marked = {}
Relink == pc = "relink" => /\ ToSet(free) \cup ToSet(preFree) = Carved \ sized
                           /\ ToSet(free) \cap ToSet(preFree) = {}
                           /\ ToSet(toFinalize) \subseteq sized \ kept
                           /\ marked = {}

Inv == TypeOK /\ Geometry /\ Lists /\ Idle /\ Scan /\ Fin /\ Relink
----------------------------------------------------------------------------
USE SlabAssumption

LEMMA InitInv == Init => Inv
BY EmptyLemma DEF Init, Inv, TypeOK, Geometry, Lists, Idle, Scan, Fin, Relink,
                  Slots, Pages, Carved

(* What an allocation does, wherever the slot comes from: the slot was free *)
(* and every slot outside the free list that is carved later is in use.     *)
LEMMA AllocInv ==
  ASSUME Inv, Alloc, UNCHANGED sweep, pc \in {"idle", "finalize"}
  PROVE  Inv' /\ \E s \in Slots \ sized : sized' = sized \cup {s}
<1> USE DEF Inv, TypeOK, Geometry, Lists, HandOut, sweep
<1>1. CASE AllocFree
  <2> DEFINE h == Head(free)
  <2>1. /\ h \in Slots /\ Tail(free) \in Seq(Slots)
        /\ ToSet(free) = {h} \cup ToSet(Tail(free))
        /\ IsInjective(Tail(free)) /\ h \notin ToSet(Tail(free))
    BY <1>1, PopLemma DEF AllocFree
  <2>2. pc = "idle" /\ h \in Carved \ sized
    BY <1>1, <2>1 DEF AllocFree, Idle, Fin
  <2>3. Carved' = Carved
    BY <1>1 DEF AllocFree, Carved
  <2> QED
    BY SMTT(30), <1>1, <2>1, <2>2, <2>3 DEF AllocFree, Idle, Scan, Fin, Relink
<1>2. CASE AllocBump
  <2> DEFINE h == <<pages, cursor>>
  <2>1. h \in Slots /\ h \notin Carved
    BY <1>2 DEF AllocBump, Slots, Pages, Carved
  <2>2. Carved' = Carved \cup {h}
    BY SMTT(30), <1>2, <2>1 DEF AllocBump, Carved, Slots, Pages
  <2>3. /\ pages' = pages /\ pages \in Pages
        /\ upTo' \in [Pages -> 0..SlotsPerPage] /\ cursor' \in 0..SlotsPerPage
        /\ cursor' = upTo'[pages] /\ \A p \in Pages : p > pages => upTo'[p] = 0
    BY SMTT(30), <1>2 DEF AllocBump, Pages
  <2> HIDE DEF h
  <2>4. sized' = sized \cup {h} /\ marked' = marked /\ free' = free
    BY <1>2, <2>1 DEF AllocBump, h
  <2>5. TypeOK' /\ Geometry'
    BY <1>2, <2>1, <2>2, <2>3, <2>4
  <2>6. Lists' /\ Idle' /\ Scan' /\ Fin' /\ Relink'
    BY <1>2, <2>1, <2>2, <2>4 DEF AllocBump, Idle, Scan, Fin, Relink
  <2> QED BY <2>1, <2>4, <2>5, <2>6
<1>3. CASE AllocNewPage
  <2> DEFINE h == <<pages + 1, 0>>
  <2>1. h \in Slots /\ h \notin Carved
    BY <1>3 DEF AllocNewPage, Slots, Pages, Carved
  <2>2. Carved' = Carved \cup {h}
    BY SMTT(30), <1>3, <2>1 DEF AllocNewPage, Carved, Slots, Pages
  <2>3. /\ pages' = pages + 1 /\ pages' \in Pages
        /\ upTo' \in [Pages -> 0..SlotsPerPage] /\ cursor' \in 0..SlotsPerPage
        /\ cursor' = upTo'[pages'] /\ \A p \in Pages : p > pages' => upTo'[p] = 0
    BY <1>3 DEF AllocNewPage, Pages
  <2> HIDE DEF h
  <2>4. sized' = sized \cup {h} /\ marked' = marked /\ free' = free
    BY <1>3, <2>1 DEF AllocNewPage, h
  <2>5. TypeOK' /\ Geometry'
    BY SMTT(30), <1>3, <2>1, <2>2, <2>3, <2>4 DEF Pages
  <2>6. Lists' /\ Idle' /\ Scan' /\ Fin' /\ Relink'
    BY <1>3, <2>1, <2>2, <2>4 DEF AllocNewPage, Idle, Scan, Fin, Relink
  <2> QED BY <2>1, <2>4, <2>5, <2>6
<1> QED BY <1>1, <1>2, <1>3 DEF Alloc

LEMMA SweepStartInv ==
  ASSUME Inv, NEW ss \in SUBSET sized, SweepStart(ss)
  PROVE  Inv'
<1>1. Carved' = Carved /\ Seen' = {}
  BY SMTT(30) DEF Inv, TypeOK, SweepStart, heap, Carved, Seen, Slots, Pages
<1>2. TypeOK'
  BY DEF Inv, TypeOK, SweepStart, heap
<1>3. /\ free' = <<>> /\ preFree' = <<>> /\ toFinalize' = <<>>
      /\ marked' = ss /\ kept' = ss /\ sized' = sized /\ upTo' = upTo
      /\ pages' = pages /\ cursor' = cursor /\ pc' = "scan"
      /\ at'[1] = 1 /\ at'[2] = 0
  BY DEF SweepStart, heap
<1>4. Geometry' /\ Lists' /\ Idle' /\ Fin' /\ Relink'
  BY <1>1, <1>3, EmptyLemma DEF Inv, Geometry, Lists, Idle, Fin, Relink
<1>5. Scan'
  BY <1>1, <1>3, EmptyLemma DEF Inv, TypeOK, Scan, Pages
<1> QED BY <1>2, <1>4, <1>5 DEF Inv

LEMMA LimitLemma ==
  ASSUME TypeOK, Geometry, NEW p \in Pages, p <= pages
  PROVE  SweepLimit(p) = upTo[p]
BY DEF TypeOK, Geometry, SweepLimit, MaxOf, Pages

LEMMA ScanSlotInv == ASSUME Inv, ScanSlot PROVE Inv'
<1> USE DEF Inv
<1>0. /\ at[1] \in Pages /\ at[2] \in 0..SlotsPerPage
      /\ at = <<at[1], at[2]>> /\ at[1] <= pages
  BY DEF ScanSlot, TypeOK, Pages
<1>1. /\ at \in Carved /\ at \in Slots /\ at \notin Seen
      /\ at[1] \in Pages /\ at[2] \in 0..SlotsPerPage - 1
      /\ at = <<at[1], at[2]>>
      /\ SweepLimit(at[1]) = upTo[at[1]]
  <2>1. SweepLimit(at[1]) = upTo[at[1]]
    BY <1>0, LimitLemma
  <2>2. at[2] < upTo[at[1]] /\ upTo[at[1]] \in 0..SlotsPerPage
    BY <1>0, <2>1 DEF ScanSlot, TypeOK
  <2>3. at[2] \in 0..SlotsPerPage - 1
    BY <1>0, <2>2
  <2>4. at \in Slots
    BY <1>0, <2>3 DEF Slots
  <2>5. at \notin Seen
    BY <1>0 DEF Seen, Pages
  <2> QED BY <1>0, <2>1, <2>2, <2>3, <2>4, <2>5 DEF Carved
<1>2. upTo' = upTo /\ Carved' = Carved
  BY <1>1 DEF ScanSlot, TypeOK, Carved
<1>4. at' \in (1..MaxPages + 1) \X (0..SlotsPerPage)
      /\ at'[1] = at[1] /\ at'[2] = at[2] + 1
  BY SMTT(30), <1>1 DEF ScanSlot, TypeOK, Pages
<1>3. Seen' = Seen \cup {at}
  <2>1. ASSUME NEW s \in Carved
        PROVE  /\ s[1] \in Nat /\ s[2] \in Nat /\ s = <<s[1], s[2]>>
    BY DEF Carved, Slots, Pages
  <2>2. ASSUME NEW s \in Carved
        PROVE  (s[1] = at[1] /\ s[2] < at[2] + 1)
                 <=> (s = at \/ (s[1] = at[1] /\ s[2] < at[2]))
    BY <1>1, <2>1
  <2> QED BY <1>1, <1>2, <1>4, <2>2 DEF Seen
<1>5. /\ preFree' \in Seq(Slots) /\ toFinalize' \in Seq(Slots)
      /\ marked' \subseteq Slots
      /\ IsInjective(preFree') /\ IsInjective(toFinalize')
      /\ ToSet(preFree') = Seen' \ sized
      /\ ToSet(toFinalize') = (Seen' \cap sized) \ kept
      /\ marked' = kept \ Seen'
  <2>1. CASE at \notin sized
    <3>1. /\ preFree' = Cons(at, preFree) /\ toFinalize' = toFinalize
          /\ marked' = marked /\ sized' = sized /\ kept' = kept
      BY <2>1 DEF ScanSlot, Classify
    <3>2. at \notin ToSet(preFree)
      BY <1>1 DEF Scan, ScanSlot
    <3>3. /\ Cons(at, preFree) \in Seq(Slots)
          /\ ToSet(Cons(at, preFree)) = {at} \cup ToSet(preFree)
          /\ IsInjective(Cons(at, preFree))
      BY <1>1, <3>2, PushLemma DEF TypeOK, Lists
    <3> QED
      BY <1>3, <2>1, <3>1, <3>3 DEF ScanSlot, TypeOK, Geometry, Lists, Scan
  <2>2. CASE at \in sized \ marked
    <3>1. /\ toFinalize' = Append(toFinalize, at) /\ preFree' = preFree
          /\ marked' = marked /\ sized' = sized /\ kept' = kept
      BY <2>2 DEF ScanSlot, Classify
    <3>2. at \notin ToSet(toFinalize) /\ at \notin kept
      BY <1>1, <2>2 DEF Scan, ScanSlot
    <3>3. /\ Append(toFinalize, at) \in Seq(Slots)
          /\ ToSet(Append(toFinalize, at)) = {at} \cup ToSet(toFinalize)
          /\ IsInjective(Append(toFinalize, at))
      BY <1>1, <3>2, AppendLemma DEF TypeOK, Lists
    <3> QED
      BY SMTT(30), <1>3, <2>2, <3>1, <3>2, <3>3
      DEF ScanSlot, TypeOK, Geometry, Lists, Scan
  <2>3. CASE at \in sized \cap marked
    BY <1>1, <1>3, <2>3
    DEF ScanSlot, Classify, TypeOK, Geometry, Lists, Scan
  <2> QED BY <2>1, <2>2, <2>3 DEF ScanSlot, Classify
<1>6. TypeOK'
  BY <1>2, <1>4, <1>5 DEF ScanSlot, TypeOK
<1>7. Geometry' /\ Lists' /\ Idle' /\ Fin' /\ Relink'
  BY <1>2, <1>5 DEF ScanSlot, Geometry, Lists, Idle, Fin, Relink, Scan
<1>8. Scan'
  BY SMTT(30), <1>1, <1>2, <1>4, <1>5 DEF ScanSlot, Scan, TypeOK, Pages
<1> QED BY <1>6, <1>7, <1>8

LEMMA ScanNextPageInv == ASSUME Inv, ScanNextPage PROVE Inv'
<1> USE DEF Inv
<1>1. Carved' = Carved
  BY DEF ScanNextPage, heap, Carved
<1>2. /\ at[1] \in Pages /\ at[2] \in Nat /\ at[1] + 1 \in 1..MaxPages + 1
      /\ at[1] <= pages /\ at[2] = upTo[at[1]]
      /\ at'[1] = at[1] + 1 /\ at'[2] = 0
      /\ at' \in (1..MaxPages + 1) \X (0..SlotsPerPage)
  <2>1. /\ at[1] \in Pages /\ at[2] \in Nat /\ at[1] <= pages
        /\ at[1] + 1 \in 1..MaxPages + 1
    BY SMTT(30) DEF ScanNextPage, TypeOK, Pages
  <2>2. at[2] = upTo[at[1]]
    BY <2>1, LimitLemma DEF ScanNextPage, TypeOK, Scan
  <2>3. at' = <<at[1] + 1, 0>> /\ 0 \in 0..SlotsPerPage
    BY DEF ScanNextPage
  <2> QED BY <2>1, <2>2, <2>3
<1>3. Seen' = Seen
  <2>1. ASSUME NEW s \in Carved
        PROVE  s[1] \in Nat /\ s[2] \in Nat /\ s[2] < upTo[s[1]]
    BY DEF Carved, Slots, Pages
  <2>2. ASSUME NEW s \in Carved
        PROVE  (s[1] < at[1] + 1 \/ (s[1] = at[1] + 1 /\ s[2] < 0))
                 <=> (s[1] < at[1] \/ (s[1] = at[1] /\ s[2] < at[2]))
    <3>1. CASE s[1] = at[1]  BY <1>2, <2>1, <3>1 DEF Pages
    <3>2. CASE s[1] # at[1]  BY <1>2, <2>1, <3>2 DEF Pages
    <3> QED BY <3>1, <3>2
  <2> QED BY <1>1, <1>2, <2>2 DEF Seen
<1>4. TypeOK'
  BY <1>2 DEF ScanNextPage, heap, TypeOK
<1>5. Geometry' /\ Lists' /\ Idle' /\ Fin' /\ Relink'
  BY <1>1 DEF ScanNextPage, heap, Geometry, Lists, Idle, Fin, Relink, Scan
<1>6. Scan'
  BY <1>1, <1>2, <1>3 DEF ScanNextPage, heap, Scan, TypeOK, Pages
<1> QED BY <1>4, <1>5, <1>6

LEMMA ScanEndInv ==
  ASSUME Inv, ScanEnd
  PROVE  Inv' /\ ToSet(toFinalize) = sized \ kept
<1> USE DEF Inv
<1>1. Carved' = Carved /\ Seen = Carved
  BY SMTT(30) DEF ScanEnd, heap, TypeOK, Carved, Seen, Slots, Pages
<1>2. TypeOK'
  BY DEF ScanEnd, heap, TypeOK
<1> QED
  BY <1>1, <1>2
  DEF ScanEnd, heap, Geometry, Lists, Idle, Scan, Fin, Relink

LEMMA FinalizeInv == ASSUME Inv, Finalize PROVE Inv'
<1>1. Carved' = Carved /\ TypeOK'
  BY DEF Inv, Finalize, heap, TypeOK, Carved
<1> QED
  BY <1>1 DEF Inv, Finalize, heap, Geometry, Lists, Idle, Scan, Fin, Relink

LEMMA FinalizeEndInv == ASSUME Inv, FinalizeEnd PROVE Inv'
<1>1. Carved' = Carved /\ TypeOK'
  BY DEF Inv, FinalizeEnd, heap, TypeOK, Carved
<1> QED
  BY <1>1, EmptyLemma
  DEF Inv, FinalizeEnd, heap, Geometry, Lists, Idle, Scan, Fin, Relink

LEMMA RelinkFreeInv == ASSUME Inv, RelinkFree PROVE Inv'
<1> DEFINE h == Head(preFree)
<1> USE DEF Inv
<1>1. /\ h \in Slots /\ Tail(preFree) \in Seq(Slots)
      /\ ToSet(preFree) = {h} \cup ToSet(Tail(preFree))
      /\ IsInjective(Tail(preFree)) /\ h \notin ToSet(Tail(preFree))
  BY PopLemma DEF RelinkFree, TypeOK, Lists
<1>2. h \notin ToSet(free)
  BY <1>1 DEF RelinkFree, Relink
<1>3. /\ Cons(h, free) \in Seq(Slots)
      /\ ToSet(Cons(h, free)) = {h} \cup ToSet(free)
      /\ IsInjective(Cons(h, free))
  BY <1>1, <1>2, PushLemma DEF TypeOK, Lists
<1>4. Carved' = Carved
  BY DEF RelinkFree, heap, Carved
<1>5. TypeOK'
  BY <1>1, <1>3 DEF RelinkFree, heap, TypeOK
<1> QED
  BY <1>1, <1>2, <1>3, <1>4, <1>5
  DEF RelinkFree, heap, Geometry, Lists, Idle, Scan, Fin, Relink

LEMMA RelinkFinalizedInv ==
  ASSUME Inv, RelinkFinalized
  PROVE  /\ Inv'
         /\ Head(toFinalize) \in ToSet(toFinalize)
         /\ ToSet(toFinalize') = ToSet(toFinalize) \ {Head(toFinalize)}
<1> DEFINE h == Head(toFinalize)
<1> USE DEF Inv
<1>1. /\ h \in Slots /\ Tail(toFinalize) \in Seq(Slots)
      /\ ToSet(toFinalize) = {h} \cup ToSet(Tail(toFinalize))
      /\ IsInjective(Tail(toFinalize)) /\ h \notin ToSet(Tail(toFinalize))
  BY PopLemma DEF RelinkFinalized, TypeOK, Lists
<1>2. h \in sized \ kept /\ h \notin ToSet(free) /\ h \in Carved
  BY <1>1 DEF RelinkFinalized, Relink, Geometry
<1>3. /\ Cons(h, free) \in Seq(Slots)
      /\ ToSet(Cons(h, free)) = {h} \cup ToSet(free)
      /\ IsInjective(Cons(h, free))
  BY <1>1, <1>2, PushLemma DEF TypeOK, Lists
<1>4. Carved' = Carved
  BY DEF RelinkFinalized, Carved
<1>5. TypeOK'
  BY <1>1, <1>3 DEF RelinkFinalized, TypeOK
<1>6. ToSet(preFree) = {}
  BY EmptyLemma DEF RelinkFinalized
<1> QED
  BY <1>1, <1>2, <1>3, <1>4, <1>5, <1>6
  DEF RelinkFinalized, Geometry, Lists, Idle, Scan, Fin, Relink

LEMMA SweepEndInv == ASSUME Inv, SweepEnd PROVE Inv'
<1>1. Carved' = Carved /\ TypeOK'
  BY DEF Inv, SweepEnd, heap, TypeOK, Carved
<1> QED
  BY <1>1, EmptyLemma
  DEF Inv, SweepEnd, heap, Geometry, Lists, Idle, Scan, Fin, Relink

LEMMA StutterInv == ASSUME Inv, UNCHANGED vars PROVE Inv'
BY DEF Inv, vars, TypeOK, Geometry, Lists, Idle, Scan, Fin, Relink, Carved, Seen

LEMMA NextInv == ASSUME Inv, [Next]_vars PROVE Inv'
<1>1. CASE MutatorAlloc \/ FinalizerAlloc
  BY <1>1, AllocInv DEF MutatorAlloc, FinalizerAlloc
<1>2. CASE \E ss \in SUBSET sized : SweepStart(ss)
  BY <1>2, SweepStartInv
<1>3. CASE SweepStep
  BY <1>3, ScanSlotInv, ScanNextPageInv, ScanEndInv, FinalizeInv,
     FinalizeEndInv, RelinkFreeInv, RelinkFinalizedInv, SweepEndInv
  DEF SweepStep
<1>4. CASE UNCHANGED vars
  BY <1>4, StutterInv
<1> QED BY <1>1, <1>2, <1>3, <1>4 DEF Next

(* The strengthening holds in every reachable state, for every number of    *)
(* pages and slots, whether finalizers allocate or not.                     *)
THEOREM Invariance == Spec => []Inv
<1>1. Init => Inv
  BY InitInv
<1>2. Inv /\ [Next]_vars => Inv'
  BY NextInv
<1> QED BY <1>1, <1>2, PTL DEF Spec

(* SizeClass's fields keep their types.                                     *)
THEOREM TypeCorrect == Spec => []TypeOK
BY Invariance, PTL DEF Inv

(* SizeClass::alloc never hands out a slot that holds an object and the     *)
(* sweep never loses one: the free list is exactly the empty carved slots.  *)
THEOREM FreeListCorrect == Spec => []FreeListSound
<1>1. Inv => FreeListSound
  BY DEF Inv, Geometry, Lists, Idle, FreeListSound
<1> QED BY <1>1, Invariance, PTL

(* sweep_class frees no marked slot and leaves no mark behind.              *)
THEOREM KeptCorrect == Spec => []KeptSurvive
<1>1. Inv => KeptSurvive
  BY DEF Inv, Geometry, Idle, KeptSurvive
<1> QED BY <1>1, Invariance, PTL

(* The three phases of sweep_class and the three sources of alloc implement *)
(* the abstract allocator: each step is one of its steps or a stutter.      *)
THEOREM Refinement == Spec => ImplementsAbs
<1>1. Init => Abs!Init
  BY DEF Init, Abs!Init, Doomed
<1>2. ASSUME Inv, Inv', [Next]_vars
      PROVE  [Abs!Next]_(Abs!vars)
  <2> USE DEF Abs!vars
  <2>1. CASE MutatorAlloc \/ FinalizerAlloc
    <3>1. Alloc /\ UNCHANGED sweep /\ pc \in {"idle", "finalize"}
      BY <2>1 DEF MutatorAlloc, FinalizerAlloc
    <3>2. PICK s \in Slots \ sized : sized' = sized \cup {s}
      BY <1>2, <3>1, AllocInv
    <3>3. Doomed' = Doomed
      BY <3>1 DEF Doomed, sweep
    <3>4. Abs!Alloc(s)
      BY <3>2, <3>3 DEF Abs!Alloc
    <3> QED BY <3>4 DEF Abs!Next
  <2>2. ASSUME NEW ss \in SUBSET sized, SweepStart(ss)
        PROVE  Abs!Next
    <3>1. Abs!Condemn(sized \ ss)
      BY <2>2 DEF SweepStart, heap, Doomed, Abs!Condemn
    <3> QED BY <3>1 DEF Abs!Next
  <2>3. CASE ScanSlot \/ ScanNextPage \/ Finalize \/ RelinkFree
    BY <2>3 DEF ScanSlot, ScanNextPage, Finalize, RelinkFree, heap, Doomed
  <2>4. CASE ScanEnd
    <3>1. ToSet(toFinalize) = sized \ kept
      BY <1>2, <2>4, ScanEndInv
    <3> QED BY <2>4, <3>1 DEF ScanEnd, heap, Doomed
  <2>5. CASE FinalizeEnd
    BY <2>5 DEF FinalizeEnd, heap, Doomed
  <2>6. CASE RelinkFinalized
    <3>1. Abs!Release(Head(toFinalize))
      BY <1>2, <2>6, RelinkFinalizedInv
      DEF RelinkFinalized, Doomed, Abs!Release
    <3>2. Head(toFinalize) \in Slots
      BY <1>2, <2>6, PopLemma DEF Inv, TypeOK, RelinkFinalized
    <3> QED BY <3>1, <3>2 DEF Abs!Next
  <2>7. CASE SweepEnd
    <3>1. Doomed = {} /\ Doomed' = {} /\ sized' = sized
      BY <2>7, EmptyLemma DEF SweepEnd, heap, Doomed
    <3> QED BY <3>1
  <2>8. CASE UNCHANGED vars
    BY <2>8 DEF vars, Doomed
  <2> QED BY <1>2, <2>1, <2>2, <2>3, <2>4, <2>5, <2>6, <2>7, <2>8
          DEF Next, SweepStep
<1> QED BY <1>1, <1>2, Invariance, PTL DEF Spec, Abs!Spec, ImplementsAbs
----------------------------------------------------------------------------
(* Roots.                                                                   *)

\* The locals read at instruction i of block b or later (Len + 1: the
\* terminator), before they are written.
LiveBefore(b, i) ==
  {l \in R!Locals :
     \/ \E j \in i..Len(R!Insts(b)) : l \in R!Insts(b)[j].uses /\ l \notin R!Defined(b, i, j)
     \/ l \in R!Live(b) /\ l \notin R!Defined(b, i, Len(R!Insts(b)) + 1)}

\* What a collection at instruction i of block b must find in a slot.
MustRoot(b, i) == R!Insts(b)[i].uses \cup (LiveBefore(b, i + 1) \ {R!Insts(b)[i].dst})
Rooting(b, i) == R!Insts(b)[i].alloc => MustRoot(b, i) \subseteq R!Needed
Finished(b) == \A i \in DOMAIN R!Insts(b) : Rooting(b, i)

Settling ==
  /\ \A b \in R!Blocks \ work : liveIn[b] = R!Flow(b)
  /\ stage # "live" => work = {}
\* An allocation already passed roots what it must, or the second pass still
\* holds it as live, from an earlier epoch.
ScanOpen ==
  /\ scan.b \in R!Blocks /\ scan.i <= Len(R!Insts(scan.b))
  /\ scan.live = LiveBefore(scan.b, scan.i + 1)
  /\ \A i \in (scan.i + 1)..Len(R!Insts(scan.b)) : R!Insts(scan.b)[i].alloc =>
       \A l \in MustRoot(scan.b, i) :
          l \in R!Needed \/ (l \in scan.live /\ scan.since[l] < scan.epoch)
ScanSound ==
  /\ stage = "live" => ~scan.open /\ scan.b = 1
  /\ scan.b <= Len(R!F.blocks) + 1
  /\ \A l \in R!Locals : scan.since[l] <= scan.epoch
  /\ \A b \in R!Blocks : b < scan.b => Finished(b)
  /\ scan.open => ScanOpen
Decided ==
  stage \in {"ready", "run"} =>
    /\ \A b \in R!Blocks : Finished(b)
    /\ \A b \in R!Blocks : R!Handler(b) # 0 => liveIn[R!Handler(b)] \subseteq R!Needed
RunSound ==
  /\ stage # "run" => dead = {}
  /\ stage = "run" =>
       /\ run.b \in R!Blocks /\ run.i \in 1..(Len(R!Insts(run.b)) + 1)
       /\ \A l \in LiveBefore(run.b, run.i) \cup R!Needed : store[l] \notin dead
RootsInv == R!TypeOK /\ Settling /\ ScanSound /\ Decided /\ RunSound
----------------------------------------------------------------------------
(* Points of a function.                                                    *)

LEMMA Shapes ==
  ASSUME R!RootsAssumption, function \in DOMAIN Functions
  PROVE  /\ R!F.nl \in Nat /\ Len(R!F.blocks) \in Nat \ {0} /\ 1 \in R!Blocks
         /\ \A b \in R!Blocks :
              /\ Len(R!Insts(b)) \in Nat /\ DOMAIN R!Insts(b) = 1..Len(R!Insts(b))
              /\ \A i \in 1..Len(R!Insts(b)) :
                   /\ R!Insts(b)[i].dst \in R!Locals \cup {0}
                   /\ R!Insts(b)[i].uses \subseteq R!Locals
                   /\ R!Insts(b)[i].from \in R!Insts(b)[i].uses \cup {0}
                   /\ R!Insts(b)[i].alloc \in BOOLEAN
              /\ R!TermUses(b) \subseteq R!Locals
              /\ R!Handler(b) \in R!Blocks \cup {0} /\ R!Successors(b) \subseteq R!Blocks
  <1>1. R!WellFormed(R!F)
    BY DEF R!RootsAssumption, R!F
  <1>2. R!F.nl \in Nat /\ Len(R!F.blocks) \in Nat \ {0}
    BY <1>1 DEF R!WellFormed
  <1>3. ASSUME NEW b \in R!Blocks
        PROVE  /\ Len(R!Insts(b)) \in Nat /\ DOMAIN R!Insts(b) = 1..Len(R!Insts(b))
               /\ R!TermUses(b) \subseteq R!Locals
               /\ R!Handler(b) \in R!Blocks \cup {0} /\ R!Successors(b) \subseteq R!Blocks
    <2>1. /\ Len(R!Insts(b)) \in Nat /\ DOMAIN R!Insts(b) = 1..Len(R!Insts(b))
          /\ R!TermUses(b) \subseteq R!Locals
          /\ R!F.blocks[b].to \subseteq R!Blocks /\ R!Handler(b) \in 0..Len(R!F.blocks)
      BY <1>1 DEF R!WellFormed, R!Insts, R!TermUses, R!Handler, R!Locals, R!Blocks
    <2> QED BY <1>2, <2>1 DEF R!Successors, R!Blocks
  <1>4. ASSUME NEW b \in R!Blocks, NEW i \in 1..Len(R!Insts(b))
        PROVE  /\ R!Insts(b)[i].dst \in R!Locals \cup {0}
               /\ R!Insts(b)[i].uses \subseteq R!Locals
               /\ R!Insts(b)[i].from \in R!Insts(b)[i].uses \cup {0}
               /\ R!Insts(b)[i].alloc \in BOOLEAN
    BY <1>1 DEF R!WellFormed, R!Insts, R!Locals, R!Blocks
  <1> QED BY <1>2, <1>3, <1>4 DEF R!Blocks

\* Nothing is written between a point and itself; one instruction writes its
\* dst and leaves the rest to what follows.
LEMMA DefinedStep ==
  ASSUME NEW b, NEW i \in Nat, NEW j \in Nat, i < j
  PROVE  /\ R!Defined(b, i, i) = {}
         /\ R!Defined(b, i, j) = {R!Insts(b)[i].dst} \cup R!Defined(b, i + 1, j)
  <1>1. i..(i - 1) = {}
    OBVIOUS
  <1>2. i..(j - 1) = {i} \cup (i + 1)..(j - 1)
    OBVIOUS
  <1> QED BY <1>1, <1>2 DEF R!Defined

\* At its end a block keeps what its terminator and its successors read.
LEMMA LiveAtEnd ==
  ASSUME R!RootsAssumption, R!TypeOK, NEW b \in R!Blocks
  PROVE  LiveBefore(b, Len(R!Insts(b)) + 1) = R!Live(b) /\ R!Live(b) \subseteq R!Locals
  <1> DEFINE n == Len(R!Insts(b))
  <1>1. n \in Nat /\ R!TermUses(b) \subseteq R!Locals /\ R!Successors(b) \subseteq R!Blocks
    BY Shapes DEF R!TypeOK
  <1>2. R!Live(b) \subseteq R!Locals
    BY <1>1 DEF R!TypeOK, R!Live, R!LiveOut
  <1>3. (n + 1)..n = {} /\ R!Defined(b, n + 1, n + 1) = {}
    BY <1>1, DefinedStep
  <1> QED BY <1>2, <1>3 DEF LiveBefore

\* The backward transfer of one instruction.
LEMMA LiveStep ==
  ASSUME R!RootsAssumption, R!TypeOK, NEW b \in R!Blocks, NEW i \in 1..Len(R!Insts(b))
  PROVE  LiveBefore(b, i) =
           R!Insts(b)[i].uses \cup (LiveBefore(b, i + 1) \ {R!Insts(b)[i].dst})
  <1> DEFINE n == Len(R!Insts(b))
             d == R!Insts(b)[i].dst
  <1>1. n \in Nat /\ i \in Nat /\ i >= 1 /\ i <= n /\ R!Insts(b)[i].uses \subseteq R!Locals
    BY Shapes DEF R!TypeOK
  <1>2. i..n = {i} \cup (i + 1)..n
    BY <1>1
  <1>3. R!Defined(b, i, i) = {} /\ R!Defined(b, i, n + 1) = {d} \cup R!Defined(b, i + 1, n + 1)
    BY <1>1, DefinedStep
  <1>4. \A j \in (i + 1)..n : R!Defined(b, i, j) = {d} \cup R!Defined(b, i + 1, j)
    BY <1>1, DefinedStep
  <1>5. \A l \in R!Locals :
          (\E j \in i..n : l \in R!Insts(b)[j].uses /\ l \notin R!Defined(b, i, j))
          <=> \/ l \in R!Insts(b)[i].uses
              \/ /\ l # d
                 /\ \E j \in (i + 1)..n :
                      l \in R!Insts(b)[j].uses /\ l \notin R!Defined(b, i + 1, j)
    BY <1>2, <1>3, <1>4
  <1> HIDE DEF n, d
  <1>6. \A l \in R!Locals :
          l \in LiveBefore(b, i) <=>
            l \in R!Insts(b)[i].uses \/ (l # d /\ l \in LiveBefore(b, i + 1))
    BY <1>3, <1>5 DEF LiveBefore, n
  <1> QED BY <1>1, <1>6 DEF LiveBefore, d

\* What the worklist computes for a block is what is live at its start.
LEMMA LiveAtStart ==
  ASSUME R!RootsAssumption, R!TypeOK, NEW b \in R!Blocks
  PROVE  LiveBefore(b, 1) = R!Flow(b) /\ R!Flow(b) \subseteq R!Locals
  <1> DEFINE n == Len(R!Insts(b))
  <1>1. /\ DOMAIN R!Insts(b) = 1..n /\ R!TermUses(b) \subseteq R!Locals
        /\ \A i \in 1..n : R!Insts(b)[i].uses \subseteq R!Locals
        /\ R!Successors(b) \subseteq R!Blocks
    BY Shapes DEF R!TypeOK
  <1>2. R!LiveOut(b) \subseteq R!Locals
    BY <1>1 DEF R!TypeOK, R!LiveOut
  <1>3. R!Flow(b) \subseteq R!Locals
    BY <1>1, <1>2 DEF R!Flow, R!BlockUse
  <1> QED BY <1>1, <1>2, <1>3 DEF LiveBefore, R!Flow, R!BlockUse, R!BlockDef, R!Live

----------------------------------------------------------------------------
(* Type correctness.                                                        *)

LEMMA RootsTypeInit ==
  ASSUME R!RootsAssumption, R!Init PROVE R!TypeOK
  <1>1. Len(R!F.blocks) \in Nat \ {0}
    BY Shapes DEF R!Init
  <1> QED BY <1>1 DEF R!Init, R!TypeOK, R!Blocks

\* The function and the second pass's data are the same after most steps.
LEMMA SameFunction ==
  ASSUME [R!Next]_(R!vars)
  PROVE  /\ function' = function /\ R!Locals' = R!Locals /\ R!Blocks' = R!Blocks /\ R!F' = R!F
         /\ stage # "live" => liveIn' = liveIn
         /\ stage # "live" /\ stage # "scan" => scan' = scan
  <1> USE DEF R!vars, R!analysis, R!Scanning, R!ScanOver, R!InInst, R!Running
  <1>1. /\ function' = function
        /\ stage # "live" => liveIn' = liveIn
        /\ stage # "live" /\ stage # "scan" => scan' = scan
    <2>1. CASE R!Pop BY <2>1 DEF R!Pop
    <2>2. CASE R!Settled BY <2>2 DEF R!Settled
    <2>3. CASE R!EnterBlock BY <2>3 DEF R!EnterBlock
    <2>4. CASE R!ScanInst BY <2>4 DEF R!ScanInst
    <2>5. CASE R!LeaveBlock BY <2>5 DEF R!LeaveBlock
    <2>6. CASE R!HandlerRule BY <2>6 DEF R!HandlerRule
    <2>7. CASE R!Start BY <2>7 DEF R!Start
    <2>8. CASE R!Execute BY <2>8 DEF R!Execute
    <2>9. CASE R!Unwind BY <2>9 DEF R!Unwind
    <2>10. CASE R!Branch BY <2>10 DEF R!Branch
    <2>11. CASE UNCHANGED R!vars BY <2>11
    <2> QED BY <2>1, <2>2, <2>3, <2>4, <2>5, <2>6, <2>7, <2>8, <2>9, <2>10, <2>11
             DEF R!Next, R!Analyze
  <1> QED BY <1>1 DEF R!Locals, R!Blocks, R!F

LEMMA RootsTypeStep ==
  ASSUME R!RootsAssumption, RootsInv, [R!Next]_(R!vars) PROVE R!TypeOK'
  <1>1. /\ \A b \in R!Blocks : R!Flow(b) \subseteq R!Locals /\ R!Live(b) \subseteq R!Locals
        /\ \A b \in R!Blocks : \A i \in 1..Len(R!Insts(b)) : R!Insts(b)[i].uses \subseteq R!Locals
        /\ \A b \in R!Blocks : R!Handler(b) \in R!Blocks \cup {0} /\ R!F.blocks[b].to \subseteq R!Blocks
        /\ \A b \in R!Blocks : Len(R!Insts(b)) \in Nat
        /\ Objects \subseteq Nat \ {0} /\ 1 \in R!Blocks /\ R!Blocks \subseteq Nat \ {0}
    <2>1. R!TypeOK /\ function \in DOMAIN Functions
      BY DEF RootsInv, R!TypeOK
    <2>2. \A b \in R!Blocks : R!Flow(b) \subseteq R!Locals /\ R!Live(b) \subseteq R!Locals
      BY <2>1, LiveAtStart, LiveAtEnd
    <2>3. Len(R!F.blocks) \in Nat /\ Objects \subseteq Nat \ {0}
      BY <2>1, Shapes DEF R!RootsAssumption
    <2>4. \A b \in R!Blocks : /\ R!F.blocks[b].to \subseteq R!Successors(b)
                            /\ R!Successors(b) \subseteq R!Blocks
      BY <2>1, Shapes DEF R!Successors
    <2> QED BY <2>1, <2>2, <2>3, <2>4, Shapes DEF R!Blocks
  <1>2. /\ function' = function /\ R!Locals' = R!Locals /\ R!Blocks' = R!Blocks /\ R!F' = R!F
        /\ R!TypeOK /\ ScanSound /\ RunSound
    BY SameFunction DEF RootsInv
  <1> USE DEF R!TypeOK
  <1>3. CASE R!Pop
    <2>1. PICK b \in work :
             /\ liveIn' = [liveIn EXCEPT ![b] = R!Flow(b)]
             /\ work' = (work \ {b}) \cup
                          (IF R!Flow(b) = liveIn[b] THEN {}
                           ELSE {p \in R!Blocks : b \in R!Successors(p)})
             /\ UNCHANGED <<function, stage, scan, run, store, dead>>
      BY <1>3 DEF R!Pop
    <2>2. liveIn' \in [R!Blocks -> SUBSET R!Locals] /\ work' \subseteq R!Blocks
      BY <1>1, <1>2, <2>1
    <2> QED BY <1>2, <2>1, <2>2
  <1>4. CASE R!Settled
    BY <1>2, <1>4 DEF R!Settled, R!analysis
  <1>5. CASE R!EnterBlock
    <2>1. scan.b \in R!Blocks /\ UNCHANGED <<function, stage, liveIn, work, run, store, dead>>
      BY <1>5 DEF R!EnterBlock, R!Scanning
    <2>2. [l \in R!Locals |-> IF l \in R!Live(scan.b) THEN scan.epoch ELSE scan.since[l]]
            \in [R!Locals -> Nat]
      BY <1>2
    <2>3. scan' = [scan EXCEPT !.open = TRUE, !.i = Len(R!Insts(scan.b)), !.live = R!Live(scan.b),
                     !.since = [l \in R!Locals |->
                                 IF l \in R!Live(scan.b) THEN scan.epoch ELSE scan.since[l]]]
      BY <1>5 DEF R!EnterBlock
    <2> QED BY <1>1, <1>2, <2>1, <2>2, <2>3
  <1>6. CASE R!ScanInst
    <2> DEFINE late == [l \in R!Locals |-> IF l \in R!Scanned.uses \ R!After
                                         THEN R!Epoch ELSE scan.since[l]]
               roots == R!Needed \cup R!Crossed(scan.live \cap {R!Scanned.dst})
                          \cup (IF R!Scanned.alloc THEN R!Scanned.uses ELSE {})
    <2>1. /\ UNCHANGED <<function, stage, liveIn, work, run, store, dead>>
          /\ scan.i > 0 /\ scan.open
          /\ scan' = [scan EXCEPT !.i = scan.i - 1, !.live = R!After \cup R!Scanned.uses,
                        !.epoch = R!Epoch, !.needed = roots, !.since = late]
      BY <1>6 DEF R!ScanInst, R!Scanning, R!Needed
    <2>2. R!Epoch \in Nat
      BY <1>2 DEF R!Epoch
    <2>3. R!Scanned.uses \subseteq R!Locals
      <3>1. scan.b \in R!Blocks /\ scan.i <= Len(R!Insts(scan.b)) /\ scan.i \in Nat
        BY <1>2, <2>1 DEF ScanSound, ScanOpen
      <3>2. scan.i \in 1..Len(R!Insts(scan.b))
        BY <1>1, <2>1, <3>1
      <3> QED BY <1>1, <3>1, <3>2 DEF R!Scanned
    <2>4. late \in [R!Locals -> Nat]
      BY <1>2, <2>2
    <2>5. roots \subseteq R!Locals
      BY <1>2, <2>3 DEF R!Needed, R!Crossed
    <2>6. R!After \cup R!Scanned.uses \subseteq R!Locals
      BY <1>2, <2>3 DEF R!After
    <2> HIDE DEF late, roots
    <2>7. scan' \in [b : Nat \ {0}, i : Nat, open : BOOLEAN, live : SUBSET R!Locals,
                      since : [R!Locals -> Nat], epoch : Nat, needed : SUBSET R!Locals]
      <3>1. /\ scan \in [b : Nat \ {0}, i : Nat, open : BOOLEAN, live : SUBSET R!Locals,
                            since : [R!Locals -> Nat], epoch : Nat, needed : SUBSET R!Locals]
            /\ scan.i - 1 \in Nat
        BY <1>2, <2>1
      <3> QED BY <2>1, <2>2, <2>4, <2>5, <2>6, <3>1
    <2> QED BY <1>2, <2>1, <2>7
  <1>7. CASE R!LeaveBlock
    <2>1. /\ UNCHANGED <<function, stage, liveIn, work, run, store, dead>>
          /\ scan' = [scan EXCEPT !.open = FALSE, !.b = scan.b + 1,
                                  !.needed = scan.needed \cup R!Crossed(scan.live)]
      BY <1>7 DEF R!LeaveBlock, R!Scanning
    <2>2. scan.needed \cup R!Crossed(scan.live) \in SUBSET R!Locals
      BY <1>2 DEF R!Crossed
    <2>3. scan' \in [b : Nat \ {0}, i : Nat, open : BOOLEAN, live : SUBSET R!Locals,
                      since : [R!Locals -> Nat], epoch : Nat, needed : SUBSET R!Locals]
      <3>1. /\ scan \in [b : Nat \ {0}, i : Nat, open : BOOLEAN, live : SUBSET R!Locals,
                            since : [R!Locals -> Nat], epoch : Nat, needed : SUBSET R!Locals]
            /\ scan.b + 1 \in Nat \ {0}
        BY <1>2
      <3> HIDE DEF R!TypeOK
      <3> QED BY <2>1, <2>2, <3>1
    <2> QED BY <1>2, <2>1, <2>3
  <1>8. CASE R!HandlerRule
    <2>1. UNION {liveIn[R!Handler(b)] : b \in {c \in R!Blocks : R!Handler(c) # 0}} \subseteq R!Locals
      BY <1>1, <1>2
    <2>2. /\ UNCHANGED <<function, liveIn, work, run, store, dead>> /\ stage' = "ready"
          /\ scan' = [scan EXCEPT !.needed = scan.needed \cup
                       UNION {liveIn[R!Handler(b)] : b \in {c \in R!Blocks : R!Handler(c) # 0}}]
      BY <1>8 DEF R!HandlerRule
    <2> QED BY <1>2, <2>1, <2>2
  <1>9. CASE R!Start
    BY <1>2, <1>9 DEF R!Start, R!analysis
  <1>10. CASE R!Execute
    <2>1. store' \in [R!Locals -> Objects \cup {0}]
      <3>1. CASE R!Current.dst = 0
        BY <1>2, <1>10, <3>1 DEF R!Execute, R!Define
      <3>2. CASE R!Current.dst # 0 /\ R!Current.from # 0
        <4>1. R!Current.from \in R!Locals
          BY <1>2, <1>10, <3>2, Shapes DEF R!Execute, R!InInst, R!Running, R!Current, RunSound
        <4> QED BY <1>2, <1>10, <3>2, <4>1 DEF R!Execute, R!Define
      <3>3. CASE R!Current.dst # 0 /\ R!Current.from = 0
        BY <1>2, <1>10, <3>3 DEF R!Execute, R!Define, R!Unused
      <3> QED BY <3>1, <3>2, <3>3
    <2>2. dead' \subseteq Objects
      BY <1>2, <1>10 DEF R!Execute, R!Keep, R!Collect, R!Held
    <2>3. UNCHANGED <<function, stage, liveIn, work, scan>> /\ run' = [run EXCEPT !.i = run.i + 1]
      BY <1>10 DEF R!Execute, R!analysis
    <2> QED BY <1>2, <2>1, <2>2, <2>3
  <1>11. CASE R!Unwind
    <2>1. run.b \in R!Blocks /\ dead' \subseteq Objects
      BY <1>2, <1>11 DEF R!Unwind, R!InInst, R!Running, RunSound, R!Keep, R!Collect, R!Held
    <2>2. UNCHANGED <<function, stage, liveIn, work, scan, store>>
          /\ run' = [b |-> R!Handler(run.b), i |-> 1]
      BY <1>11 DEF R!Unwind, R!analysis
    <2>3. R!Handler(run.b) \in Nat
      <3>1. R!Handler(run.b) \in R!Blocks \cup {0}
        BY <1>1, <2>1
      <3> QED BY <3>1 DEF R!Blocks
    <2>4. run' \in [b : Nat, i : Nat]
      BY <2>2, <2>3
    <2> QED BY <1>2, <2>1, <2>2, <2>4
  <1>12. CASE R!Branch
    <2>1. run.b \in R!Blocks
      BY <1>2, <1>12 DEF R!Branch, R!Running, RunSound
    <2>2. UNCHANGED <<function, stage, liveIn, work, scan, store, dead>>
          /\ run'.b \in R!F.blocks[run.b].to /\ run' = [b |-> run'.b, i |-> 1]
      BY <1>12 DEF R!Branch, R!analysis
    <2> QED BY <1>1, <1>2, <2>1, <2>2
  <1>13. CASE UNCHANGED R!vars
    BY <1>2, <1>13 DEF R!vars, R!analysis
  <1> QED BY <1>3, <1>4, <1>5, <1>6, <1>7, <1>8, <1>9, <1>10, <1>11, <1>12, <1>13
           DEF R!Next, R!Analyze

----------------------------------------------------------------------------
(* The worklist: a block that is not queued agrees with its successors.     *)

LEMMA SettlingStep ==
  ASSUME R!RootsAssumption, RootsInv, [R!Next]_(R!vars) PROVE Settling'
  <1>1. R!TypeOK /\ Settling /\ R!Blocks' = R!Blocks /\ R!F' = R!F
    BY SameFunction DEF RootsInv
  <1>2. CASE R!Pop
    <2>1. PICK b \in work :
             /\ liveIn' = [liveIn EXCEPT ![b] = R!Flow(b)]
             /\ work' = (work \ {b}) \cup
                          (IF R!Flow(b) = liveIn[b] THEN {}
                           ELSE {p \in R!Blocks : b \in R!Successors(p)})
             /\ stage = "live" /\ stage' = stage
      BY <1>2 DEF R!Pop
    <2>2. liveIn \in [R!Blocks -> SUBSET R!Locals] /\ work \subseteq R!Blocks
      BY <1>1 DEF R!TypeOK
    <2>3. CASE R!Flow(b) = liveIn[b]
      <3>1. liveIn' = liveIn /\ work' = work \ {b}
        BY <2>1, <2>2, <2>3
      <3>2. \A c \in R!Blocks : R!Flow(c)' = R!Flow(c)
        BY <1>1, <3>1 DEF R!Flow, R!LiveOut, R!BlockUse, R!BlockDef, R!Defined, R!Successors, R!Insts,
                          R!TermUses, R!Handler
      <3> QED BY <1>1, <2>1, <2>3, <3>1, <3>2 DEF Settling
    <2>4. CASE R!Flow(b) # liveIn[b]
      <3>1. work' = (work \ {b}) \cup {p \in R!Blocks : b \in R!Successors(p)}
        BY <2>1, <2>4
      <3>2. ASSUME NEW c \in R!Blocks \ work' PROVE liveIn'[c] = R!Flow(c)'
        <4>1. c \in R!Blocks /\ b \notin R!Successors(c) /\ (c \in work => c = b)
          BY <3>1, <3>2
        <4>2. \A d \in R!Successors(c) : liveIn'[d] = liveIn[d]
          BY <2>1, <2>2, <4>1
        <4>3. R!LiveOut(c)' = R!LiveOut(c)
          BY <1>1, <4>2 DEF R!LiveOut, R!Successors, R!Handler
        <4>4. R!Flow(c)' = R!Flow(c)
          BY <1>1, <4>3 DEF R!Flow, R!BlockUse, R!BlockDef, R!Defined, R!Insts, R!TermUses
        <4>5. liveIn'[c] = R!Flow(c)
          BY <1>1, <2>1, <2>2, <4>1 DEF Settling
        <4> QED BY <4>4, <4>5
      <3> QED BY <1>1, <2>1, <3>2 DEF Settling
    <2> QED BY <2>3, <2>4
  <1>3. CASE UNCHANGED <<liveIn, work>> /\ (stage' = stage \/ work = {})
    <2>1. \A c \in R!Blocks : R!Flow(c)' = R!Flow(c)
      BY <1>1, <1>3 DEF R!Flow, R!LiveOut, R!BlockUse, R!BlockDef, R!Defined, R!Successors, R!Insts,
                        R!TermUses, R!Handler
    <2> QED BY <1>1, <1>3, <2>1 DEF Settling
  <1>4. R!Settled \/ R!EnterBlock \/ R!ScanInst \/ R!LeaveBlock \/ R!HandlerRule \/ R!Start \/ R!Execute
        \/ R!Unwind \/ R!Branch \/ UNCHANGED R!vars
          => UNCHANGED <<liveIn, work>> /\ (stage' = stage \/ work = {})
    BY <1>1 DEF Settling, R!Settled, R!EnterBlock, R!ScanInst, R!LeaveBlock, R!Scanning, R!HandlerRule,
                R!ScanOver, R!Start, R!Execute, R!InInst, R!Running, R!Unwind, R!Branch, R!analysis, R!vars
  <1> QED BY <1>2, <1>3, <1>4 DEF R!Next, R!Analyze

----------------------------------------------------------------------------
(* The second pass.                                                         *)

\* What is live at a point only depends on the function and the dataflow.
LEMMA LiveBeforeSame ==
  ASSUME function' = function, liveIn' = liveIn
  PROVE  /\ \A b, i : LiveBefore(b, i)' = LiveBefore(b, i)
         /\ \A b, i : MustRoot(b, i)' = MustRoot(b, i)
         /\ \A b : R!Live(b)' = R!Live(b) /\ R!Insts(b)' = R!Insts(b) /\ R!Handler(b)' = R!Handler(b)
  <1>1. R!F' = R!F /\ R!Locals' = R!Locals
    BY DEF R!F, R!Locals
  <1>2. \A b : /\ R!Live(b)' = R!Live(b) /\ R!Insts(b)' = R!Insts(b) /\ R!Handler(b)' = R!Handler(b)
    BY <1>1 DEF R!Live, R!LiveOut, R!TermUses, R!Successors, R!Handler, R!Insts
  <1>3. \A b, i, j : R!Defined(b, i, j)' = R!Defined(b, i, j)
    BY <1>2 DEF R!Defined
  <1>4. \A b, i : LiveBefore(b, i)' = LiveBefore(b, i)
    BY <1>1, <1>2, <1>3 DEF LiveBefore
  <1> QED BY <1>2, <1>4 DEF MustRoot

\* More roots never spoil a block that is finished.
LEMMA FinishedGrows ==
  ASSUME function' = function, liveIn' = liveIn, R!Needed \subseteq R!Needed',
         NEW b, Finished(b)
  PROVE  Finished(b)'
  BY LiveBeforeSame DEF Finished, Rooting

\* One instruction, backwards.
LEMMA OpenStep ==
  ASSUME R!RootsAssumption, RootsInv, R!ScanInst PROVE ScanOpen' /\ ScanSound'
  <1> DEFINE b == scan.b
             i == scan.i
  <1>1. /\ R!TypeOK /\ ScanSound /\ ScanOpen
    BY DEF RootsInv, ScanSound, R!ScanInst
  <1>2. /\ function' = function /\ liveIn' = liveIn /\ stage = "scan" /\ stage' = "scan"
        /\ scan.open /\ i > 0
        /\ scan'.b = b /\ scan'.i = i - 1 /\ scan'.live = R!After \cup R!Scanned.uses
        /\ scan'.epoch = R!Epoch
        /\ R!Needed' = R!Needed \cup R!Crossed(scan.live \cap {R!Scanned.dst})
                       \cup (IF R!Scanned.alloc THEN R!Scanned.uses ELSE {})
        /\ \A l \in R!Locals :
             scan'.since[l] = IF l \in R!Scanned.uses \ R!After THEN R!Epoch ELSE scan.since[l]
    BY <1>1 DEF R!ScanInst, R!Scanning, R!Needed, R!TypeOK
  <1>3. /\ b \in R!Blocks /\ i \in 1..Len(R!Insts(b)) /\ Len(R!Insts(b)) \in Nat
        /\ R!Blocks' = R!Blocks /\ R!Locals' = R!Locals /\ R!F' = R!F
        /\ R!Insts(b)[i].uses \subseteq R!Locals
    <2>1. b \in R!Blocks /\ i <= Len(R!Insts(b)) /\ i \in Nat /\ function \in DOMAIN Functions
      BY <1>1 DEF ScanOpen, R!TypeOK
    <2> QED BY <1>2, <2>1, Shapes DEF R!Blocks, R!Locals, R!F
  <1>4. R!Scanned = R!Insts(b)[i] /\ scan.live = LiveBefore(b, i + 1)
    BY <1>1 DEF R!Scanned, ScanOpen
  <1>5. scan'.live = LiveBefore(b, i)
    BY <1>1, <1>2, <1>3, <1>4, LiveStep DEF R!After
  <1>6. /\ scan.epoch \in Nat /\ R!Epoch \in Nat /\ R!Epoch >= scan.epoch
        /\ R!Scanned.alloc => R!Epoch > scan.epoch
        /\ \A l \in R!Locals : scan.since[l] \in Nat /\ scan.since[l] <= scan.epoch
    BY <1>1 DEF R!TypeOK, ScanSound, R!Epoch
  <1>7. \A l \in R!Locals : scan'.since[l] <= scan'.epoch
    BY <1>2, <1>6
  <1>8. R!Needed \subseteq R!Needed'
    BY <1>2
  <1>9. ASSUME NEW k \in (i + 1)..Len(R!Insts(b)), R!Insts(b)[k].alloc, NEW l \in MustRoot(b, k)
        PROVE  l \in R!Needed' \/ (l \in scan'.live /\ scan'.since[l] < scan'.epoch)
    <2>1. l \in R!Needed \/ (l \in scan.live /\ scan.since[l] < scan.epoch)
      BY <1>1, <1>9 DEF ScanOpen
    <2>2. CASE l \in R!Needed
      BY <1>8, <2>2
    <2>3. CASE l \in scan.live /\ scan.since[l] < scan.epoch
      <3>1. l \in R!Locals
        BY <1>4, <2>3 DEF LiveBefore
      <3>2. CASE l = R!Scanned.dst
        BY <1>2, <1>6, <2>3, <3>1, <3>2 DEF R!Crossed
      <3>3. CASE l # R!Scanned.dst
        <4>1. l \in R!After
          BY <2>3, <3>3 DEF R!After
        <4> QED BY <1>2, <1>6, <2>3, <3>1, <4>1
      <3> QED BY <3>2, <3>3
    <2> QED BY <2>1, <2>2, <2>3
  <1>10. ASSUME R!Insts(b)[i].alloc, NEW l \in MustRoot(b, i)
         PROVE  l \in R!Needed' \/ (l \in scan'.live /\ scan'.since[l] < scan'.epoch)
    <2>1. CASE l \in R!Scanned.uses
      BY <1>2, <1>4, <1>10, <2>1
    <2>2. CASE l \notin R!Scanned.uses
      <3>1. l \in R!After /\ l \in R!Locals
        BY <1>4, <1>10, <2>2 DEF MustRoot, R!After, LiveBefore
      <3> QED BY <1>2, <1>4, <1>6, <1>10, <2>2, <3>1
    <2> QED BY <2>1, <2>2
  <1>11. ASSUME NEW k \in i..Len(R!Insts(b)), R!Insts(b)[k].alloc, NEW l \in MustRoot(b, k)
         PROVE  l \in R!Needed' \/ (l \in scan'.live /\ scan'.since[l] < scan'.epoch)
    <2>1. k = i \/ k \in (i + 1)..Len(R!Insts(b))
      BY <1>3
    <2> QED BY <1>9, <1>10, <1>11, <2>1
  <1>12. ScanOpen'
    <2>1. /\ scan'.b = b /\ scan'.i = i - 1 /\ (i - 1) + 1 = i /\ i - 1 <= Len(R!Insts(b))
      BY <1>2, <1>3
    <2>2. /\ \A c, k : LiveBefore(c, k)' = LiveBefore(c, k)
          /\ \A c, k : MustRoot(c, k)' = MustRoot(c, k)
          /\ \A c : R!Insts(c)' = R!Insts(c)
      BY <1>2, LiveBeforeSame
    <2> HIDE DEF b, i
    <2> QED BY <1>3, <1>5, <1>11, <2>1, <2>2 DEF ScanOpen
  <1>13. \A c \in R!Blocks : c < b => Finished(c)'
    BY <1>1, <1>2, <1>8, FinishedGrows DEF ScanSound
  <1> QED BY <1>1, <1>2, <1>3, <1>7, <1>12, <1>13 DEF ScanSound

LEMMA ScanStep ==
  ASSUME R!RootsAssumption, RootsInv, [R!Next]_(R!vars) PROVE ScanSound'
  <1>1. /\ R!TypeOK /\ ScanSound /\ Settling
        /\ function' = function /\ R!Locals' = R!Locals /\ R!Blocks' = R!Blocks /\ R!F' = R!F
    BY SameFunction DEF RootsInv
  <1>2. /\ Len(R!F.blocks) \in Nat \ {0} /\ \A b \in R!Blocks : Len(R!Insts(b)) \in Nat
        /\ scan.b \in Nat \ {0} /\ scan.epoch \in Nat /\ scan.i \in Nat
        /\ \A l \in R!Locals : scan.since[l] \in Nat
        /\ R!Blocks = 1..Len(R!F.blocks)
    BY <1>1, Shapes DEF R!TypeOK, R!Blocks
  <1>3. CASE R!Pop
    <2>1. stage = "live" /\ stage' = "live" /\ scan' = scan /\ scan.b = 1 /\ ~scan.open
      BY <1>1, <1>3 DEF R!Pop, ScanSound
    <2> QED BY <1>1, <1>2, <2>1 DEF ScanSound
  <1>4. CASE R!EnterBlock
    <2> DEFINE b == scan.b
    <2>1. /\ stage = "scan" /\ stage' = "scan" /\ liveIn' = liveIn /\ b \in R!Blocks
          /\ scan'.b = b /\ scan'.i = Len(R!Insts(b)) /\ scan'.live = R!Live(b)
          /\ scan'.epoch = scan.epoch /\ R!Needed' = R!Needed
          /\ \A l \in R!Locals :
               scan'.since[l] = IF l \in R!Live(b) THEN scan.epoch ELSE scan.since[l]
      BY <1>1, <1>4 DEF R!EnterBlock, R!Scanning, R!TypeOK, R!Needed
    <2>2. Len(R!Insts(b)) \in Nat /\ (Len(R!Insts(b)) + 1)..Len(R!Insts(b)) = {}
      BY <1>2, <2>1
    <2>3. /\ \A c, k : LiveBefore(c, k)' = LiveBefore(c, k)
          /\ \A c : R!Insts(c)' = R!Insts(c)
      BY <1>1, <2>1, LiveBeforeSame
    <2>4. scan'.live = LiveBefore(b, Len(R!Insts(b)) + 1)
      BY <1>1, <2>1, LiveAtEnd
    <2>5. ScanOpen'
      BY <1>1, <2>1, <2>2, <2>3, <2>4 DEF ScanOpen
    <2>6. \A c \in R!Blocks : c < b => Finished(c)'
      BY <1>1, <2>1, FinishedGrows DEF ScanSound
    <2>7. \A l \in R!Locals : scan'.since[l] <= scan'.epoch
      BY <1>1, <1>2, <2>1 DEF ScanSound
    <2> QED BY <1>1, <2>1, <2>5, <2>6, <2>7 DEF ScanSound
  <1>5. CASE R!ScanInst
    BY <1>5, OpenStep
  <1>6. CASE R!LeaveBlock
    <2>1. PICK b \in R!Blocks : b = scan.b
      BY <1>1, <1>6 DEF R!LeaveBlock, ScanSound, ScanOpen
    <2>2. /\ stage = "scan" /\ stage' = "scan" /\ liveIn' = liveIn
          /\ scan.open /\ scan.i = 0 /\ ~scan'.open
          /\ scan'.b = b + 1 /\ scan'.epoch = scan.epoch /\ scan'.since = scan.since
          /\ R!Needed' = R!Needed \cup R!Crossed(scan.live)
      BY <1>1, <1>6, <2>1 DEF R!LeaveBlock, R!Scanning, R!TypeOK, R!Needed
    <2>3. ASSUME NEW k \in 1..Len(R!Insts(b)), R!Insts(b)[k].alloc, NEW l \in MustRoot(b, k)
          PROVE  l \in R!Needed'
      <3>1. ScanOpen /\ scan.i + 1 = 1
        BY <1>1, <2>2 DEF ScanSound
      <3>2. l \in R!Needed \/ (l \in scan.live /\ scan.since[l] < scan.epoch)
        BY <2>1, <2>3, <3>1 DEF ScanOpen
      <3>3. CASE l \in scan.live /\ scan.since[l] < scan.epoch
        <4>1. l \in R!Locals
          BY <1>1, <3>3 DEF R!TypeOK
        <4> QED BY <1>2, <2>2, <3>3, <4>1 DEF R!Crossed
      <3> QED BY <2>2, <3>2, <3>3
    <2>4. Finished(b)'
      <3>1. DOMAIN R!Insts(b) = 1..Len(R!Insts(b))
        BY <1>1, Shapes DEF R!TypeOK
      <3> QED BY <1>1, <2>2, <2>3, <3>1, LiveBeforeSame DEF Finished, Rooting
    <2>5. \A c \in R!Blocks : c < b => Finished(c)'
      BY <1>1, <2>1, <2>2, FinishedGrows DEF ScanSound
    <2>6. \A c \in R!Blocks : c < b + 1 => c < b \/ c = b
      BY <1>2
    <2>7. b + 1 <= Len(R!F.blocks) + 1
      BY <1>2
    <2> QED BY <1>1, <2>2, <2>4, <2>5, <2>6, <2>7 DEF ScanSound
  <1>7. CASE R!HandlerRule
    <2>1. /\ stage' = "ready" /\ liveIn' = liveIn /\ ~scan.open
          /\ scan'.open = scan.open /\ scan'.b = scan.b /\ scan'.since = scan.since
          /\ scan'.epoch = scan.epoch /\ R!Needed \subseteq R!Needed'
      BY <1>1, <1>7 DEF R!HandlerRule, R!ScanOver, R!TypeOK, R!Needed
    <2>2. \A c \in R!Blocks : c < scan.b => Finished(c)'
      BY <1>1, <2>1, FinishedGrows DEF ScanSound
    <2> QED BY <1>1, <2>1, <2>2 DEF ScanSound
  <1>8. CASE UNCHANGED <<liveIn, scan>> /\ stage' # "live"
    <2>1. R!Needed' = R!Needed /\ \A c : R!Insts(c)' = R!Insts(c)
      BY <1>1, <1>8, LiveBeforeSame DEF R!Needed
    <2>2. \A c \in R!Blocks : c < scan.b => Finished(c)'
      BY <1>1, <1>8, <2>1, FinishedGrows DEF ScanSound
    <2>3. scan.open => ScanOpen'
      BY <1>1, <1>8, <2>1, LiveBeforeSame DEF ScanSound, ScanOpen
    <2> QED BY <1>1, <1>8, <2>2, <2>3 DEF ScanSound
  <1>9. CASE UNCHANGED R!vars
    <2>1. CASE stage = "live"
      BY <1>1, <1>2, <1>9, <2>1 DEF ScanSound, R!vars, R!analysis
    <2>2. CASE stage # "live"
      BY <1>8, <1>9, <2>2 DEF R!vars, R!analysis
    <2> QED BY <2>1, <2>2
  <1>10. R!Settled \/ R!Start \/ R!Execute \/ R!Unwind \/ R!Branch
           => UNCHANGED <<liveIn, scan>> /\ stage' # "live"
    BY DEF R!Settled, R!Start, R!Execute, R!InInst, R!Running, R!Unwind, R!Branch, R!analysis
  <1> QED BY <1>3, <1>4, <1>5, <1>6, <1>7, <1>8, <1>9, <1>10 DEF R!Next, R!Analyze

\* Once the analysis is over every block is finished and handlers are rooted.
LEMMA DecidedStep ==
  ASSUME R!RootsAssumption, RootsInv, [R!Next]_(R!vars) PROVE Decided'
  <1>1. /\ R!TypeOK /\ ScanSound /\ Decided
        /\ function' = function /\ R!Blocks' = R!Blocks
        /\ stage # "live" => liveIn' = liveIn
        /\ stage # "live" /\ stage # "scan" => scan' = scan
    BY SameFunction DEF RootsInv
  <1>2. CASE R!HandlerRule
    <2>1. /\ stage = "scan" /\ stage' = "ready" /\ ~scan.open /\ scan.b \notin R!Blocks
          /\ liveIn' = liveIn
          /\ R!Needed' = R!Needed \cup
                         UNION {liveIn[R!Handler(b)] : b \in {c \in R!Blocks : R!Handler(c) # 0}}
      BY <1>1, <1>2 DEF R!HandlerRule, R!ScanOver, R!TypeOK, R!Needed
    <2>2. /\ Len(R!F.blocks) \in Nat /\ scan.b \in Nat \ {0} /\ scan.b <= Len(R!F.blocks) + 1
      BY <1>1, Shapes DEF R!TypeOK, ScanSound
    <2>3. \A b \in R!Blocks : b < scan.b
      BY <2>1, <2>2 DEF R!Blocks
    <2>4. \A b \in R!Blocks : Finished(b)'
      BY <1>1, <2>1, <2>3, FinishedGrows DEF ScanSound
    <2>5. \A b \in R!Blocks : R!Handler(b) # 0 => liveIn[R!Handler(b)] \subseteq R!Needed'
      BY <2>1
    <2>6. \A b : R!Handler(b)' = R!Handler(b)
      BY <1>1, <2>1, LiveBeforeSame
    <2> QED BY <1>1, <2>1, <2>4, <2>5, <2>6 DEF Decided
  <1>3. CASE stage \in {"ready", "run"}
    <2>1. liveIn' = liveIn /\ R!Needed' = R!Needed
      BY <1>1, <1>3 DEF R!Needed
    <2>2. \A b : R!Handler(b)' = R!Handler(b)
      BY <1>1, <2>1, LiveBeforeSame
    <2>3. \A b \in R!Blocks : Finished(b)'
      BY <1>1, <1>3, <2>1, FinishedGrows DEF Decided
    <2> QED BY <1>1, <1>3, <2>1, <2>2, <2>3 DEF Decided
  <1>4. CASE stage' \notin {"ready", "run"}
    BY <1>4 DEF Decided
  <1>5. R!HandlerRule \/ stage \in {"ready", "run"} \/ stage' \notin {"ready", "run"}
    BY <1>1 DEF R!TypeOK, R!Next, R!Analyze, R!Pop, R!Settled, R!EnterBlock, R!ScanInst, R!LeaveBlock, R!Scanning,
                R!Start, R!Execute, R!InInst, R!Running, R!Unwind, R!Branch, R!vars, R!analysis
  <1> QED BY <1>2, <1>3, <1>4, <1>5

----------------------------------------------------------------------------
(* The running function.                                                    *)

\* What is live at the start of a successor is live at the end of the block.
LEMMA LiveAcross ==
  ASSUME R!RootsAssumption, RootsInv, stage # "live", NEW b \in R!Blocks, NEW s \in R!Successors(b)
  PROVE  /\ s \in R!Blocks /\ LiveBefore(s, 1) = liveIn[s]
         /\ LiveBefore(s, 1) \subseteq LiveBefore(b, Len(R!Insts(b)) + 1)
  <1>1. R!TypeOK /\ Settling /\ s \in R!Blocks
    BY Shapes DEF RootsInv, R!TypeOK
  <1>2. LiveBefore(s, 1) = liveIn[s]
    BY <1>1, LiveAtStart DEF Settling
  <1>3. LiveBefore(b, Len(R!Insts(b)) + 1) = R!Live(b)
    BY <1>1, LiveAtEnd
  <1> QED BY <1>1, <1>2, <1>3 DEF R!Live, R!LiveOut

\* A collection frees nothing that is rooted, and keeps what was not freed.
LEMMA CollectKeeps ==
  ASSUME R!TypeOK, R!Keep \/ R!Collect, NEW l \in R!Locals, store[l] \notin dead,
         R!Keep \/ l \in R!Needed
  PROVE  store[l] \notin dead'
  <1>1. CASE R!Keep
    BY <1>1 DEF R!Keep
  <1>2. CASE R!Collect /\ l \in R!Needed
    BY <1>2 DEF R!Collect, R!Held, R!Rooted
  <1> QED BY <1>1, <1>2

LEMMA RunStep ==
  ASSUME R!RootsAssumption, RootsInv, [R!Next]_(R!vars) PROVE RunSound'
  <1>1. /\ R!TypeOK /\ RunSound /\ Decided /\ Settling
        /\ function' = function /\ R!Blocks' = R!Blocks
        /\ stage # "live" => liveIn' = liveIn
        /\ stage # "live" /\ stage # "scan" => scan' = scan
        /\ R!Needed \subseteq R!Locals /\ Objects \subseteq Nat \ {0}
    BY SameFunction DEF RootsInv, R!TypeOK, R!Needed, R!RootsAssumption
  <1>2. CASE R!Start
    <2>1. /\ stage' = "run" /\ run' = [b |-> 1, i |-> 1] /\ dead' = {} /\ liveIn' = liveIn
      BY <1>1, <1>2 DEF R!Start, RunSound, R!analysis
    <2>2. 1 \in R!Blocks /\ Len(R!Insts(1)) \in Nat /\ R!Insts(1)' = R!Insts(1)
      BY <1>1, <2>1, Shapes, LiveBeforeSame DEF R!TypeOK
    <2> QED BY <1>1, <2>1, <2>2 DEF RunSound
  <1>3. ASSUME stage = "run", stage' = "run", liveIn' = liveIn, R!Needed' = R!Needed,
               NEW b \in R!Blocks, NEW i \in 1..(Len(R!Insts(b)) + 1), run' = [b |-> b, i |-> i],
               \A l \in LiveBefore(b, i) \cup R!Needed : store'[l] \notin dead'
        PROVE  RunSound'
    <2>1. R!Insts(b)' = R!Insts(b) /\ LiveBefore(b, i)' = LiveBefore(b, i)
      BY <1>1, <1>3, LiveBeforeSame
    <2>2. run'.b = b /\ run'.i = i
      BY <1>3
    <2> QED BY <1>1, <1>3, <2>1, <2>2 DEF RunSound
  <1>4. CASE R!Execute
    <2>1. PICK b \in R!Blocks, i \in Nat : run.b = b /\ run.i = i
      BY <1>1, <1>4 DEF R!Execute, R!InInst, R!Running, RunSound, R!TypeOK
    <2> DEFINE inst == R!Insts(b)[i]
    <2>2. /\ i \in 1..Len(R!Insts(b)) /\ Len(R!Insts(b)) \in Nat /\ R!Current = inst
          /\ stage = "run" /\ stage' = "run" /\ liveIn' = liveIn /\ scan' = scan
          /\ run' = [b |-> b, i |-> i + 1]
          /\ inst.uses \subseteq R!Locals /\ inst.from \in inst.uses \cup {0}
      <3>1. function \in DOMAIN Functions /\ run = [b |-> b, i |-> i]
        BY <1>1, <2>1 DEF R!TypeOK
      <3>2. i \in 1..Len(R!Insts(b)) /\ Len(R!Insts(b)) \in Nat
        BY <1>1, <1>4, <2>1, <3>1, Shapes DEF R!Execute, R!InInst, R!Running, RunSound
      <3>3. inst.uses \subseteq R!Locals /\ inst.from \in inst.uses \cup {0}
        BY <3>1, <3>2, Shapes
      <3> QED BY <1>4, <2>1, <3>1, <3>2, <3>3
              DEF R!Execute, R!InInst, R!Running, R!analysis, R!Current
    <2>3. /\ LiveBefore(b, i) = inst.uses \cup (LiveBefore(b, i + 1) \ {inst.dst})
          /\ LiveBefore(b, i) \subseteq R!Locals
      BY <1>1, <2>2, LiveStep DEF LiveBefore
    <2>4. inst.alloc => inst.uses \cup (LiveBefore(b, i + 1) \ {inst.dst}) \subseteq R!Needed
      <3>1. function \in DOMAIN Functions /\ DOMAIN R!Insts(b) = 1..Len(R!Insts(b))
        BY <1>1, Shapes DEF R!TypeOK
      <3> QED BY <1>1, <2>2, <3>1 DEF Decided, Finished, Rooting, MustRoot
    <2>5. \A l \in LiveBefore(b, i) \cup R!Needed : store[l] \notin dead
      BY <1>1, <2>1, <2>2 DEF RunSound
    <2>6. R!Keep \/ (inst.alloc /\ R!Collect)
      BY <1>4, <2>2 DEF R!Execute
    <2>7. \A l \in LiveBefore(b, i) \cup R!Needed : store[l] \notin dead'
      BY <1>1, <2>3, <2>4, <2>5, <2>6, CollectKeeps
    <2>8. dead' \subseteq R!Held /\ 0 \notin R!Held /\ dead' \subseteq Objects
      BY <1>1, <2>6 DEF R!Keep, R!Collect, R!Held, R!TypeOK
    <2>9. ASSUME NEW l \in LiveBefore(b, i + 1) \cup R!Needed PROVE store'[l] \notin dead'
      <3>1. l \in R!Locals
        BY <1>1, <2>9 DEF LiveBefore
      <3>2. CASE inst.dst = 0 \/ l # inst.dst
        <4>1. store'[l] = store[l]
          BY <1>1, <1>4, <2>2, <3>1, <3>2 DEF R!Execute, R!Define, R!TypeOK
        <4>2. 0 \notin R!Locals
          BY DEF R!Locals
        <4>3. l \in LiveBefore(b, i) \cup R!Needed
          BY <2>3, <2>9, <3>1, <3>2, <4>2
        <4> QED BY <2>7, <4>1, <4>3
      <3>3. CASE l = inst.dst /\ inst.dst # 0 /\ inst.from # 0
        <4>1. store'[l] = store[inst.from] /\ inst.from \in LiveBefore(b, i)
          BY <1>1, <1>4, <2>2, <2>3, <3>1, <3>3 DEF R!Execute, R!Define, R!TypeOK
        <4> QED BY <2>7, <4>1
      <3>4. CASE l = inst.dst /\ inst.dst # 0 /\ inst.from = 0
        <4>1. store'[l] \in R!Unused
          BY <1>1, <1>4, <2>2, <3>1, <3>4 DEF R!Execute, R!Define, R!TypeOK
        <4> QED BY <2>8, <4>1 DEF R!Unused
      <3> QED BY <3>2, <3>3, <3>4
    <2>10. i + 1 \in 1..(Len(R!Insts(b)) + 1) /\ R!Needed' = R!Needed
      BY <2>2 DEF R!Needed
    <2> QED BY <1>3, <2>2, <2>9, <2>10
  <1>5. CASE R!Unwind
    <2>1. PICK b \in R!Blocks : run.b = b /\ R!Handler(b) # 0
      BY <1>1, <1>5 DEF R!Unwind, R!InInst, R!Running, RunSound
    <2>2. PICK h \in R!Blocks : h = R!Handler(b)
      BY <1>1, <2>1, Shapes DEF R!TypeOK
    <2>3. /\ stage = "run" /\ stage' = "run" /\ liveIn' = liveIn /\ scan' = scan
          /\ store' = store /\ run' = [b |-> h, i |-> 1] /\ (R!Keep \/ R!Collect)
      BY <1>5, <2>1, <2>2 DEF R!Unwind, R!InInst, R!Running, R!analysis
    <2>4. LiveBefore(h, 1) \subseteq R!Needed
      <3>1. h \in R!Successors(b)
        BY <2>1, <2>2 DEF R!Successors
      <3>2. LiveBefore(h, 1) = liveIn[h]
        BY <2>3, <3>1, LiveAcross
      <3> QED BY <1>1, <2>1, <2>2, <2>3, <3>2 DEF Decided
    <2>5. \A l \in R!Needed : store[l] \notin dead
      BY <1>1, <2>3 DEF RunSound
    <2>6. \A l \in LiveBefore(h, 1) \cup R!Needed : store'[l] \notin dead'
      BY <1>1, <2>3, <2>4, <2>5, CollectKeeps
    <2>7. 1 \in 1..(Len(R!Insts(h)) + 1) /\ R!Needed' = R!Needed
      BY <1>1, <2>3, Shapes DEF R!TypeOK, R!Needed
    <2> QED BY <1>3, <2>3, <2>6, <2>7
  <1>6. CASE R!Branch
    <2>1. PICK b \in R!Blocks : run.b = b
      BY <1>1, <1>6 DEF R!Branch, R!InInst, R!Running, RunSound
    <2>2. PICK s \in R!F.blocks[b].to : run' = [b |-> s, i |-> 1]
      BY <1>6, <2>1 DEF R!Branch
    <2>3. /\ stage = "run" /\ stage' = "run" /\ liveIn' = liveIn /\ scan' = scan
          /\ store' = store /\ dead' = dead /\ run.i = Len(R!Insts(b)) + 1
      <3>1. Len(R!Insts(b)) \in Nat /\ run.i \in Nat /\ stage = "run"
            /\ run.i \in 1..(Len(R!Insts(b)) + 1)
        BY <1>1, <1>6, <2>1, Shapes DEF R!TypeOK, R!Branch, R!Running, RunSound
      <3>2. ~(run.i <= Len(R!Insts(b)))
        BY <1>6, <2>1 DEF R!Branch, R!InInst, R!Running
      <3> QED BY <1>6, <3>1, <3>2 DEF R!Branch, R!Running, R!analysis
    <2>4. s \in R!Successors(b)
      BY DEF R!Successors
    <2>5. s \in R!Blocks /\ LiveBefore(s, 1) \subseteq LiveBefore(b, Len(R!Insts(b)) + 1)
      BY <2>3, <2>4, LiveAcross
    <2>6. \A l \in LiveBefore(s, 1) \cup R!Needed : store'[l] \notin dead'
      BY <1>1, <2>1, <2>3, <2>5 DEF RunSound
    <2>7. 1 \in 1..(Len(R!Insts(s)) + 1) /\ R!Needed' = R!Needed
      BY <1>1, <2>3, <2>5, Shapes DEF R!TypeOK, R!Needed
    <2> QED BY <1>3, <2>2, <2>3, <2>5, <2>6, <2>7
  <1>7. CASE UNCHANGED R!vars
    <2>1. \A c, k : LiveBefore(c, k)' = LiveBefore(c, k) /\ R!Insts(c)' = R!Insts(c)
      BY <1>7, LiveBeforeSame DEF R!vars, R!analysis
    <2> QED BY <1>1, <1>7, <2>1 DEF RunSound, R!Needed, R!vars, R!analysis
  <1>8. CASE R!Analyze
    <2>1. stage # "run" /\ stage' # "run" /\ dead' = dead
      BY <1>8 DEF R!Analyze, R!Pop, R!Settled, R!EnterBlock, R!ScanInst, R!LeaveBlock, R!Scanning,
                  R!HandlerRule, R!ScanOver
    <2> QED BY <1>1, <2>1 DEF RunSound
  <1> QED BY <1>2, <1>4, <1>5, <1>6, <1>7, <1>8 DEF R!Next

----------------------------------------------------------------------------
(* The theorems.                                                            *)

LEMMA RootsInvInit ==
  ASSUME R!RootsAssumption, R!Init PROVE RootsInv
  <1>1. R!TypeOK
    BY RootsTypeInit
  <1>2. Settling /\ Decided /\ RunSound
    BY DEF R!Init, Settling, Decided, RunSound
  <1>3. Len(R!F.blocks) \in Nat \ {0}
    BY <1>1, Shapes DEF R!TypeOK
  <1>4. ScanSound
    BY <1>3 DEF R!Init, ScanSound, R!Blocks
  <1> QED BY <1>1, <1>2, <1>4 DEF RootsInv

\* The worklist, the epoch counter and the running function together: what is
\* not queued agrees with its successors, every allocation already passed is
\* covered, and whatever the program may still read has not been freed.
THEOREM AnalysisInvariant ==
  ASSUME R!RootsAssumption PROVE R!Spec => []RootsInv
  <1>1. R!Init => RootsInv
    BY RootsInvInit
  <1>2. RootsInv /\ [R!Next]_(R!vars) => RootsInv'
    BY RootsTypeStep, SettlingStep, ScanStep, DecidedStep, RunStep DEF RootsInv
  <1> QED BY <1>1, <1>2, PTL DEF R!Spec

\* For every function: no instruction, block end or handler reads an object a
\* collection freed, and what an allocating instruction reads is in a slot.
THEOREM RootsEnough ==
  ASSUME R!RootsAssumption PROVE R!Spec => []R!UsesLive
  <1>1. ASSUME RootsInv PROVE R!UsesLive
    <2>1. R!TypeOK /\ RunSound /\ Decided /\ (R!Running => run.b \in R!Blocks /\ stage = "run")
      BY <1>1 DEF RootsInv, RunSound, R!Running
    <2>2. ASSUME R!InInst, NEW l \in R!Current.uses
          PROVE  store[l] \notin dead /\ (R!Current.alloc => store[l] \in R!Rooted \cup {0})
      <3>1. PICK b \in R!Blocks, i \in Nat :
               /\ run.b = b /\ run.i = i /\ R!Current = R!Insts(b)[i]
               /\ i \in 1..Len(R!Insts(b))
        BY <2>1, <2>2, Shapes DEF R!InInst, R!Running, RunSound, R!TypeOK, R!Current
      <3>2. /\ R!Insts(b)[i].uses \subseteq R!Locals /\ DOMAIN R!Insts(b) = 1..Len(R!Insts(b))
        BY <2>1, <3>1, Shapes DEF R!TypeOK
      <3>3. l \in LiveBefore(b, i)
        BY <2>1, <2>2, <3>1, LiveStep
      <3>4. store[l] \notin dead
        BY <2>1, <2>2, <3>1, <3>3 DEF RunSound, R!InInst, R!Running
      <3>5. R!Current.alloc => l \in R!Needed
        BY <2>1, <2>2, <3>1, <3>2 DEF Decided, R!InInst, R!Running, Finished, Rooting, MustRoot
      <3> QED BY <2>2, <3>1, <3>2, <3>4, <3>5 DEF R!Rooted
    <2>3. ASSUME R!Running, ~R!InInst, NEW l \in R!TermUses(run.b)
          PROVE  store[l] \notin dead
      <3>1. run.i = Len(R!Insts(run.b)) + 1
        <4>1. Len(R!Insts(run.b)) \in Nat /\ run.i \in 1..(Len(R!Insts(run.b)) + 1)
          BY <2>1, <2>3, Shapes DEF R!TypeOK, RunSound
        <4>2. ~(run.i <= Len(R!Insts(run.b)))
          BY <2>3 DEF R!InInst
        <4> QED BY <4>1, <4>2
      <3>2. l \in LiveBefore(run.b, run.i)
        BY <2>1, <2>3, <3>1, LiveAtEnd DEF R!Live
      <3> QED BY <2>1, <2>3, <3>2 DEF RunSound
    <2> QED BY <2>2, <2>3 DEF R!UsesLive
  <1> QED BY <1>1, AnalysisInvariant, PTL
----------------------------------------------------------------------------
(* Nothing is rooted without need.                                          *)

\* Local l is read by an allocating instruction or live after one.
Crosses(l) ==
  \E b \in R!Blocks : \E i \in 1..Len(R!Insts(b)) :
    /\ R!Insts(b)[i].alloc
    /\ l \in R!Insts(b)[i].uses \/ (R!Insts(b)[i].dst # l /\ <<b, i + 1>> \in R!LivePoints(l))
AtHandler(l) == \E b \in R!Blocks : R!Handler(b) # 0 /\ <<R!Handler(b), 1>> \in R!LivePoints(l)

\* The dataflow only finds what is live, and the second pass only takes what is
\* live across an allocation; an epoch that went by is an allocation.
LiveOnly == \A b \in R!Blocks : \A l \in liveIn[b] : <<b, 1>> \in R!LivePoints(l)
NeededOnly ==
  /\ stage = "live" => scan.needed = {}
  /\ \A l \in scan.needed : Crosses(l) \/ (stage # "scan" /\ AtHandler(l))
  /\ scan.open => \A l \in scan.live : scan.since[l] < scan.epoch => Crosses(l)
ExactInv == RootsInv /\ LiveOnly /\ NeededOnly

\* The live points of l are the least set its definition describes.
LEMMA LiveLeast ==
  ASSUME NEW l
  PROVE  /\ R!LivePoints(l) \subseteq R!Points
         /\ \A p \in R!Points : l \in R!Reads(p) => p \in R!LivePoints(l)
         /\ \A p \in R!Points, q \in R!LivePoints(l) :
              R!Writes(p) # l /\ q \in R!Follows(p) => p \in R!LivePoints(l)
         /\ \A T \in SUBSET R!Points :
              (\A p \in R!Points : l \in R!Reads(p) \/ (R!Writes(p) # l /\ R!Follows(p) \cap T # {}) => p \in T)
                => R!LivePoints(l) \subseteq T
  <1> DEFINE reads == {p \in R!Points : l \in R!Reads(p)}
             next == [p \in R!Points |-> IF R!Writes(p) = l THEN {} ELSE R!Follows(p)]
             others == R!Points \ reads
             closed == {S \in SUBSET others :
                          \A p \in others \ S : next[p] \cap (reads \cup S) = {}}
  <1>1. R!LivePoints(l) = {p \in R!Points : p \in others => \A S \in closed : p \in S}
    BY DEF R!LivePoints
  <1>2. ASSUME NEW p \in R!Points, NEW q \in R!LivePoints(l), R!Writes(p) # l, q \in R!Follows(p)
        PROVE  p \in R!LivePoints(l)
    <2>1. ASSUME p \in others, NEW S \in closed PROVE p \in S
      <3>1. q \in reads \cup S
        BY <1>1, <1>2, <2>1
      <3>2. q \in next[p]
        BY <1>2
      <3> QED BY <2>1, <3>1, <3>2
    <2> QED BY <1>1, <2>1
  <1>3. ASSUME NEW T \in SUBSET R!Points,
               \A p \in R!Points : l \in R!Reads(p) \/ (R!Writes(p) # l /\ R!Follows(p) \cap T # {}) => p \in T
        PROVE  R!LivePoints(l) \subseteq T
    <2> DEFINE S == T \ reads
    <2>1. reads \cup S = T
      BY <1>3
    <2>2. \A p \in others \ S : next[p] \cap T = {}
      BY <1>3
    <2>3. S \in closed
      BY <2>1, <2>2
    <2>4. ASSUME NEW p \in R!LivePoints(l) PROVE p \in T
      <3>1. p \in R!Points /\ (p \in others => p \in S)
        BY <1>1, <2>3
      <3>2. p \in reads => p \in T
        BY <2>1
      <3> QED BY <3>1, <3>2
    <2> QED BY <2>4
  <1>4. R!LivePoints(l) \subseteq R!Points /\ \A p \in R!Points : l \in R!Reads(p) => p \in R!LivePoints(l)
    BY <1>1
  <1> QED BY <1>2, <1>3, <1>4

\* The points of a block and what is read, written and reached at each.
LEMMA PointFacts ==
  ASSUME R!RootsAssumption, R!TypeOK, NEW b \in R!Blocks
  PROVE  /\ \A i \in 1..Len(R!Insts(b)) :
              /\ <<b, i>> \in R!Points /\ ~R!AtEnd(<<b, i>>)
              /\ R!Reads(<<b, i>>) = R!Insts(b)[i].uses /\ R!Writes(<<b, i>>) = R!Insts(b)[i].dst
              /\ R!Follows(<<b, i>>) = {<<b, i + 1>>}
         /\ <<b, Len(R!Insts(b)) + 1>> \in R!Points /\ R!AtEnd(<<b, Len(R!Insts(b)) + 1>>)
         /\ R!Reads(<<b, Len(R!Insts(b)) + 1>>) = R!TermUses(b) /\ R!Writes(<<b, Len(R!Insts(b)) + 1>>) = 0
         /\ R!Follows(<<b, Len(R!Insts(b)) + 1>>) = {<<s, 1>> : s \in R!Successors(b)}
  <1>1. Len(R!Insts(b)) \in Nat
    BY Shapes DEF R!TypeOK
  <1>2. \A i \in 1..Len(R!Insts(b)) + 1 : <<b, i>> \in R!Points
    BY <1>1 DEF R!Points
  <1> QED BY <1>1, <1>2 DEF R!AtEnd, R!Reads, R!Writes, R!Follows

\* What the dataflow's equation finds live is live, at each point of a block.
LEMMA LiveBeforeOnly ==
  ASSUME R!RootsAssumption, R!TypeOK, LiveOnly, NEW b \in R!Blocks, NEW i \in 1..Len(R!Insts(b)) + 1,
         NEW l \in LiveBefore(b, i)
  PROVE  <<b, i>> \in R!LivePoints(l)
  <1> DEFINE n == Len(R!Insts(b))
             Bad == {d \in 0..n : l \in LiveBefore(b, n + 1 - d)
                                  /\ <<b, n + 1 - d>> \notin R!LivePoints(l)}
  <1>1. n \in Nat /\ DOMAIN R!Insts(b) = 1..n /\ l \in R!Locals /\ l # 0 /\ R!Successors(b) \subseteq R!Blocks
    BY Shapes DEF R!TypeOK, LiveBefore, R!Locals
  <1>2. ASSUME Bad # {} PROVE FALSE
    <2>0. Bad \subseteq Nat
      BY <1>1
    <2>1. PICK d \in Bad : \A e \in Bad : d <= e
      BY ZenonT(30), <1>2, <2>0, NatMin
    <2>2. CASE d = 0
      <3>1. l \in R!LiveOut(b) \cup R!TermUses(b) /\ <<b, n + 1>> \notin R!LivePoints(l)
        BY <1>1, <2>1, <2>2, LiveAtEnd DEF R!Live
      <3>2. l \notin R!TermUses(b)
        BY <3>1, PointFacts, LiveLeast
      <3>3. PICK s \in R!Successors(b) : l \in liveIn[s]
        BY <3>1, <3>2 DEF R!LiveOut
      <3>4. <<s, 1>> \in R!LivePoints(l)
        BY <1>1, <3>3 DEF LiveOnly
      <3>5. <<b, n + 1>> \in R!Points /\ R!Writes(<<b, n + 1>>) # l /\ <<s, 1>> \in R!Follows(<<b, n + 1>>)
        BY <1>1, <3>3, PointFacts
      <3> QED BY <3>1, <3>4, <3>5, LiveLeast
    <2>3. CASE d # 0
      <3> DEFINE k == n + 1 - d
      <3>1. d - 1 \in 0..n /\ d - 1 \notin Bad /\ n + 1 - (d - 1) = k + 1 /\ k \in 1..n
        BY <1>1, <2>1, <2>3
      <3>2. l \in LiveBefore(b, k) /\ <<b, k>> \notin R!LivePoints(l)
        BY <2>1
      <3>3. l \in LiveBefore(b, k + 1) => <<b, k + 1>> \in R!LivePoints(l)
        BY <3>1
      <3> HIDE DEF k, Bad
      <3>4. l \notin R!Insts(b)[k].uses
        <4>1. <<b, k>> \in R!Points /\ R!Reads(<<b, k>>) = R!Insts(b)[k].uses
          BY <3>1, PointFacts
        <4>2. l \in R!Reads(<<b, k>>) => <<b, k>> \in R!LivePoints(l)
          BY <4>1, LiveLeast
        <4> QED BY <3>2, <4>1, <4>2
      <3>5. l # R!Insts(b)[k].dst /\ l \in LiveBefore(b, k + 1)
        BY <3>1, <3>2, <3>4, LiveStep
      <3>6. <<b, k>> \in R!Points /\ R!Writes(<<b, k>>) # l /\ <<b, k + 1>> \in R!Follows(<<b, k>>)
        BY <3>1, <3>5, PointFacts
      <3> QED BY <3>2, <3>3, <3>5, <3>6, LiveLeast
    <2> QED BY <2>2, <2>3
  <1>3. n + 1 - i \in 0..n /\ n + 1 - (n + 1 - i) = i
    BY <1>1
  <1> QED BY <1>2, <1>3

\* And once it has settled, the dataflow finds all that is live.
LEMMA LivePointsOnly ==
  ASSUME R!RootsAssumption, R!TypeOK, Settling, work = {}, NEW l \in R!Locals,
         NEW b \in R!Blocks, NEW i \in 1..Len(R!Insts(b)) + 1, <<b, i>> \in R!LivePoints(l)
  PROVE  l \in LiveBefore(b, i)
  <1> DEFINE T == {p \in R!Points : l \in LiveBefore(p[1], p[2])}
  <1>1. ASSUME NEW p \in R!Points, l \in R!Reads(p) \/ (R!Writes(p) # l /\ R!Follows(p) \cap T # {})
        PROVE  p \in T
    <2>0. PICK c \in R!Blocks : p \in {c} \X (1..(Len(R!Insts(c)) + 1))
      BY DEF R!Points
    <2>1. PICK k \in 1..Len(R!Insts(c)) + 1 : p = <<c, k>>
      BY <2>0
    <2>2. Len(R!Insts(c)) \in Nat /\ R!Successors(c) \subseteq R!Blocks
      BY Shapes DEF R!TypeOK
    <2>3. CASE k = Len(R!Insts(c)) + 1
      <3>1. LiveBefore(c, k) = R!Live(c)
        BY <2>3, LiveAtEnd
      <3>2. CASE l \in R!Reads(p)
        BY <2>1, <2>3, <3>1, <3>2, PointFacts DEF R!Live
      <3>3. CASE R!Follows(p) \cap T # {}
        <4>0. R!Follows(p) = {<<s, 1>> : s \in R!Successors(c)}
          BY <2>1, <2>3, PointFacts
        <4>1. PICK s \in R!Successors(c) : <<s, 1>> \in T
          BY <3>3, <4>0
        <4>2. l \in LiveBefore(s, 1)
          BY <4>1
        <4>3. LiveBefore(s, 1) = liveIn[s]
          BY <2>2, LiveAtStart DEF Settling
        <4> QED BY <2>1, <3>1, <4>2, <4>3 DEF R!Live, R!LiveOut
      <3> QED BY <1>1, <3>2, <3>3
    <2>4. CASE k # Len(R!Insts(c)) + 1
      <3>1. k \in 1..Len(R!Insts(c))
        BY <2>2, <2>4
      <3>2. LiveBefore(c, k) = R!Insts(c)[k].uses \cup (LiveBefore(c, k + 1) \ {R!Insts(c)[k].dst})
        BY <3>1, LiveStep
      <3>3. R!Reads(p) = R!Insts(c)[k].uses /\ R!Writes(p) = R!Insts(c)[k].dst /\ R!Follows(p) = {<<c, k + 1>>}
        BY <2>1, <3>1, PointFacts
      <3>4. <<c, k + 1>> \in T => l \in LiveBefore(c, k + 1)
        OBVIOUS
      <3>5. l \in LiveBefore(c, k)
        BY <1>1, <3>2, <3>3, <3>4
      <3> QED BY <2>1, <3>5
    <2> QED BY <2>3, <2>4
  <1>2. R!LivePoints(l) \subseteq T
    BY <1>1, LiveLeast
  <1> QED BY <1>2

\* A point is live by its definition exactly if the dataflow says so.
LEMMA LiveAgrees ==
  ASSUME R!RootsAssumption, R!TypeOK, Settling, work = {}, LiveOnly, NEW l \in R!Locals,
         NEW b \in R!Blocks, NEW i \in 1..Len(R!Insts(b)) + 1
  PROVE  <<b, i>> \in R!LivePoints(l) <=> l \in LiveBefore(b, i)
  BY LiveBeforeOnly, LivePointsOnly

\* The definition depends on the function only.
LEMMA LivePointsSame ==
  ASSUME function' = function
  PROVE  /\ \A l : R!LivePoints(l)' = R!LivePoints(l)
         /\ \A l : (Crosses(l) <=> Crosses(l)') /\ (AtHandler(l) <=> AtHandler(l)')
  <1>1. R!F' = R!F /\ R!Blocks' = R!Blocks
    BY DEF R!F, R!Blocks
  <1>2. \A b : /\ R!Insts(b)' = R!Insts(b) /\ R!TermUses(b)' = R!TermUses(b) /\ R!Handler(b)' = R!Handler(b)
               /\ R!Successors(b)' = R!Successors(b)
    BY <1>1 DEF R!Insts, R!TermUses, R!Handler, R!Successors
  <1>3. R!Points' = R!Points
    BY <1>1, <1>2 DEF R!Points
  <1>4. \A p : R!Reads(p)' = R!Reads(p) /\ R!Writes(p)' = R!Writes(p) /\ R!Follows(p)' = R!Follows(p)
    BY <1>2 DEF R!Reads, R!Writes, R!Follows, R!AtEnd
  <1>5. \A l : R!LivePoints(l)' = R!LivePoints(l)
    BY <1>3, <1>4 DEF R!LivePoints
  <1> QED BY <1>1, <1>2, <1>5 DEF Crosses, AtHandler

LEMMA LiveOnlyStep ==
  ASSUME R!RootsAssumption, ExactInv, [R!Next]_(R!vars)
  PROVE  LiveOnly'
  <1>1. /\ R!TypeOK /\ LiveOnly /\ function' = function /\ R!Blocks' = R!Blocks
        /\ liveIn \in [R!Blocks -> SUBSET R!Locals]
        /\ \A l : R!LivePoints(l)' = R!LivePoints(l)
    BY SameFunction, LivePointsSame DEF ExactInv, RootsInv, R!TypeOK
  <1>2. CASE R!Pop
    <2>1. PICK b \in R!Blocks : liveIn' = [liveIn EXCEPT ![b] = R!Flow(b)]
      BY <1>1, <1>2 DEF R!Pop, R!TypeOK
    <2>2. Len(R!Insts(b)) \in Nat
      BY <1>1, Shapes DEF R!TypeOK
    <2>3. ASSUME NEW l \in R!Flow(b) PROVE <<b, 1>> \in R!LivePoints(l)
      BY <1>1, <2>2, <2>3, LiveAtStart, LiveBeforeOnly
    <2>4. \A c \in R!Blocks : liveIn'[c] = IF c = b THEN R!Flow(b) ELSE liveIn[c]
      BY <1>1, <2>1
    <2> QED BY <1>1, <2>3, <2>4 DEF LiveOnly
  <1>3. CASE UNCHANGED liveIn
    BY <1>1, <1>3 DEF LiveOnly
  <1>4. R!Pop \/ UNCHANGED liveIn
    BY DEF R!Next, R!Analyze, R!Settled, R!EnterBlock, R!ScanInst, R!LeaveBlock, R!Scanning, R!HandlerRule,
           R!Start, R!Execute, R!Unwind, R!Branch, R!vars, R!analysis
  <1> QED BY <1>2, <1>3, <1>4

LEMMA NeededOnlyStep ==
  ASSUME R!RootsAssumption, ExactInv, [R!Next]_(R!vars)
  PROVE  NeededOnly'
  <1>1. /\ R!TypeOK /\ LiveOnly /\ ScanSound /\ NeededOnly /\ function' = function
        /\ R!Blocks' = R!Blocks /\ R!Locals' = R!Locals
        /\ scan \in [b : Nat \ {0}, i : Nat, open : BOOLEAN, live : SUBSET R!Locals,
                     since : [R!Locals -> Nat], epoch : Nat, needed : SUBSET R!Locals]
        /\ \A l : (Crosses(l) <=> Crosses(l)') /\ (AtHandler(l) <=> AtHandler(l)')
        /\ Settling
    BY SameFunction, LivePointsSame DEF ExactInv, RootsInv, R!TypeOK
  <1>2. CASE R!EnterBlock
    <2>1. /\ stage = "scan" /\ stage' = "scan" /\ scan'.needed = scan.needed
          /\ scan'.live = R!Live(scan.b) /\ scan'.epoch = scan.epoch /\ scan.b \in R!Blocks
          /\ \A l \in R!Locals : l \in R!Live(scan.b) => scan'.since[l] = scan.epoch
      BY <1>1, <1>2 DEF R!EnterBlock, R!Scanning
    <2>2. \A l \in scan'.live : ~(scan'.since[l] < scan'.epoch)
      BY <1>1, <2>1, LiveAtEnd
    <2> QED BY <1>1, <2>1, <2>2 DEF NeededOnly
  <1>3. CASE R!ScanInst
    <2> DEFINE b == scan.b
               i == scan.i
               inst == R!Insts(b)[i]
    <2>1. /\ stage = "scan" /\ stage' = "scan" /\ scan.open /\ i > 0 /\ R!Scanned = inst
          /\ scan'.live = R!After \cup inst.uses /\ scan'.epoch = R!Epoch
          /\ scan'.needed = scan.needed \cup R!Crossed(scan.live \cap {inst.dst})
                               \cup (IF inst.alloc THEN inst.uses ELSE {})
          /\ \A l \in R!Locals : scan'.since[l] = IF l \in inst.uses \ R!After THEN R!Epoch ELSE scan.since[l]
      BY <1>1, <1>3 DEF R!ScanInst, R!Scanning, R!Scanned
    <2>2. /\ b \in R!Blocks /\ i \in 1..Len(R!Insts(b)) /\ scan.live = LiveBefore(b, i + 1)
          /\ Len(R!Insts(b)) \in Nat /\ inst.uses \subseteq R!Locals
      BY <1>1, <2>1, Shapes DEF ScanSound, ScanOpen, R!TypeOK
    <2>3. R!After = LiveBefore(b, i + 1) \ {inst.dst}
      BY <2>1, <2>2 DEF R!After
    <2>4. ASSUME NEW l \in R!After PROVE <<b, i + 1>> \in R!LivePoints(l) /\ inst.dst # l
      BY <1>1, <2>2, <2>3, <2>4, LiveBeforeOnly
    <2>5. inst.alloc => \A l \in R!After \cup inst.uses : Crosses(l)
      BY <2>2, <2>4 DEF Crosses
    <2>6. \A l \in R!Crossed(scan.live \cap {inst.dst}) : Crosses(l)
      BY <1>1, <2>1 DEF R!Crossed, NeededOnly
    <2>7. \A l \in scan'.needed : Crosses(l)
      BY <1>1, <2>1, <2>5, <2>6 DEF NeededOnly
    <2>8. ASSUME NEW l \in scan'.live, scan'.since[l] < scan'.epoch PROVE Crosses(l)
      <3>1. l \in R!Locals /\ R!Epoch \in Nat
        BY <1>1, <2>1, <2>2, <2>3 DEF R!Epoch, LiveBefore
      <3>2. l \in R!After /\ scan'.since[l] = scan.since[l]
        BY <2>1, <2>8, <3>1
      <3>3. CASE inst.alloc
        BY <2>5, <3>2, <3>3
      <3>4. CASE ~inst.alloc
        <4>1. scan.since[l] < scan.epoch /\ l \in scan.live
          BY <2>1, <2>2, <2>3, <2>8, <3>2, <3>4 DEF R!Epoch
        <4> QED BY <1>1, <2>1, <4>1 DEF NeededOnly
      <3> QED BY <3>3, <3>4
    <2> QED BY <1>1, <2>1, <2>7, <2>8 DEF NeededOnly
  <1>4. CASE R!LeaveBlock
    <2>1. /\ stage = "scan" /\ stage' = "scan" /\ scan.open /\ ~scan'.open
          /\ scan'.needed = scan.needed \cup R!Crossed(scan.live)
      BY <1>1, <1>4 DEF R!LeaveBlock, R!Scanning
    <2>2. \A l \in R!Crossed(scan.live) : Crosses(l)
      BY <1>1, <2>1 DEF R!Crossed, NeededOnly
    <2> QED BY <1>1, <2>1, <2>2 DEF NeededOnly
  <1>5. CASE R!HandlerRule
    <2>1. /\ stage = "scan" /\ stage' = "ready" /\ ~scan'.open
          /\ scan'.needed = scan.needed \cup
                              UNION {liveIn[R!Handler(b)] : b \in {c \in R!Blocks : R!Handler(c) # 0}}
      BY <1>1, <1>5 DEF R!HandlerRule, R!ScanOver
    <2>2. ASSUME NEW b \in R!Blocks, R!Handler(b) # 0, NEW l \in liveIn[R!Handler(b)] PROVE AtHandler(l)
      <3>1. R!Handler(b) \in R!Blocks
        BY <1>1, <2>2, Shapes DEF R!TypeOK
      <3> QED BY <1>1, <2>2, <3>1 DEF LiveOnly, AtHandler
    <2> QED BY <1>1, <2>1, <2>2 DEF NeededOnly
  <1>6. CASE UNCHANGED scan /\ (stage' = stage \/ (stage' # "live" /\ (stage' = "scan" => stage = "live")))
    BY <1>1, <1>6 DEF NeededOnly
  <1>7. R!Pop \/ R!Settled \/ R!Start \/ R!Execute \/ R!Unwind \/ R!Branch \/ UNCHANGED R!vars
          => UNCHANGED scan /\ (stage' = stage \/ (stage' # "live" /\ (stage' = "scan" => stage = "live")))
    BY DEF R!Pop, R!Settled, R!Start, R!Execute, R!InInst, R!Running, R!Unwind, R!Branch, R!vars, R!analysis
  <1> QED BY <1>2, <1>3, <1>4, <1>5, <1>6, <1>7 DEF R!Next, R!Analyze

\* For every function: a local has a root slot exactly if it is read by an
\* allocating instruction, live after one, or live at a handler.
THEOREM RootsNeeded ==
  ASSUME R!RootsAssumption PROVE R!Spec => []R!RootsExact
  <1>1. ASSUME R!Init PROVE ExactInv
    <2>1. \A b \in R!Blocks : liveIn[b] = {}
      BY <1>1 DEF R!Init
    <2> QED BY <1>1, <2>1, RootsInvInit DEF R!Init, ExactInv, LiveOnly, NeededOnly
  <1>2. ASSUME ExactInv, [R!Next]_(R!vars) PROVE ExactInv'
    BY <1>2, RootsTypeStep, SettlingStep, ScanStep, DecidedStep, RunStep, LiveOnlyStep, NeededOnlyStep
       DEF ExactInv, RootsInv
  <1>3. ASSUME ExactInv PROVE R!RootsExact
    <2>0. ASSUME NEW l
          PROVE  (\E p \in R!Points : ~R!AtEnd(p) /\ R!Insts(p[1])[p[2]].alloc /\
                  (l \in R!Reads(p) \/ (R!Writes(p) # l /\ <<p[1], p[2] + 1>> \in R!LivePoints(l))))
                   <=> Crosses(l)
      <3>1. ASSUME NEW b \in R!Blocks, NEW i \in 1..Len(R!Insts(b))
            PROVE  <<b, i>> \in R!Points /\ ~R!AtEnd(<<b, i>>) /\ R!Reads(<<b, i>>) = R!Insts(b)[i].uses
                   /\ R!Writes(<<b, i>>) = R!Insts(b)[i].dst
        BY <1>3, PointFacts DEF ExactInv, RootsInv
      <3>2. ASSUME NEW p \in R!Points, ~R!AtEnd(p)
            PROVE  \E b \in R!Blocks : \E i \in 1..Len(R!Insts(b)) : p = <<b, i>>
        <4>1. PICK b \in R!Blocks : p \in {b} \X (1..(Len(R!Insts(b)) + 1))
          BY DEF R!Points
        <4>2. Len(R!Insts(b)) \in Nat
          BY <1>3, Shapes DEF ExactInv, RootsInv, R!TypeOK
        <4> QED BY <3>2, <4>1, <4>2 DEF R!AtEnd
      <3>3. ASSUME NEW p \in R!Points, ~R!AtEnd(p), R!Insts(p[1])[p[2]].alloc,
                   l \in R!Reads(p) \/ (R!Writes(p) # l /\ <<p[1], p[2] + 1>> \in R!LivePoints(l))
            PROVE  Crosses(l)
        <4>1. PICK b \in R!Blocks : \E i \in 1..Len(R!Insts(b)) : p = <<b, i>>
          BY <3>2, <3>3
        <4>2. PICK i \in 1..Len(R!Insts(b)) : p = <<b, i>>
          BY <4>1
        <4>3. p[1] = b /\ p[2] = i /\ R!Reads(p) = R!Insts(b)[i].uses /\ R!Writes(p) = R!Insts(b)[i].dst
          BY <3>1, <4>2
        <4> QED BY <3>3, <4>3 DEF Crosses
      <3>4. ASSUME NEW b \in R!Blocks, NEW i \in 1..Len(R!Insts(b)), R!Insts(b)[i].alloc,
                   l \in R!Insts(b)[i].uses \/ (R!Insts(b)[i].dst # l /\ <<b, i + 1>> \in R!LivePoints(l))
            PROVE  \E p \in R!Points : ~R!AtEnd(p) /\ R!Insts(p[1])[p[2]].alloc /\
                     (l \in R!Reads(p) \/ (R!Writes(p) # l /\ <<p[1], p[2] + 1>> \in R!LivePoints(l)))
        <4> DEFINE p == <<b, i>>
        <4>1. p \in R!Points /\ ~R!AtEnd(p) /\ R!Reads(p) = R!Insts(b)[i].uses /\ R!Writes(p) = R!Insts(b)[i].dst
          BY <3>1
        <4>2. p[1] = b /\ p[2] = i
          OBVIOUS
        <4> QED BY <3>4, <4>1, <4>2
      <3> QED BY <3>3, <3>4 DEF Crosses
    <2> SUFFICES ASSUME stage = "ready", NEW l \in R!Locals
                 PROVE  l \in R!Needed <=> Crosses(l) \/ AtHandler(l)
      BY <2>0 DEF R!RootsExact, AtHandler
    <2>1. /\ R!TypeOK /\ Settling /\ work = {} /\ LiveOnly /\ Decided /\ NeededOnly
      BY <1>3 DEF ExactInv, RootsInv, Settling
    <2>2. l \in R!Needed => Crosses(l) \/ AtHandler(l)
      BY <2>1 DEF NeededOnly, R!Needed
    <2>3. ASSUME Crosses(l) PROVE l \in R!Needed
      <3>1. PICK b \in R!Blocks : \E i \in 1..Len(R!Insts(b)) :
               /\ R!Insts(b)[i].alloc
               /\ l \in R!Insts(b)[i].uses \/ (R!Insts(b)[i].dst # l /\ <<b, i + 1>> \in R!LivePoints(l))
        BY <2>3 DEF Crosses
      <3>2. PICK i \in 1..Len(R!Insts(b)) :
               /\ R!Insts(b)[i].alloc
               /\ l \in R!Insts(b)[i].uses \/ (R!Insts(b)[i].dst # l /\ <<b, i + 1>> \in R!LivePoints(l))
        BY <3>1
      <3>3. Len(R!Insts(b)) \in Nat /\ DOMAIN R!Insts(b) = 1..Len(R!Insts(b)) /\ i + 1 \in 1..Len(R!Insts(b)) + 1
        BY <2>1, Shapes DEF R!TypeOK
      <3>4. <<b, i + 1>> \in R!LivePoints(l) => l \in LiveBefore(b, i + 1)
        BY <2>1, <3>3, LiveAgrees
      <3>5. l \in MustRoot(b, i)
        BY <3>2, <3>4 DEF MustRoot
      <3> QED BY <2>1, <3>2, <3>3, <3>5 DEF Decided, Finished, Rooting
    <2>4. ASSUME AtHandler(l) PROVE l \in R!Needed
      <3>1. PICK b \in R!Blocks : R!Handler(b) # 0 /\ <<R!Handler(b), 1>> \in R!LivePoints(l)
        BY <2>4 DEF AtHandler
      <3>2. R!Handler(b) \in R!Blocks /\ 1 \in 1..Len(R!Insts(R!Handler(b))) + 1
        BY <2>1, <3>1, Shapes DEF R!TypeOK
      <3>3. l \in LiveBefore(R!Handler(b), 1)
        BY <2>1, <3>1, <3>2, LiveAgrees
      <3>4. LiveBefore(R!Handler(b), 1) = liveIn[R!Handler(b)]
        BY <2>1, <3>2, LiveAtStart DEF Settling
      <3> QED BY <2>1, <3>1, <3>3, <3>4 DEF Decided
    <2> QED BY <2>2, <2>3, <2>4
  <1> QED BY <1>1, <1>2, <1>3, PTL DEF R!Spec
----------------------------------------------------------------------------
memoryVars == <<using, vars, gcVars, rootVars>>

LEMMA RunsRoots == MemorySpec => R!Spec
<1>1. MemoryInit => R!Init
  BY DEF MemoryInit
<1>2. [MemoryNext]_memoryVars => [R!Next]_(R!vars)
  <2>1. MemoryNext => R!Next \/ UNCHANGED rootVars
    BY DEF MemoryNext
  <2>2. UNCHANGED memoryVars => UNCHANGED rootVars
    BY DEF memoryVars
  <2>3. UNCHANGED rootVars => UNCHANGED R!vars
    BY DEF rootVars, R!vars, R!analysis
  <2> QED BY <2>1, <2>2, <2>3
<1> QED BY <1>1, <1>2, PTL DEF MemorySpec, R!Spec, memoryVars

(* No instruction, block end or handler reads an object that was freed.      *)
THEOREM RootsSuffice == MemorySpec => []UsesLive
BY MemoryAssumption, RunsRoots, RootsEnough, PTL DEF UsesLive

(* A local has a root slot exactly if it is live at a point that may collect. *)
THEOREM RootsAreExact == MemorySpec => []RootsExact
BY MemoryAssumption, RunsRoots, RootsNeeded, PTL DEF RootsExact
=============================================================================
