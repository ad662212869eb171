------------------------------- MODULE Roots -------------------------------
(* mir/src/liveness.rs and its use in code generation: which locals of a     *)
(* function get a slot in the shadow-stack frame.  The backward analysis     *)
(* runs step by step over a function picked from Functions; the function     *)
(* then runs while collections free every object no slot holds.              *)
(*                                                                           *)
(* A block is [insts, uses, to, handler]: its terminator reads the locals of *)
(* uses and goes on to one of to, or returns when there is none; handler 0   *)
(* means unprotected.  An instruction [dst, from, uses, alloc] reads uses    *)
(* and then writes dst (0: nothing): a new object (from 0) or the object     *)
(* local from holds.  It may collect and go on if alloc.                     *)
EXTENDS Naturals, Sequences

CONSTANTS
  Functions,       \* a family of functions [nl, blocks]
  Objects          \* the objects there can be

WellFormed(f) ==
  LET n == Len(f.blocks)
      locals == 1..f.nl
  IN /\ f.nl \in Nat /\ n \in Nat \ {0}
     /\ \A b \in 1..n :
          /\ Len(f.blocks[b].insts) \in Nat
          /\ DOMAIN f.blocks[b].insts = 1..Len(f.blocks[b].insts)
          /\ \A i \in 1..Len(f.blocks[b].insts) :
               LET inst == f.blocks[b].insts[i]
               IN /\ inst.dst \in locals \cup {0} /\ inst.uses \subseteq locals
                  /\ inst.from \in inst.uses \cup {0} /\ inst.alloc \in BOOLEAN
          /\ f.blocks[b].uses \subseteq locals
          /\ f.blocks[b].to \subseteq 1..n /\ f.blocks[b].handler \in 0..n
RootsAssumption ==
  /\ Objects \subseteq Nat \ {0}
  /\ \A f \in DOMAIN Functions : WellFormed(Functions[f])

VARIABLES
  function, stage,
  liveIn, work,            \* the dataflow and its worklist
  scan,                    \* the second pass: where it is, live, since, epoch, needed
  at, store, dead          \* the running activation, the objects freed under it
analysis == <<liveIn, work, scan>>
vars == <<function, stage, analysis, at, store, dead>>

F == Functions[function]
Locals == 1..F.nl
Blocks == 1..Len(F.blocks)
Insts(b) == F.blocks[b].insts
TermUses(b) == F.blocks[b].uses
Handler(b) == F.blocks[b].handler
Successors(b) == F.blocks[b].to \cup ({Handler(b)} \ {0})

----------------------------------------------------------------------------
(* The dataflow.                                                            *)

\* What instructions i to j - 1 of a block write.
Defined(b, i, j) == {Insts(b)[k].dst : k \in i..(j - 1)}
BlockDef(b) == Defined(b, 1, Len(Insts(b)) + 1)
\* What a block reads before it writes it.
BlockUse(b) ==
  (UNION {Insts(b)[i].uses \ Defined(b, 1, i) : i \in DOMAIN Insts(b)})
  \cup (TermUses(b) \ BlockDef(b))
LiveOut(b) == UNION {liveIn[s] : s \in Successors(b)}
Flow(b) == BlockUse(b) \cup (LiveOut(b) \ BlockDef(b))

Init ==
  /\ function \in DOMAIN Functions /\ stage = "live"
  /\ liveIn = [b \in Blocks |-> {}] /\ work = Blocks
  /\ scan = [b |-> 1, i |-> 0, open |-> FALSE, live |-> {}, since |-> [l \in Locals |-> 0],
             epoch |-> 0, needed |-> {}]
  /\ at = [b |-> 0, i |-> 0] /\ store = [l \in Locals |-> 0] /\ dead = {}

\* Mutant: only a block that was not computed yet is queued again.
PopOnce ==
  /\ stage = "live" /\ work # {}
  /\ \E b \in work :
       /\ liveIn' = [liveIn EXCEPT ![b] = Flow(b)]
       /\ work' = (work \ {b}) \cup
                    (IF Flow(b) = liveIn[b] THEN {}
                     ELSE {p \in Blocks : b \in Successors(p) /\ liveIn[p] = {}})
  /\ UNCHANGED <<function, stage, scan, at, store, dead>>
\* A block of the worklist (the code takes the last) is recomputed; its
\* predecessors follow when it moved.
Pop ==
  /\ stage = "live" /\ work # {}
  /\ \E b \in work :
       /\ liveIn' = [liveIn EXCEPT ![b] = Flow(b)]
       /\ work' = (work \ {b}) \cup
                    (IF Flow(b) = liveIn[b] THEN {} ELSE {p \in Blocks : b \in Successors(p)})
  /\ UNCHANGED <<function, stage, scan, at, store, dead>>
Settled ==
  /\ stage = "live" /\ work = {} /\ stage' = "scan"
  /\ UNCHANGED <<function, analysis, at, store, dead>>

----------------------------------------------------------------------------
(* The second pass: a local whose live range saw the epoch advance was live  *)
(* across an allocation.                                                     *)
Crossed(ended) == {l \in ended : scan.epoch > scan.since[l]}
Scanning == stage = "scan" /\ UNCHANGED <<function, stage, liveIn, work, at, store, dead>>
Live(b) == LiveOut(b) \cup TermUses(b)

EnterBlock ==
  /\ Scanning /\ ~scan.open /\ scan.b \in Blocks
  /\ scan' = [scan EXCEPT !.open = TRUE, !.i = Len(Insts(scan.b)), !.live = Live(scan.b),
                !.since = [l \in Locals |-> IF l \in Live(scan.b) THEN scan.epoch ELSE @[l]]]

Scanned == Insts(scan.b)[scan.i]
After == scan.live \ {Scanned.dst}
Epoch == IF Scanned.alloc THEN scan.epoch + 1 ELSE scan.epoch
\* Mutant: the allocation counts against the instruction's own result.
ScanInstLate ==
  /\ Scanning /\ scan.open /\ scan.i > 0
  /\ scan' = [scan EXCEPT
       !.i = @ - 1, !.live = After \cup Scanned.uses, !.epoch = Epoch,
       !.needed = @ \cup {l \in scan.live \cap {Scanned.dst} : Epoch > scan.since[l]}
                    \cup (IF Scanned.alloc THEN Scanned.uses ELSE {}),
       !.since = [l \in Locals |-> IF l \in Scanned.uses \ After THEN Epoch ELSE @[l]]]
\* Backwards: the definition ends its live range before the allocation counts,
\* and what an allocating instruction reads is rooted.
ScanInst ==
  /\ Scanning /\ scan.open /\ scan.i > 0
  /\ scan' = [scan EXCEPT
       !.i = @ - 1, !.live = After \cup Scanned.uses, !.epoch = Epoch,
       !.needed = @ \cup Crossed(scan.live \cap {Scanned.dst})
                    \cup (IF Scanned.alloc THEN Scanned.uses ELSE {}),
       !.since = [l \in Locals |-> IF l \in Scanned.uses \ After THEN Epoch ELSE @[l]]]
LeaveBlock ==
  /\ Scanning /\ scan.open /\ scan.i = 0
  /\ scan' = [scan EXCEPT !.open = FALSE, !.b = @ + 1, !.needed = @ \cup Crossed(scan.live)]

ScanOver == stage = "scan" /\ ~scan.open /\ scan.b \notin Blocks
\* Mutant: handlers are treated like any other successor.
HandlerRuleNone ==
  /\ ScanOver /\ stage' = "ready"
  /\ UNCHANGED <<function, analysis, at, store, dead>>
\* Whatever a handler may read is rooted for the whole function.
HandlerRule ==
  /\ ScanOver /\ stage' = "ready"
  /\ scan' = [scan EXCEPT !.needed =
                @ \cup UNION {liveIn[Handler(b)] : b \in {c \in Blocks : Handler(c) # 0}}]
  /\ UNCHANGED <<function, liveIn, work, at, store, dead>>
Needed == scan.needed

----------------------------------------------------------------------------
(* The compiled function runs.  A rooted local's slot is stored on every     *)
(* definition, so the slots hold what the rooted locals hold.                *)
Held == {store[l] : l \in Locals} \ {0}
Rooted == {store[l] : l \in Needed} \ {0}

Start ==
  /\ stage = "ready" /\ stage' = "run" /\ at' = [b |-> 1, i |-> 1]
  /\ UNCHANGED <<function, analysis, store, dead>>

Running == stage = "run" /\ at.b # 0
InInst == Running /\ at.i <= Len(Insts(at.b))
Current == Insts(at.b)[at.i]
\* A collection frees what no slot holds.  An object no local holds any more is
\* forgotten, and its number used again.
Keep == dead' = dead \cap Held
Collect == dead' = (dead \cap Held) \cup (Held \ Rooted)
Unused == {o \in Objects \ Held : \A p \in Objects \ Held : o <= p}
Define(inst) ==
  \/ inst.dst = 0 /\ UNCHANGED store
  \/ inst.dst # 0 /\ inst.from # 0 /\ store' = [store EXCEPT ![inst.dst] = store[inst.from]]
  \/ inst.dst # 0 /\ inst.from = 0 /\ \E o \in Unused : store' = [store EXCEPT ![inst.dst] = o]

\* gc_alloc may collect before the instruction writes its result.
Execute ==
  /\ InInst /\ Define(Current) /\ (Keep \/ (Current.alloc /\ Collect))
  /\ at' = [at EXCEPT !.i = @ + 1]
  /\ UNCHANGED <<function, stage, analysis>>
\* Any instruction may raise, and every raise allocates the exception.
Unwind ==
  /\ InInst /\ Handler(at.b) # 0 /\ (Keep \/ Collect)
  /\ at' = [b |-> Handler(at.b), i |-> 1]
  /\ UNCHANGED <<function, stage, analysis, store>>
Branch ==
  /\ Running /\ ~InInst /\ \E s \in F.blocks[at.b].to : at' = [b |-> s, i |-> 1]
  /\ UNCHANGED <<function, stage, analysis, store, dead>>

Analyze == Pop \/ Settled \/ EnterBlock \/ ScanInst \/ LeaveBlock \/ HandlerRule
Next == Analyze \/ Start \/ Execute \/ Unwind \/ Branch
Spec == Init /\ [][Next]_vars

----------------------------------------------------------------------------
(* Properties.                                                              *)
TypeOK ==
  /\ function \in DOMAIN Functions /\ stage \in {"live", "scan", "ready", "run"}
  /\ liveIn \in [Blocks -> SUBSET Locals] /\ work \subseteq Blocks
  /\ scan \in [b : Nat \ {0}, i : Nat, open : BOOLEAN, live : SUBSET Locals,
               since : [Locals -> Nat], epoch : Nat, needed : SUBSET Locals]
  /\ at \in [b : Nat, i : Nat] /\ store \in [Locals -> Objects \cup {0}] /\ dead \subseteq Objects

\* No instruction or terminator reads an object that was freed, and what an
\* allocating instruction reads survives the collection it may start itself.
UsesLive ==
  /\ InInst => \A l \in Current.uses :
       store[l] \notin dead /\ (Current.alloc => store[l] \in Rooted \cup {0})
  /\ Running /\ ~InInst => \A l \in TermUses(at.b) : store[l] \notin dead

\* The reference: a local is live at a point if a path from there reads it
\* before it is written.
Points == UNION {{b} \X (1..(Len(Insts(b)) + 1)) : b \in Blocks}
AtEnd(p) == p[2] > Len(Insts(p[1]))
Reads(p) == IF AtEnd(p) THEN TermUses(p[1]) ELSE Insts(p[1])[p[2]].uses
Writes(p) == IF AtEnd(p) THEN 0 ELSE Insts(p[1])[p[2]].dst
Follows(p) == IF AtEnd(p) THEN {<<s, 1>> : s \in Successors(p[1])} ELSE {<<p[1], p[2] + 1>>}
\* The points where l is live: the least set that has those that read l and,
\* with a point, those before it that do not write l.
LivePoints(l) ==
  LET reads == {p \in Points : l \in Reads(p)}
      next == [p \in Points |-> IF Writes(p) = l THEN {} ELSE Follows(p)]
      others == Points \ reads
      closed == {S \in SUBSET others : \A p \in others \ S : next[p] \cap (reads \cup S) = {}}
  IN {p \in Points : p \in others => \A S \in closed : p \in S}

\* The worklist and the epoch counter compute exactly the locals that are read
\* by an allocating instruction, live after one, or live at a handler.
RootsExact == stage = "ready" =>
  \A l \in Locals :
    LET live == LivePoints(l)
    IN l \in Needed <=>
         \/ \E p \in Points : ~AtEnd(p) /\ Insts(p[1])[p[2]].alloc /\
              (l \in Reads(p) \/ (Writes(p) # l /\ <<p[1], p[2] + 1>> \in live))
         \/ \E b \in Blocks : Handler(b) # 0 /\ <<Handler(b), 1>> \in live
=============================================================================
