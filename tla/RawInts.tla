------------------------------ MODULE RawInts ------------------------------
(* typeck/src/intervals.rs: which int locals, expressions and returns of a   *)
(* whole program may live in untagged 64-bit slots.  The analysis runs step  *)
(* by step (one action per worklist pop, narrowing round and interprocedural *)
(* round) over a program picked from Programs; the program then runs, with   *)
(* Python's values, against what was decided.  A function has one parameter  *)
(* at most.                                                                  *)
EXTENDS Flow, FiniteSets

CONSTANTS
  Programs,        \* a family of programs, each a sequence of functions (1 is main)
  WidenLimit,      \* 16 in the code
  StepCap,         \* the worklist budget of one function
  MaxValue         \* bound of the model: no run computes a larger magnitude

ASSUME RawIntsAssumption ==
  /\ WidenLimit \in Nat \ {0} /\ StepCap \in Nat
  /\ MaxValue \in Nat \ {0} /\ -MaxValue \in Value /\ MaxValue \in Value
  /\ \A n \in DOMAIN Programs : IsProgram(Programs[n])

VARIABLES
  program,                                   \* which of Programs
  stage,
  entry, moves, pinned, contrib, cache,      \* per function, across the rounds
  todo,                                      \* dirty callers, then functions to finish
  work, facts,                               \* analyze_func: its function, and its dataflow
  raw,                                       \* the flags apply_flags sets, and their in-environments
  at, store                                  \* the running activation
analysis == <<entry, moves, pinned, contrib, cache, todo, work, facts, raw>>
vars == <<program, stage, analysis, at, store>>

Code == Programs[program]
\* op(v); TLC evaluates v once.
With(v, op(_)) == CHOOSE r \in {op(x) : x \in {v}} : TRUE

Funcs == DOMAIN Code
Locals(f) == 1..Code[f].nl
Params(f) == 1..Code[f].np
Blocks(f) == DOMAIN Code[f].blocks
BlockOf(f, b) == Code[f].blocks[b]
JoinEnv(a, b) == [l \in DOMAIN a |-> Join(a[l], b[l])]
Hull(S) == [lo |-> Min({i.lo : i \in S}), hi |-> Max({i.hi : i \in S})]   \* the join of S
WidenEnv(a, b) == [l \in DOMAIN a |-> Widen(a[l], b[l])]
NarrowEnv(a, b) == [l \in DOMAIN a |-> Narrow(a[l], b[l])]

----------------------------------------------------------------------------
(* The control-flow graph.                                                  *)
\* The environments before each statement and after the last.
Along(env, stmts) ==
  LET after[i \in 0..Len(stmts)] ==
        IF i = 0 THEN env ELSE With(after[i - 1], LAMBDA e : Write(e, stmts[i]))
  IN after
Transfer(env, stmts) == Along(env, stmts)[Len(stmts)]
RefineEdge(env, t, taken) == With(Refined(env, t, taken), UnlessDead)

\* The edges out of a block: its terminator's, then the one to its handler.
Successors(f, b) ==
  LET blk == BlockOf(f, b)
  IN (CASE blk.term.k = "jump" -> <<blk.term.to>>
        [] blk.term.k = "branch" -> <<blk.term.to, blk.term.else>>
        [] OTHER -> <<>>) \o (IF blk.handler = 0 THEN <<>> ELSE <<blk.handler>>)

\* Mutant: a handler gets what a normal successor gets.
EdgeEnvOut(t, i, out) ==
  IF t.k = "branch" /\ i <= 2 THEN RefineEdge(out, t, i = 1) ELSE out
\* What goes along edge i of a block that ends in t with environment out; the
\* edge to a handler forgets everything.
EdgeEnv(t, i, out) ==
  CASE t.k = "jump" /\ i = 1 -> out
    [] t.k = "branch" /\ i <= 2 -> RefineEdge(out, t, i = 1)
    [] OTHER -> [l \in DOMAIN out |-> Top]
\* What block b sends along its edges, in the order of the code.
Sent(f, b, env) ==
  With(Transfer(env, BlockOf(f, b).stmts), LAMBDA out :
    [i \in DOMAIN Successors(f, b) |->
       [to |-> Successors(f, b)[i], env |-> EdgeEnv(BlockOf(f, b).term, i, out)]])

\* loop_heads: the blocks to which a depth-first walk from the entry finds an
\* edge while they are still on its path.
WalkStep(f, w) ==
  LET top == Last(w.path)
      further == [w EXCEPT !.path[Len(w.path)].next = @ + 1]
      s == Successors(f, top.b)[top.next]
  IN IF top.next > Len(Successors(f, top.b)) THEN [w EXCEPT !.path = Front(@)]
     ELSE IF \E i \in DOMAIN w.path : w.path[i].b = s THEN [further EXCEPT !.heads = @ \cup {s}]
     ELSE IF s \in w.seen THEN further
     ELSE [further EXCEPT !.path = Append(@, [b |-> s, next |-> 1]), !.seen = @ \cup {s}]
Walks(f) == [path : Seq([b : Blocks(f), next : Nat]), seen : SUBSET Blocks(f), heads : SUBSET Blocks(f)]
LoopHeads(f) ==
  LET walk[w \in Walks(f)] == IF w.path = <<>> THEN w.heads ELSE walk[WalkStep(f, w)]
  IN walk[[path |-> <<[b |-> 1, next |-> 1]>>, seen |-> {1}, heads |-> {}]]

----------------------------------------------------------------------------
(* analyze_func.                                                            *)
BuildSeed(f) == IF Code[f].taken \/ entry[f] = Bottom THEN Top ELSE entry[f]
EntryEnv(f, seed) == [l \in Locals(f) |-> IF l \in Params(f) THEN seed ELSE Top]

CacheUsable(f) == cache[f].in # None /\ cache[f].seed = BuildSeed(f)
NoCache == [seed |-> Bottom, in |-> None]
Idle == [fn |-> 0]
NoFacts == [queue |-> <<>>]
Start(f, final) ==
  /\ work' = [fn |-> f, final |-> final, seed |-> BuildSeed(f), heads |-> LoopHeads(f)]
  /\ facts' = [in |-> [b \in Blocks(f) |-> IF b = 1 THEN EntryEnv(f, BuildSeed(f)) ELSE None],
              visit |-> [b \in Blocks(f) |-> 0], queue |-> <<1>>, steps |-> 0,
              cand |-> None, round |-> 0]

\* The successors take in what was sent to them, one after the other; the entry
\* keeps its seed, and a dead edge is dropped.
Incoming(w, s) ==
  LET old == w.in[s.to]
  IN IF old = None THEN s.env
     ELSE IF s.to \in work.heads /\ w.visit[s.to] >= WidenLimit
     THEN WidenEnv(old, JoinEnv(old, s.env))
     ELSE JoinEnv(old, s.env)
Receive(w, s) ==
  IF s.to = 1 \/ s.env = None THEN w
  ELSE With(Incoming(w, s), LAMBDA new :
         IF new = w.in[s.to] THEN w
         ELSE [w EXCEPT !.in[s.to] = new, !.visit[s.to] = @ + 1,
                        !.queue = IF Contains(@, s.to) THEN @ ELSE Append(@, s.to)])
ReceiveAll(w, sent) ==
  LET after[i \in 0..Len(sent)] ==
        IF i = 0 THEN w ELSE With(after[i - 1], LAMBDA u : Receive(u, sent[i]))
  IN after[Len(sent)]

\* recompute: the join of what all reached blocks send.
JoinInto(b) ==
  LET froms == {c \in Blocks(work.fn) : facts.in[c] # None /\ Contains(Successors(work.fn, c), b)}
      sent == UNION {ToSet(Sent(work.fn, c, facts.in[c])) : c \in froms}
      envs == {s.env : s \in {x \in sent : x.to = b /\ x.env # None}}
  IN IF envs = {} THEN None ELSE [l \in Locals(work.fn) |-> Hull({e[l] : e \in envs})]
Candidates ==
  [b \in Blocks(work.fn) |-> IF b = 1 THEN EntryEnv(work.fn, work.seed) ELSE JoinInto(b)]

Narrowed ==
  [b \in Blocks(work.fn) |->
    IF b = 1 \/ facts.in[b] = None \/ facts.cand[b] = None THEN facts.in[b]
    ELSE NarrowEnv(facts.in[b], facts.cand[b])]

----------------------------------------------------------------------------
(* What is recorded of a converged function, from its in-environments.       *)
Sites(f) == UNION {{b} \X DOMAIN BlockOf(f, b).stmts : b \in Blocks(f)}
StmtAt(f, s) == BlockOf(f, s[1]).stmts[s[2]]
\* The arithmetic at a statement: its value, or the argument of its call.
ExprAt(f, s) == IF StmtAt(f, s).e.k = "call" THEN StmtAt(f, s).e.a ELSE StmtAt(f, s).e
EnvAt(f, in, b, i) == Along(in[b], BlockOf(f, b).stmts)[i - 1]
\* expr_iv; nothing is recorded for a block that was not reached.
IntervalAt(f, in, s) ==
  IF in[s[1]] = None THEN Top ELSE Eval(EnvAt(f, in, s[1], s[2]), ExprAt(f, s))

\* A caller contributes an interval to every parameter it passes, all unknown
\* when its analysis gave up.
Contribution(f, in) ==
  {[f |-> StmtAt(f, s).e.f, iv |-> IF in = None THEN Top ELSE IntervalAt(f, in, s)] :
     s \in {x \in Sites(f) : StmtAt(f, x).e.k = "call"}}

Writers(f, in, l) ==
  {IF StmtAt(f, s).e.k = "call" THEN Top ELSE IntervalAt(f, in, s) :
     s \in {x \in Sites(f) : in[x[1]] # None /\ StmtAt(f, x).t = l}}
  \cup (IF l \notin Params(f) THEN {} ELSE {IF Code[f].taken THEN Top ELSE entry[f]})
\* Mutant: one bounded writer is enough.
LocalEligibleSome(f, in, l) == \E iv \in Writers(f, in, l) : Eligible(iv)
LocalEligible(f, in, l) ==
  Writers(f, in, l) # {} /\ \A iv \in Writers(f, in, l) : Eligible(iv)

RawableLeaf(f, locals, e) ==
  \/ e.k = "lit" /\ -Bound <= e.n /\ e.n <= Bound
  \/ e.k = "var" /\ e.l \in locals
Flagged(f, in, locals, s) ==
  LET e == ExprAt(f, s)
  IN /\ e.k = "bin" /\ Eligible(IntervalAt(f, in, s))
     /\ RawableLeaf(f, locals, e.l) /\ RawableLeaf(f, locals, e.r)

ReturnIntervals(f, in) ==
  {IF in[b] = None THEN Top
   ELSE LeafInterval(Transfer(in[b], BlockOf(f, b).stmts), BlockOf(f, b).term.e) :
     b \in {c \in Blocks(f) : BlockOf(f, c).term.k = "return"}}
RawLocals(f, in) == {l \in Locals(f) : LocalEligible(f, in, l)}
RawExprs(f, in, locals) == {s \in Sites(f) : Flagged(f, in, locals, s)}
\* The join of the returned intervals is in bounds iff each of them is.
Flags(f, in) ==
  With(RawLocals(f, in), LAMBDA locals :
     [in |-> in, locals |-> locals, exprs |-> RawExprs(f, in, locals),
      ret |-> /\ ~Code[f].taken /\ ReturnIntervals(f, in) # {}
              /\ \A iv \in ReturnIntervals(f, in) : Eligible(iv)])
NoFlags == [in |-> None, locals |-> {}, exprs |-> {}, ret |-> FALSE]

----------------------------------------------------------------------------
(* narrow_raw_ints, step by step.                                           *)
First(S) == CHOOSE f \in S : \A g \in S : f <= g
NoActivation == [f |-> 0, b |-> 0, i |-> 0]

Init ==
  /\ program \in DOMAIN Programs /\ stage = "callers"
  /\ entry = [f \in Funcs |-> Bottom] /\ moves = [f \in Funcs |-> 0]
  /\ pinned = {} /\ contrib = [f \in Funcs |-> {}] /\ cache = [f \in Funcs |-> NoCache]
  /\ todo = Funcs /\ work = Idle /\ facts = NoFacts /\ raw = [f \in Funcs |-> NoFlags]
  /\ at = NoActivation /\ store = <<>>

\* A dirty caller, or one without a usable cached analysis, is analysed.
Begin ==
  /\ stage = "callers" /\ work = Idle /\ todo # {}
  /\ Start(First(todo), FALSE)
  /\ UNCHANGED <<program, stage, entry, moves, pinned, contrib, cache, todo, raw, at, store>>
Reanalyze ==
  /\ stage = "finish" /\ work = Idle /\ todo # {} /\ ~CacheUsable(First(todo))
  /\ Start(First(todo), TRUE)
  /\ UNCHANGED <<program, stage, entry, moves, pinned, contrib, cache, todo, raw, at, store>>

\* Mutant: the function stays dirty.
RecordDirty(in) ==
  /\ work' = Idle /\ facts' = NoFacts /\ todo' = todo
  /\ IF work.final
     THEN /\ raw' = [raw EXCEPT ![work.fn] = IF in = None THEN NoFlags ELSE Flags(work.fn, in)]
          /\ UNCHANGED <<contrib, cache>>
     ELSE /\ contrib' = [contrib EXCEPT ![work.fn] = Contribution(work.fn, in)]
          /\ cache' = [cache EXCEPT ![work.fn] = [seed |-> work.seed, in |-> in]]
          /\ UNCHANGED raw
  /\ UNCHANGED <<program, stage, entry, moves, pinned, at, store>>
\* The analysis of work.fn ends, with None if it ran out of budget.
Record(in) ==
  /\ work' = Idle /\ facts' = NoFacts /\ todo' = todo \ {work.fn}
  /\ IF work.final
     THEN /\ raw' = [raw EXCEPT ![work.fn] = IF in = None THEN NoFlags ELSE Flags(work.fn, in)]
          /\ UNCHANGED <<contrib, cache>>
     ELSE /\ contrib' = [contrib EXCEPT ![work.fn] = Contribution(work.fn, in)]
          /\ cache' = [cache EXCEPT ![work.fn] = [seed |-> work.seed, in |-> in]]
          /\ UNCHANGED raw
  /\ UNCHANGED <<program, stage, entry, moves, pinned, at, store>>

Bail ==
  /\ work # Idle /\ facts.queue # <<>> /\ facts.steps >= StepCap
  /\ Record(None)

\* Phase 1: one block off the worklist.
PopBlock ==
  /\ work # Idle /\ facts.queue # <<>> /\ facts.steps < StepCap
  /\ LET b == Head(facts.queue)
     IN facts' = ReceiveAll([facts EXCEPT !.queue = Tail(@), !.steps = @ + 1],
                           Sent(work.fn, b, facts.in[b]))
  /\ UNCHANGED <<program, stage, entry, moves, pinned, contrib, cache, todo, work, raw, at, store>>

\* Phase 2: rounds of recomputing every block's candidate and narrowing to it,
\* until nothing changes; then the analysis is recorded.
Recompute ==
  /\ work # Idle /\ facts.queue = <<>> /\ facts.cand = None /\ facts.round < WidenLimit + 2
  /\ facts' = [facts EXCEPT !.cand = Candidates]
  /\ UNCHANGED <<program, stage, entry, moves, pinned, contrib, cache, todo, work, raw, at, store>>
NarrowRound ==
  /\ work # Idle /\ facts.cand # None /\ Narrowed # facts.in
  /\ facts' = [facts EXCEPT !.in = Narrowed, !.cand = None, !.round = @ + 1]
  /\ UNCHANGED <<program, stage, entry, moves, pinned, contrib, cache, todo, work, raw, at, store>>
Converge ==
  /\ work # Idle
  /\ \/ facts.cand # None /\ Narrowed = facts.in
     \/ facts.round = WidenLimit + 2
  /\ Record(facts.in)

\* Every callee's entry interval is joined afresh from all contributions; one
\* that moves too often is pinned to Top.
Fresh(f) == Hull({Bottom} \cup {c.iv : c \in {d \in UNION {contrib[g] : g \in Funcs} : d.f = f}})
Moved == {f \in Funcs : Code[f].np > 0 /\ f \notin pinned /\ Fresh(f) # entry[f]}
MoveEntries ==
  LET pinnedNow == {f \in Moved : moves[f] + 1 >= WidenLimit}
  IN /\ moves' = [f \in Funcs |-> IF f \in Moved THEN moves[f] + 1 ELSE moves[f]]
     /\ entry' = [f \in Funcs |-> IF f \in pinnedNow THEN Top
                                  ELSE IF f \in Moved THEN Fresh(f) ELSE entry[f]]
     /\ pinned' = pinned \cup pinnedNow
\* Mutant: a function whose entry moved is not marked dirty.
RoundClean ==
  /\ stage = "callers" /\ work = Idle /\ todo = {} /\ MoveEntries
  /\ IF Moved = {} THEN stage' = "finish" /\ todo' = Funcs
     ELSE UNCHANGED stage /\ todo' = {f \in Moved : Code[f].taken}
  /\ UNCHANGED <<program, contrib, cache, work, facts, raw, at, store>>
Round ==
  /\ stage = "callers" /\ work = Idle /\ todo = {} /\ MoveEntries
  /\ IF Moved = {} THEN stage' = "finish" /\ todo' = Funcs
     ELSE UNCHANGED stage /\ todo' = {f \in Moved : ~Code[f].taken}
  /\ UNCHANGED <<program, contrib, cache, work, facts, raw, at, store>>

\* The final apply, from the cached analysis.
Apply ==
  /\ stage = "finish" /\ work = Idle /\ todo # {} /\ CacheUsable(First(todo))
  /\ raw' = [raw EXCEPT ![First(todo)] = Flags(First(todo), cache[First(todo)].in)]
  /\ todo' = todo \ {First(todo)}
  /\ UNCHANGED <<program, stage, entry, moves, pinned, contrib, cache, work, facts, at, store>>
Analyze == Begin \/ Reanalyze \/ Bail \/ PopBlock \/ Recompute \/ NarrowRound \/ Converge \/ Round \/ Apply

----------------------------------------------------------------------------
(* The compiled program runs.  One activation is followed at a time: a call  *)
(* goes on in the callee, or returns anything, or raises.                    *)
CallResults == {Number(-MaxValue), Number(1), Number(MaxValue), TrueValue}
Enter(f, v) ==
  /\ at' = [f |-> f, b |-> 1, i |-> 1]
  /\ store' = [l \in Locals(f) |-> IF l \in Params(f) THEN v ELSE Unbound]
Stay == UNCHANGED <<program, stage, analysis>>

\* main starts; a function whose address is taken may be called with anything.
Run ==
  /\ stage = "finish" /\ todo = {} /\ stage' = "run"
  /\ \/ Enter(1, Unbound)
     \/ \E f \in {g \in Funcs : Code[g].taken}, v \in CallResults : Enter(f, v)
  /\ UNCHANGED <<program, analysis>>

Here == BlockOf(at.f, at.b)
InStmt == stage = "run" /\ at.f # 0 /\ at.i <= Len(Here.stmts)
InTerm == stage = "run" /\ at.f # 0 /\ at.i > Len(Here.stmts)
Stmt == Here.stmts[at.i]
Arithmetic == IF Stmt.e.k = "call" THEN Stmt.e.a ELSE Stmt.e
Fits(n) == -MaxValue <= n /\ n <= MaxValue
Evaluates(e) == ~DividesByZero(store, e) /\ Fits(Outcome(store, e).n)
Store(v) == store' = IF Stmt.t = 0 THEN store ELSE [store EXCEPT ![Stmt.t] = v]
Next1 == at' = [at EXCEPT !.i = @ + 1]

Compute == /\ InStmt /\ Stmt.e.k # "call" /\ Evaluates(Stmt.e)
           /\ Store(Outcome(store, Stmt.e)) /\ Next1 /\ Stay
CallIn == /\ InStmt /\ Stmt.e.k = "call" /\ Evaluates(Stmt.e.a)
          /\ Enter(Stmt.e.f, Outcome(store, Stmt.e.a)) /\ Stay
CallOver == /\ InStmt /\ Stmt.e.k = "call" /\ Evaluates(Stmt.e.a)
            /\ \E v \in CallResults : Store(v)
            /\ Next1 /\ Stay
Raise == /\ InStmt
         /\ Stmt.e.k = "call" \/ DividesByZero(store, Arithmetic)
         /\ Here.handler # 0
         /\ at' = [at EXCEPT !.b = Here.handler, !.i = 1]
         /\ UNCHANGED store /\ Stay
Follow(b) == at' = [at EXCEPT !.b = b, !.i = 1] /\ UNCHANGED store /\ Stay
JumpOn == InTerm /\ Here.term.k = "jump" /\ Follow(Here.term.to)
BranchOn ==
  /\ InTerm /\ Here.term.k = "branch"
  /\ IF Compare(Here.term.op, ValueOf(store, Here.term.l).n, ValueOf(store, Here.term.r).n)
     THEN Follow(Here.term.to) ELSE Follow(Here.term.else)
Leave == /\ InTerm /\ Here.term.k = "return"
         /\ at' = NoActivation /\ store' = <<>> /\ Stay

Execute == Compute \/ CallIn \/ CallOver \/ Raise \/ JumpOn \/ BranchOn \/ Leave
Next == Analyze \/ Run \/ Execute
Spec == Init /\ [][Next]_vars
\* The compiler does not stop before the analysis is done: weak fairness of the
\* steps before stage "run", which are enabled exactly while it is not reached
\* (written out, so that TLC need not evaluate ENABLED).
FairSpec == Spec /\ ([]<>(stage = "run") \/ []<><<stage # "run">>_vars)

----------------------------------------------------------------------------
(* Properties.                                                              *)
IsInterval(i) == i \in Endpoints /\ (i = Bottom \/ i.lo <= i.hi)
IsEnv(f, env) == DOMAIN env = Locals(f) /\ \A l \in Locals(f) : IsInterval(env[l]) /\ env[l] # Bottom
TypeOK ==
  /\ program \in DOMAIN Programs /\ stage \in {"callers", "finish", "run"}
  /\ \A f \in Funcs :
       /\ IsInterval(entry[f]) /\ moves[f] \in 0..WidenLimit
       /\ \A c \in contrib[f] : c.f \in Funcs /\ IsInterval(c.iv)
       /\ raw[f].in = None \/ \A b \in Blocks(f) :
            raw[f].in[b] = None \/ IsEnv(f, raw[f].in[b])
  /\ pinned \subseteq Funcs /\ todo \subseteq Funcs
  /\ work # Idle => work.fn \in Funcs /\ facts.steps \in 0..StepCap /\ facts.round \in 0..(WidenLimit + 2)
  /\ at.f # 0 => at.f \in Funcs /\ at.b \in Blocks(at.f)

\* The analysis that reaches the flags is the one of the final seed: after the
\* last round no cached analysis is out of date.
CacheCurrent ==
  stage = "finish" => \A f \in Funcs : cache[f].in # None => cache[f].seed = BuildSeed(f)

\* Whenever a run enters a block, whatever the calls, raises and loops before
\* it, the analysis considered the block reachable and every local holds a
\* value of its interval.
EnvSound ==
  stage = "run" /\ at.f # 0 /\ at.i = 1 /\ raw[at.f].in # None =>
    /\ raw[at.f].in[at.b] # None
    /\ \A l \in Locals(at.f) :
         store[l] # Unbound => store[l].n \in Values(raw[at.f].in[at.b][l])

\* What lives in an untagged slot, is computed by an untagged instruction or is
\* returned untagged stays within the bound, and so do the operands.
Small(n) == -Bound <= n /\ n <= Bound
RawInBound ==
  stage = "run" /\ at.f # 0 =>
    /\ \A l \in raw[at.f].locals : Small(store[l].n)
    /\ InStmt /\ <<at.b, at.i>> \in raw[at.f].exprs =>
         /\ ~DividesByZero(store, Arithmetic)
         /\ Small(Outcome(store, Arithmetic).n)
         /\ Small(ValueOf(store, Arithmetic.l).n) /\ Small(ValueOf(store, Arithmetic.r).n)
    /\ InTerm /\ Here.term.k = "return" /\ raw[at.f].ret => Small(ValueOf(store, Here.term.e).n)

\* A bool keeps its tag: it is never stored in an untagged int slot.
BoolsKept ==
  stage = "run" /\ at.f # 0 => \A l \in raw[at.f].locals : store[l].k # "bool"

\* Every whole-program analysis ends.
AnalysisEnds == <>(stage = "run")
=============================================================================
