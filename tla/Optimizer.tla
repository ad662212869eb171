----------------------------- MODULE Optimizer -----------------------------
(* optimizer/src: the passes of PassManager::phase9 over a program picked    *)
(* from Sources, one action per pass and one per spliced call.  Whatever the *)
(* passes do, the program behaves as it was written.                         *)
EXTENDS Mir

CONSTANTS
  Sources,        \* lowered programs, each a sequence of functions (1 is main)
  FixnumMax,      \* the fixnums are -FixnumMax-1..FixnumMax
  MaxInsts,       \* the largest function that is inlined, 64 in the code
  Fuel            \* bound of the model: no program runs for more steps

OptimizerAssumption ==
  /\ FixnumMax \in Nat \ {0} /\ MaxInsts \in Nat /\ Fuel \in Nat
  /\ \A s \in Sources : \A f \in DOMAIN s : s[f].np <= Len(s[f].reprs) /\ s[f].blocks # <<>>

VARIABLES
  code,           \* the program as the passes have left it
  expected,       \* what the program as written does
  pass,           \* the pass to run; 0 when done
  inl             \* the inliner: its caller, blocks to scan, callers left
vars == <<code, expected, pass, inl>>

\* The nodes reached from S.
RECURSIVE Reach(_, _)
Reach(next, S) ==
  LET T == S \cup UNION {next[x] : x \in S} IN IF T = S THEN S ELSE Reach(next, T)
Blocks(fn) == DOMAIN fn.blocks
Insts(fn) == FlattenSeq([b \in Blocks(fn) |-> fn.blocks[b].insts])
TermReads(term) ==
  CASE term.k = "branch" -> <<term.cond>> [] term.k = "return" /\ term.l # 0 -> <<term.l>> [] OTHER -> <<>>
ReachableBlocks(fn) == Reach([b \in Blocks(fn) |-> Succ(fn, b)], {1})
\* read_counts.
ReadCounts(fn) ==
  LET reads == FlattenSeq([i \in DOMAIN Insts(fn) |-> Insts(fn)[i].args])
               \o FlattenSeq([b \in Blocks(fn) |-> TermReads(fn.blocks[b].term)])
  IN [l \in DOMAIN fn.reprs |-> Cardinality({i \in DOMAIN reads : reads[i] = l})]
OnBlocks(fn, rewrite(_)) == [fn EXCEPT !.blocks = [b \in Blocks(fn) |-> rewrite(fn.blocks[b])]]

----------------------------------------------------------------------------
(* constfold: a forward scan of each block; a constant is known until its    *)
(* local is written again.                                                   *)
NotKnown == Constant("?", 0)
IntFits(n) == -FixnumMax - 1 <= n /\ n <= FixnumMax
FoldedBin(ins, c) ==
  LET n == Arith(ins.x, c[1].n, c[2].n) IN IF IntFits(n) THEN IntConst(ins.dst, n) ELSE ins
FoldedBool(ins, truth) == IntConst(ins.dst, IF truth THEN 1 ELSE 0)
FoldInst(ins, known, reprs) ==
  LET c == [j \in DOMAIN ins.args |-> known[ins.args[j]]]
      Both(kind) == c[1].k = kind /\ c[2].k = kind
      HasTruth == c[1].k \in {"int", "bool", "none"}
  IN CASE ins.op = "bin" /\ ins.x \in {"add", "sub", "mul"} /\ reprs[ins.dst] = "T" /\ Both("int") -> FoldedBin(ins, c)
       [] ins.op = "cmp" /\ reprs[ins.dst] = "B" /\ (Both("int") \/ Both("bool")) ->
            FoldedBool(ins, Holds(ins.x, c[1].n, c[2].n))
       [] ins.op = "truthy" /\ HasTruth -> FoldedBool(ins, IsTrue(c[1]))
       [] ins.op = "not" /\ reprs[ins.dst] = "B" /\ HasTruth -> FoldedBool(ins, ~IsTrue(c[1]))
       [] OTHER -> ins
Learn(known, ins) ==
  IF ins.dst = 0 THEN known
  ELSE [known EXCEPT ![ins.dst] = IF ins.op = "const" THEN ins.x ELSE NotKnown]
FoldBranch(term, known) ==
  IF term.k = "branch" /\ known[term.cond].k = "int"
  THEN Goto(IF known[term.cond].n # 0 THEN term.to ELSE term.else) ELSE term
FoldBlock(reprs, blk) ==
  LET Visit(acc, ins) ==
        LET new == FoldInst(ins, acc.known, reprs)
        IN [known |-> Learn(acc.known, new), out |-> Append(acc.out, new)]
      end == FoldLeft(Visit, [known |-> [l \in DOMAIN reprs |-> NotKnown], out |-> <<>>], blk.insts)
  IN [blk EXCEPT !.insts = end.out, !.term = FoldBranch(@, end.known)]
Folded(fn) == OnBlocks(fn, LAMBDA blk : FoldBlock(fn.reprs, blk))

----------------------------------------------------------------------------
(* peephole: coercion round trips, chains of empty blocks, branches to one   *)
(* target.                                                                   *)
NoCoerce == [src |-> 0, from |-> "", to |-> ""]
TripInst(ins, seen) ==
  LET first == seen[ins.args[1]]
  IN IF ins.op = "coerce" /\ first # NoCoerce /\ ins.x.from = first.to /\ ins.x.to = first.from
     THEN Coerce(ins.dst, first.src, first.from, first.from) ELSE ins
Forget(seen, d) ==
  IF d = 0 THEN seen
  ELSE [l \in DOMAIN seen |-> IF l = d \/ seen[l].src = d THEN NoCoerce ELSE seen[l]]
Remember(seen, ins) ==
  IF ins.op = "coerce" /\ ~ins.x.checked /\ ins.x.from # ins.x.to
  THEN [seen EXCEPT ![ins.dst] = [src |-> ins.args[1], from |-> ins.x.from, to |-> ins.x.to]] ELSE seen
RoundTrips(reprs, blk) ==
  LET Visit(acc, ins) ==
        LET new == IF ins.op = "coerce" THEN TripInst(ins, acc.seen) ELSE ins
        IN [seen |-> Remember(Forget(acc.seen, new.dst), new), out |-> Append(acc.out, new)]
  IN [blk EXCEPT !.insts = FoldLeft(Visit, [seen |-> [l \in DOMAIN reprs |-> NoCoerce], out |-> <<>>], @).out]

\* Where control goes that enters b, through empty blocks; a cycle of them is
\* left where it is entered.
RECURSIVE Chase(_, _, _)
Chase(fn, b, path) ==
  LET blk == fn.blocks[b]
  IN IF b \in path \/ blk.insts # <<>> \/ blk.term.k # "jump" THEN b
     ELSE Chase(fn, blk.term.to, path \cup {b})
Retarget(term, to) ==
  CASE term.k = "jump" -> [term EXCEPT !.to = to[@]]
    [] term.k = "branch" -> [term EXCEPT !.to = to[@], !.else = to[@]]
    [] OTHER -> term
Collapse(term) == IF term.k = "branch" /\ term.to = term.else THEN Goto(term.to) ELSE term
ThreadBlock(fn, blk) ==
  LET to == [b \in Blocks(fn) |-> Chase(fn, b, {})]
  IN [blk EXCEPT !.handler = IF @ = 0 THEN 0 ELSE to[@], !.term = Collapse(Retarget(@, to))]
Peepholed(fn) ==
  LET tripped == OnBlocks(fn, LAMBDA blk : RoundTrips(fn.reprs, blk))
  IN OnBlocks(tripped, LAMBDA blk : ThreadBlock(tripped, blk))

----------------------------------------------------------------------------
(* dce: unreachable blocks are blanked, instructions without an effect whose *)
(* result nobody reads are removed until there are none.                     *)
HasSideEffects(ins, reprs) ==
  CASE ins.op \in {"const", "closure"} -> FALSE
    [] ins.op = "coerce" -> ins.x.checked
    [] ins.op \in {"bin", "cmp", "truthy", "not"} ->
         (ins.op = "bin" /\ ins.x = "floordiv") \/ \E j \in DOMAIN ins.args : reprs[ins.args[j]] \notin {"I", "B"}
    [] OTHER -> TRUE
BlankUnreachable(fn) ==
  LET reached == ReachableBlocks(fn)
  IN [fn EXCEPT !.blocks = [b \in Blocks(fn) |-> IF b \in reached THEN @[b] ELSE MirBlock(<<>>, Unreachable, 0)]]
RECURSIVE Swept(_)
Swept(fn) ==
  LET reads == ReadCounts(fn)
      Kept(ins) == HasSideEffects(ins, fn.reprs) \/ reads[ins.dst] # 0
      swept == OnBlocks(fn, LAMBDA blk : [blk EXCEPT !.insts = SelectSeq(@, Kept)])
  IN IF swept = fn THEN fn ELSE Swept(swept)
DeadRemoved(fn) == Swept(BlankUnreachable(fn))

----------------------------------------------------------------------------
(* inline: callees first, every eligible direct call is replaced by a copy   *)
(* of its callee, as the callee now is.                                      *)
IsLine(ins) == ins.op = "line"
IsMarker(ins) == ins.op = "line" /\ ins.x.frames = <<>>
RealSize(fn) == Len(SelectSeq(Insts(fn), LAMBDA ins : ~IsLine(ins)))
Inlineable(fn) == RealSize(fn) <= MaxInsts /\ \A b \in Blocks(fn) : fn.blocks[b].handler = 0
CallsOf(fn, op) == {Insts(fn)[i].x : i \in {j \in DOMAIN Insts(fn) : Insts(fn)[j].op = op}}
ThunkSet == UNION {CallsOf(code[f], "closure") : f \in DOMAIN code}

\* call_graph_sccs: what each function reaches; the callees-first order.
CallGraph == [f \in DOMAIN code |-> CallsOf(code[f], "call")]
SccOf(f) == {f} \cup {g \in Reach(CallGraph, {f}) : f \in Reach(CallGraph, CallGraph[g])}
RECURSIVE CalleesFirst(_)
CalleesFirst(rest) ==
  IF rest = {} THEN <<>>
  ELSE LET ready == {f \in rest : Reach(CallGraph, {f}) \cap rest \subseteq SccOf(f)}
           f == CHOOSE g \in ready : \A h \in ready : g <= h
       IN <<f>> \o CalleesFirst(rest \ {f})

\* line_at_block_entry: the one line every path brings to block b, or 0.
ExitLine(fn, b, line) ==
  LET marks == SelectSeq(fn.blocks[b].insts, IsMarker) IN IF marks = <<>> THEN line ELSE Last(marks).x.line
LineAtEntry(fn, b) ==
  LET lines == {0} \cup {Insts(fn)[i].x.line : i \in {j \in DOMAIN Insts(fn) : IsMarker(Insts(fn)[j])}}
      next == [e \in Blocks(fn) \X lines |-> Succ(fn, e[1]) \X {ExitLine(fn, e[1], e[2])}]
      at == {e[2] : e \in {x \in Reach(next, {<<1, 0>>}) : x[1] = b}}
  IN IF Cardinality(at) = 1 THEN CHOOSE line \in at : TRUE ELSE 0
CallLine(fn, b, i) ==
  LET marks == SelectSeq(SubSeq(fn.blocks[b].insts, 1, i - 1), IsMarker)
  IN IF marks = <<>> THEN LineAtEntry(fn, b) ELSE Last(marks).x.line

\* maybe_read_before_write: the locals some path reads before it writes them.
ReadFirst(fn) ==
  LET Writes(b, l) == \E i \in DOMAIN fn.blocks[b].insts : fn.blocks[b].insts[i].dst = l
      Unwritten(l) == Reach([b \in Blocks(fn) |-> IF Writes(b, l) THEN {} ELSE Succ(fn, b)], {1})
      ReadsFirst(b, l) ==
        LET insts == fn.blocks[b].insts
        IN \/ \E i \in DOMAIN insts : Contains(insts[i].args, l) /\ \A j \in 1..(i - 1) : insts[j].dst # l
           \/ Contains(TermReads(fn.blocks[b].term), l) /\ ~Writes(b, l)
  IN {l \in (fn.np + 1)..Len(fn.reprs) : \E b \in Unwritten(l) : ReadsFirst(b, l)}

\* push_inline_frame: a spliced line lies one call deeper.
Rehomed(ins, g, line) ==
  IF IsLine(ins) /\ line # 0 THEN [ins EXCEPT !.x.frames = <<[func |-> g, line |-> line]>> \o @] ELSE ins
Renamed(ins, off) ==
  [ins EXCEPT !.dst = IF @ = 0 THEN 0 ELSE @ + off, !.args = [j \in DOMAIN @ |-> @[j] + off]]
RenamedTerm(term, off, boff) ==
  CASE term.k = "jump" -> Goto(term.to + boff)
    [] term.k = "branch" -> If(term.cond + off, term.to + boff, term.else + boff)
    [] OTHER -> term

\* Mutant: a bare return leaves the destination of the call alone.
ReturnMoveOnly(d, l, off, repr) == IF d = 0 \/ l = 0 THEN <<>> ELSE <<Coerce(d, l + off, repr, repr)>>
\* What a return of the callee writes to the destination of the call; a bare
\* return writes the default of its representation (emit_default_ret).
ReturnMove(d, l, off, repr) ==
  IF d = 0 THEN <<>>
  ELSE IF l # 0 THEN <<Coerce(d, l + off, repr, repr)>>
  ELSE <<IF repr \in {"I", "B"} THEN IntConst(d, 0) ELSE Const(d, Constant("none", 0))>>
Rezero(l, repr) == IF repr \in {"I", "B"} THEN IntConst(l, 0) ELSE Const(l, Constant("null", 0))

\* splice: function fn with the call at instruction i of block b replaced by
\* the body of g.  The last new block continues after the call.
Spliced(fn, b, i, g) ==
  LET body == code[g]
      blk == fn.blocks[b]
      call == blk.insts[i]
      off == Len(fn.reprs)
      boff == Len(fn.blocks)
      cont == boff + Len(body.blocks) + 1
      line == CallLine(fn, b, i)
      rest == SubSeq(blk.insts, i + 1, Len(blk.insts))
      suffix == IF line = 0 \/ (rest # <<>> /\ IsMarker(rest[1])) THEN rest ELSE <<LineMarker(line)>> \o rest
      moves == [p \in 1..body.np |-> Coerce(off + p, call.args[p], body.reprs[p], body.reprs[p])]
      stale == SetToSeq({l \in ReadFirst(body) : body.reprs[l] \notin {"C", "H"}})
      zeros == [k \in DOMAIN stale |-> Rezero(off + stale[k], body.reprs[stale[k]])]
      site == MirBlock(SubSeq(blk.insts, 1, i - 1) \o moves \o zeros, Goto(boff + 1), blk.handler)
      Copy(old) ==
        LET insts == [j \in DOMAIN old.insts |-> Rehomed(Renamed(old.insts[j], off), g, line)]
        IN IF old.term.k = "return"
           THEN MirBlock(insts \o ReturnMove(call.dst, old.term.l, off, body.ret), Goto(cont), blk.handler)
           ELSE MirBlock(insts, RenamedTerm(old.term, off, boff), blk.handler)
      copies == [c \in Blocks(body) |-> Copy(body.blocks[c])]
  IN [fn EXCEPT !.reprs = @ \o body.reprs,
                !.blocks = [@ EXCEPT ![b] = site] \o copies \o <<MirBlock(suffix, blk.term, blk.handler)>>]

----------------------------------------------------------------------------
(* devirt: a call of a closure whose identity is known becomes a direct call *)
(* of the function its thunk calls.                                          *)
NoTarget == [f |-> 0, env |-> FALSE]
\* analyze_thunk.
Target(f) ==
  LET calls == SelectSeq(Insts(code[f]), LAMBDA ins : ins.op = "call")
      others == SelectSeq(Insts(code[f]), LAMBDA ins : ins.op \in {"indirect", "bound"})
  IN IF Len(calls) # 1 \/ others # <<>> THEN NoTarget
     ELSE [f |-> calls[1].x, env |-> calls[1].args # <<>> /\ calls[1].args[1] = 1]

Sites(fn) == UNION {{b} \X DOMAIN fn.blocks[b].insts : b \in Blocks(fn)}
At(fn, s) == fn.blocks[s[1]].insts[s[2]]
Defs(fn, l) == {s \in Sites(fn) : At(fn, s).dst = l}
BitIdentity(ins) ==
  ins.op = "coerce" /\ ~ins.x.checked /\ {ins.x.from, ins.x.to} \cap {"I", "B"} = {}
\* resolve_to_makeclosure and chain_dominates: the thunk of the closure in l at
\* site s, if each local on the way to it has one definition, in the entry
\* block or earlier in the block of s.
RECURSIVE ClosureOf(_, _, _)
ClosureOf(fn, l, s) ==
  IF Cardinality(Defs(fn, l)) # 1 THEN 0
  ELSE LET d == CHOOSE x \in Defs(fn, l) : TRUE
       IN CASE ~(d[1] = 1 \/ (d[1] = s[1] /\ d[2] < s[2])) -> 0
            [] At(fn, d).op = "closure" -> At(fn, d).x
            [] BitIdentity(At(fn, d)) -> ClosureOf(fn, At(fn, d).args[1], s)
            [] OTHER -> 0

\* The only definition of l in block b that a single use reads.
OnlyDef(fn, l, b) ==
  LET defs == Defs(fn, l) IN IF Cardinality(defs) = 1 /\ ReadCounts(fn)[l] = 1 THEN {s \in defs : s[1] = b} ELSE {}
\* The tuple builder and the coercion that feed the call at s, both read once.
Builders(fn, s) ==
  {<<p, c>> \in Sites(fn) \X OnlyDef(fn, At(fn, s).args[2], s[1]) :
     /\ At(fn, c).op = "coerce" /\ At(fn, c).x = [from |-> "H", to |-> "T", checked |-> FALSE]
     /\ p \in OnlyDef(fn, At(fn, c).args[1], s[1]) /\ At(fn, p).op = "pack"}
NoKeywords(fn, s) ==
  \E d \in Defs(fn, At(fn, s).args[3]) :
    Defs(fn, At(fn, s).args[3]) = {d} /\ At(fn, d).op = "const" /\ At(fn, d).x.k = "null"
Arity(fn, s) == Len(At(fn, (CHOOSE pc \in Builders(fn, s) : TRUE)[1]).args)
Devirtualizable(fn, s) ==
  /\ At(fn, s).op = "indirect" /\ NoKeywords(fn, s) /\ Builders(fn, s) # {}
  /\ LET thunk == ClosureOf(fn, At(fn, s).args[1], s)
     IN /\ thunk # 0 /\ Target(thunk) # NoTarget
        /\ code[Target(thunk).f].np = Arity(fn, s) + (IF Target(thunk).env THEN 1 ELSE 0)

\* Mutant: an argument is taken to have the parameter's representation.
ArgCoerceAsIs(d, s, from, to) == Coerce(d, s, to, to)
\* make_arg_coerce: a raw parameter is checked, as in the thunk.
ArgCoerce(d, s, from, to) == IF to \in {"I", "B"} THEN CheckedCoerce(d, s, to) ELSE Coerce(d, s, from, to)
\* The call at s made direct, with the locals it needs after those of fn.
Direct(fn, s) ==
  LET call == At(fn, s)
      target == Target(ClosureOf(fn, call.args[1], s))
      callee == code[target.f]
      pc == CHOOSE x \in Builders(fn, s) : TRUE
      given == (IF target.env THEN <<call.args[1]>> ELSE <<>>) \o At(fn, pc[1]).args
      Same(p) == fn.reprs[given[p]] = callee.reprs[p]
      moved == SelectSeq([p \in 1..callee.np |-> p], LAMBDA p : ~Same(p))
      Temp(p) == Len(fn.reprs) + (CHOOSE k \in DOMAIN moved : moved[k] = p)
      r == Len(fn.reprs) + Len(moved) + 1
      coerces == [k \in DOMAIN moved |->
                    ArgCoerce(Temp(moved[k]), given[moved[k]], fn.reprs[given[moved[k]]], callee.reprs[moved[k]])]
      args == [p \in 1..callee.np |-> IF Same(p) THEN given[p] ELSE Temp(p)]
      boxed == callee.ret # "T"
      calls == IF boxed THEN <<CallTo(r, target.f, args), Coerce(call.dst, r, callee.ret, "T")>>
               ELSE <<CallTo(call.dst, target.f, args)>>
      NewInsts(b) ==
        FlattenSeq([i \in DOMAIN fn.blocks[b].insts |->
          CASE <<b, i>> = s -> coerces \o calls [] <<b, i>> \in {pc[1], pc[2]} -> <<>> [] OTHER -> <<fn.blocks[b].insts[i]>>])
  IN [fn EXCEPT !.reprs = @ \o [k \in DOMAIN moved |-> callee.reprs[moved[k]]] \o (IF boxed THEN <<callee.ret>> ELSE <<>>),
                !.blocks[s[1]].insts = NewInsts(s[1])]
RECURSIVE Devirtualized(_)
Devirtualized(fn) ==
  LET sites == {s \in Sites(fn) : Devirtualizable(fn, s)}
  IN IF sites = {} THEN fn ELSE Devirtualized(Direct(fn, CHOOSE s \in sites : TRUE))

----------------------------------------------------------------------------
(* PassManager::phase9.                                                     *)
Idle == [order |-> <<>>, caller |-> 0, work |-> <<>>, ok |-> {}, scc |-> <<>>]
Init ==
  /\ code \in Sources /\ expected = Behaviour(code, Fuel)
  /\ pass = 1 /\ inl = Idle
ApplyPass(p, new) ==
  /\ pass = p /\ code' = new
  /\ pass' = (p + 1) % 9 /\ UNCHANGED <<expected, inl>>
ConstFold == \E p \in {1, 6} : ApplyPass(p, [f \in DOMAIN code |-> Folded(code[f])])
Peephole == \E p \in {2, 7} : ApplyPass(p, [f \in DOMAIN code |-> Peepholed(code[f])])
Dce == \E p \in {3, 8} : ApplyPass(p, [f \in DOMAIN code |-> DeadRemoved(code[f])])
Devirt == ApplyPass(5, [f \in DOMAIN code |-> Devirtualized(code[f])])

\* What may be inlined is decided on the functions as they are now, and thunks
\* keep their calls.
StartInline ==
  /\ pass = 4 /\ inl = Idle
  /\ inl' = [order |-> SelectSeq(CalleesFirst(DOMAIN code), LAMBDA f : f \notin ThunkSet),
             caller |-> 0, work |-> <<>>, ok |-> {f \in DOMAIN code : Inlineable(code[f])},
             scc |-> [f \in DOMAIN code |-> SccOf(f)]]
  /\ UNCHANGED <<code, expected, pass>>
Eligible(f, ins) ==
  /\ ins.op = "call" /\ ins.x \notin inl.scc[f] /\ ins.x \in inl.ok
  /\ RealSize(code[ins.x]) <= 8 * MaxInsts
SitesIn(f, b) == {i \in DOMAIN code[f].blocks[b].insts : Eligible(f, code[f].blocks[b].insts[i])}
\* Blocks are scanned from the end; one without a site is passed over.
WithSite == {j \in DOMAIN inl.work : SitesIn(inl.caller, inl.work[j]) # {}}
NextCaller ==
  /\ pass = 4 /\ inl # Idle /\ WithSite = {} /\ inl.order # <<>>
  /\ inl' = [inl EXCEPT !.order = Tail(@), !.caller = Head(inl.order),
                        !.work = [b \in Blocks(code[Head(inl.order)]) |-> b]]
  /\ UNCHANGED <<code, expected, pass>>
Splice ==
  /\ pass = 4 /\ WithSite # {}
  /\ LET j == CHOOSE k \in WithSite : \A h \in WithSite : h <= k
         f == inl.caller
         b == inl.work[j]
         i == CHOOSE k \in SitesIn(f, b) : \A h \in SitesIn(f, b) : k <= h
         new == Spliced(code[f], b, i, code[f].blocks[b].insts[i].x)
     IN /\ code' = [code EXCEPT ![f] = new]
        /\ inl' = [inl EXCEPT !.work = Append(SubSeq(@, 1, j - 1), Len(new.blocks))]
  /\ UNCHANGED <<expected, pass>>
EndInline ==
  /\ pass = 4 /\ inl # Idle /\ WithSite = {} /\ inl.order = <<>>
  /\ pass' = 5 /\ inl' = Idle /\ UNCHANGED <<code, expected>>

Next == ConstFold \/ Peephole \/ Dce \/ Devirt \/ StartInline \/ NextCaller \/ Splice \/ EndInline
Spec == Init /\ [][Next]_vars

----------------------------------------------------------------------------
(* Properties.                                                              *)
\* verify: what an instruction reads and writes has the representations it is
\* for, calls match their callee, and control stays in the function.
LegalCoercion(x) ==
  IF x.checked THEN x.from = "T" /\ x.to \in {"I", "B", "H"} ELSE x.from = x.to \/ "T" \in {x.from, x.to}
InstVerified(fn, ins) ==
  LET repr(j) == fn.reprs[ins.args[j]]
      dst == fn.reprs[ins.dst]
  IN CASE ins.op = "const" -> dst = "T" \/ (dst \in {"I", "B"} /\ ins.x.k = "int")
       [] ins.op = "coerce" -> repr(1) = ins.x.from /\ dst = ins.x.to /\ LegalCoercion(ins.x)
       [] ins.op = "bin" -> repr(1) \in {"T", "I"} /\ repr(2) = repr(1) /\ dst = repr(1)
       [] ins.op = "cmp" -> repr(1) \in {"T", "I"} /\ repr(2) = repr(1) /\ dst = "B"
       [] ins.op \in {"truthy", "not"} -> repr(1) = "T" /\ dst = "B"
       [] ins.op = "closure" ->
            /\ dst = "C" /\ code[ins.x].ret = "T"
            /\ SubSeq(code[ins.x].reprs, 1, code[ins.x].np) = <<"T", "T", "T">>
       [] ins.op = "pack" -> dst = "H" /\ \A j \in DOMAIN ins.args : repr(j) = "T"
       [] ins.op = "get" -> repr(1) = "H" /\ dst = "T"
       [] ins.op = "count" -> repr(1) = "H"
       [] ins.op = "bound" -> repr(1) = "T" /\ dst = "T"
       [] ins.op = "print" -> repr(1) = "T"
       [] ins.op = "call" ->
            /\ [j \in DOMAIN ins.args |-> repr(j)] = SubSeq(code[ins.x].reprs, 1, code[ins.x].np)
            /\ ins.dst # 0 => dst = code[ins.x].ret
       [] ins.op = "indirect" -> repr(1) = "C" /\ repr(2) = "T" /\ repr(3) = "T" /\ dst = "T"
       [] OTHER -> TRUE
Verified(fn) ==
  \A b \in Blocks(fn) :
    LET blk == fn.blocks[b]
    IN /\ \A i \in DOMAIN blk.insts : InstVerified(fn, blk.insts[i])
       /\ \A i \in DOMAIN blk.insts : blk.insts[i].op = "raise" => i = Len(blk.insts) /\ blk.term = Unreachable
       /\ Targets(blk.term) \subseteq Blocks(fn) /\ blk.handler \in (Blocks(fn) \cup {0}) \ {1, b}
       /\ blk.term.k = "branch" => fn.reprs[blk.term.cond] = "B"
       /\ blk.term.k = "return" /\ blk.term.l # 0 => fn.reprs[blk.term.l] = fn.ret
\* The program passes the verifier after every pass, as it must.
TypeOK == pass \in 0..8 /\ \A f \in DOMAIN code : Verified(code[f])

\* After every pass and every spliced call, the program prints what the program
\* as written prints, ends as it does, and the traceback of an exception nobody
\* catches has the same frames and lines.
BehaviourKept == Behaviour(code, Fuel) = expected
=============================================================================
