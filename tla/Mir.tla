-------------------------------- MODULE Mir --------------------------------
(* MIR as the optimizer sees it, and what the compiled program does: the     *)
(* values it prints, and the traceback of an exception nobody catches.  A    *)
(* value or a register is [k, n]; k is "raw" in an untagged register.        *)
EXTENDS Integers, Sequences, SequencesExt, FiniteSets

----------------------------------------------------------------------------
(* Programs.  Representations: "T" tagged, "I" and "B" raw integers of 64    *)
(* and 8 bits, "C" a closure, "H" a tuple.  A function is [np, reprs, ret,   *)
(* thunk, blocks]: locals 1..np are its parameters, block 1 its entry, and   *)
(* ret the representation it returns.  Handler, local or operand 0: none.    *)
Inst(op, dst, args, x) == [op |-> op, dst |-> dst, args |-> args, x |-> x]
Constant(k, n) == [k |-> k, n |-> n]
Const(d, c) == Inst("const", d, <<>>, c)
IntConst(d, n) == Const(d, Constant("int", n))
Coerce(d, s, from, to) == Inst("coerce", d, <<s>>, [from |-> from, to |-> to, checked |-> FALSE])
CheckedCoerce(d, s, to) == Inst("coerce", d, <<s>>, [from |-> "T", to |-> to, checked |-> TRUE])
BinOp(d, op, l, r) == Inst("bin", d, <<l, r>>, op)
Cmp(d, op, l, r) == Inst("cmp", d, <<l, r>>, op)
Truthy(d, s) == Inst("truthy", d, <<s>>, "")
Not(d, s) == Inst("not", d, <<s>>, "")
CallTo(d, f, args) == Inst("call", d, args, f)
MakeClosure(d, f) == Inst("closure", d, <<>>, f)
CallIndirect(d, callee, tuple, kwargs) == Inst("indirect", d, <<callee, tuple, kwargs>>, "")
Pack(d, args) == Inst("pack", d, args, "")       \* TupleNew and its TupleSets
CountArgs(tuple, n) == Inst("count", 0, <<tuple>>, n)
GetArg(d, tuple, i) == Inst("get", d, <<tuple>>, i)
CheckBound(d, s) == Inst("bound", d, <<s>>, "")
Raise == Inst("raise", 0, <<>>, "")
Show(s) == Inst("print", 0, <<s>>, "")
LineMarker(n) == Inst("line", 0, <<>>, [line |-> n, frames |-> <<>>])

Goto(b) == [k |-> "jump", to |-> b]
If(c, a, b) == [k |-> "branch", cond |-> c, to |-> a, else |-> b]
Ret(l) == [k |-> "return", l |-> l]
Unreachable == [k |-> "unreachable"]
MirBlock(insts, term, h) == [insts |-> insts, term |-> term, handler |-> h]

Targets(term) ==
  CASE term.k = "jump" -> {term.to} [] term.k = "branch" -> {term.to, term.else} [] OTHER -> {}
Succ(fn, b) == Targets(fn.blocks[b].term) \cup ({fn.blocks[b].handler} \ {0})

----------------------------------------------------------------------------
(* Values.  A tagged integer is exact: one outside the fixnums is boxed as a *)
(* big integer.                                                              *)
ConstValue(c, repr) == IF repr \in {"I", "B"} THEN Constant("raw", c.n) ELSE c
Zeroed(repr) == IF repr \in {"I", "B"} THEN Constant("raw", 0) ELSE Constant("null", 0)
\* What a call that returns without a value leaves in its destination: an
\* untagged integer is the bits of None, 0b101.
DefaultRet(repr) ==
  CASE repr = "I" -> Constant("raw", 5) [] repr = "B" -> Constant("raw", 0) [] OTHER -> Constant("none", 0)

Convert(v, from, to) ==
  CASE from = "I" /\ to = "T" -> Constant("int", v.n)
    [] from = "B" /\ to = "T" -> Constant("bool", v.n)
    [] from = "T" /\ to \in {"I", "B"} -> Constant("raw", v.n)
    [] OTHER -> v
Admits(to, v) == CASE to = "I" -> v.k \in {"int", "bool"} [] to = "B" -> v.k = "bool" [] OTHER -> TRUE

Arith(op, a, b) == CASE op = "add" -> a + b [] op = "sub" -> a - b [] op = "mul" -> a * b [] op = "floordiv" -> a \div b
Holds(op, a, b) ==
  CASE op = "eq" -> a = b [] op = "ne" -> a # b [] op = "lt" -> a < b
    [] op = "le" -> a <= b [] op = "gt" -> a > b [] op = "ge" -> a >= b
Raw01(b) == Constant("raw", IF b THEN 1 ELSE 0)
IsTrue(v) == v.k \in {"int", "bool", "raw"} /\ v.n # 0

----------------------------------------------------------------------------
(* Source locations: a marker holds until the next one, in the order of the  *)
(* blocks.                                                                   *)
Before(fn, b, i) == FlattenSeq([c \in 1..b |-> IF c = b THEN SubSeq(fn.blocks[b].insts, 1, i - 1) ELSE fn.blocks[c].insts])
SrcLoc(fn, b, i) ==
  LET marks == SelectSeq(Before(fn, b, i), LAMBDA ins : ins.op = "line")
  IN IF marks = <<>> THEN [line |-> 0, frames |-> <<>>] ELSE Last(marks).x
\* The frames an inlined location stands for, outermost first; thunks have none.
InlineChain(code, f, loc) ==
  LET frames == Append(loc.frames, [func |-> 0, line |-> loc.line])
      Func(i) == IF i = 1 THEN f ELSE frames[i - 1].func
  IN SelectSeq([i \in DOMAIN frames |-> [func |-> Func(i), line |-> frames[i].line]],
               LAMBDA e : ~code[e.func].thunk)

----------------------------------------------------------------------------
(* The machine: a stack of activations [f, b, i, env], what was printed, and *)
(* how it ended ("" while it runs).                                          *)
Activation(code, f, args) ==
  [f |-> f, b |-> 1, i |-> 1,
   env |-> [l \in DOMAIN code[f].reprs |-> IF l <= Len(args) THEN args[l] ELSE Zeroed(code[f].reprs[l])]]
Started(code) == [stack |-> <<Activation(code, 1, <<>>)>>, shown |-> <<>>, end |-> "", trace |-> <<>>]

Traceback(code, stack) ==
  FlattenSeq([d \in DOMAIN stack |-> InlineChain(code, stack[d].f, SrcLoc(code[stack[d].f], stack[d].b, stack[d].i))])
\* An exception goes to the innermost activation whose block has a handler.
Throw(code, m, kind) ==
  LET Handler(d) == code[m.stack[d].f].blocks[m.stack[d].b].handler
      catching == {d \in DOMAIN m.stack : Handler(d) # 0}
  IN IF catching = {} THEN [m EXCEPT !.end = kind, !.trace = Traceback(code, m.stack), !.stack = <<>>]
     ELSE LET d == CHOOSE e \in catching : \A c \in catching : c <= e
          IN [m EXCEPT !.stack = Append(SubSeq(@, 1, d - 1), [@[d] EXCEPT !.b = Handler(d), !.i = 1])]

Fails(a, ins) ==
  CASE ins.op = "bin" -> ins.x = "floordiv" /\ a[2].n = 0
    [] ins.op = "coerce" -> ins.x.checked /\ ~Admits(ins.x.to, a[1])
    [] ins.op = "bound" -> a[1].k = "unbound"
    [] ins.op = "count" -> Len(a[1].items) # ins.x
    [] OTHER -> ins.op = "raise"
Result(a, ins, repr) ==
  CASE ins.op = "const" -> ConstValue(ins.x, repr)
    [] ins.op = "coerce" -> Convert(a[1], ins.x.from, ins.x.to)
    [] ins.op = "bin" -> Constant(IF repr = "T" THEN "int" ELSE "raw", Arith(ins.x, a[1].n, a[2].n))
    [] ins.op = "cmp" -> Raw01(Holds(ins.x, a[1].n, a[2].n))
    [] ins.op = "truthy" -> Raw01(IsTrue(a[1]))
    [] ins.op = "not" -> Raw01(~IsTrue(a[1]))
    [] ins.op = "closure" -> Constant("closure", ins.x)
    [] ins.op = "pack" -> [k |-> "tuple", items |-> a]
    [] ins.op = "get" -> a[1].items[ins.x]
    [] ins.op = "bound" -> a[1]

Finish(code, m, v) ==
  LET caller == m.stack[Len(m.stack) - 1]
      dst == code[caller.f].blocks[caller.b].insts[caller.i].dst
      back == [caller EXCEPT !.i = @ + 1, !.env = IF dst = 0 THEN @ ELSE [@ EXCEPT ![dst] = v]]
  IN IF Len(m.stack) = 1 THEN [m EXCEPT !.end = "done", !.stack = <<>>]
     ELSE [m EXCEPT !.stack = Append(SubSeq(@, 1, Len(@) - 2), back)]

Advance(code, m) ==
  LET fr == Last(m.stack)
      fn == code[fr.f]
      blk == fn.blocks[fr.b]
      ins == blk.insts[fr.i]
      a == [j \in DOMAIN ins.args |-> fr.env[ins.args[j]]]
      Top(new) == [m EXCEPT !.stack[Len(m.stack)] = new]
      Moved == [fr EXCEPT !.i = @ + 1]
      To(b) == Top([fr EXCEPT !.b = b, !.i = 1])
  IN IF fr.i > Len(blk.insts)
     THEN CASE blk.term.k = "jump" -> To(blk.term.to)
            [] blk.term.k = "branch" -> To(IF fr.env[blk.term.cond].n # 0 THEN blk.term.to ELSE blk.term.else)
            [] blk.term.k = "return" ->
                 Finish(code, m, IF blk.term.l = 0 THEN DefaultRet(fn.ret) ELSE fr.env[blk.term.l])
            [] OTHER -> [m EXCEPT !.end = "trap", !.stack = <<>>]
     ELSE IF Fails(a, ins) THEN Throw(code, m, ins.op)
     ELSE CASE ins.op = "line" -> Top(Moved)
            [] ins.op = "print" -> [Top(Moved) EXCEPT !.shown = Append(@, a[1])]
            [] ins.op = "call" -> [m EXCEPT !.stack = Append(@, Activation(code, ins.x, a))]
            [] ins.op = "indirect" -> [m EXCEPT !.stack = Append(@, Activation(code, a[1].n, a))]
            [] ins.op = "count" -> Top(Moved)
            [] OTHER -> Top([Moved EXCEPT !.env[ins.dst] = Result(a, ins, fn.reprs[ins.dst])])

RECURSIVE RunFrom(_, _, _)
RunFrom(code, m, fuel) ==
  IF m.end # "" \/ fuel = 0 THEN m ELSE RunFrom(code, Advance(code, m), fuel - 1)
\* What a user of the program sees.
Behaviour(code, fuel) ==
  LET m == RunFrom(code, Started(code), fuel) IN [shown |-> m.shown, end |-> m.end, trace |-> m.trace]
=============================================================================
