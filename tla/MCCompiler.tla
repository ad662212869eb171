----------------------------- MODULE MCCompiler -----------------------------
(* What is checked on given programs, side by side: the intervals of         *)
(* raw_ints and the optimizer on lowered functions, and the iterators that a *)
(* program builds over one another.  The models share no state, so a         *)
(* behaviour uses one and the others stay in an initial state.               *)
EXTENDS MCRawInts

CONSTANTS FixnumMax, MaxInsts, Fuel, Sentinel, PyNone, Null, Stop

VARIABLES using, code, expected, pass, inl, pipeline, lists, heap, py
optVars == <<code, expected, pass, inl>>
iterVars == <<pipeline, lists, heap, py>>

----------------------------------------------------------------------------
(* Lowered programs: main calls function 2 for i = 2, 1, 0; 3 is the thunk   *)
(* of function 2, which may call 4; 5 returns a closure of 3; 6 is the thunk *)
(* of 4.  A callee is [np, reprs, ret, thunk, blocks]; H is a Mir module.    *)
H == INSTANCE Mir
T(n) == [i \in 1..n |-> "T"]
Fn(reprs, ret, blocks) == [np |-> 1, reprs |-> reprs, ret |-> ret, thunk |-> FALSE, blocks |-> blocks]
Plain(insts, term) == H!MirBlock(insts, term, 0)
L(n) == <<H!LineMarker(n)>>
I(d, n) == <<H!IntConst(d, n)>>

Increment == Fn(T(3), "T", <<Plain(L(11) \o I(2, 1) \o <<H!BinOp(3, "add", 1, 2)>>, H!Ret(3))>>)
Overflow == Fn(T(4), "T", <<Plain(L(11) \o I(2, FixnumMax) \o I(3, 1) \o <<H!BinOp(4, "add", 2, 3)>>, H!Ret(4))>>)
Divide == Fn(T(3), "T", <<Plain(L(11) \o I(2, 6) \o <<H!BinOp(3, "floordiv", 2, 1)>>, H!Ret(3))>>)
\* if x == 1: return x; otherwise it falls off the end.
Partial ==
  Fn(<<"T", "T", "B">>, "T",
     <<Plain(L(11) \o I(2, 1) \o <<H!Cmp(3, "eq", 1, 2)>>, H!If(3, 2, 3)), Plain(L(12), H!Ret(1)), Plain(<<>>, H!Ret(0))>>)
\* if x < 1: y = 5; return y.
MaybeUnbound ==
  Fn(<<"T", "T", "T", "B", "T">>, "T",
     <<Plain(L(11) \o <<H!Const(2, H!Constant("unbound", 0))>> \o I(3, 1) \o <<H!Cmp(4, "lt", 1, 3)>>, H!If(4, 2, 3)),
       Plain(L(12) \o I(2, 5), H!Goto(3)), Plain(L(13) \o <<H!CheckBound(5, 2)>>, H!Ret(5))>>)
\* if x < 1: return x; return f(x - 1) + x, for f itself or its caller.
Recursive(f) ==
  Fn(<<"T", "T", "B", "T", "T", "T", "T">>, "T",
     <<Plain(L(11) \o I(2, 1) \o <<H!Cmp(3, "lt", 1, 2)>>, H!If(3, 2, 3)), Plain(L(12), H!Ret(1)),
       Plain(L(13) \o I(4, 1) \o <<H!BinOp(5, "sub", 1, 4), H!CallTo(6, f, <<5>>), H!BinOp(7, "add", 6, 1)>>, H!Ret(7))>>)
\* return 6 // g(x).
CallsOn == Fn(T(4), "T", <<Plain(L(11) \o <<H!CallTo(2, 4, <<1>>)>> \o I(3, 6) \o <<H!BinOp(4, "floordiv", 3, 2)>>, H!Ret(4))>>)
\* try: return 6 // g(x); except: return -1.
Guarded ==
  Fn(T(5), "T", <<Plain(L(11), H!Goto(2)),
                  H!MirBlock(L(12) \o <<H!CallTo(2, 4, <<1>>)>> \o I(3, 6) \o <<H!BinOp(4, "floordiv", 3, 2)>>, H!Ret(4), 3),
                  Plain(L(14) \o I(5, -1), H!Ret(5))>>)
\* return x and g(x): the blocks of the operator have no line of their own.
ShortCircuit ==
  Fn(<<"T", "B", "T", "T">>, "T",
     <<Plain(L(11) \o <<H!Coerce(3, 1, "T", "T"), H!Truthy(2, 1)>>, H!If(2, 2, 3)),
       Plain(<<H!CallTo(4, 4, <<1>>), H!Coerce(3, 4, "T", "T")>>, H!Goto(3)), Plain(<<>>, H!Ret(3))>>)
\* while x > 1: x = x - 1, in untagged registers.
RawLoop ==
  Fn(<<"I", "I", "B", "I", "I">>, "I",
     <<Plain(L(11), H!Goto(2)), Plain(L(12) \o I(2, 1) \o <<H!Cmp(3, "gt", 1, 2)>>, H!If(3, 3, 4)),
       Plain(L(13) \o I(4, 1) \o <<H!BinOp(5, "sub", 1, 4), H!Coerce(1, 5, "I", "I")>>, H!Goto(2)), Plain(L(14), H!Ret(1))>>)
\* old = x, boxed; x = old + 1; return x * old.
RoundTrip ==
  Fn(<<"I", "T", "I", "I", "I", "I", "I">>, "I",
     <<Plain(L(11) \o <<H!Coerce(2, 1, "I", "T")>> \o L(12) \o <<H!Coerce(7, 2, "T", "I")>> \o I(3, 1) \o <<H!BinOp(4, "add", 7, 3), H!Coerce(1, 4, "I", "I")>>
             \o L(13) \o <<H!Coerce(5, 2, "T", "I"), H!BinOp(6, "mul", 1, 5)>>, H!Ret(6))>>)
\* if 2 < 1 or not 1: return g(x); return x.
KnownBranch ==
  Fn(<<"T", "T", "T", "B", "B", "T">>, "T",
     <<Plain(L(11) \o I(2, 1) \o I(3, 2) \o <<H!Cmp(4, "lt", 3, 2)>>, H!If(4, 3, 2)),
       Plain(I(2, 1) \o <<H!Not(5, 2)>>, H!If(5, 3, 4)),
       Plain(L(12) \o <<H!CallTo(6, 4, <<1>>)>>, H!Ret(6)), Plain(L(13), H!Ret(1))>>)
\* 6 // x, whose value nobody reads; return x.
UnusedDivide == Fn(T(3), "T", <<Plain(L(11) \o I(2, 6) \o <<H!BinOp(3, "floordiv", 2, 1)>> \o L(12), H!Ret(1))>>)
IsOne == Fn(<<"T", "T", "B">>, "B", <<Plain(L(11) \o I(2, 1) \o <<H!Cmp(3, "eq", 1, 2)>>, H!Ret(3))>>)
Invert == Fn(<<"B", "T", "B">>, "B", <<Plain(L(11) \o <<H!Coerce(2, 1, "B", "T"), H!Not(3, 2)>>, H!Ret(3))>>)
Nested == [Fn(T(4), "T", <<Plain(L(11) \o I(3, 1) \o <<H!BinOp(4, "add", 2, 3)>>, H!Ret(4))>>) EXCEPT !.np = 2]

Double == Fn(T(3), "T", <<Plain(L(21) \o I(2, 2) \o <<H!BinOp(3, "mul", 1, 2)>>, H!Ret(3))>>)
RaisesAtOne ==
  Fn(<<"T", "T", "B">>, "T",
     <<Plain(L(21) \o I(2, 1) \o <<H!Cmp(3, "eq", 1, 2)>>, H!If(3, 2, 3)), Plain(L(22) \o <<H!Raise>>, H!Unreachable), Plain(L(23), H!Ret(1))>>)

\* A uniform thunk of function f.
ThunkOf(f, fn) ==
  LET pr == fn.reprs[fn.np]
      arg == IF pr = "T" THEN 5 ELSE 6
  IN [np |-> 3, reprs |-> <<"T", "T", "T", "H", "T", pr, fn.ret, "T">>, ret |-> "T", thunk |-> TRUE,
      blocks |-> <<Plain(<<H!Coerce(4, 2, "T", "H"), H!CountArgs(4, 1), H!GetArg(5, 4, 1)>>
                         \o (IF pr = "T" THEN <<>> ELSE <<H!CheckedCoerce(6, 5, pr)>>)
                         \o <<H!CallTo(7, f, IF fn.np = 2 THEN <<1, arg>> ELSE <<arg>>)>>
                         \o (IF fn.ret = "T" THEN <<>> ELSE <<H!Coerce(8, 7, fn.ret, "T")>>),
                         H!Ret(IF fn.ret = "T" THEN 7 ELSE 8))>>]
Factory == [np |-> 0, reprs |-> <<"C">>, ret |-> "C", thunk |-> FALSE, blocks |-> <<Plain(L(31) \o <<H!MakeClosure(1, 3)>>, H!Ret(1))>>]

\* How main calls function 2: by name, or through the closure in local 6.
ByName(fn) ==
  IF fn.reprs[1] = "T" /\ fn.ret = "T" THEN <<H!CallTo(3, 2, <<1>>)>>
  ELSE (IF fn.reprs[1] = "T" THEN <<>> ELSE <<H!Coerce(11, 1, "T", fn.reprs[1])>>)
       \o <<H!CallTo(12, 2, IF fn.reprs[1] = "T" THEN <<1>> ELSE <<11>>), H!Coerce(3, 12, fn.ret, "T")>>
ByValue(args) ==
  <<H!Pack(7, args), H!Coerce(8, 7, "H", "T"), H!Const(9, H!Constant("null", 0)), H!CallIndirect(3, 6, 8, 9)>>
\* i = 2; while i >= 0: r = f(i); print(r); i = i - 1, with or without a try
\* around the call; via says where the closure comes from.
MainOf(fn, via, h) ==
  LET make == CASE via \in {"value", "arity", "rebound"} -> <<H!MakeClosure(6, 3)>>
                [] via = "factory" -> <<H!CallTo(6, 5, <<>>)>> [] OTHER -> <<>>
      here == IF via = "loop" THEN <<H!MakeClosure(6, 3)>> ELSE <<>>
      after == IF via = "rebound" THEN <<H!MakeClosure(6, 6)>> ELSE <<>>
      call == CASE via = "name" -> ByName(fn) [] via = "arity" -> ByValue(<<1, 1>>) [] OTHER -> ByValue(<<1>>)
  IN [np |-> 0, reprs |-> <<"T", "T", "T", "B", "T", "C", "H", "T", "T", "T", fn.reprs[1], fn.ret>>,
      ret |-> "T", thunk |-> FALSE,
      blocks |-> <<Plain(L(1) \o I(1, 2) \o make, H!Goto(2)),
                   Plain(L(2) \o I(2, 0) \o <<H!Cmp(4, "ge", 1, 2)>>, H!If(4, 3, 4)),
                   H!MirBlock(L(3) \o here \o call \o L(4) \o <<H!Show(3)>>, H!Goto(5), h),
                   Plain(L(9) \o <<H!Show(1)>>, H!Ret(0)),
                   Plain(L(7) \o after \o I(5, 1) \o <<H!BinOp(10, "sub", 1, 5), H!Coerce(1, 10, "T", "T")>>, H!Goto(2)),
                   Plain(L(6) \o I(2, 7) \o <<H!Show(2)>>, H!Goto(5))>>]

Leafs == {<<fn, Double>> : fn \in {Increment, Overflow, Divide, Partial, MaybeUnbound, Recursive(2), RawLoop, RoundTrip,
                                  KnownBranch, UnusedDivide, IsOne}}
Callers == {CallsOn, Guarded, ShortCircuit} \X {Double, RaisesAtOne, Recursive(2)}
Unnamed == {<<fn, Double>> : fn \in {Nested, Invert}}
Program(pair, via, h) ==
  <<MainOf(pair[1], via, h), pair[1], ThunkOf(2, pair[1]), pair[2], Factory, ThunkOf(4, pair[2])>>
MCSources ==
  {Program(pair, via, h) : pair \in Leafs \cup Callers, via \in {"name", "value", "loop", "factory", "rebound", "arity"}, h \in {0, 6}}
  \cup {Program(pair, via, h) : pair \in Unnamed, via \in {"value", "loop", "factory", "arity"}, h \in {0, 6}}

O == INSTANCE Optimizer WITH Sources <- MCSources
P == INSTANCE MCPrograms
It == INSTANCE Iterators WITH Programs <- P!Iterations, program <- pipeline,
        Lists <- {1}, MaxLen <- 3, MaxCount <- 6, None <- PyNone
ASSUME CompilerAssumption == O!OptimizerAssumption /\ It!IteratorsAssumption

----------------------------------------------------------------------------
CompilerInit ==
  /\ using \in {"intervals", "optimizer", "iterators"}
  /\ using # "intervals" => program = (CHOOSE s \in DOMAIN Programs : TRUE)
  /\ using # "optimizer" => code = (CHOOSE s \in MCSources : TRUE)
  /\ Init /\ O!Init
  /\ IF using = "iterators" THEN It!Init
     ELSE pipeline = Null /\ lists = Null /\ heap = Null /\ py = Null
CompilerNext ==
  /\ UNCHANGED using
  /\ \/ using = "intervals" /\ Next /\ UNCHANGED <<optVars, iterVars>>
     \/ using = "optimizer" /\ O!Next /\ UNCHANGED <<vars, iterVars>>
     \/ using = "iterators" /\ It!Next /\ UNCHANGED <<vars, optVars>>
CompilerSpec ==
  /\ CompilerInit /\ [][CompilerNext]_<<using, vars, optVars, iterVars>>
  /\ using = "intervals" => ([]<>(stage = "run") \/ []<><<stage # "run">>_vars)

\* The variables of each are of their types, the program the optimizer has made
\* so far passes the verifier, and an iterator is within what it walks.
CompilerTypeOK == TypeOK /\ O!TypeOK /\ (using = "iterators" => It!TypeOK)
\* What the optimizer leaves behaves as the program was written.
BehaviourKept == using = "optimizer" => O!BehaviourKept
\* However iterators share sources, end and grow under one another, each gives
\* what Python's gives.
IteratorsArePython == using = "iterators" => It!IteratorsArePython
\* Every whole-program analysis ends.
IntervalsEnd == using = "intervals" => AnalysisEnds
=============================================================================
