----------------------------- MODULE MCRawInts -----------------------------
(* A main that calls a loop, which calls a function that may call back.      *)
EXTENDS RawInts

CONSTANT Updates

Main(args) ==
  [np |-> 0, nl |-> 1, taken |-> FALSE,
   blocks |-> <<Block([i \in DOMAIN args |-> Assign(0, Call(2, args[i]))], Return(Lit(0)), 0)>>]

\* x = start; while x op limit: [call]; x = update; on an exception x = 0.
Loop(start, op, limit, calls, update, h) ==
  [np |-> 1, nl |-> 2, taken |-> FALSE,
   blocks |-> <<Block(<<Assign(2, start)>>, Jump(2), 0),
                Block(<<>>, Branch(op, Var(2), limit, 3, 4), 0),
                Block(calls \o <<Assign(2, update)>>, Jump(2), h),
                Block(<<>>, Return(Var(2)), 0),
                Block(<<Assign(2, Lit(0))>>, Jump(2), 0)>>]

\* if p op 1: y = p; return y; otherwise call on with p - 1 or return p.
Leaf(op, calls, taken) ==
  [np |-> 1, nl |-> 2, taken |-> taken,
   blocks |-> <<Block(<<>>, Branch(op, Var(1), Lit(1), 2, 3), 0),
                Block(<<Assign(2, Var(1))>>, Return(Var(2)), 0),
                Block(calls, Return(Var(1)), 0)>>]

MCNegInf == -50
p == Var(1)
x == Var(2)
MCUpdates == {Bin("add", x, Lit(1)), Bin("sub", x, p), Bin("mul", x, Lit(2)),
              Bin("mod", x, p), Bin("floordiv", x, Lit(2)), p}
Loops == [bounds : {<<Lit(0), Lit(3)>>, <<Lit(0), p>>, <<p, Lit(3)>>}, op : {"lt", "ne"},
          calls : {<<>>, <<Assign(0, Call(3, x))>>, <<Assign(2, Call(2, x))>>},
          update : Updates, h : {0, 5}]
CallOn == <<Assign(0, Call(3, Bin("sub", p, Lit(1))))>>
Leaves == {Leaf("eq", <<>>, FALSE), Leaf("eq", CallOn, FALSE), Leaf("gt", <<>>, TRUE), Leaf("gt", CallOn, FALSE)}
Args == {<<Lit(1), Lit(3)>>, <<Truth>>}
MCPrograms ==
  [s \in Args \X Loops \X Leaves |->
     <<Main(s[1]), Loop(s[2].bounds[1], s[2].op, s[2].bounds[2], s[2].calls, s[2].update, s[2].h), s[3]>>]
=============================================================================
