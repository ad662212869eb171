-------------------------------- MODULE Flow --------------------------------
(* Programs as intervals.rs sees them, what one statement and one branch do  *)
(* to an abstract environment, and what they do to Python's values.          *)
EXTENDS Intervals, Sequences, SequencesExt

----------------------------------------------------------------------------
(* Syntax.  A function is [np, nl, blocks, taken]: its parameters are locals *)
(* 1..np, block 1 is the entry, handler 0 means unprotected.  A statement    *)
(* writes expression e to local t (0: discards it).                          *)
Lit(n) == [k |-> "lit", n |-> n]
Truth == [k |-> "bool"]                  \* the literal True
Var(l) == [k |-> "var", l |-> l]
Bin(op, l, r) == [k |-> "bin", op |-> op, l |-> l, r |-> r]
Call(f, a) == [k |-> "call", f |-> f, a |-> a]
Assign(t, e) == [t |-> t, e |-> e]
Jump(b) == [k |-> "jump", to |-> b]
Branch(op, l, r, a, b) == [k |-> "branch", op |-> op, l |-> l, r |-> r, to |-> a, else |-> b]
Return(e) == [k |-> "return", e |-> e]
Block(s, t, h) == [stmts |-> s, term |-> t, handler |-> h]

\* Programs with these shapes: leaves and expressions over the locals L, blocks
\* that no jump or exception leaves for the entry (a loop has a header of its
\* own), functions whose parameters are locals, and a main without parameters.
Operators == {"add", "sub", "mul", "mod", "floordiv"}
IsLeaf(e, L) ==
  \/ e.k = "lit" /\ e.n \in Value
  \/ e.k = "var" /\ e.l \in L
  \/ e.k = "bool"
IsExpr(e, L) ==
  \/ IsLeaf(e, L)
  \/ e.k = "bin" /\ e.op \in Operators /\ IsLeaf(e.l, L) /\ IsLeaf(e.r, L)
IsStmt(s, L, fns) ==
  /\ s.t \in L \cup {0}
  /\ IsExpr(s.e, L) \/ (s.e.k = "call" /\ s.e.f \in fns /\ IsExpr(s.e.a, L))
IsTerm(t, L, targets) ==
  \/ t.k = "jump" /\ t.to \in targets
  \/ /\ t.k = "branch" /\ t.op \in Comparisons /\ IsLeaf(t.l, L) /\ IsLeaf(t.r, L)
     /\ t.to \in targets /\ t.else \in targets
  \/ t.k = "return" /\ IsLeaf(t.e, L)
IsBlock(blk, L, fns, targets) ==
  /\ blk.stmts \in Seq(ToSet(blk.stmts)) /\ \A i \in DOMAIN blk.stmts : IsStmt(blk.stmts[i], L, fns)
  /\ IsTerm(blk.term, L, targets) /\ blk.handler \in targets \cup {0}
IsFunction(fn, fns) ==
  /\ fn.np \in {0, 1} /\ fn.nl \in Nat /\ fn.nl >= 1 /\ 1 \in DOMAIN fn.blocks
  /\ \A b \in DOMAIN fn.blocks : IsBlock(fn.blocks[b], 1..fn.nl, fns, DOMAIN fn.blocks \ {1})
IsProgram(code) ==
  /\ DOMAIN code \subseteq Nat /\ 1 \in DOMAIN code /\ code[1].np = 0
  /\ \A f \in DOMAIN code : IsFunction(code[f], DOMAIN code)

None == <<>>                             \* an environment no feasible edge reaches

----------------------------------------------------------------------------
(* Transfer functions.                                                      *)
BinopInterval(op, a, b) ==
  CASE op = "add" -> Add(a, b) [] op = "sub" -> Sub(a, b) [] op = "mul" -> Mul(a, b)
    [] op = "mod" -> Mod(a, b) [] op = "floordiv" -> FloorDiv(a, b)

LeafInterval(env, e) ==
  CASE e.k = "lit" -> RangeOf(e.n, e.n)
    [] e.k = "var" -> env[e.l]
    [] OTHER -> Top                          \* a bool, or what a call returned
Eval(env, e) ==
  IF e.k = "bin" THEN BinopInterval(e.op, LeafInterval(env, e.l), LeafInterval(env, e.r))
  ELSE LeafInterval(env, e)

Write(env, s) == IF s.t = 0 THEN env ELSE [env EXCEPT ![s.t] = Eval(env, s.e)]

\* What is left of env on one side of a branch; None when that side is dead.
Refined(env, t, taken) ==
  LET op == IF taken THEN t.op ELSE NegateCmp(t.op)
  IN IF t.l.k = "var"
     THEN [env EXCEPT ![t.l.l] = Refine(env[t.l.l], op, LeafInterval(env, t.r))]
     ELSE IF t.r.k = "var"
     THEN [env EXCEPT ![t.r.l] = Refine(env[t.r.l], MirrorCmp(op), LeafInterval(env, t.l))]
     ELSE env
UnlessDead(env) == IF \E l \in DOMAIN env : env[l] = Bottom THEN None ELSE env

----------------------------------------------------------------------------
(* Python's values: integers of any size, and bools, which are integers that *)
(* print differently; a local may be unbound.                                *)
Number(n) == [k |-> "int", n |-> n]
TrueValue == [k |-> "bool", n |-> 1]
Unbound == [k |-> "none", n |-> 0]

\* The value of a leaf, and of a statement's expression.
ValueOf(st, e) ==
  CASE e.k = "lit" -> Number(e.n) [] e.k = "var" -> st[e.l] [] e.k = "bool" -> TrueValue
Calculate(op, v, w) ==
  CASE op = "add" -> v + w [] op = "sub" -> v - w [] op = "mul" -> v * w
    [] op = "mod" -> IF w > 0 THEN v % w ELSE -((-v) % (-w))
    [] op = "floordiv" -> IF w > 0 THEN v \div w ELSE (-v) \div (-w)
Outcome(st, e) ==
  IF e.k = "bin" THEN Number(Calculate(e.op, ValueOf(st, e.l).n, ValueOf(st, e.r).n))
  ELSE ValueOf(st, e)
DividesByZero(st, e) ==
  e.k = "bin" /\ e.op \in {"mod", "floordiv"} /\ ValueOf(st, e.r).n = 0
=============================================================================
