----------------------------- MODULE Intervals -----------------------------
(* The interval domain of typeck/src/intervals.rs.  An interval is a pair of *)
(* endpoints; NegInf and PosInf are the i128 extremes the code uses for an   *)
(* endpoint that widening gave up.  Top has both, Bottom the two exchanged,  *)
(* so that join and meet need no case for them.  Bound is the magnitude up   *)
(* to which a value may live in an untagged 64-bit slot (2^48 in the code).  *)
EXTENDS Integers

CONSTANTS Bound, NegInf, PosInf

ASSUME IntervalsAssumption ==
  /\ Bound \in Nat \ {0} /\ NegInf \in Int /\ PosInf \in Int
  /\ NegInf < -(Bound * Bound + Bound) /\ Bound * Bound + Bound < PosInf

Value == NegInf..PosInf                 \* the integers the analysis can name
Endpoints == [lo : Value, hi : Value]
Top == [lo |-> NegInf, hi |-> PosInf]
Bottom == [lo |-> PosInf, hi |-> NegInf]
Interval == {i \in Endpoints : i.lo <= i.hi} \cup {Bottom}

Values(i) == i.lo..i.hi                 \* what an interval stands for

Least(a, b) == IF a <= b THEN a ELSE b
Greatest(a, b) == IF a <= b THEN b ELSE a

\* The canonical interval of two endpoints.
RangeOf(lo, hi) == IF lo > hi THEN Bottom ELSE [lo |-> lo, hi |-> hi]
\* An arithmetic result: unknown as soon as an endpoint leaves the bound.
Clamped(lo, hi) == IF lo < -Bound \/ hi > Bound THEN Top ELSE RangeOf(lo, hi)

Eligible(i) == i.lo <= i.hi /\ -Bound <= i.lo /\ i.hi <= Bound

Join(a, b) == [lo |-> Least(a.lo, b.lo), hi |-> Greatest(a.hi, b.hi)]
Meet(a, b) == RangeOf(Greatest(a.lo, b.lo), Least(a.hi, b.hi))

\* Widening: an endpoint that moved outward goes to infinity.
Widen(old, next) ==
  IF old = Bottom THEN next
  ELSE [lo |-> IF next.lo < old.lo THEN NegInf ELSE old.lo,
        hi |-> IF next.hi > old.hi THEN PosInf ELSE old.hi]

\* Narrowing: only an infinite endpoint may be replaced.
Narrow(old, next) ==
  IF next = Bottom THEN old
  ELSE RangeOf(IF old.lo = NegInf THEN next.lo ELSE old.lo,
               IF old.hi = PosInf THEN next.hi ELSE old.hi)

Negate(a) == IF Eligible(a) THEN Clamped(-a.hi, -a.lo) ELSE Top
Add(a, b) == IF Eligible(a) /\ Eligible(b) THEN Clamped(a.lo + b.lo, a.hi + b.hi) ELSE Top
Sub(a, b) == IF Eligible(a) /\ Eligible(b) THEN Clamped(a.lo - b.hi, a.hi - b.lo) ELSE Top

Least4(a, b, c, d) == Least(Least(Least(a, b), c), d)
Greatest4(a, b, c, d) == Greatest(Greatest(Greatest(a, b), c), d)
Mul(a, b) ==
  IF Eligible(a) /\ Eligible(b)
  THEN Clamped(Least4(a.lo * b.lo, a.lo * b.hi, a.hi * b.lo, a.hi * b.hi),
               Greatest4(a.lo * b.lo, a.lo * b.hi, a.hi * b.lo, a.hi * b.hi))
  ELSE Top

\* % and // only narrow for a divisor that is certainly positive.
Mod(a, d) == IF Eligible(d) /\ d.lo >= 1 THEN Clamped(0, d.hi - 1) ELSE Top
FloorDiv(a, d) ==
  IF Eligible(a) /\ Eligible(d) /\ d.lo >= 1
  THEN Clamped(Least4(a.lo \div d.lo, a.lo \div d.hi, a.hi \div d.lo, a.hi \div d.hi),
               Greatest4(a.lo \div d.lo, a.lo \div d.hi, a.hi \div d.lo, a.hi \div d.hi))
  ELSE Top

----------------------------------------------------------------------------
(* Comparisons on the edges of a branch.                                    *)
Comparisons == {"lt", "le", "gt", "ge", "eq", "ne"}
Compare(op, v, w) ==
  CASE op = "lt" -> v < w [] op = "le" -> v <= w [] op = "gt" -> v > w
    [] op = "ge" -> v >= w [] op = "eq" -> v = w [] op = "ne" -> v # w
NegateCmp(op) ==
  CASE op = "lt" -> "ge" [] op = "le" -> "gt" [] op = "gt" -> "le"
    [] op = "ge" -> "lt" [] op = "eq" -> "ne" [] op = "ne" -> "eq"
MirrorCmp(op) ==
  CASE op = "lt" -> "gt" [] op = "le" -> "ge" [] op = "gt" -> "lt"
    [] op = "ge" -> "le" [] OTHER -> op

\* Endpoints saturate at the i128 extremes.
Pred(n) == Greatest(NegInf, n - 1)
Succ(n) == Least(PosInf, n + 1)
Above(cur, h) == IF h = PosInf THEN cur ELSE Meet(cur, RangeOf(NegInf, h))
Below(cur, l) == IF l = NegInf THEN cur ELSE Meet(cur, RangeOf(l, PosInf))

\* What is left of cur once "local op bound" is known.
Refine(cur, op, bound) ==
  IF bound = Bottom THEN cur
  ELSE CASE op = "lt" -> Above(cur, Pred(bound.hi))
         [] op = "le" -> Above(cur, bound.hi)
         [] op = "gt" -> Below(cur, Succ(bound.lo))
         [] op = "ge" -> Below(cur, bound.lo)
         [] op = "eq" -> Meet(cur, bound)
         [] op = "ne" -> cur
=============================================================================
