---------------------------- MODULE RawIntsProofs ----------------------------
(* The analysis of untagged ints, for every program and every bound.  The    *)
(* operators of the interval domain never lose a value, and neither does one *)
(* statement nor one branch.  So the worklist, and narrowing after it, keep  *)
(* every point a run can reach within the environments (SoundFor).  The      *)
(* rounds of the interprocedural analysis end with facts computed from the   *)
(* final seeds, and the program runs within what was recorded (DataInv).     *)
EXTENDS RawInts, SeqLemmas, TLAPS

LEMMA JoinSound ==
  ASSUME NEW a \in Interval, NEW b \in Interval
  PROVE  /\ Join(a, b) \in Interval
         /\ Values(a) \cup Values(b) \subseteq Values(Join(a, b))
BY IntervalsAssumption DEF Join, Interval, Endpoints, Values, Bottom, Value, Least, Greatest

LEMMA MeetSound ==
  ASSUME NEW a \in Interval, NEW b \in Interval
  PROVE  /\ Meet(a, b) \in Interval
         /\ Values(Meet(a, b)) = Values(a) \cap Values(b)
BY IntervalsAssumption DEF Meet, RangeOf, Interval, Endpoints, Values, Bottom, Value, Least, Greatest

LEMMA WidenSound ==
  ASSUME NEW old \in Interval, NEW next \in Interval
  PROVE  /\ Widen(old, next) \in Interval
         /\ Values(old) \cup Values(next) \subseteq Values(Widen(old, next))
BY IntervalsAssumption DEF Widen, Interval, Endpoints, Values, Bottom, Value

LEMMA NarrowSound ==
  ASSUME NEW old \in Interval, NEW next \in Interval
  PROVE  /\ Narrow(old, next) \in Interval
         /\ Values(old) \cap Values(next) \subseteq Values(Narrow(old, next))
BY IntervalsAssumption DEF Narrow, RangeOf, Interval, Endpoints, Values, Bottom, Value

LEMMA ClampedSound ==
  ASSUME NEW lo \in Int, NEW hi \in Int, NEW v \in Value, lo <= v, v <= hi
  PROVE  Clamped(lo, hi) \in Interval /\ v \in Values(Clamped(lo, hi))
<1>0. NegInf < -Bound /\ Bound < PosInf
  BY IntervalsAssumption
<1> QED BY <1>0, IntervalsAssumption
  DEF Clamped, RangeOf, Interval, Endpoints, Values, Bottom, Value, Top

----------------------------------------------------------------------------
(* Arithmetic.                                                              *)
LEMMA EligibleBounds ==
  ASSUME NEW a \in Interval, Eligible(a)
  PROVE  /\ a.lo \in Int /\ a.hi \in Int /\ a.lo <= a.hi
         /\ -Bound <= a.lo /\ a.hi <= Bound
BY IntervalsAssumption DEF Eligible, Interval, Endpoints, Value, Bottom

LEMMA ValueBounds ==
  ASSUME NEW a \in Interval, NEW v \in Values(a)
  PROVE  v \in Int /\ v \in Value /\ a.lo \in Int /\ a.hi \in Int /\ a.lo <= v /\ v <= a.hi
BY IntervalsAssumption DEF Values, Interval, Endpoints, Value, Bottom

LEMMA TopSound == Top \in Interval /\ Values(Top) = Value /\ -Bound \in Value /\ Bound \in Value /\ 0 \in Value
BY IntervalsAssumption DEF Top, Interval, Endpoints, Value, Values

LEMMA NegateSound ==
  ASSUME NEW a \in Interval, NEW v \in Values(a), -v \in Value
  PROVE  Negate(a) \in Interval /\ -v \in Values(Negate(a))
<1>1. CASE Eligible(a)
  <2>1. -a.hi \in Int /\ -a.lo \in Int /\ -a.hi <= -v /\ -v <= -a.lo
    BY ValueBounds
  <2> QED BY <1>1, <2>1, ClampedSound DEF Negate
<1> QED BY <1>1, TopSound DEF Negate

LEMMA AddSound ==
  ASSUME NEW a \in Interval, NEW b \in Interval, NEW v \in Values(a), NEW w \in Values(b), v + w \in Value
  PROVE  Add(a, b) \in Interval /\ v + w \in Values(Add(a, b))
<1>1. CASE Eligible(a) /\ Eligible(b)
  <2>1. /\ a.lo + b.lo \in Int /\ a.hi + b.hi \in Int
        /\ a.lo + b.lo <= v + w /\ v + w <= a.hi + b.hi
    BY ValueBounds
  <2> QED BY <1>1, <2>1, ClampedSound DEF Add
<1> QED BY <1>1, TopSound DEF Add

LEMMA SubSound ==
  ASSUME NEW a \in Interval, NEW b \in Interval, NEW v \in Values(a), NEW w \in Values(b), v - w \in Value
  PROVE  Sub(a, b) \in Interval /\ v - w \in Values(Sub(a, b))
<1>1. CASE Eligible(a) /\ Eligible(b)
  <2>1. /\ a.lo - b.hi \in Int /\ a.hi - b.lo \in Int
        /\ a.lo - b.hi <= v - w /\ v - w <= a.hi - b.lo
    BY ValueBounds
  <2> QED BY <1>1, <2>1, ClampedSound DEF Sub
<1> QED BY <1>1, TopSound DEF Sub

\* A product lies between the products of one factor with the other's ends.
LEMMA TimesMonotone ==
  ASSUME NEW x \in Int, NEW y \in Int, NEW c \in Int, x <= y
  PROVE  (c >= 0 => x * c <= y * c) /\ (c <= 0 => y * c <= x * c)
<1>1. y * c - x * c = (y - x) * c
  OBVIOUS
<1>2. c >= 0 => (y - x) * c >= 0
  OBVIOUS
<1>3. c <= 0 => (y - x) * c <= 0
  OBVIOUS
<1> QED BY <1>1, <1>2, <1>3

LEMMA FactorBetween ==
  ASSUME NEW l \in Int, NEW h \in Int, NEW x \in Int, NEW c \in Int, l <= x, x <= h
  PROVE  /\ l * c <= x * c \/ h * c <= x * c
         /\ x * c <= l * c \/ x * c <= h * c
<1>1. c >= 0 \/ c <= 0
  OBVIOUS
<1>2. /\ c >= 0 => l * c <= x * c /\ x * c <= h * c
      /\ c <= 0 => h * c <= x * c /\ x * c <= l * c
  BY TimesMonotone
<1> QED BY <1>1, <1>2

LEMMA LeastOf4 ==
  ASSUME NEW p \in Int, NEW q \in Int, NEW r \in Int, NEW s \in Int
  PROVE  /\ Least4(p, q, r, s) \in Int /\ Greatest4(p, q, r, s) \in Int
         /\ Least4(p, q, r, s) <= p /\ p <= Greatest4(p, q, r, s)
         /\ Least4(p, q, r, s) <= q /\ q <= Greatest4(p, q, r, s)
         /\ Least4(p, q, r, s) <= r /\ r <= Greatest4(p, q, r, s)
         /\ Least4(p, q, r, s) <= s /\ s <= Greatest4(p, q, r, s)
BY DEF Least4, Greatest4, Least, Greatest

LEMMA MulSound ==
  ASSUME NEW a \in Interval, NEW b \in Interval, NEW v \in Values(a), NEW w \in Values(b), v * w \in Value
  PROVE  Mul(a, b) \in Interval /\ v * w \in Values(Mul(a, b))
<1>1. CASE Eligible(a) /\ Eligible(b)
  <2> DEFINE lo == Least4(a.lo * b.lo, a.lo * b.hi, a.hi * b.lo, a.hi * b.hi)
             hi == Greatest4(a.lo * b.lo, a.lo * b.hi, a.hi * b.lo, a.hi * b.hi)
  <2>1. /\ a.lo \in Int /\ a.hi \in Int /\ a.lo <= v /\ v <= a.hi /\ v \in Int
        /\ b.lo \in Int /\ b.hi \in Int /\ b.lo <= w /\ w <= b.hi /\ w \in Int
    BY ValueBounds
  <2>2. /\ a.lo * b.lo \in Int /\ a.lo * b.hi \in Int /\ a.hi * b.lo \in Int
        /\ a.hi * b.hi \in Int /\ v * w \in Int /\ a.lo * w \in Int /\ a.hi * w \in Int
    BY <2>1
  <2>3. /\ a.lo * w <= v * w \/ a.hi * w <= v * w
        /\ v * w <= a.lo * w \/ v * w <= a.hi * w
    BY <2>1, FactorBetween
  <2>4. /\ a.lo * b.lo <= a.lo * w \/ a.lo * b.hi <= a.lo * w
        /\ a.lo * w <= a.lo * b.lo \/ a.lo * w <= a.lo * b.hi
    <3>1. \A l, h, x, c \in Int : l <= x /\ x <= h =>
            /\ l * c <= x * c \/ h * c <= x * c
            /\ x * c <= l * c \/ x * c <= h * c
      BY FactorBetween
    <3>2. /\ a.lo * b.lo = b.lo * a.lo /\ a.lo * b.hi = b.hi * a.lo /\ a.lo * w = w * a.lo
      BY <2>1
    <3> QED BY <2>1, <3>1, <3>2, Zenon
  <2>5. /\ a.hi * b.lo <= a.hi * w \/ a.hi * b.hi <= a.hi * w
        /\ a.hi * w <= a.hi * b.lo \/ a.hi * w <= a.hi * b.hi
    <3>1. \A l, h, x, c \in Int : l <= x /\ x <= h =>
            /\ l * c <= x * c \/ h * c <= x * c
            /\ x * c <= l * c \/ x * c <= h * c
      BY FactorBetween
    <3>2. /\ a.hi * b.lo = b.lo * a.hi /\ a.hi * b.hi = b.hi * a.hi /\ a.hi * w = w * a.hi
      BY <2>1
    <3> QED BY <2>1, <3>1, <3>2, Zenon
  <2>6. lo \in Int /\ hi \in Int /\ lo <= v * w /\ v * w <= hi
    <3>1. /\ lo \in Int /\ hi \in Int
          /\ lo <= a.lo * b.lo /\ a.lo * b.lo <= hi /\ lo <= a.lo * b.hi /\ a.lo * b.hi <= hi
          /\ lo <= a.hi * b.lo /\ a.hi * b.lo <= hi /\ lo <= a.hi * b.hi /\ a.hi * b.hi <= hi
      BY <2>2, LeastOf4
    <3> HIDE DEF lo, hi
    <3> QED BY <2>2, <2>3, <2>4, <2>5, <3>1
  <2> QED BY <1>1, <2>6, ClampedSound DEF Mul
<1> QED BY <1>1, TopSound DEF Mul

\* A remainder by a positive divisor lies below it.
LEMMA ModSound ==
  ASSUME NEW a \in Interval, NEW d \in Interval, NEW v \in Values(a), NEW w \in Values(d),
         w > 0 => v % w \in Value, NEW r \in Value, w > 0 => r = v % w
  PROVE  Mod(a, d) \in Interval /\ r \in Values(Mod(a, d))
<1>1. CASE Eligible(d) /\ d.lo >= 1
  <2>1. v \in Int /\ w \in Int /\ w >= 1 /\ d.hi \in Int /\ w <= d.hi
    BY <1>1, ValueBounds
  <2>2. 0 <= v % w /\ v % w <= w - 1
    BY <2>1
  <2>3. 0 \in Int /\ d.hi - 1 \in Int /\ 0 <= r /\ r <= d.hi - 1
    BY <2>1, <2>2
  <2> QED BY <1>1, <2>3, ClampedSound DEF Mod
<1> QED BY <1>1, TopSound DEF Mod

\* Dividing by a positive number keeps the order, and so does dividing a
\* number by its ends: a quotient lies between the quotients of the ends.
LEMMA QuotientBounds ==
  ASSUME NEW x \in Int, NEW w \in Int, w >= 1
  PROVE  /\ x \div w \in Int
         /\ w * (x \div w) <= x /\ x < w * (x \div w) + w
OBVIOUS

LEMMA QuotientMonotone ==
  ASSUME NEW x \in Int, NEW y \in Int, NEW w \in Int, w >= 1, x <= y
  PROVE  x \div w <= y \div w
<1> DEFINE p == x \div w
           q == y \div w
<1>1. p \in Int /\ q \in Int /\ w * p <= x /\ y < w * q + w
  BY QuotientBounds
<1> HIDE DEF p, q
<1>2. ASSUME q + 1 <= p PROVE FALSE
  <2>1. (q + 1) * w <= p * w
    BY <1>1, <1>2, TimesMonotone
  <2>2. (q + 1) * w = w * q + w /\ p * w = w * p
    BY <1>1
  <2>3. w * q \in Int /\ w * p \in Int
    BY <1>1
  <2> QED BY <1>1, <2>1, <2>2, <2>3
<1>3. p <= q
  BY <1>1, <1>2
<1> QED BY <1>3 DEF p, q

LEMMA QuotientBetween ==
  ASSUME NEW x \in Int, NEW l \in Int, NEW h \in Int, NEW w \in Int,
         1 <= l, l <= w, w <= h
  PROVE  /\ x \div l <= x \div w \/ x \div h <= x \div w
         /\ x \div w <= x \div l \/ x \div w <= x \div h
<1> DEFINE p == x \div l
           q == x \div w
           r == x \div h
<1>1. /\ p \in Int /\ l * p <= x /\ x < l * p + l
      /\ q \in Int /\ w * q <= x /\ x < w * q + w
      /\ r \in Int /\ h * r <= x /\ x < h * r + h
  BY QuotientBounds
<1>a. /\ l * p \in Int /\ w * q \in Int /\ h * r \in Int /\ w * p \in Int /\ h * q \in Int
      /\ l * q \in Int /\ w * r \in Int
  BY <1>1
<1> HIDE DEF p, q, r
<1>2. CASE x >= 0
  <2>1. q >= 0 /\ r >= 0
    <3>1. ASSUME q + 1 <= 0 PROVE FALSE
      <4>1. (q + 1) * w <= 0 * w
        BY <1>1, <3>1, TimesMonotone
      <4>2. (q + 1) * w = w * q + w
        BY <1>1
      <4> QED BY <1>1, <1>2, <1>a, <4>1, <4>2
    <3>2. ASSUME r + 1 <= 0 PROVE FALSE
      <4>1. (r + 1) * h <= 0 * h
        BY <1>1, <3>2, TimesMonotone
      <4>2. (r + 1) * h = h * r + h
        BY <1>1
      <4> QED BY <1>1, <1>2, <1>a, <4>1, <4>2
    <3> QED BY <1>1, <3>1, <3>2
  <2>2. r <= q
    <3>1. ASSUME q + 1 <= r PROVE FALSE
      <4>1. (q + 1) * w <= r * w /\ w * r <= h * r
        BY <1>1, <2>1, <3>1, TimesMonotone
      <4>2. (q + 1) * w = w * q + w /\ r * w = w * r
        BY <1>1
      <4> QED BY <1>1, <1>a, <4>1, <4>2
    <3> QED BY <1>1, <3>1
  <2>3. q <= p
    <3>1. ASSUME p + 1 <= q PROVE FALSE
      <4>1. (p + 1) * l <= q * l /\ l * q <= w * q
        BY <1>1, <2>1, <3>1, TimesMonotone
      <4>2. (p + 1) * l = l * p + l /\ q * l = l * q
        BY <1>1
      <4> QED BY <1>1, <1>a, <4>1, <4>2
    <3> QED BY <1>1, <3>1
  <2> QED BY <2>2, <2>3 DEF p, q, r
<1>3. CASE x < 0
  <2>1. p + 1 <= 0 /\ q + 1 <= 0
    <3>1. ASSUME p >= 0 PROVE FALSE
      <4>1. 0 * l <= p * l
        BY <1>1, <3>1, TimesMonotone
      <4>2. p * l = l * p /\ 0 * l = 0
        BY <1>1
      <4> QED BY <1>1, <1>3, <1>a, <4>1, <4>2
    <3>2. ASSUME q >= 0 PROVE FALSE
      <4>1. 0 * w <= q * w
        BY <1>1, <3>2, TimesMonotone
      <4>2. q * w = w * q /\ 0 * w = 0
        BY <1>1
      <4> QED BY <1>1, <1>3, <1>a, <4>1, <4>2
    <3> QED BY <1>1, <3>1, <3>2
  <2>2. p <= q
    <3>1. ASSUME q + 1 <= p PROVE FALSE
      <4>1. (q + 1) * w <= p * w /\ w * p <= l * p
        BY <1>1, <2>1, <3>1, TimesMonotone
      <4>2. (q + 1) * w = w * q + w /\ p * w = w * p
        BY <1>1
      <4> QED BY <1>1, <1>a, <4>1, <4>2
    <3> QED BY <1>1, <3>1
  <2>3. q <= r
    <3>1. ASSUME r + 1 <= q PROVE FALSE
      <4>1. (r + 1) * h <= q * h /\ h * q <= w * q
        BY <1>1, <2>1, <3>1, TimesMonotone
      <4>2. (r + 1) * h = h * r + h /\ q * h = h * q
        BY <1>1
      <4> QED BY <1>1, <1>a, <4>1, <4>2
    <3> QED BY <1>1, <3>1
  <2> QED BY <2>2, <2>3 DEF p, q, r
<1> QED BY <1>2, <1>3

LEMMA FloorDivSound ==
  ASSUME NEW a \in Interval, NEW d \in Interval, NEW v \in Values(a), NEW w \in Values(d),
         NEW r \in Value, w > 0 => r = v \div w
  PROVE  FloorDiv(a, d) \in Interval /\ r \in Values(FloorDiv(a, d))
<1>1. CASE Eligible(a) /\ Eligible(d) /\ d.lo >= 1
  <2> DEFINE p == a.lo \div d.lo
             q == a.lo \div d.hi
             s == a.hi \div d.lo
             t == a.hi \div d.hi
             lo == Least4(p, q, s, t)
             hi == Greatest4(p, q, s, t)
  <2>1. /\ a.lo \in Int /\ a.hi \in Int /\ a.lo <= v /\ v <= a.hi /\ v \in Int
        /\ d.lo \in Int /\ d.hi \in Int /\ 1 <= d.lo /\ d.lo <= w /\ w <= d.hi /\ w \in Int
        /\ w >= 1 /\ d.hi >= 1
    BY <1>1, ValueBounds
  <2>2. /\ p \in Int /\ q \in Int /\ s \in Int /\ t \in Int /\ r \in Int /\ r = v \div w
        /\ a.lo \div w \in Int /\ a.hi \div w \in Int
    BY <2>1, QuotientBounds
  <2>3. a.lo \div w <= r /\ r <= a.hi \div w
    BY <2>1, <2>2, QuotientMonotone
  <2>4. p <= a.lo \div w \/ q <= a.lo \div w
    BY <2>1, QuotientBetween
  <2>5. a.hi \div w <= s \/ a.hi \div w <= t
    BY <2>1, QuotientBetween
  <2>6. lo \in Int /\ hi \in Int /\ lo <= r /\ r <= hi
    <3> HIDE DEF p, q, s, t
    <3>1. /\ lo \in Int /\ hi \in Int
          /\ lo <= p /\ lo <= q /\ s <= hi /\ t <= hi
      BY <2>2, LeastOf4
    <3> HIDE DEF lo, hi
    <3> QED BY <2>2, <2>3, <2>4, <2>5, <3>1
  <2>7. Clamped(lo, hi) \in Interval /\ r \in Values(Clamped(lo, hi))
    <3> HIDE DEF lo, hi
    <3> QED BY <2>6, ClampedSound
  <2> QED BY <1>1, <2>7 DEF FloorDiv
<1> QED BY <1>1, TopSound DEF FloorDiv

----------------------------------------------------------------------------
(* Comparisons.                                                             *)
LEMMA AboveSound ==
  ASSUME NEW cur \in Interval, NEW v \in Values(cur), NEW h \in Value, v <= h
  PROVE  Above(cur, h) \in Interval /\ v \in Values(Above(cur, h))
<1>1. RangeOf(NegInf, h) \in Interval /\ v \in Values(RangeOf(NegInf, h))
  BY ValueBounds, IntervalsAssumption DEF RangeOf, Interval, Endpoints, Value, Values
<1> QED BY <1>1, MeetSound DEF Above

LEMMA BelowSound ==
  ASSUME NEW cur \in Interval, NEW v \in Values(cur), NEW l \in Value, l <= v
  PROVE  Below(cur, l) \in Interval /\ v \in Values(Below(cur, l))
<1>1. RangeOf(l, PosInf) \in Interval /\ v \in Values(RangeOf(l, PosInf))
  BY ValueBounds, IntervalsAssumption DEF RangeOf, Interval, Endpoints, Value, Values
<1> QED BY <1>1, MeetSound DEF Below

\* What a comparison that came out true leaves of an interval still holds the
\* value compared.
LEMMA RefineSound ==
  ASSUME NEW cur \in Interval, NEW bound \in Interval, NEW v \in Values(cur), NEW w \in Values(bound),
         NEW op \in Comparisons, Compare(op, v, w)
  PROVE  Refine(cur, op, bound) \in Interval /\ v \in Values(Refine(cur, op, bound))
<1>1. /\ v \in Int /\ v \in Value /\ w \in Int /\ w \in Value
      /\ bound.lo \in Int /\ bound.hi \in Int /\ bound.lo <= w /\ w <= bound.hi
  BY ValueBounds
<1>2. bound # Bottom /\ bound.lo \in Value /\ bound.hi \in Value
  BY <1>1, IntervalsAssumption DEF Interval, Endpoints, Bottom, Value
<1>3. CASE op = "lt"
  <2>1. Pred(bound.hi) \in Value /\ v <= Pred(bound.hi)
    BY <1>1, <1>2, <1>3, IntervalsAssumption DEF Pred, Greatest, Value, Compare
  <2> QED BY <1>2, <1>3, <2>1, AboveSound DEF Refine
<1>4. CASE op = "le"
  <2>1. v <= bound.hi
    BY <1>1, <1>4 DEF Compare
  <2> QED BY <1>2, <1>4, <2>1, AboveSound DEF Refine
<1>5. CASE op = "gt"
  <2>1. Succ(bound.lo) \in Value /\ Succ(bound.lo) <= v
    BY <1>1, <1>2, <1>5, IntervalsAssumption DEF Succ, Least, Value, Compare
  <2> QED BY <1>2, <1>5, <2>1, BelowSound DEF Refine
<1>6. CASE op = "ge"
  <2>1. bound.lo <= v
    BY <1>1, <1>6 DEF Compare
  <2> QED BY <1>2, <1>6, <2>1, BelowSound DEF Refine
<1>7. CASE op = "eq"
  <2>1. v = w
    BY <1>7 DEF Compare
  <2> QED BY <1>2, <1>7, <2>1, MeetSound DEF Refine
<1>8. CASE op = "ne"
  BY <1>2, <1>8 DEF Refine
<1> QED BY <1>3, <1>4, <1>5, <1>6, <1>7, <1>8 DEF Comparisons

LEMMA NegateCmpSound ==
  ASSUME NEW op \in Comparisons, NEW v \in Int, NEW w \in Int, ~Compare(op, v, w)
  PROVE  NegateCmp(op) \in Comparisons /\ Compare(NegateCmp(op), v, w)
<1>1. CASE op = "lt"
  BY <1>1 DEF Comparisons, NegateCmp, Compare
<1>2. CASE op = "le"
  BY <1>2 DEF Comparisons, NegateCmp, Compare
<1>3. CASE op = "gt"
  BY <1>3 DEF Comparisons, NegateCmp, Compare
<1>4. CASE op = "ge"
  BY <1>4 DEF Comparisons, NegateCmp, Compare
<1>5. CASE op = "eq"
  BY <1>5 DEF Comparisons, NegateCmp, Compare
<1>6. CASE op = "ne"
  BY <1>6 DEF Comparisons, NegateCmp, Compare
<1> QED BY <1>1, <1>2, <1>3, <1>4, <1>5, <1>6 DEF Comparisons

LEMMA MirrorCmpSound ==
  ASSUME NEW op \in Comparisons, NEW v \in Int, NEW w \in Int, Compare(op, v, w)
  PROVE  MirrorCmp(op) \in Comparisons /\ Compare(MirrorCmp(op), w, v)
BY DEF Comparisons, MirrorCmp, Compare

----------------------------------------------------------------------------
(* One step of the analysis against one step of the program.  L is the set  *)
(* of locals; the store is within the environment.                          *)
Within(st, env, L) == \A l \in L : st[l].n \in Values(env[l])

LEMMA LeafSound ==
  ASSUME NEW L, NEW env \in [L -> Interval], NEW st, Within(st, env, L), NEW e, IsLeaf(e, L)
  PROVE  LeafInterval(env, e) \in Interval /\ ValueOf(st, e).n \in Values(LeafInterval(env, e))
<1>1. CASE e.k = "lit" /\ e.n \in Value
  <2>1. LeafInterval(env, e) = RangeOf(e.n, e.n) /\ ValueOf(st, e).n = e.n
    BY <1>1 DEF LeafInterval, ValueOf, Number
  <2> QED BY <1>1, <2>1, IntervalsAssumption DEF RangeOf, Interval, Endpoints, Values, Value
<1>2. CASE e.k = "var" /\ e.l \in L
  <2>1. LeafInterval(env, e) = env[e.l] /\ ValueOf(st, e) = st[e.l]
    BY <1>2 DEF LeafInterval, ValueOf
  <2> QED BY <1>2, <2>1 DEF Within
<1>3. CASE e.k = "bool"
  <2>1. LeafInterval(env, e) = Top /\ ValueOf(st, e).n = 1
    BY <1>3 DEF LeafInterval, ValueOf, TrueValue
  <2>2. 1 \in Value
    BY IntervalsAssumption, TopSound DEF Value
  <2> QED BY <2>1, <2>2, TopSound
<1> QED BY <1>1, <1>2, <1>3 DEF IsLeaf

LEMMA CalculateSound ==
  ASSUME NEW op \in Operators,
         NEW a \in Interval, NEW b \in Interval, NEW v \in Values(a), NEW w \in Values(b),
         Calculate(op, v, w) \in Value
  PROVE  /\ BinopInterval(op, a, b) \in Interval
         /\ Calculate(op, v, w) \in Values(BinopInterval(op, a, b))
<1>1. CASE op = "add"
  <2>1. Calculate(op, v, w) = v + w /\ BinopInterval(op, a, b) = Add(a, b)
    BY <1>1 DEF Calculate, BinopInterval
  <2> QED BY <2>1, AddSound
<1>2. CASE op = "sub"
  <2>1. Calculate(op, v, w) = v - w /\ BinopInterval(op, a, b) = Sub(a, b)
    BY <1>2 DEF Calculate, BinopInterval
  <2> QED BY <2>1, SubSound
<1>3. CASE op = "mul"
  <2>1. Calculate(op, v, w) = v * w /\ BinopInterval(op, a, b) = Mul(a, b)
    BY <1>3 DEF Calculate, BinopInterval
  <2> QED BY <2>1, MulSound
<1>4. CASE op = "mod"
  <2>1. BinopInterval(op, a, b) = Mod(a, b) /\ (w > 0 => Calculate(op, v, w) = v % w)
    BY <1>4 DEF Calculate, BinopInterval
  <2> QED BY <2>1, ModSound
<1>5. CASE op = "floordiv"
  <2>1. BinopInterval(op, a, b) = FloorDiv(a, b) /\ (w > 0 => Calculate(op, v, w) = v \div w)
    BY <1>5 DEF Calculate, BinopInterval
  <2> QED BY <2>1, FloorDivSound
<1> QED BY <1>1, <1>2, <1>3, <1>4, <1>5 DEF Operators

\* The interval of an expression holds the value it computes.
LEMMA EvalSound ==
  ASSUME NEW L, NEW env \in [L -> Interval], NEW st, Within(st, env, L),
         NEW e, IsExpr(e, L), Outcome(st, e).n \in Value
  PROVE  Eval(env, e) \in Interval /\ Outcome(st, e).n \in Values(Eval(env, e))
<1>1. CASE IsLeaf(e, L)
  <2>1. e.k # "bin"
    BY <1>1 DEF IsLeaf
  <2>2. Eval(env, e) = LeafInterval(env, e) /\ Outcome(st, e) = ValueOf(st, e)
    BY <2>1 DEF Eval, Outcome
  <2> QED BY <1>1, <2>2, LeafSound
<1>2. CASE e.k = "bin" /\ e.op \in Operators /\ IsLeaf(e.l, L) /\ IsLeaf(e.r, L)
  <2> DEFINE a == LeafInterval(env, e.l)
             b == LeafInterval(env, e.r)
             v == ValueOf(st, e.l).n
             w == ValueOf(st, e.r).n
  <2>3. a \in Interval /\ b \in Interval /\ v \in Values(a) /\ w \in Values(b)
    BY <1>2, LeafSound
  <2>4. Eval(env, e) = BinopInterval(e.op, a, b) /\ Outcome(st, e).n = Calculate(e.op, v, w)
    BY <1>2 DEF Eval, Outcome, Number
  <2> HIDE DEF a, b, v, w
  <2> QED BY <1>2, <2>3, <2>4, CalculateSound
<1> QED BY <1>1, <1>2 DEF IsExpr

\* A statement that assigns what it computes keeps the store within the
\* environment: the analysis of a straight line follows the program.
THEOREM StatementSound ==
  ASSUME NEW L, 0 \notin L, NEW env \in [L -> Interval], NEW V, NEW st \in [L -> V], Within(st, env, L),
         NEW t \in L, NEW e, IsExpr(e, L), Outcome(st, e).n \in Value
  PROVE  /\ Write(env, Assign(t, e)) \in [L -> Interval]
         /\ Within([st EXCEPT ![t] = Outcome(st, e)], Write(env, Assign(t, e)), L)
<1>1. Write(env, Assign(t, e)) = [env EXCEPT ![t] = Eval(env, e)]
  BY DEF Assign, Write
<1>2. Eval(env, e) \in Interval /\ Outcome(st, e).n \in Values(Eval(env, e))
  BY EvalSound
<1>3. [env EXCEPT ![t] = Eval(env, e)] \in [L -> Interval]
  BY <1>2
<1>4. ASSUME NEW l \in L
      PROVE  [st EXCEPT ![t] = Outcome(st, e)][l].n \in Values([env EXCEPT ![t] = Eval(env, e)][l])
  BY <1>2 DEF Within
<1> QED BY <1>1, <1>3, <1>4 DEF Within

\* On the edge a branch takes, the refined environment holds every value of
\* the store; so the analysis never calls an edge dead that a run takes.
THEOREM BranchSound ==
  ASSUME NEW L, NEW env \in [L -> Interval], NEW st, Within(st, env, L),
         NEW op \in Comparisons, NEW x, IsLeaf(x, L), NEW y, IsLeaf(y, L), NEW to, NEW else,
         NEW taken \in BOOLEAN, taken <=> Compare(op, ValueOf(st, x).n, ValueOf(st, y).n)
  PROVE  LET out == UnlessDead(Refined(env, Branch(op, x, y, to, else), taken))
         IN  out \in [L -> Interval] /\ Within(st, out, L)
<1> DEFINE t == Branch(op, x, y, to, else)
           v == ValueOf(st, x).n
           w == ValueOf(st, y).n
           c == IF taken THEN op ELSE NegateCmp(op)
           a == LeafInterval(env, x)
           b == LeafInterval(env, y)
           ref == Refined(env, t, taken)
<1>1. t.op = op /\ t.l = x /\ t.r = y
  BY DEF Branch
<1>2. a \in Interval /\ b \in Interval /\ v \in Values(a) /\ w \in Values(b)
  BY LeafSound
<1>3. v \in Int /\ w \in Int
  BY <1>2, ValueBounds
<1>4. c \in Comparisons /\ Compare(c, v, w)
  BY <1>3, NegateCmpSound
<1>5. MirrorCmp(c) \in Comparisons /\ Compare(MirrorCmp(c), w, v)
  <2> HIDE DEF c, v, w
  <2> QED BY <1>3, <1>4, MirrorCmpSound
<1>6. ref \in [L -> Interval] /\ Within(st, ref, L)
  <2>1. CASE x.k = "var"
    <3>1. PICK l \in L : x.l = l
      BY <2>1 DEF IsLeaf
    <3>2. x.l = l /\ v = st[l].n /\ a = env[l]
      BY <2>1, <3>1 DEF ValueOf, LeafInterval
    <3>3. ref = [env EXCEPT ![l] = Refine(env[l], c, b)]
      BY <1>1, <2>1, <3>2 DEF Refined
    <3>4. Refine(env[l], c, b) \in Interval /\ v \in Values(Refine(env[l], c, b))
      <4> HIDE DEF c, v, w, b, a
      <4> QED BY <1>2, <1>4, <3>2, RefineSound
    <3> QED BY <3>2, <3>3, <3>4 DEF Within
  <2>2. CASE x.k # "var" /\ y.k = "var"
    <3>1. PICK l \in L : y.l = l
      BY <2>2 DEF IsLeaf
    <3>2. y.l = l /\ w = st[l].n /\ b = env[l]
      BY <2>2, <3>1 DEF ValueOf, LeafInterval
    <3>3. ref = [env EXCEPT ![l] = Refine(env[l], MirrorCmp(c), a)]
      BY <1>1, <2>2, <3>2 DEF Refined
    <3>4. Refine(env[l], MirrorCmp(c), a) \in Interval /\ w \in Values(Refine(env[l], MirrorCmp(c), a))
      <4> HIDE DEF c, v, w, b, a
      <4> QED BY <1>2, <1>5, <3>2, RefineSound
    <3> QED BY <3>2, <3>3, <3>4 DEF Within
  <2>3. CASE x.k # "var" /\ y.k # "var"
    BY <1>1, <2>3 DEF Refined
  <2> QED BY <2>1, <2>2, <2>3
<1>7. \A l \in L : ref[l] # Bottom
  <2> SUFFICES ASSUME NEW l \in L, ref[l] = Bottom PROVE FALSE
    OBVIOUS
  <2>1. st[l].n \in Values(Bottom)
    BY <1>6 DEF Within
  <2> QED BY <2>1, IntervalsAssumption DEF Values, Bottom
<1>8. UnlessDead(ref) = ref
  BY <1>6, <1>7 DEF UnlessDead
<1> QED BY <1>6, <1>8

----------------------------------------------------------------------------
(* The operators of the domain return intervals, whatever the values are.   *)
LEMMA BinopType ==
  ASSUME NEW op \in Operators, NEW a \in Interval, NEW b \in Interval
  PROVE  BinopInterval(op, a, b) \in Interval
<1>0. Top \in Interval /\ \A lo, hi \in Int : Clamped(lo, hi) \in Interval
  BY IntervalsAssumption, TopSound DEF Clamped, RangeOf, Interval, Endpoints, Value, Bottom
<1>1. Eligible(a) => a.lo \in Int /\ a.hi \in Int
  BY EligibleBounds
<1>2. Eligible(b) => b.lo \in Int /\ b.hi \in Int
  BY EligibleBounds
<1>3. CASE op = "add"
  <2>1. BinopInterval(op, a, b) = Add(a, b)
    BY <1>3 DEF BinopInterval
  <2> QED BY <1>0, <1>1, <1>2, <2>1 DEF Add
<1>4. CASE op = "sub"
  <2>1. BinopInterval(op, a, b) = Sub(a, b)
    BY <1>4 DEF BinopInterval
  <2> QED BY <1>0, <1>1, <1>2, <2>1 DEF Sub
<1>5. CASE op = "mul"
  <2>1. BinopInterval(op, a, b) = Mul(a, b)
    BY <1>5 DEF BinopInterval
  <2>2. CASE Eligible(a) /\ Eligible(b)
    <3>1. \A x, y \in Int : x * y \in Int
      OBVIOUS
    <3>2. a.lo * b.lo \in Int /\ a.lo * b.hi \in Int /\ a.hi * b.lo \in Int /\ a.hi * b.hi \in Int
      BY <1>1, <1>2, <2>2, <3>1
    <3>3. /\ Least4(a.lo * b.lo, a.lo * b.hi, a.hi * b.lo, a.hi * b.hi) \in Int
          /\ Greatest4(a.lo * b.lo, a.lo * b.hi, a.hi * b.lo, a.hi * b.hi) \in Int
      BY <3>2, LeastOf4
    <3> QED BY <1>0, <2>1, <2>2, <3>3, Zenon DEF Mul
  <2> QED BY <1>0, <2>1, <2>2 DEF Mul
<1>6. CASE op = "mod"
  <2>1. BinopInterval(op, a, b) = Mod(a, b)
    BY <1>6 DEF BinopInterval
  <2> QED BY <1>0, <1>2, <2>1 DEF Mod
<1>7. CASE op = "floordiv"
  <2>1. BinopInterval(op, a, b) = FloorDiv(a, b)
    BY <1>7 DEF BinopInterval
  <2>2. CASE Eligible(a) /\ Eligible(b) /\ b.lo >= 1
    <3>1. b.lo <= b.hi /\ b.hi >= 1
      BY <1>2, <2>2 DEF Eligible
    <3>2. /\ a.lo \div b.lo \in Int /\ a.lo \div b.hi \in Int
          /\ a.hi \div b.lo \in Int /\ a.hi \div b.hi \in Int
      BY <1>1, <1>2, <2>2, <3>1, QuotientBounds
    <3>3. /\ Least4(a.lo \div b.lo, a.lo \div b.hi, a.hi \div b.lo, a.hi \div b.hi) \in Int
          /\ Greatest4(a.lo \div b.lo, a.lo \div b.hi, a.hi \div b.lo, a.hi \div b.hi) \in Int
      BY <3>2, LeastOf4
    <3> QED BY <1>0, <2>1, <2>2, <3>3, Zenon DEF FloorDiv
  <2> QED BY <1>0, <2>1, <2>2 DEF FloorDiv
<1> QED BY <1>3, <1>4, <1>5, <1>6, <1>7 DEF Operators

LEMMA LeafType ==
  ASSUME NEW L, NEW env \in [L -> Interval], NEW e, IsLeaf(e, L) \/ e.k = "call"
  PROVE  LeafInterval(env, e) \in Interval
<1>1. CASE e.k = "lit" /\ e.n \in Value
  BY <1>1, IntervalsAssumption DEF LeafInterval, RangeOf, Interval, Endpoints, Value
<1>2. CASE e.k = "var" /\ e.l \in L
  BY <1>2 DEF LeafInterval
<1>3. CASE e.k = "bool" \/ e.k = "call"
  BY <1>3, TopSound DEF LeafInterval
<1> QED BY <1>1, <1>2, <1>3 DEF IsLeaf

LEMMA EvalType ==
  ASSUME NEW L, NEW env \in [L -> Interval], NEW e, IsExpr(e, L) \/ e.k = "call"
  PROVE  Eval(env, e) \in Interval
<1>1. CASE e.k = "bin"
  <2>1. e.op \in Operators /\ IsLeaf(e.l, L) /\ IsLeaf(e.r, L)
    BY <1>1 DEF IsExpr, IsLeaf
  <2> QED BY <1>1, <2>1, LeafType, BinopType DEF Eval
<1>2. CASE e.k # "bin"
  <2>1. IsLeaf(e, L) \/ e.k = "call"
    BY <1>2 DEF IsExpr
  <2> QED BY <1>2, <2>1, LeafType DEF Eval
<1> QED BY <1>1, <1>2

LEMMA RefineType ==
  ASSUME NEW cur \in Interval, NEW op \in Comparisons, NEW bound \in Interval
  PROVE  Refine(cur, op, bound) \in Interval
<1>1. bound.lo \in Value /\ bound.hi \in Value
  BY IntervalsAssumption DEF Interval, Endpoints, Bottom, Value
<1>2. Pred(bound.hi) \in Value /\ Succ(bound.lo) \in Value
  BY <1>1, IntervalsAssumption DEF Pred, Succ, Greatest, Least, Value
<1>3. \A n \in Value : RangeOf(NegInf, n) \in Interval /\ RangeOf(n, PosInf) \in Interval
  BY IntervalsAssumption DEF RangeOf, Interval, Endpoints, Value
<1>4. \A n \in Value : Above(cur, n) \in Interval /\ Below(cur, n) \in Interval
  BY <1>3, MeetSound DEF Above, Below
<1> QED BY <1>1, <1>2, <1>4, MeetSound DEF Refine, Comparisons

LEMMA BranchType ==
  ASSUME NEW L, NEW env \in [L -> Interval], NEW t, t.op \in Comparisons,
         IsLeaf(t.l, L), IsLeaf(t.r, L), NEW taken \in BOOLEAN
  PROVE  UnlessDead(Refined(env, t, taken)) \in [L -> Interval] \cup {None}
<1> DEFINE op == IF taken THEN t.op ELSE NegateCmp(t.op)
<1>1. op \in Comparisons
  BY DEF NegateCmp, Comparisons
<1>2. MirrorCmp(op) \in Comparisons
  BY <1>1 DEF MirrorCmp, Comparisons
<1>3. LeafInterval(env, t.l) \in Interval /\ LeafInterval(env, t.r) \in Interval
  BY LeafType
<1>4. Refined(env, t, taken) \in [L -> Interval]
  <2>1. CASE t.l.k = "var"
    <3>1. t.l.l \in L
      BY <2>1 DEF IsLeaf
    <3>2. Refine(env[t.l.l], op, LeafInterval(env, t.r)) \in Interval
      BY <1>1, <1>3, <3>1, RefineType
    <3> QED BY <2>1, <3>1, <3>2 DEF Refined
  <2>2. CASE t.l.k # "var" /\ t.r.k = "var"
    <3>1. t.r.l \in L
      BY <2>2 DEF IsLeaf
    <3>2. Refine(env[t.r.l], MirrorCmp(op), LeafInterval(env, t.l)) \in Interval
      BY <1>2, <1>3, <3>1, RefineType
    <3> QED BY <2>2, <3>1, <3>2 DEF Refined
  <2>3. CASE t.l.k # "var" /\ t.r.k # "var"
    BY <2>3 DEF Refined
  <2> QED BY <2>1, <2>2, <2>3
<1> QED BY <1>4 DEF UnlessDead

\* The join of a set of intervals holds what each of them holds.
LEMMA ValueMin ==
  ASSUME NEW S, S \subseteq Value, S # {}
  PROVE  Min(S) \in S /\ \A y \in S : Min(S) <= y
<1> DEFINE T == {n \in Nat : NegInf + n \in S}
<1>1. T # {}
  <2>0. PICK y \in S : TRUE
    OBVIOUS
  <2>1. y \in S /\ y \in Int /\ NegInf <= y
    <3>1. y \in Value
      OBVIOUS
    <3> QED BY <3>1, IntervalsAssumption DEF Value
  <2>2. y - NegInf \in Nat /\ NegInf + (y - NegInf) = y
    BY <2>1, IntervalsAssumption
  <2> QED BY <2>1, <2>2
<1>2. PICK m \in T : \A n \in T : m <= n
  <2> HIDE DEF T
  <2>1. T \subseteq Nat
    BY DEF T
  <2> QED BY <1>1, <2>1, NatMin
<1>3. ASSUME NEW y \in S PROVE NegInf + m <= y
  <2>1. y \in Int /\ NegInf <= y /\ NegInf \in Int
    BY IntervalsAssumption DEF Value
  <2>2. y - NegInf \in Nat /\ NegInf + (y - NegInf) = y
    BY <2>1
  <2>3. m <= y - NegInf
    BY <1>2, <2>2
  <2> QED BY <2>1, <2>3
<1>4. NegInf + m \in S
  OBVIOUS
<1>5. \E x \in S : \A y \in S : x <= y
  BY <1>3, <1>4
<1> QED BY <1>5 DEF Min

LEMMA ValueMax ==
  ASSUME NEW S, S \subseteq Value, S # {}
  PROVE  Max(S) \in S /\ \A y \in S : y <= Max(S)
<1> DEFINE T == {n \in Nat : PosInf - n \in S}
<1>1. T # {}
  <2>0. PICK y \in S : TRUE
    OBVIOUS
  <2>1. y \in S /\ y \in Int /\ y <= PosInf
    <3>1. y \in Value
      OBVIOUS
    <3> QED BY <3>1, IntervalsAssumption DEF Value
  <2>2. PosInf - y \in Nat /\ PosInf - (PosInf - y) = y
    BY <2>1, IntervalsAssumption
  <2> QED BY <2>1, <2>2
<1>2. PICK m \in T : \A n \in T : m <= n
  <2> HIDE DEF T
  <2>1. T \subseteq Nat
    BY DEF T
  <2> QED BY <1>1, <2>1, NatMin
<1>3. ASSUME NEW y \in S PROVE PosInf - m >= y
  <2>1. y \in Int /\ y <= PosInf /\ PosInf \in Int
    BY IntervalsAssumption DEF Value
  <2>2. PosInf - y \in Nat /\ PosInf - (PosInf - y) = y
    BY <2>1
  <2>3. m <= PosInf - y
    BY <1>2, <2>2
  <2> QED BY <2>1, <2>3
<1>4. PosInf - m \in S
  OBVIOUS
<1>5. \E x \in S : \A y \in S : x >= y
  BY <1>3, <1>4
<1>6. Max(S) \in S /\ \A y \in S : Max(S) >= y
  BY <1>5 DEF Max
<1>7. S \subseteq Int
  BY DEF Value
<1> QED BY <1>6, <1>7

LEMMA HullSound ==
  ASSUME NEW S, S \subseteq Interval, S # {}
  PROVE  Hull(S) \in Interval /\ \A i \in S : Values(i) \subseteq Values(Hull(S))
<1> DEFINE A == {i.lo : i \in S}
           B == {i.hi : i \in S}
<1>1. A \subseteq Value /\ A # {} /\ B \subseteq Value /\ B # {}
  BY IntervalsAssumption DEF Interval, Endpoints, Value, Bottom
<1>2. Min(A) \in A /\ \A y \in A : Min(A) <= y
  <2> HIDE DEF A
  <2> QED BY <1>1, ValueMin
<1>3. Max(B) \in B /\ \A y \in B : y <= Max(B)
  <2> HIDE DEF B
  <2> QED BY <1>1, ValueMax
<1>4. Hull(S) = [lo |-> Min(A), hi |-> Max(B)]
  BY DEF Hull
<1>5. Min(A) \in Value /\ Max(B) \in Value
  BY <1>1, <1>2, <1>3
<1>6. ASSUME NEW i \in S
      PROVE  /\ i.lo \in Value /\ i.hi \in Value /\ Min(A) <= i.lo /\ i.hi <= Max(B)
             /\ i.lo <= i.hi \/ i = Bottom
  BY <1>1, <1>2, <1>3 DEF Interval
<1> HIDE DEF A, B
<1>7. ASSUME NEW i \in S PROVE Values(i) \subseteq Values(Hull(S))
  BY <1>4, <1>5, <1>6, IntervalsAssumption DEF Values, Value
<1>8. Hull(S) \in Interval
  <2>1. CASE \E i \in S : i.lo <= i.hi
    <3>1. Min(A) <= Max(B)
      BY <1>5, <1>6, <2>1, IntervalsAssumption DEF Value
    <3> QED BY <1>4, <1>5, <3>1 DEF Interval, Endpoints
  <2>2. CASE \A i \in S : i = Bottom
    <3>1. A = {PosInf} /\ B = {NegInf}
      BY <2>2, <1>1 DEF A, B, Bottom
    <3> QED BY <1>2, <1>3, <1>4, <3>1 DEF Interval, Bottom
  <2> QED BY <1>6, <2>1, <2>2
<1> QED BY <1>7, <1>8

----------------------------------------------------------------------------
(* The environments along a block.                                          *)
Envs(f) == [Locals(f) -> Interval]
Ins(f) == [Blocks(f) -> Envs(f) \cup {None}]
Stmts(f, b) == BlockOf(f, b).stmts

\* What the assumption on programs says of a function of the one picked.
LEMMA Shape ==
  ASSUME program \in DOMAIN Programs, NEW f \in Funcs
  PROVE  /\ Params(f) \subseteq Locals(f) /\ 0 \notin Locals(f) /\ 1 \in Locals(f) /\ 1 \in Blocks(f)
         /\ \A b \in Blocks(f) :
              /\ Stmts(f, b) \in Seq(ToSet(Stmts(f, b)))
              /\ \A i \in DOMAIN Stmts(f, b) : IsStmt(Stmts(f, b)[i], Locals(f), Funcs)
              /\ IsTerm(BlockOf(f, b).term, Locals(f), Blocks(f) \ {1})
              /\ BlockOf(f, b).handler \in (Blocks(f) \ {1}) \cup {0}
<1>1. IsFunction(Code[f], Funcs)
  BY RawIntsAssumption DEF Funcs, Code, IsProgram
<1>2. /\ Code[f].np \in {0, 1} /\ Code[f].nl \in Nat /\ Code[f].nl >= 1 /\ 1 \in DOMAIN Code[f].blocks
      /\ \A b \in DOMAIN Code[f].blocks :
           IsBlock(Code[f].blocks[b], 1..Code[f].nl, Funcs, DOMAIN Code[f].blocks \ {1})
  BY <1>1 DEF IsFunction
<1>3. Params(f) \subseteq Locals(f) /\ 0 \notin Locals(f) /\ 1 \in Locals(f) /\ 1 \in Blocks(f)
  BY <1>2 DEF Params, Locals, Blocks
<1>4. ASSUME NEW b \in Blocks(f) PROVE IsBlock(BlockOf(f, b), Locals(f), Funcs, Blocks(f) \ {1})
  BY <1>2 DEF Blocks, BlockOf, Locals
<1> QED BY <1>3, <1>4 DEF IsBlock, Stmts

\* One statement after the other, from any environment.
LEMMA AlongSteps ==
  ASSUME NEW env, NEW stmts, Len(stmts) \in Nat
  PROVE  /\ Along(env, stmts)[0] = env
         /\ \A i \in 1..Len(stmts) :
              Along(env, stmts)[i] = Write(Along(env, stmts)[i - 1], stmts[i])
<1> DEFINE Eqn(g, n) == g = [i \in 0..n |-> IF i = 0 THEN env ELSE Write(g[i - 1], stmts[i])]
           T == {n \in 0..Len(stmts) : ~\E g : Eqn(g, n)}
<1>1. \E g : Eqn(g, 0)
  <2> DEFINE h == [i \in 0..0 |-> env]
  <2>1. h = [i \in 0..0 |-> IF i = 0 THEN env ELSE Write(h[i - 1], stmts[i])]
    OBVIOUS
  <2> QED BY <2>1
<1>2. ASSUME NEW n \in Nat, NEW g, Eqn(g, n) PROVE \E h : Eqn(h, n + 1)
  <2> DEFINE h == [i \in 0..n + 1 |-> IF i = n + 1 THEN Write(g[n], stmts[n + 1]) ELSE g[i]]
  <2>1. ASSUME NEW i \in 0..n + 1
        PROVE  h[i] = IF i = 0 THEN env ELSE Write(h[i - 1], stmts[i])
    <3>1. CASE i = n + 1
      <4>1. h[i] = Write(g[n], stmts[n + 1]) /\ i # 0 /\ i - 1 = n /\ h[n] = g[n]
        BY <3>1
      <4> QED BY <3>1, <4>1
    <3>2. CASE i # n + 1
      <4>1. i \in 0..n /\ h[i] = g[i]
        BY <3>2
      <4>2. g[i] = IF i = 0 THEN env ELSE Write(g[i - 1], stmts[i])
        BY <1>2, <4>1
      <4>3. i # 0 => h[i - 1] = g[i - 1]
        BY <4>1
      <4> QED BY <4>1, <4>2, <4>3
    <3> QED BY <3>1, <3>2
  <2>2. h = [i \in 0..n + 1 |-> h[i]]
    OBVIOUS
  <2>3. Eqn(h, n + 1)
    <3> HIDE DEF h
    <3> QED BY <2>1, <2>2
  <2> QED BY <2>3
<1>3. T = {}
  <2> SUFFICES ASSUME T # {} PROVE FALSE
    OBVIOUS
  <2>1. PICK m \in T : \A n \in T : m <= n
    <3> HIDE DEF T
    <3>1. T \subseteq Nat
      BY DEF T
    <3> QED BY <3>1, NatMin
  <2>2. m # 0
    BY <1>1
  <2>3. m - 1 \in Nat /\ m - 1 \in 0..Len(stmts) /\ m - 1 \notin T /\ (m - 1) + 1 = m
    <3>1. T \subseteq 0..Len(stmts)
      OBVIOUS
    <3> HIDE DEF T
    <3> QED BY <2>1, <2>2, <3>1
  <2>4. \E g : Eqn(g, m - 1)
    BY <2>3
  <2>5. \E g : Eqn(g, (m - 1) + 1)
    <3> HIDE DEF Eqn
    <3> QED BY <1>2, <2>3, <2>4
  <2> QED BY <2>1, <2>3, <2>5
<1>4. \E g : Eqn(g, Len(stmts))
  BY <1>3
<1> DEFINE after == CHOOSE g : Eqn(g, Len(stmts))
<1>5. Along(env, stmts) = after
  BY DEF Along, With
<1>6. Eqn(after, Len(stmts))
  BY <1>4
<1> HIDE DEF after
<1> QED BY <1>5, <1>6

\* Every one of them is an environment.
LEMMA AlongType ==
  ASSUME program \in DOMAIN Programs, NEW f \in Funcs, NEW b \in Blocks(f), NEW env \in Envs(f)
  PROVE  /\ Len(Stmts(f, b)) \in Nat /\ DOMAIN Stmts(f, b) = 1..Len(Stmts(f, b))
         /\ \A i \in 0..Len(Stmts(f, b)) : Along(env, Stmts(f, b))[i] \in Envs(f)
<1> DEFINE s == Stmts(f, b)
           a == Along(env, s)
           T == {n \in 0..Len(s) : a[n] \notin Envs(f)}
<1>1. s \in Seq(ToSet(s)) /\ (\A i \in DOMAIN s : IsStmt(s[i], Locals(f), Funcs))
  BY Shape
<1>2. Len(s) \in Nat /\ DOMAIN s = 1..Len(s)
  <2> HIDE DEF s
  <2> QED BY <1>1, LenProperties
<1>3. a[0] = env /\ \A i \in 1..Len(s) : a[i] = Write(a[i - 1], s[i])
  <2> HIDE DEF s
  <2> QED BY <1>2, AlongSteps
<1> HIDE DEF a
<1>4. T = {}
  <2> SUFFICES ASSUME T # {} PROVE FALSE
    OBVIOUS
  <2>1. PICK m \in T : \A n \in T : m <= n
    <3> HIDE DEF T
    <3>1. T \subseteq Nat
      BY <1>2 DEF T
    <3> QED BY <3>1, NatMin
  <2>2. m # 0
    BY <1>3
  <2>3. m \in 1..Len(s) /\ m - 1 \in 0..Len(s) /\ m - 1 \notin T
    BY <1>2, <2>1, <2>2
  <2>4. a[m - 1] \in Envs(f) /\ IsStmt(s[m], Locals(f), Funcs) /\ a[m] = Write(a[m - 1], s[m])
    BY <1>1, <1>2, <1>3, <2>3
  <2>5. Eval(a[m - 1], s[m].e) \in Interval
    BY <2>4, EvalType DEF IsStmt, Envs
  <2>6. a[m] \in Envs(f)
    BY <2>4, <2>5 DEF Write, Envs
  <2> QED BY <2>1, <2>6
<1> QED BY <1>2, <1>4 DEF a

\* The edges out of a block.
LEMMA SuccessorsShape ==
  ASSUME program \in DOMAIN Programs, NEW f \in Funcs, NEW b \in Blocks(f)
  PROVE  LET t == BlockOf(f, b).term
             h == BlockOf(f, b).handler
             s == Successors(f, b)
         IN  /\ s \in Seq(Blocks(f) \ {1})
             /\ t.k = "jump" => 1 \in DOMAIN s /\ s[1] = t.to /\ (h # 0 => 2 \in DOMAIN s /\ s[2] = h)
             /\ t.k = "branch" => /\ 1 \in DOMAIN s /\ s[1] = t.to /\ 2 \in DOMAIN s /\ s[2] = t.else
                                  /\ (h # 0 => 3 \in DOMAIN s /\ s[3] = h)
             /\ t.k = "return" => (h # 0 => 1 \in DOMAIN s /\ s[1] = h)
<1> DEFINE t == BlockOf(f, b).term
           h == BlockOf(f, b).handler
           R == IF h = 0 THEN <<>> ELSE <<h>>
           B == Blocks(f) \ {1}
<1>1. IsTerm(t, Locals(f), B) /\ h \in B \cup {0}
  BY Shape
<1>2. Successors(f, b) = (CASE t.k = "jump" -> <<t.to>>
                            [] t.k = "branch" -> <<t.to, t.else>>
                            [] OTHER -> <<>>) \o R
  BY DEF Successors
<1>3. R \in Seq(B) /\ (h # 0 => Len(R) = 1 /\ R[1] = h)
  <2> HIDE DEF h, B
  <2>1. CASE h = 0
    BY <2>1
  <2>2. CASE h # 0
    <3>1. R = <<h>> /\ h \in B
      BY <1>1, <2>2
    <3> HIDE DEF R
    <3> QED BY <3>1
  <2> QED BY <2>1, <2>2
<1> HIDE DEF R, h
<1>4. CASE t.k = "jump"
  <2>1. Successors(f, b) = <<t.to>> \o R /\ t.to \in B
    BY <1>1, <1>2, <1>4 DEF IsTerm
  <2> HIDE DEF B, t
  <2>2. <<t.to>> \o R \in Seq(B) /\ (<<t.to>> \o R)[1] = t.to /\ Len(<<t.to>> \o R) = 1 + Len(R) /\ Len(R) \in Nat
    BY <1>3, <2>1
  <2>3. h # 0 => (<<t.to>> \o R)[2] = h
    BY <1>3, <2>1
  <2> QED BY <1>3, <1>4, <2>1, <2>2, <2>3 DEF B, t, h
<1>5. CASE t.k = "branch"
  <2>1. Successors(f, b) = <<t.to, t.else>> \o R /\ t.to \in B /\ t.else \in B
    BY <1>1, <1>2, <1>5 DEF IsTerm
  <2> HIDE DEF B, t
  <2> DEFINE q == <<t.to, t.else>> \o R
  <2>2. q \in Seq(B) /\ q[1] = t.to /\ q[2] = t.else /\ Len(q) = 2 + Len(R) /\ Len(R) \in Nat
    BY <1>3, <2>1
  <2>3. h # 0 => q[3] = h
    <3> DEFINE p == <<t.to, t.else>>
    <3>1. p \in Seq(B) /\ Len(p) = 2 /\ q = p \o R
      BY <2>1
    <3> HIDE DEF R, h, p, q
    <3> SUFFICES ASSUME h # 0 PROVE q[3] = h
      OBVIOUS
    <3>2. Len(R) = 1 /\ R[1] = h
      BY <1>3
    <3>3. 3 \in 1..Len(p) + Len(R) /\ ~(3 <= Len(p)) /\ 3 - Len(p) = 1
      BY <3>1, <3>2
    <3>4. (p \o R)[3] = R[3 - Len(p)]
      BY <1>3, <3>1, <3>3, ConcatProperties
    <3> QED BY <3>1, <3>2, <3>3, <3>4
  <2> QED BY <1>3, <1>5, <2>1, <2>2, <2>3 DEF B, t, h
<1>6. CASE t.k = "return"
  <2>1. Successors(f, b) = <<>> \o R
    BY <1>2, <1>6
  <2> HIDE DEF B, t
  <2>2. Successors(f, b) = R
    BY <1>3, <2>1
  <2> QED BY <1>3, <1>6, <2>2 DEF B, t, h
<1> QED BY <1>1, <1>4, <1>5, <1>6 DEF IsTerm, t, h, B

----------------------------------------------------------------------------
(* What a run can do inside one function: a point is a block, a position in *)
(* it (the last one is the terminator) and a store.                         *)
Val == [k : {"int", "bool", "none"}, n : Value]
Stores(f) == [Locals(f) -> Val]
Points(f) ==
  {c \in [b : Blocks(f), i : Nat, st : Stores(f)] : c.i \in 1..Len(Stmts(f, c.b)) + 1}
Put(st, t, v) == IF t = 0 THEN st ELSE [st EXCEPT ![t] = v]

\* The next statement is executed: it writes its value, or any for a call.
Steps(f, c, d) ==
  /\ c.i <= Len(Stmts(f, c.b)) /\ d.b = c.b /\ d.i = c.i + 1
  /\ \E v \in Val : /\ d.st = Put(c.st, Stmts(f, c.b)[c.i].t, v)
                    /\ Stmts(f, c.b)[c.i].e.k # "call" => v = Outcome(c.st, Stmts(f, c.b)[c.i].e)
\* The block is left, by its terminator or, anywhere, by an exception.
Leaves(f, c, d) ==
  LET t == BlockOf(f, c.b).term
  IN /\ d.i = 1 /\ d.st = c.st
     /\ \/ BlockOf(f, c.b).handler # 0 /\ d.b = BlockOf(f, c.b).handler
        \/ c.i = Len(Stmts(f, c.b)) + 1 /\ t.k = "jump" /\ d.b = t.to
        \/ /\ c.i = Len(Stmts(f, c.b)) + 1 /\ t.k = "branch"
           /\ d.b = IF Compare(t.op, ValueOf(c.st, t.l).n, ValueOf(c.st, t.r).n) THEN t.to ELSE t.else
Starts(f, seed) ==
  {c \in Points(f) : c.b = 1 /\ c.i = 1 /\ \A l \in Params(f) : c.st[l].n \in Values(seed)}

\* The points of all runs of f from arguments within seed: the least set that
\* contains the starts and is closed.
Closed(f, seed, S) ==
  /\ Starts(f, seed) \subseteq S
  /\ \A c \in S, d \in Points(f) : Steps(f, c, d) \/ Leaves(f, c, d) => d \in S
Reach(f, seed) == {c \in Points(f) : \A S \in SUBSET Points(f) : Closed(f, seed, S) => c \in S}

LEMMA ReachClosed ==
  ASSUME NEW f, NEW seed PROVE Closed(f, seed, Reach(f, seed)) /\ Reach(f, seed) \subseteq Points(f)
<1>1. Starts(f, seed) \subseteq Points(f)
  BY DEF Starts
<1>2. Starts(f, seed) \subseteq Reach(f, seed)
  BY <1>1 DEF Reach, Closed
<1>3. ASSUME NEW c \in Reach(f, seed), NEW d \in Points(f), Steps(f, c, d) \/ Leaves(f, c, d)
      PROVE  d \in Reach(f, seed)
  <2> SUFFICES ASSUME NEW S \in SUBSET Points(f), Closed(f, seed, S) PROVE d \in S
    BY DEF Reach
  <2>1. c \in S
    BY DEF Reach
  <2> QED BY <1>3, <2>1 DEF Closed
<1> QED BY <1>2, <1>3 DEF Closed, Reach

LEMMA ReachLeast ==
  ASSUME NEW f, NEW seed, NEW S \in SUBSET Points(f), Closed(f, seed, S) PROVE Reach(f, seed) \subseteq S
BY DEF Reach

\* The analysis knows of a point: the store is within the environment there.
Covers(f, in, c) == in[c.b] # None /\ Within(c.st, EnvAt(f, in, c.b, c.i), Locals(f))
SoundFor(f, seed, in) == \A c \in Reach(f, seed) : Covers(f, in, c)

LEMMA NoneIsNoEnv ==
  ASSUME program \in DOMAIN Programs, NEW f \in Funcs PROVE None \notin Envs(f)
<1>1. 1 \in Locals(f)
  BY Shape
<1>2. DOMAIN None = {}
  BY DEF None
<1> QED BY <1>1, <1>2 DEF Envs

LEMMA EnvAtType ==
  ASSUME program \in DOMAIN Programs, NEW f \in Funcs, NEW in \in Ins(f), NEW c \in Points(f), in[c.b] # None
  PROVE  /\ c.b \in Blocks(f) /\ in[c.b] \in Envs(f) /\ EnvAt(f, in, c.b, c.i) \in Envs(f)
         /\ c.i = 1 => EnvAt(f, in, c.b, c.i) = in[c.b]
<1>1. c.b \in Blocks(f) /\ c.i \in Nat /\ c.i \in 1..Len(Stmts(f, c.b)) + 1
  BY DEF Points
<1>2. in[c.b] \in Envs(f)
  BY <1>1 DEF Ins
<1>3. Len(Stmts(f, c.b)) \in Nat
  BY <1>1, <1>2, AlongType
<1>4. c.i - 1 \in 0..Len(Stmts(f, c.b)) /\ (c.i = 1 => c.i - 1 = 0)
  BY <1>1, <1>3
<1>5. Along(in[c.b], Stmts(f, c.b))[c.i - 1] \in Envs(f)
  BY <1>1, <1>2, <1>4, AlongType
<1>6. Along(in[c.b], Stmts(f, c.b))[0] = in[c.b]
  BY <1>3, AlongSteps
<1> QED BY <1>1, <1>2, <1>4, <1>5, <1>6 DEF EnvAt, Stmts

\* A statement keeps the store within the environment.
LEMMA StepsCovered ==
  ASSUME program \in DOMAIN Programs, NEW f \in Funcs, NEW in \in Ins(f),
         NEW c \in Points(f), NEW d \in Points(f), Covers(f, in, c), Steps(f, c, d)
  PROVE  Covers(f, in, d)
<1> DEFINE s == Stmts(f, c.b)
           a == Along(in[c.b], s)
           L == Locals(f)
           u == s[c.i]
<1>1. /\ c.b \in Blocks(f) /\ c.i \in 1..Len(s) /\ d.b = c.b /\ d.i = c.i + 1 /\ in[c.b] \in Envs(f)
      /\ c.st \in Stores(f)
  <2>1. c.b \in Blocks(f) /\ c.i \in Nat /\ c.i >= 1 /\ c.st \in Stores(f)
    BY DEF Points
  <2>2. Len(s) \in Nat /\ in[c.b] \in Envs(f)
    BY <2>1, EnvAtType, AlongType DEF Covers
  <2> QED BY <2>1, <2>2 DEF Steps
<1>2. PICK v \in Val : d.st = Put(c.st, u.t, v) /\ (u.e.k # "call" => v = Outcome(c.st, u.e))
  BY DEF Steps
<1>3. IsStmt(u, L, Funcs)
  <2>1. c.i \in DOMAIN s
    BY <1>1, AlongType
  <2> QED BY <1>1, <2>1, Shape
<1>4. a[c.i] = Write(a[c.i - 1], u)
  <2>1. Len(s) \in Nat
    BY <1>1, AlongType
  <2> HIDE DEF s
  <2> QED BY <1>1, <2>1, AlongSteps DEF u
<1>5. a[c.i - 1] \in [L -> Interval] /\ Within(c.st, a[c.i - 1], L)
  <2>1. EnvAt(f, in, c.b, c.i) = a[c.i - 1]
    BY DEF EnvAt, Stmts
  <2> QED BY <2>1, EnvAtType DEF Covers, Envs
<1>6. EnvAt(f, in, d.b, d.i) = a[c.i]
  <2>1. (c.i + 1) - 1 = c.i
    BY <1>1
  <2> QED BY <1>1, <2>1 DEF EnvAt, Stmts
<1>7. v.n \in Value
  BY DEF Val
<1>8. CASE u.t = 0
  BY <1>1, <1>2, <1>4, <1>5, <1>6, <1>8 DEF Covers, Put, Write
<1>9. CASE u.t # 0
  <2>1. u.t \in L
    BY <1>3, <1>9 DEF IsStmt
  <2>2. v.n \in Values(Eval(a[c.i - 1], u.e))
    <3>1. CASE u.e.k = "call"
      <4>1. Eval(a[c.i - 1], u.e) = Top
        BY <3>1 DEF Eval, LeafInterval
      <4> QED BY <1>7, <4>1, TopSound
    <3>2. CASE u.e.k # "call"
      <4>1. IsExpr(u.e, L) /\ v = Outcome(c.st, u.e)
        BY <1>2, <1>3, <3>2 DEF IsStmt
      <4> HIDE DEF a, u, L
      <4> QED BY <1>5, <1>7, <4>1, EvalSound
    <3> QED BY <3>1, <3>2
  <2>3. a[c.i] = [a[c.i - 1] EXCEPT ![u.t] = Eval(a[c.i - 1], u.e)] /\ d.st = [c.st EXCEPT ![u.t] = v]
    BY <1>2, <1>4, <1>9 DEF Write, Put
  <2>4. Within(d.st, a[c.i], L)
    <3> HIDE DEF a, u
    <3> QED BY <1>1, <1>5, <2>1, <2>2, <2>3 DEF Within, Stores
  <2> QED BY <1>1, <1>6, <2>4 DEF Covers
<1> QED BY <1>8, <1>9

----------------------------------------------------------------------------
(* What a block sends covers whatever leaves it.                            *)
LEMMA SentShape ==
  ASSUME program \in DOMAIN Programs, NEW f \in Funcs, NEW b \in Blocks(f), NEW env \in Envs(f)
  PROVE  LET q == Sent(f, b, env)
             s == Successors(f, b)
         IN  /\ DOMAIN q = DOMAIN s /\ Len(q) \in Nat /\ DOMAIN q = 1..Len(q)
             /\ \A i \in DOMAIN s :
                  /\ q[i] = [to |-> s[i], env |-> EdgeEnv(BlockOf(f, b).term, i, Transfer(env, Stmts(f, b)))]
                  /\ s[i] \in Blocks(f) \ {1} /\ q[i].env \in Envs(f) \cup {None}
<1> DEFINE s == Successors(f, b)
           t == BlockOf(f, b).term
           out == Transfer(env, Stmts(f, b))
           q == [i \in DOMAIN s |-> [to |-> s[i], env |-> EdgeEnv(t, i, out)]]
<1>1. Sent(f, b, env) = q
  BY DEF Sent, With, Stmts
<1>2. s \in Seq(Blocks(f) \ {1})
  BY SuccessorsShape
<1>3. Len(s) \in Nat /\ DOMAIN s = 1..Len(s) /\ \A i \in DOMAIN s : s[i] \in Blocks(f) \ {1}
  <2> HIDE DEF s
  <2> QED BY <1>2, LenProperties, ElementOfSeq
<1>4. out \in Envs(f)
  BY AlongType DEF Transfer
<1>5. IsTerm(t, Locals(f), Blocks(f) \ {1})
  BY Shape
<1>6. ASSUME NEW i \in DOMAIN s PROVE EdgeEnv(t, i, out) \in Envs(f) \cup {None}
  <2>1. CASE t.k = "jump" /\ i = 1
    BY <1>4, <2>1 DEF EdgeEnv
  <2>2. CASE t.k = "branch" /\ i <= 2
    <3>1. t.op \in Comparisons /\ IsLeaf(t.l, Locals(f)) /\ IsLeaf(t.r, Locals(f))
      BY <1>5, <2>2 DEF IsTerm
    <3>2. UnlessDead(Refined(out, t, i = 1)) \in [Locals(f) -> Interval] \cup {None}
      <4> HIDE DEF out, t
      <4>1. (i = 1) \in BOOLEAN
        OBVIOUS
      <4> QED BY <1>4, <3>1, <4>1, BranchType DEF Envs
    <3>3. RefineEdge(out, t, i = 1) = UnlessDead(Refined(out, t, i = 1))
      BY DEF RefineEdge, With
    <3>4. EdgeEnv(t, i, out) = RefineEdge(out, t, i = 1)
      BY <2>2 DEF EdgeEnv
    <3> QED BY <3>2, <3>3, <3>4 DEF Envs
  <2>3. CASE ~(t.k = "jump" /\ i = 1) /\ ~(t.k = "branch" /\ i <= 2)
    <3>1. EdgeEnv(t, i, out) = [l \in DOMAIN out |-> Top]
      BY <2>3 DEF EdgeEnv
    <3> QED BY <1>4, <3>1, TopSound DEF Envs
  <2> QED BY <2>1, <2>2, <2>3
<1>7. DOMAIN q = 1..Len(q) /\ Len(q) \in Nat
  <2>1. DOMAIN q = 1..Len(s)
    BY <1>3
  <2>2. Len(q) = Len(s)
    <3> HIDE DEF s
    <3> QED BY <1>3
  <2> HIDE DEF q, s
  <2> QED BY <1>3, <2>1, <2>2
<1>8. \A i \in DOMAIN s : q[i] = [to |-> s[i], env |-> EdgeEnv(t, i, out)]
  OBVIOUS
<1> HIDE DEF q, s, out, t
<1> QED BY <1>1, <1>3, <1>6, <1>7, <1>8 DEF q, s, out, t

LEMMA EdgeCovered ==
  ASSUME program \in DOMAIN Programs, NEW f \in Funcs, NEW in \in Ins(f),
         NEW c \in Points(f), NEW d \in Points(f), Covers(f, in, c), Leaves(f, c, d)
  PROVE  \E i \in DOMAIN Successors(f, c.b) :
           LET s == Sent(f, c.b, in[c.b])[i]
           IN  s.to = d.b /\ s.to # 1 /\ s.env \in Envs(f) /\ Within(d.st, s.env, Locals(f))
<1> DEFINE t == BlockOf(f, c.b).term
           h == BlockOf(f, c.b).handler
           succ == Successors(f, c.b)
           q == Sent(f, c.b, in[c.b])
           L == Locals(f)
           out == Transfer(in[c.b], Stmts(f, c.b))
<1>1. /\ c.b \in Blocks(f) /\ in[c.b] \in Envs(f) /\ c.st \in Stores(f) /\ d.st = c.st
      /\ EnvAt(f, in, c.b, c.i) \in Envs(f) /\ Within(c.st, EnvAt(f, in, c.b, c.i), L)
  BY EnvAtType DEF Covers, Leaves, Points
<1>2. \A i \in DOMAIN succ :
        /\ q[i] = [to |-> succ[i], env |-> EdgeEnv(t, i, out)]
        /\ succ[i] \in Blocks(f) \ {1} /\ q[i].env \in Envs(f) \cup {None}
  BY <1>1, SentShape
<1>3. IsTerm(t, L, Blocks(f) \ {1}) /\ Len(Stmts(f, c.b)) \in Nat
  BY <1>1, Shape, AlongType
<1>4. out \in Envs(f)
  BY <1>1, AlongType DEF Transfer
<1>a. /\ t.k = "jump" => 1 \in DOMAIN succ /\ succ[1] = t.to /\ (h # 0 => 2 \in DOMAIN succ /\ succ[2] = h)
      /\ t.k = "branch" => /\ 1 \in DOMAIN succ /\ succ[1] = t.to /\ 2 \in DOMAIN succ /\ succ[2] = t.else
                           /\ (h # 0 => 3 \in DOMAIN succ /\ succ[3] = h)
      /\ t.k = "return" => (h # 0 => 1 \in DOMAIN succ /\ succ[1] = h)
  BY <1>1, SuccessorsShape
<1>b. c.i = Len(Stmts(f, c.b)) + 1 => Within(c.st, out, L)
  <2>1. (Len(Stmts(f, c.b)) + 1) - 1 = Len(Stmts(f, c.b))
    BY <1>3
  <2> QED BY <1>1, <2>1 DEF EnvAt, Transfer, Stmts
<1> HIDE DEF t, h, succ, q, out
<1>5. SUFFICES \E i \in DOMAIN succ : succ[i] = d.b /\ EdgeEnv(t, i, out) \in Envs(f)
                                      /\ Within(d.st, EdgeEnv(t, i, out), L)
  <2>1. ASSUME NEW i \in DOMAIN succ, succ[i] = d.b, EdgeEnv(t, i, out) \in Envs(f),
               Within(d.st, EdgeEnv(t, i, out), L)
        PROVE  q[i].to = d.b /\ q[i].to # 1 /\ q[i].env \in Envs(f) /\ Within(d.st, q[i].env, L)
    <3>1. q[i] = [to |-> succ[i], env |-> EdgeEnv(t, i, out)] /\ succ[i] # 1
      BY <1>2
    <3>2. q[i].to = succ[i] /\ q[i].env = EdgeEnv(t, i, out)
      BY <3>1
    <3> QED BY <2>1, <3>1, <3>2
  <2> QED BY <2>1 DEF q, succ
<1>6. CASE h # 0 /\ d.b = h
  <2>1. PICK i \in DOMAIN succ : succ[i] = h /\ ~(t.k = "jump" /\ i = 1) /\ ~(t.k = "branch" /\ i <= 2)
    <3>1. CASE t.k = "jump"
      <4>1. 2 \in DOMAIN succ /\ succ[2] = h /\ 2 # 1 /\ t.k # "branch"
        BY <1>6, <1>a, <3>1
      <4> QED BY <4>1
    <3>2. CASE t.k = "branch"
      <4>1. 3 \in DOMAIN succ /\ succ[3] = h /\ ~(3 <= 2) /\ t.k # "jump"
        BY <1>6, <1>a, <3>2
      <4> QED BY <4>1
    <3>3. CASE t.k = "return"
      <4>1. 1 \in DOMAIN succ /\ succ[1] = h /\ t.k # "jump" /\ t.k # "branch"
        BY <1>6, <1>a, <3>3
      <4> QED BY <4>1
    <3> QED BY <1>3, <3>1, <3>2, <3>3 DEF IsTerm
  <2>2. EdgeEnv(t, i, out) = [l \in DOMAIN out |-> Top]
    BY <2>1 DEF EdgeEnv
  <2>3. EdgeEnv(t, i, out) = [l \in L |-> Top]
    BY <1>4, <2>2 DEF Envs
  <2>4. \A l \in L : d.st[l].n \in Value
    BY <1>1 DEF Stores, Val
  <2> QED BY <1>6, <2>1, <2>3, <2>4, TopSound DEF Envs, Within
<1>7. CASE c.i = Len(Stmts(f, c.b)) + 1 /\ t.k = "jump" /\ d.b = t.to
  <2>1. EdgeEnv(t, 1, out) = out
    BY <1>7 DEF EdgeEnv
  <2> QED BY <1>1, <1>4, <1>7, <1>a, <1>b, <2>1
<1>8. CASE /\ c.i = Len(Stmts(f, c.b)) + 1 /\ t.k = "branch"
           /\ d.b = IF Compare(t.op, ValueOf(c.st, t.l).n, ValueOf(c.st, t.r).n) THEN t.to ELSE t.else
  <2>1. t.op \in Comparisons /\ IsLeaf(t.l, L) /\ IsLeaf(t.r, L)
    BY <1>3, <1>8 DEF IsTerm
  <2> DEFINE taken == Compare(t.op, ValueOf(c.st, t.l).n, ValueOf(c.st, t.r).n)
  <2>2. PICK side \in BOOLEAN : side <=> taken
    OBVIOUS
  <2> DEFINE i == IF side THEN 1 ELSE 2
             u == Branch(t.op, t.l, t.r, t.to, t.else)
  <2>3. i \in DOMAIN succ /\ succ[i] = d.b /\ i <= 2 /\ side = (i = 1)
    BY <1>8, <1>a, <2>2
  <2>4. EdgeEnv(t, i, out) = UnlessDead(Refined(out, t, side))
    <3>1. EdgeEnv(t, i, out) = RefineEdge(out, t, i = 1)
      BY <1>8, <2>3 DEF EdgeEnv
    <3>2. RefineEdge(out, t, i = 1) = UnlessDead(Refined(out, t, i = 1))
      BY DEF RefineEdge, With
    <3> QED BY <2>3, <3>1, <3>2
  <2>5. Refined(out, t, side) = Refined(out, u, side)
    BY DEF Refined, Branch
  <2>6. UnlessDead(Refined(out, u, side)) \in [L -> Interval] /\ Within(c.st, UnlessDead(Refined(out, u, side)), L)
    BY <1>4, <1>8, <1>b, <2>1, <2>2, BranchSound DEF Envs
  <2> HIDE DEF i, u
  <2> QED BY <1>1, <2>3, <2>4, <2>5, <2>6 DEF Envs
<1> QED BY <1>6, <1>7, <1>8 DEF Leaves, t, h

\* Everything env1 allows, env2 allows.
Inside(f, env1, env2) == \A l \in Locals(f) : Values(env1[l]) \subseteq Values(env2[l])

LEMMA InsideWithin ==
  ASSUME NEW f, NEW env1, NEW env2, NEW st, Inside(f, env1, env2), Within(st, env1, Locals(f))
  PROVE  Within(st, env2, Locals(f))
BY DEF Inside, Within

\* A block is settled when its successors have taken in all it sends.
Delivered(f, in, s) == s.to # 1 /\ s.env # None => in[s.to] # None /\ Inside(f, s.env, in[s.to])
Settled(f, in, b) == \A i \in DOMAIN Successors(f, b) : Delivered(f, in, Sent(f, b, in[b])[i])

LEMMA StartsCovered ==
  ASSUME program \in DOMAIN Programs, NEW f \in Funcs, NEW seed \in Interval, NEW in \in Ins(f),
         in[1] = EntryEnv(f, seed), NEW c \in Starts(f, seed)
  PROVE  Covers(f, in, c)
<1>1. c \in Points(f) /\ c.b = 1 /\ c.i = 1 /\ c.st \in Stores(f) /\ 1 \in Blocks(f)
      /\ \A l \in Params(f) : c.st[l].n \in Values(seed)
  BY Shape DEF Starts, Points
<1>2. in[1] \in Envs(f)
  BY TopSound DEF EntryEnv, Envs
<1>3. in[c.b] # None
  BY <1>1, <1>2, NoneIsNoEnv
<1>4. EnvAt(f, in, c.b, c.i) = EntryEnv(f, seed)
  BY <1>1, <1>3, EnvAtType
<1>5. ASSUME NEW l \in Locals(f) PROVE c.st[l].n \in Values(EntryEnv(f, seed)[l])
  <2>1. CASE l \in Params(f)
    BY <1>1, <2>1 DEF EntryEnv
  <2>2. CASE l \notin Params(f)
    <3>1. c.st[l].n \in Value
      BY <1>1 DEF Stores, Val
    <3> QED BY <2>2, <3>1, TopSound DEF EntryEnv
  <2> QED BY <2>1, <2>2
<1> QED BY <1>3, <1>4, <1>5 DEF Covers, Within

\* When every reached block is settled, the analysis knows of every point.
LEMMA SettledSound ==
  ASSUME program \in DOMAIN Programs, NEW f \in Funcs, NEW seed \in Interval, NEW in \in Ins(f),
         in[1] = EntryEnv(f, seed), \A b \in Blocks(f) : in[b] # None => Settled(f, in, b)
  PROVE  SoundFor(f, seed, in)
<1> DEFINE S == {c \in Points(f) : Covers(f, in, c)}
<1>1. Starts(f, seed) \subseteq S
  BY StartsCovered DEF Starts
<1>2. ASSUME NEW c \in S, NEW d \in Points(f), Steps(f, c, d) PROVE d \in S
  BY <1>2, StepsCovered
<1>3. ASSUME NEW c \in S, NEW d \in Points(f), Leaves(f, c, d) PROVE d \in S
  <2>1. c \in Points(f) /\ Covers(f, in, c) /\ c.b \in Blocks(f) /\ in[c.b] # None /\ d.i = 1
    BY <1>3 DEF Points, Covers, Leaves
  <2>2. PICK i \in DOMAIN Successors(f, c.b) :
          LET s == Sent(f, c.b, in[c.b])[i]
          IN  s.to = d.b /\ s.to # 1 /\ s.env \in Envs(f) /\ Within(d.st, s.env, Locals(f))
    BY <1>3, <2>1, EdgeCovered
  <2> DEFINE s == Sent(f, c.b, in[c.b])[i]
  <2>3. s.to = d.b /\ s.to # 1 /\ s.env # None /\ Within(d.st, s.env, Locals(f))
    BY <2>2, NoneIsNoEnv
  <2>4. Delivered(f, in, s)
    BY <2>1 DEF Settled
  <2> HIDE DEF s
  <2>5. in[d.b] # None /\ Inside(f, s.env, in[d.b])
    BY <2>3, <2>4 DEF Delivered
  <2>6. EnvAt(f, in, d.b, d.i) = in[d.b]
    BY <2>1, <2>5, EnvAtType
  <2>7. Within(d.st, in[d.b], Locals(f))
    BY <2>3, <2>5, InsideWithin
  <2> QED BY <2>5, <2>6, <2>7 DEF Covers
<1>4. Closed(f, seed, S) /\ S \in SUBSET Points(f)
  <2> HIDE DEF S
  <2>1. S \in SUBSET Points(f)
    BY DEF S
  <2> QED BY <1>1, <1>2, <1>3, <2>1 DEF Closed
<1> HIDE DEF S
<1>5. Reach(f, seed) \subseteq S
  BY <1>4, ReachLeast
<1> QED BY <1>5 DEF SoundFor, S

----------------------------------------------------------------------------
(* Phase 1: the worklist.                                                   *)
Facts(f) == [in : Ins(f), visit : [Blocks(f) -> Nat], queue : Seq(Blocks(f)), steps : Nat,
             cand : Ins(f) \cup {None}, round : Nat]

\* From w to u the environments only widen, and what changed is on the queue.
Grows(f, w, u) ==
  \A x \in Blocks(f) :
    /\ w.in[x] # None => u.in[x] # None /\ Inside(f, w.in[x], u.in[x])
    /\ u.in[x] = w.in[x] \/ x \in ToSet(u.queue)
    /\ x \in ToSet(w.queue) => x \in ToSet(u.queue)
Queued(w) == \A x \in ToSet(w.queue) : w.in[x] # None
Alike(w, u) == u.in[1] = w.in[1] /\ u.steps = w.steps /\ u.cand = w.cand /\ u.round = w.round

LEMMA IncomingSound ==
  ASSUME program \in DOMAIN Programs, NEW f \in Funcs, NEW w \in Facts(f), NEW s,
         s.to \in Blocks(f), s.env \in Envs(f)
  PROVE  /\ Incoming(w, s) \in Envs(f) /\ Inside(f, s.env, Incoming(w, s))
         /\ w.in[s.to] # None => Inside(f, w.in[s.to], Incoming(w, s))
<1> DEFINE old == w.in[s.to]
           join == JoinEnv(old, s.env)
<1>1. CASE old = None
  BY <1>1 DEF Incoming, Inside
<1>2. CASE old # None
  <2>1. old \in [Locals(f) -> Interval]
    BY <1>2 DEF Facts, Ins, Envs
  <2>2. join \in [Locals(f) -> Interval] /\ Inside(f, old, join) /\ Inside(f, s.env, join)
    <3>1. join = [l \in Locals(f) |-> Join(old[l], s.env[l])]
      BY <2>1 DEF JoinEnv
    <3>2. ASSUME NEW l \in Locals(f)
          PROVE  /\ join[l] \in Interval
                 /\ Values(old[l]) \subseteq Values(join[l]) /\ Values(s.env[l]) \subseteq Values(join[l])
      <4>1. old[l] \in Interval /\ s.env[l] \in Interval
        BY <2>1 DEF Envs
      <4>2. join[l] = Join(old[l], s.env[l])
        BY <3>1
      <4> HIDE DEF old, join
      <4> QED BY <4>1, <4>2, JoinSound
    <3> HIDE DEF join, old
    <3> QED BY <3>1, <3>2 DEF Inside
  <2>3. /\ WidenEnv(old, join) \in [Locals(f) -> Interval]
        /\ Inside(f, old, WidenEnv(old, join)) /\ Inside(f, s.env, WidenEnv(old, join))
    <3>1. WidenEnv(old, join) = [l \in Locals(f) |-> Widen(old[l], join[l])]
      BY <2>1 DEF WidenEnv
    <3> HIDE DEF join, old
    <3>2. ASSUME NEW l \in Locals(f)
          PROVE  /\ Widen(old[l], join[l]) \in Interval
                 /\ Values(old[l]) \subseteq Values(Widen(old[l], join[l]))
                 /\ Values(join[l]) \subseteq Values(Widen(old[l], join[l]))
      BY <2>1, <2>2, WidenSound
    <3> QED BY <2>2, <3>1, <3>2 DEF Inside
  <2>4. Incoming(w, s) = join \/ Incoming(w, s) = WidenEnv(old, join)
    BY <1>2 DEF Incoming
  <2> HIDE DEF join, old
  <2> QED BY <2>2, <2>3, <2>4 DEF Envs, old
<1> QED BY <1>1, <1>2

LEMMA ReceiveSound ==
  ASSUME program \in DOMAIN Programs, NEW f \in Funcs, NEW w \in Facts(f), Queued(w), NEW s,
         s.to \in Blocks(f), s.env \in Envs(f) \cup {None}
  PROVE  LET u == Receive(w, s)
         IN  u \in Facts(f) /\ Queued(u) /\ Alike(w, u) /\ Grows(f, w, u) /\ Delivered(f, u.in, s)
<1> DEFINE new == Incoming(w, s)
           q == IF Contains(w.queue, s.to) THEN w.queue ELSE Append(w.queue, s.to)
           u == [w EXCEPT !.in[s.to] = new, !.visit[s.to] = @ + 1, !.queue = q]
<1>1. CASE s.to = 1 \/ s.env = None
  <2>1. Receive(w, s) = w
    BY <1>1 DEF Receive
  <2> QED BY <1>1, <2>1 DEF Alike, Grows, Delivered, Inside
<1>2. CASE s.to # 1 /\ s.env # None
  <2>1. Receive(w, s) = IF new = w.in[s.to] THEN w ELSE u
    BY <1>2 DEF Receive, With
  <2>2. s.env \in Envs(f) /\ new \in Envs(f) /\ Inside(f, s.env, new) /\ new # None
        /\ (w.in[s.to] # None => Inside(f, w.in[s.to], new))
    BY <1>2, IncomingSound, NoneIsNoEnv
  <2> HIDE DEF new
  <2>3. CASE new = w.in[s.to]
    <3>1. Receive(w, s) = w
      BY <2>1, <2>3
    <3> QED BY <2>2, <2>3, <3>1 DEF Alike, Grows, Delivered, Inside
  <2>4. CASE new # w.in[s.to]
    <3>1. Receive(w, s) = u
      BY <2>1, <2>4
    <3>2. q \in Seq(Blocks(f)) /\ ToSet(q) = {s.to} \cup ToSet(w.queue)
      <4>1. w.queue \in Seq(Blocks(f))
        BY DEF Facts
      <4>2. CASE Contains(w.queue, s.to)
        <5>1. DOMAIN w.queue = 1..Len(w.queue)
          BY <4>1, LenProperties
        <5>2. s.to \in ToSet(w.queue)
          BY <4>2, <5>1 DEF Contains, ToSet
        <5> QED BY <4>1, <4>2, <5>2
      <4>3. CASE ~Contains(w.queue, s.to)
        BY <4>1, <4>3, AppendLemma
      <4> QED BY <4>2, <4>3
    <3> HIDE DEF q
    <3>3. /\ u \in Facts(f) /\ u.in = [w.in EXCEPT ![s.to] = new] /\ u.queue = q
          /\ u.steps = w.steps /\ u.cand = w.cand /\ u.round = w.round
      <4>1. [w.in EXCEPT ![s.to] = new] \in Ins(f)
        BY <2>2 DEF Ins, Facts
      <4>2. [w.visit EXCEPT ![s.to] = @ + 1] \in [Blocks(f) -> Nat]
        BY DEF Facts
      <4>3. u = [w EXCEPT !.in = [w.in EXCEPT ![s.to] = new], !.visit = [w.visit EXCEPT ![s.to] = @ + 1], !.queue = q]
        BY DEF Facts
      <4> HIDE DEF u
      <4> QED BY <3>2, <4>1, <4>2, <4>3 DEF Facts
    <3> HIDE DEF u
    <3>4. w.in \in [Blocks(f) -> Envs(f) \cup {None}] /\ 1 \in Blocks(f)
      BY Shape DEF Facts, Ins
    <3>5. Queued(u)
      BY <2>2, <3>2, <3>3, <3>4 DEF Queued
    <3>6. Alike(w, u) /\ Delivered(f, u.in, s)
      BY <1>2, <2>2, <3>3, <3>4 DEF Alike, Delivered
    <3>7. Grows(f, w, u)
      <4> SUFFICES ASSUME NEW x \in Blocks(f)
                   PROVE  /\ w.in[x] # None => u.in[x] # None /\ Inside(f, w.in[x], u.in[x])
                          /\ u.in[x] = w.in[x] \/ x \in ToSet(u.queue)
                          /\ x \in ToSet(w.queue) => x \in ToSet(u.queue)
        BY DEF Grows
      <4>1. CASE x = s.to
        BY <2>2, <3>2, <3>3, <3>4, <4>1
      <4>2. CASE x # s.to
        BY <3>2, <3>3, <3>4, <4>2 DEF Inside
      <4> QED BY <4>1, <4>2
    <3> QED BY <3>1, <3>3, <3>5, <3>6, <3>7
  <2> QED BY <2>3, <2>4
<1> QED BY <1>1, <1>2

LEMMA GrowsOn ==
  ASSUME NEW f, NEW w, NEW u, NEW v, Grows(f, w, u), Grows(f, u, v)
  PROVE  Grows(f, w, v)
<1> SUFFICES ASSUME NEW x \in Blocks(f)
             PROVE  /\ w.in[x] # None => v.in[x] # None /\ Inside(f, w.in[x], v.in[x])
                    /\ v.in[x] = w.in[x] \/ x \in ToSet(v.queue)
                    /\ x \in ToSet(w.queue) => x \in ToSet(v.queue)
  BY DEF Grows
<1>1. w.in[x] # None => u.in[x] # None /\ Inside(f, w.in[x], u.in[x])
  BY DEF Grows
<1>2. u.in[x] # None => v.in[x] # None /\ Inside(f, u.in[x], v.in[x])
  BY DEF Grows
<1>3. Inside(f, w.in[x], u.in[x]) /\ Inside(f, u.in[x], v.in[x]) => Inside(f, w.in[x], v.in[x])
  BY DEF Inside
<1> QED BY <1>1, <1>2, <1>3 DEF Grows

LEMMA DeliveredStays ==
  ASSUME NEW f, NEW w, NEW u, Grows(f, w, u), NEW s, s.to \in Blocks(f), Delivered(f, w.in, s)
  PROVE  Delivered(f, u.in, s)
<1> SUFFICES ASSUME s.to # 1, s.env # None PROVE u.in[s.to] # None /\ Inside(f, s.env, u.in[s.to])
  BY DEF Delivered
<1>1. w.in[s.to] # None /\ Inside(f, s.env, w.in[s.to])
  BY DEF Delivered
<1>2. u.in[s.to] # None /\ Inside(f, w.in[s.to], u.in[s.to])
  BY <1>1 DEF Grows
<1> QED BY <1>1, <1>2 DEF Inside

LEMMA ReceiveSteps ==
  ASSUME NEW w, NEW sent, Len(sent) \in Nat
  PROVE  \E g : /\ g[0] = w /\ ReceiveAll(w, sent) = g[Len(sent)]
                /\ \A i \in 1..Len(sent) : g[i] = Receive(g[i - 1], sent[i])
<1> DEFINE Eqn(g, n) == g = [i \in 0..n |-> IF i = 0 THEN w ELSE Receive(g[i - 1], sent[i])]
           T == {n \in 0..Len(sent) : ~\E g : Eqn(g, n)}
<1>1. \E g : Eqn(g, 0)
  <2> DEFINE h == [i \in 0..0 |-> w]
  <2>1. h = [i \in 0..0 |-> IF i = 0 THEN w ELSE Receive(h[i - 1], sent[i])]
    OBVIOUS
  <2> QED BY <2>1
<1>2. ASSUME NEW n \in Nat, NEW g, Eqn(g, n) PROVE \E h : Eqn(h, n + 1)
  <2> DEFINE h == [i \in 0..n + 1 |-> IF i = n + 1 THEN Receive(g[n], sent[n + 1]) ELSE g[i]]
  <2>1. ASSUME NEW i \in 0..n + 1
        PROVE  h[i] = IF i = 0 THEN w ELSE Receive(h[i - 1], sent[i])
    <3>1. CASE i = n + 1
      <4>1. h[i] = Receive(g[n], sent[n + 1]) /\ i # 0 /\ i - 1 = n /\ h[n] = g[n]
        BY <3>1
      <4> QED BY <3>1, <4>1
    <3>2. CASE i # n + 1
      <4>1. i \in 0..n /\ h[i] = g[i]
        BY <3>2
      <4>2. g[i] = IF i = 0 THEN w ELSE Receive(g[i - 1], sent[i])
        BY <1>2, <4>1
      <4>3. i # 0 => h[i - 1] = g[i - 1]
        BY <4>1
      <4> QED BY <4>1, <4>2, <4>3
    <3> QED BY <3>1, <3>2
  <2>2. h = [i \in 0..n + 1 |-> h[i]]
    OBVIOUS
  <2>3. Eqn(h, n + 1)
    <3> HIDE DEF h
    <3> QED BY <2>1, <2>2
  <2> QED BY <2>3
<1>3. T = {}
  <2> SUFFICES ASSUME T # {} PROVE FALSE
    OBVIOUS
  <2>1. PICK m \in T : \A n \in T : m <= n
    <3> HIDE DEF T
    <3>1. T \subseteq Nat
      BY DEF T
    <3> QED BY <3>1, NatMin
  <2>2. m # 0
    BY <1>1
  <2>3. m - 1 \in Nat /\ m - 1 \in 0..Len(sent) /\ m - 1 \notin T /\ (m - 1) + 1 = m
    <3>1. T \subseteq 0..Len(sent)
      OBVIOUS
    <3> HIDE DEF T
    <3> QED BY <2>1, <2>2, <3>1
  <2>4. \E g : Eqn(g, m - 1)
    BY <2>3
  <2>5. \E g : Eqn(g, (m - 1) + 1)
    <3> HIDE DEF Eqn
    <3> QED BY <1>2, <2>3, <2>4
  <2> QED BY <2>1, <2>3, <2>5
<1>4. \E g : Eqn(g, Len(sent))
  BY <1>3
<1> DEFINE after == CHOOSE g : Eqn(g, Len(sent))
<1>5. ReceiveAll(w, sent) = after[Len(sent)]
  <2> DEFINE raw1 == CHOOSE g : g = [i \in 0..Len(sent) |->
                                  IF i = 0 THEN w ELSE With(g[i - 1], LAMBDA u : Receive(u, sent[i]))]
  <2>1. ReceiveAll(w, sent) = raw1[Len(sent)]
    BY DEF ReceiveAll
  <2>2. raw1 = after
    BY DEF With
  <2> QED BY <2>1, <2>2
<1>6. Eqn(after, Len(sent))
  BY <1>4
<1> HIDE DEF after
<1>7. after[0] = w /\ \A i \in 1..Len(sent) : after[i] = Receive(after[i - 1], sent[i])
  BY <1>6
<1> QED BY <1>5, <1>7

LEMMA ReceiveAllSound ==
  ASSUME program \in DOMAIN Programs, NEW f \in Funcs, NEW w \in Facts(f), Queued(w), NEW sent,
         Len(sent) \in Nat, \A i \in 1..Len(sent) : sent[i].to \in Blocks(f) /\ sent[i].env \in Envs(f) \cup {None}
  PROVE  LET u == ReceiveAll(w, sent)
         IN  /\ u \in Facts(f) /\ Queued(u) /\ Alike(w, u) /\ Grows(f, w, u)
             /\ \A j \in 1..Len(sent) : Delivered(f, u.in, sent[j])
<1>1. PICK g : /\ g[0] = w /\ ReceiveAll(w, sent) = g[Len(sent)]
               /\ \A i \in 1..Len(sent) : g[i] = Receive(g[i - 1], sent[i])
  BY ReceiveSteps
<1> DEFINE Good(n) == /\ g[n] \in Facts(f) /\ Queued(g[n]) /\ Alike(w, g[n]) /\ Grows(f, w, g[n])
                      /\ \A j \in 1..n : Delivered(f, g[n].in, sent[j])
           T == {n \in 0..Len(sent) : ~Good(n)}
<1>2. Good(0)
  BY <1>1 DEF Alike, Grows, Inside
<1>3. ASSUME NEW n \in 1..Len(sent), Good(n - 1) PROVE Good(n)
  <2> DEFINE p == g[n - 1]
             u == g[n]
  <2>1. u = Receive(p, sent[n]) /\ sent[n].to \in Blocks(f) /\ sent[n].env \in Envs(f) \cup {None}
    BY <1>1
  <2>2. p \in Facts(f) /\ Queued(p) /\ Alike(w, p) /\ Grows(f, w, p)
        /\ \A j \in 1..n - 1 : Delivered(f, p.in, sent[j])
    BY <1>3
  <2> HIDE DEF p, u
  <2>3. u \in Facts(f) /\ Queued(u) /\ Alike(p, u) /\ Grows(f, p, u) /\ Delivered(f, u.in, sent[n])
    BY <2>1, <2>2, ReceiveSound
  <2>4. Grows(f, w, u) /\ Alike(w, u)
    BY <2>2, <2>3, GrowsOn DEF Alike
  <2>5. ASSUME NEW j \in 1..n PROVE Delivered(f, u.in, sent[j])
    <3>1. CASE j = n
      BY <2>3, <3>1
    <3>2. CASE j # n
      <4>1. j \in 1..n - 1 /\ j \in 1..Len(sent)
        BY <3>2
      <4> QED BY <2>2, <2>3, <4>1, DeliveredStays
    <3> QED BY <3>1, <3>2
  <2> QED BY <2>3, <2>4, <2>5 DEF u
<1> HIDE DEF Good
<1>4. T = {}
  <2> SUFFICES ASSUME T # {} PROVE FALSE
    OBVIOUS
  <2>1. PICK m \in T : \A n \in T : m <= n
    <3> HIDE DEF T
    <3>1. T \subseteq Nat
      BY DEF T
    <3> QED BY <3>1, NatMin
  <2>2. m # 0
    BY <1>2
  <2>3. m \in 1..Len(sent) /\ m - 1 \in 0..Len(sent) /\ m - 1 \notin T
    BY <2>1, <2>2
  <2> QED BY <1>3, <2>1, <2>3
<1>5. Good(Len(sent))
  BY <1>4
<1> QED BY <1>1, <1>5 DEF Good

\* The state of the analysis of f under seed.
FactsInv(f, seed, w) ==
  /\ w \in Facts(f) /\ w.in[1] = EntryEnv(f, seed) /\ Queued(w)
  /\ w.queue # <<>> =>
       /\ w.cand = None /\ w.round = 0
       /\ \A b \in Blocks(f) : w.in[b] # None /\ b \notin ToSet(w.queue) => Settled(f, w.in, b)
  /\ w.queue = <<>> => SoundFor(f, seed, w.in)

LEMMA PopFacts ==
  ASSUME program \in DOMAIN Programs, NEW f \in Funcs, NEW seed \in Interval, NEW w,
         FactsInv(f, seed, w), w.queue # <<>>
  PROVE  FactsInv(f, seed, ReceiveAll([w EXCEPT !.queue = Tail(@), !.steps = @ + 1],
                                      Sent(f, Head(w.queue), w.in[Head(w.queue)])))
         /\ ReceiveAll([w EXCEPT !.queue = Tail(@), !.steps = @ + 1],
                       Sent(f, Head(w.queue), w.in[Head(w.queue)])).cand = None
<1> DEFINE b == Head(w.queue)
           v == [w EXCEPT !.queue = Tail(@), !.steps = @ + 1]
           sent == Sent(f, b, w.in[b])
           u == ReceiveAll(v, sent)
<1>1. w \in Facts(f) /\ w.queue \in Seq(Blocks(f)) /\ w.in \in Ins(f) /\ Queued(w) /\ w.cand = None /\ w.round = 0
  BY DEF FactsInv, Facts
<1>2. /\ b \in Blocks(f) /\ Tail(w.queue) \in Seq(Blocks(f))
      /\ ToSet(w.queue) = {b} \cup ToSet(Tail(w.queue))
  BY <1>1, PopLemma
<1>3. /\ v \in Facts(f) /\ v.in = w.in /\ v.queue = Tail(w.queue) /\ v.cand = w.cand /\ v.round = w.round
  <2> DEFINE q == Tail(w.queue)
  <2>1. v = [w EXCEPT !.queue = q, !.steps = w.steps + 1] /\ q \in Seq(Blocks(f)) /\ w.steps + 1 \in Nat
    BY <1>1, <1>2 DEF Facts
  <2> HIDE DEF q, v
  <2>2. v \in Facts(f) /\ v.in = w.in /\ v.queue = q /\ v.cand = w.cand /\ v.round = w.round
    BY <1>1, <2>1 DEF Facts
  <2> QED BY <2>2 DEF q
<1>4. w.in[b] \in Envs(f) /\ w.in[b] # None
  BY <1>1, <1>2 DEF Queued, Ins
<1>5. Queued(v)
  BY <1>1, <1>2, <1>3 DEF Queued
<1>6. /\ DOMAIN sent = DOMAIN Successors(f, b) /\ Len(sent) \in Nat /\ DOMAIN sent = 1..Len(sent)
      /\ \A i \in DOMAIN sent : sent[i].to \in Blocks(f) /\ sent[i].env \in Envs(f) \cup {None}
  <2>1. /\ DOMAIN sent = DOMAIN Successors(f, b) /\ Len(sent) \in Nat /\ DOMAIN sent = 1..Len(sent)
        /\ \A i \in DOMAIN Successors(f, b) :
             /\ sent[i] = [to |-> Successors(f, b)[i],
                           env |-> EdgeEnv(BlockOf(f, b).term, i, Transfer(w.in[b], Stmts(f, b)))]
             /\ Successors(f, b)[i] \in Blocks(f) \ {1} /\ sent[i].env \in Envs(f) \cup {None}
    <3> HIDE DEF b
    <3> QED BY <1>2, <1>4, SentShape
  <2> HIDE DEF sent, b
  <2> QED BY <2>1
<1> HIDE DEF v, b
<1>7. /\ u \in Facts(f) /\ Queued(u) /\ Alike(v, u) /\ Grows(f, v, u)
      /\ \A j \in 1..Len(sent) : Delivered(f, u.in, sent[j])
  <2> HIDE DEF sent
  <2> QED BY <1>3, <1>5, <1>6, ReceiveAllSound
<1> HIDE DEF u
<1>8. u.in[1] = EntryEnv(f, seed) /\ u.cand = None /\ u.round = 0 /\ u.in \in Ins(f)
  BY <1>1, <1>3, <1>7 DEF Alike, FactsInv, Facts
<1>9. ASSUME NEW x \in Blocks(f), u.in[x] # None, x \notin ToSet(u.queue)
      PROVE  Settled(f, u.in, x)
  <2>1. u.in[x] = w.in[x] /\ x \notin ToSet(Tail(w.queue))
    BY <1>3, <1>7, <1>9 DEF Grows
  <2>2. CASE x = b
    <3>1. Sent(f, x, u.in[x]) = sent
      BY <2>1, <2>2
    <3> HIDE DEF sent
    <3> QED BY <1>6, <1>7, <2>2, <3>1 DEF Settled
  <2>3. CASE x # b
    <3>1. Settled(f, w.in, x)
      BY <1>2, <1>9, <2>1, <2>3 DEF FactsInv
    <3>2. ASSUME NEW i \in DOMAIN Successors(f, x)
          PROVE  Delivered(f, u.in, Sent(f, x, u.in[x])[i])
      <4> DEFINE s == Sent(f, x, w.in[x])[i]
      <4>1. w.in[x] \in Envs(f)
        BY <1>1, <1>9, <2>1 DEF Ins
      <4>2. s.to \in Blocks(f)
        <5>1. /\ s = [to |-> Successors(f, x)[i],
                       env |-> EdgeEnv(BlockOf(f, x).term, i, Transfer(w.in[x], Stmts(f, x)))]
              /\ Successors(f, x)[i] \in Blocks(f) \ {1}
          BY <4>1, SentShape
        <5> HIDE DEF s
        <5> QED BY <5>1
      <4>3. Delivered(f, v.in, s)
        BY <1>3, <3>1 DEF Settled
      <4> HIDE DEF s
      <4>4. Delivered(f, u.in, s)
        BY <1>7, <4>2, <4>3, DeliveredStays
      <4> QED BY <2>1, <4>4 DEF s
    <3> QED BY <3>2 DEF Settled
  <2> QED BY <2>2, <2>3
<1>10. u.queue = <<>> => SoundFor(f, seed, u.in)
  <2> SUFFICES ASSUME u.queue = <<>> PROVE SoundFor(f, seed, u.in)
    OBVIOUS
  <2>1. ToSet(u.queue) = {}
    BY EmptyLemma
  <2> QED BY <1>8, <1>9, <2>1, SettledSound
<1>11. FactsInv(f, seed, u)
  BY <1>7, <1>8, <1>9, <1>10 DEF FactsInv
<1> QED BY <1>8, <1>11 DEF u, v, b

----------------------------------------------------------------------------
(* Phase 2: narrowing.                                                      *)
\* A block's candidate holds what every reached block sends it.
LEMMA JoinIntoSound ==
  ASSUME program \in DOMAIN Programs, work.fn \in Funcs, facts.in \in Ins(work.fn), NEW b \in Blocks(work.fn)
  PROVE  /\ JoinInto(b) \in Envs(work.fn) \cup {None}
         /\ \A c \in Blocks(work.fn) : \A i \in DOMAIN Successors(work.fn, c) :
              LET s == Sent(work.fn, c, facts.in[c])[i]
              IN  facts.in[c] # None /\ s.to = b /\ s.env # None =>
                    JoinInto(b) # None /\ Inside(work.fn, s.env, JoinInto(b))
<1> DEFINE f == work.fn
           in == facts.in
           froms == {c \in Blocks(f) : in[c] # None /\ Contains(Successors(f, c), b)}
           sent == UNION {ToSet(Sent(f, c, in[c])) : c \in froms}
           envs == {s.env : s \in {x \in sent : x.to = b /\ x.env # None}}
           hull == [l \in Locals(f) |-> Hull({e[l] : e \in envs})]
<1>1. JoinInto(b) = IF envs = {} THEN None ELSE hull
  BY DEF JoinInto
<1>2. ASSUME NEW c \in Blocks(f), in[c] # None
      PROVE  /\ DOMAIN Sent(f, c, in[c]) = DOMAIN Successors(f, c)
             /\ \A i \in DOMAIN Successors(f, c) :
                  /\ Sent(f, c, in[c])[i].to = Successors(f, c)[i]
                  /\ Sent(f, c, in[c])[i].env \in Envs(f) \cup {None}
  <2>1. in[c] \in Envs(f)
    BY <1>2 DEF Ins
  <2>2. /\ DOMAIN Sent(f, c, in[c]) = DOMAIN Successors(f, c)
        /\ \A i \in DOMAIN Successors(f, c) :
             /\ Sent(f, c, in[c])[i] =
                  [to |-> Successors(f, c)[i], env |-> EdgeEnv(BlockOf(f, c).term, i, Transfer(in[c], Stmts(f, c)))]
             /\ Sent(f, c, in[c])[i].env \in Envs(f) \cup {None}
    BY <2>1, SentShape
  <2>3. ASSUME NEW i \in DOMAIN Successors(f, c)
        PROVE  Sent(f, c, in[c])[i].to = Successors(f, c)[i]
    <3> DEFINE q == Sent(f, c, in[c])[i]
               e == EdgeEnv(BlockOf(f, c).term, i, Transfer(in[c], Stmts(f, c)))
               t == Successors(f, c)[i]
    <3>1. q = [to |-> t, env |-> e]
      BY <2>2
    <3> HIDE DEF q, e, t
    <3>2. q.to = t
      BY <3>1
    <3> QED BY <3>2 DEF q, t
  <2> QED BY <2>2, <2>3
<1>3. envs \subseteq Envs(f)
  <2> SUFFICES ASSUME NEW c \in froms, NEW i \in DOMAIN Sent(f, c, in[c]), Sent(f, c, in[c])[i].env # None
               PROVE  Sent(f, c, in[c])[i].env \in Envs(f)
    BY DEF ToSet
  <2> QED BY <1>2
<1>4. ASSUME NEW c \in Blocks(f), NEW i \in DOMAIN Successors(f, c), in[c] # None,
             Sent(f, c, in[c])[i].to = b, Sent(f, c, in[c])[i].env # None
      PROVE  Sent(f, c, in[c])[i].env \in envs
  <2>1. Successors(f, c)[i] = b /\ i \in DOMAIN Sent(f, c, in[c])
    BY <1>2, <1>4
  <2>2. DOMAIN Successors(f, c) = 1..Len(Successors(f, c))
    <3>1. Successors(f, c) \in Seq(Blocks(f) \ {1})
      BY SuccessorsShape
    <3> QED BY <3>1, LenProperties
  <2>3. c \in froms
    BY <1>4, <2>1, <2>2 DEF Contains
  <2>4. Sent(f, c, in[c])[i] \in ToSet(Sent(f, c, in[c]))
    BY <2>1 DEF ToSet
  <2>5. Sent(f, c, in[c])[i] \in sent
    BY <2>3, <2>4
  <2> HIDE DEF sent
  <2> QED BY <1>4, <2>5
<1> HIDE DEF envs
<1>5. ASSUME envs # {}
      PROVE  hull \in Envs(f) /\ \A e \in envs : Inside(f, e, hull)
  <2>1. ASSUME NEW l \in Locals(f)
        PROVE  /\ Hull({e[l] : e \in envs}) \in Interval
               /\ \A e \in envs : Values(e[l]) \subseteq Values(Hull({e1[l] : e1 \in envs}))
    <3> DEFINE S == {e[l] : e \in envs}
    <3>1. S \subseteq Interval /\ S # {}
      BY <1>3, <1>5 DEF Envs
    <3>2. \A e \in envs : e[l] \in S
      OBVIOUS
    <3> HIDE DEF S
    <3>3. Hull(S) \in Interval /\ \A i \in S : Values(i) \subseteq Values(Hull(S))
      BY <3>1, HullSound
    <3>4. Hull(S) \in Interval /\ \A e \in envs : Values(e[l]) \subseteq Values(Hull(S))
      BY <3>2, <3>3
    <3> QED BY <3>4 DEF S
  <2> QED BY <2>1 DEF Envs, Inside
<1>6. JoinInto(b) \in Envs(f) \cup {None}
  BY <1>1, <1>5
<1>7. ASSUME NEW e \in envs PROVE JoinInto(b) # None /\ Inside(f, e, JoinInto(b))
  <2>1. JoinInto(b) = hull /\ hull \in Envs(f) /\ Inside(f, e, hull)
    BY <1>1, <1>5
  <2> QED BY <2>1, NoneIsNoEnv
<1> QED BY <1>4, <1>6, <1>7

LEMMA CandidatesType ==
  ASSUME program \in DOMAIN Programs, work.fn \in Funcs, facts.in \in Ins(work.fn), work.seed \in Interval
  PROVE  Candidates \in Ins(work.fn)
<1>1. EntryEnv(work.fn, work.seed) \in Envs(work.fn)
  BY TopSound DEF EntryEnv, Envs
<1> QED BY <1>1, JoinIntoSound DEF Candidates, Ins

\* Narrowing keeps what both the old and the recomputed environments allow, so
\* no reachable point is lost.
LEMMA NarrowedSound ==
  ASSUME program \in DOMAIN Programs, work.fn \in Funcs, work.seed \in Interval,
         facts.in \in Ins(work.fn), facts.in[1] = EntryEnv(work.fn, work.seed),
         SoundFor(work.fn, work.seed, facts.in), facts.cand = Candidates
  PROVE  /\ Narrowed \in Ins(work.fn) /\ Narrowed[1] = EntryEnv(work.fn, work.seed)
         /\ SoundFor(work.fn, work.seed, Narrowed)
<1> DEFINE f == work.fn
           seed == work.seed
           in == facts.in
           cand == facts.cand
           new == Narrowed
<1>1. cand \in Ins(f) /\ 1 \in Blocks(f)
  BY CandidatesType, Shape
<1>2. /\ \A b \in Blocks(f) :
           new[b] = IF b = 1 \/ in[b] = None \/ cand[b] = None THEN in[b] ELSE NarrowEnv(in[b], cand[b])
      /\ new = [b \in Blocks(f) |-> new[b]]
  BY DEF Narrowed
<1>3. ASSUME NEW b \in Blocks(f), in[b] # None, cand[b] # None
      PROVE  /\ NarrowEnv(in[b], cand[b]) \in Envs(f)
             /\ \A st : Within(st, in[b], Locals(f)) /\ Within(st, cand[b], Locals(f)) =>
                          Within(st, NarrowEnv(in[b], cand[b]), Locals(f))
  <2> DEFINE x == in[b]
             y == cand[b]
  <2>1. x \in [Locals(f) -> Interval] /\ y \in [Locals(f) -> Interval]
    BY <1>1, <1>3 DEF Ins, Envs
  <2> HIDE DEF x, y
  <2>2. NarrowEnv(x, y) = [l \in Locals(f) |-> Narrow(x[l], y[l])]
    BY <2>1 DEF NarrowEnv
  <2>3. ASSUME NEW l \in Locals(f)
        PROVE  /\ Narrow(x[l], y[l]) \in Interval
               /\ Values(x[l]) \cap Values(y[l]) \subseteq Values(Narrow(x[l], y[l]))
    BY <2>1, NarrowSound
  <2>4. NarrowEnv(x, y) \in Envs(f)
    BY <2>2, <2>3 DEF Envs
  <2>5. ASSUME NEW st, Within(st, x, Locals(f)), Within(st, y, Locals(f))
        PROVE  Within(st, NarrowEnv(x, y), Locals(f))
    BY <2>2, <2>3, <2>5 DEF Within
  <2> QED BY <2>4, <2>5 DEF x, y
<1> HIDE DEF new
<1>4. new \in Ins(f) /\ new[1] = EntryEnv(f, seed)
  BY <1>1, <1>2, <1>3 DEF Ins
<1> DEFINE S == {c \in Reach(f, seed) : Covers(f, new, c)}
<1>5. Closed(f, seed, Reach(f, seed)) /\ Reach(f, seed) \subseteq Points(f)
  BY ReachClosed
<1>6. Starts(f, seed) \subseteq S
  BY <1>4, <1>5, StartsCovered DEF Closed
<1>7. ASSUME NEW c \in S, NEW d \in Points(f), Steps(f, c, d) PROVE d \in S
  <2>1. d \in Reach(f, seed) /\ c \in Points(f)
    BY <1>5, <1>7 DEF Closed
  <2> QED BY <1>4, <1>7, <2>1, StepsCovered
<1>8. ASSUME NEW c \in S, NEW d \in Points(f), Leaves(f, c, d) PROVE d \in S
  <2>1. d \in Reach(f, seed) /\ c \in Points(f) /\ c \in Reach(f, seed)
    BY <1>5, <1>8 DEF Closed
  <2>2. Covers(f, in, c) /\ Covers(f, in, d) /\ d.i = 1 /\ d.b \in Blocks(f) /\ c.b \in Blocks(f)
    BY <1>8, <2>1 DEF SoundFor, Leaves, Points
  <2>3. in[d.b] # None /\ Within(d.st, in[d.b], Locals(f)) /\ in[c.b] # None
    BY <2>2, EnvAtType DEF Covers
  <2>4. PICK i \in DOMAIN Successors(f, c.b) :
          LET s == Sent(f, c.b, in[c.b])[i]
          IN  s.to = d.b /\ s.to # 1 /\ s.env \in Envs(f) /\ Within(d.st, s.env, Locals(f))
    BY <1>8, <2>1, <2>2, EdgeCovered
  <2> DEFINE s == Sent(f, c.b, in[c.b])[i]
  <2>5. s.to = d.b /\ s.to # 1 /\ s.env # None /\ Within(d.st, s.env, Locals(f))
    BY <2>4, NoneIsNoEnv
  <2>6. cand[d.b] = JoinInto(d.b)
    BY <2>2, <2>5 DEF Candidates
  <2>7. JoinInto(d.b) # None /\ Inside(f, s.env, JoinInto(d.b))
    BY <2>2, <2>3, <2>5, JoinIntoSound
  <2> HIDE DEF s
  <2>8. Within(d.st, cand[d.b], Locals(f)) /\ cand[d.b] # None
    BY <2>5, <2>6, <2>7, InsideWithin
  <2>9. new[d.b] = NarrowEnv(in[d.b], cand[d.b])
    BY <1>2, <2>2, <2>3, <2>5, <2>8
  <2>10. new[d.b] # None /\ Within(d.st, new[d.b], Locals(f))
    BY <1>3, <2>2, <2>3, <2>8, <2>9, NoneIsNoEnv
  <2>11. EnvAt(f, new, d.b, d.i) = new[d.b]
    BY <1>4, <2>2, <2>10, EnvAtType
  <2> QED BY <2>1, <2>10, <2>11 DEF Covers
<1>9. Closed(f, seed, S) /\ S \in SUBSET Points(f)
  <2>1. S \in SUBSET Points(f)
    BY <1>5
  <2> HIDE DEF S
  <2> QED BY <1>6, <1>7, <1>8, <2>1 DEF Closed
<1>10. Reach(f, seed) \subseteq S
  <2> HIDE DEF S
  <2> QED BY <1>9, ReachLeast
<1>11. SoundFor(f, seed, new)
  BY <1>10 DEF SoundFor
<1> QED BY <1>4, <1>11 DEF new

----------------------------------------------------------------------------
(* The rounds of the whole program.                                         *)
\* While callers are analysed, whoever is not dirty has a current cache; the
\* function being analysed was seeded by today's entries.
CacheInv ==
  /\ stage \in {"callers", "finish", "run"}
  /\ DOMAIN cache = Funcs
  /\ stage = "callers" => \A f \in Funcs \ todo : cache[f].seed = BuildSeed(f)
  /\ stage = "callers" /\ work # Idle => ~work.final /\ work.seed = BuildSeed(work.fn)
  /\ stage \in {"finish", "run"} => \A f \in Funcs : cache[f].seed = BuildSeed(f)
  /\ stage = "finish" /\ work # Idle => work.final
  /\ work # Idle => stage # "run" /\ todo # {}

\* An entry that reached the limit is pinned to everything.
MovesInv ==
  /\ moves \in [Funcs -> 0..WidenLimit] /\ DOMAIN entry = Funcs /\ pinned \subseteq Funcs
  /\ \A f \in Funcs : IF f \in pinned THEN entry[f] = Top ELSE moves[f] < WidenLimit

----------------------------------------------------------------------------
LEMMA InitInv == ASSUME Init PROVE CacheInv /\ MovesInv
<1>1. CacheInv
  BY DEF Init, CacheInv, Funcs, Code
<1>2. MovesInv
  BY RawIntsAssumption DEF Init, MovesInv, Funcs, Code
<1> QED BY <1>1, <1>2

\* A step that leaves the seeds, the cache and the current function alone.
LEMMA QuietCacheInv ==
  ASSUME CacheInv, UNCHANGED <<program, stage, entry, cache, todo, work>>
  PROVE  CacheInv'
BY DEF CacheInv, Funcs, Code, BuildSeed

LEMMA StartCacheInv ==
  ASSUME CacheInv, Begin \/ Reanalyze
  PROVE  CacheInv'
<1>1. CASE Begin
  <2>1. /\ stage = "callers" /\ todo # {} /\ UNCHANGED <<program, stage, entry, cache, todo>>
        /\ work'.final = FALSE /\ work'.seed = BuildSeed(work'.fn)
    BY <1>1 DEF Begin, Start
  <2> QED BY <2>1 DEF CacheInv, Funcs, Code, BuildSeed
<1>2. CASE Reanalyze
  <2>1. /\ stage = "finish" /\ todo # {} /\ UNCHANGED <<program, stage, entry, cache, todo>>
        /\ work'.final = TRUE
    BY <1>2 DEF Reanalyze, Start
  <2> QED BY <2>1 DEF CacheInv, Funcs, Code, BuildSeed
<1> QED BY <1>1, <1>2

LEMMA RecordCacheInv ==
  ASSUME CacheInv, work # Idle, NEW in, Record(in)
  PROVE  CacheInv'
<1>1. work' = Idle /\ todo' = todo \ {work.fn} /\ UNCHANGED <<program, stage, entry>>
  BY DEF Record
<1>2. CASE work.final
  <2>1. UNCHANGED cache /\ stage = "finish"
    BY <1>2 DEF Record, CacheInv
  <2> QED BY <1>1, <2>1 DEF CacheInv, Funcs, Code, BuildSeed
<1>3. CASE ~work.final
  <2>1. stage = "callers" /\ work.seed = BuildSeed(work.fn)
    BY <1>3 DEF CacheInv
  <2>2. cache' = [cache EXCEPT ![work.fn] = [seed |-> work.seed, in |-> in]]
    BY <1>3 DEF Record
  <2>3. ASSUME stage = "callers", NEW f \in Funcs \ todo' PROVE cache'[f].seed = BuildSeed(f)
    <3>1. CASE f = work.fn
      BY <2>1, <2>2, <2>3, <3>1 DEF CacheInv
    <3>2. CASE f # work.fn
      BY <1>1, <2>1, <2>2, <2>3, <3>2 DEF CacheInv
    <3> QED BY <3>1, <3>2
  <2>4. DOMAIN cache' = Funcs
    BY <2>2 DEF CacheInv
  <2> QED BY <1>1, <2>1, <2>3, <2>4 DEF CacheInv, Funcs, Code, BuildSeed
<1> QED BY <1>2, <1>3

\* Whoever did not move keeps its seed; whoever moved is dirty, unless its
\* address is taken and its seed does not follow its entry.
LEMMA RoundCacheInv ==
  ASSUME CacheInv, MovesInv, Round
  PROVE  CacheInv'
<1>1. /\ stage = "callers" /\ work = Idle /\ todo = {} /\ MoveEntries
      /\ UNCHANGED <<program, cache, work>>
  BY DEF Round
<1>2. Funcs' = Funcs /\ \A f \in Funcs : Code'[f] = Code[f]
  BY <1>1 DEF Funcs, Code
<1>3. ASSUME NEW f \in Funcs \ Moved PROVE entry'[f] = entry[f]
  BY <1>1 DEF MoveEntries
<1>4. ASSUME NEW f \in Funcs, f \notin Moved \/ Code[f].taken
      PROVE  BuildSeed(f)' = BuildSeed(f)
  BY <1>2, <1>3, <1>4 DEF BuildSeed
<1>5. \A f \in Funcs : cache[f].seed = BuildSeed(f)
  BY <1>1 DEF CacheInv
<1>6. CASE Moved = {}
  <2>1. stage' = "finish"
    BY <1>6 DEF Round
  <2> QED BY <1>1, <1>2, <1>4, <1>5, <1>6, <2>1 DEF CacheInv
<1>7. CASE Moved # {}
  <2>1. stage' = "callers" /\ todo' = {f \in Moved : ~Code[f].taken}
    BY <1>1, <1>7 DEF Round
  <2> QED BY <1>1, <1>2, <1>4, <1>5, <2>1 DEF CacheInv
<1> QED BY <1>6, <1>7

LEMMA RoundMovesInv ==
  ASSUME MovesInv, Round
  PROVE  MovesInv'
<1>1. MoveEntries /\ UNCHANGED program
  BY DEF Round
<1> DEFINE now == {f \in Moved : moves[f] + 1 >= WidenLimit}
<1>2. /\ moves' = [f \in Funcs |-> IF f \in Moved THEN moves[f] + 1 ELSE moves[f]]
      /\ entry' = [f \in Funcs |-> IF f \in now THEN Top
                                   ELSE IF f \in Moved THEN Fresh(f) ELSE entry[f]]
      /\ pinned' = pinned \cup now
  BY <1>1 DEF MoveEntries
<1>3. Moved \subseteq Funcs \ pinned
  BY DEF Moved
<1>4. Funcs' = Funcs
  BY <1>1 DEF Funcs, Code
<1>5. ASSUME NEW f \in Funcs
      PROVE  /\ moves'[f] \in 0..WidenLimit
             /\ IF f \in pinned' THEN entry'[f] = Top ELSE moves'[f] < WidenLimit
  <2>1. moves[f] \in 0..WidenLimit /\ WidenLimit \in Nat
    BY RawIntsAssumption DEF MovesInv
  <2>2. CASE f \in Moved
    <3>1. moves[f] < WidenLimit /\ moves'[f] = moves[f] + 1
      BY <1>2, <1>3, <2>2 DEF MovesInv
    <3> QED BY <1>2, <1>3, <2>1, <2>2, <3>1
  <2>3. CASE f \notin Moved
    <3>1. moves'[f] = moves[f] /\ entry'[f] = entry[f] /\ (f \in pinned' <=> f \in pinned)
      BY <1>2, <2>3
    <3> QED BY <2>1, <3>1 DEF MovesInv
  <2> QED BY <2>2, <2>3
<1>6. pinned' \subseteq Funcs /\ DOMAIN entry' = Funcs
  BY <1>2, <1>3 DEF MovesInv
<1>7. moves' \in [Funcs -> 0..WidenLimit]
  BY <1>2, <1>5
<1> QED BY <1>4, <1>5, <1>6, <1>7, RawIntsAssumption DEF MovesInv, Top

LEMMA QuietMovesInv ==
  ASSUME MovesInv, UNCHANGED <<program, entry, moves, pinned>>
  PROVE  MovesInv'
BY DEF MovesInv, Funcs, Code, Top

LEMMA NextInv ==
  ASSUME CacheInv, MovesInv, [Next]_vars
  PROVE  CacheInv' /\ MovesInv'
<1>1. CASE Begin \/ Reanalyze
  <2>1. UNCHANGED <<program, entry, moves, pinned>>
    BY <1>1 DEF Begin, Reanalyze
  <2> QED BY <1>1, <2>1, StartCacheInv, QuietMovesInv
<1>2. CASE Bail \/ Converge
  <2>1. work # Idle /\ (Record(None) \/ Record(facts.in))
    BY <1>2 DEF Bail, Converge
  <2>2. UNCHANGED <<program, entry, moves, pinned>>
    BY <2>1 DEF Record
  <2> QED BY <2>1, <2>2, RecordCacheInv, QuietMovesInv
<1>3. CASE PopBlock \/ Recompute \/ NarrowRound
  <2>1. UNCHANGED <<program, stage, entry, moves, pinned, cache, todo, work>>
    BY <1>3 DEF PopBlock, Recompute, NarrowRound
  <2> QED BY <2>1, QuietCacheInv, QuietMovesInv
<1>4. CASE Round
  BY <1>4, RoundCacheInv, RoundMovesInv
<1>5. CASE Apply
  <2>1. stage = "finish" /\ work = Idle /\ UNCHANGED <<program, stage, entry, moves, pinned, cache, work>>
    BY <1>5 DEF Apply
  <2>2. CacheInv'
    BY <2>1 DEF CacheInv, Funcs, Code, BuildSeed
  <2> QED BY <2>1, <2>2, QuietMovesInv
<1>6. CASE Run
  <2>1. stage = "finish" /\ todo = {} /\ stage' = "run" /\ UNCHANGED <<program, entry, moves, pinned, cache, todo, work>>
    BY <1>6 DEF Run, analysis
  <2>2. CacheInv'
    BY <2>1 DEF CacheInv, Funcs, Code, BuildSeed
  <2> QED BY <2>1, <2>2, QuietMovesInv
<1>7. CASE Execute
  <2>1. Stay
    BY <1>7 DEF Execute, Compute, CallIn, CallOver, Raise, JumpOn, BranchOn, Leave, Follow
  <2>2. UNCHANGED <<program, stage, entry, moves, pinned, cache, todo, work>>
    BY <2>1 DEF Stay, analysis
  <2> QED BY <2>2, QuietCacheInv, QuietMovesInv
<1>8. CASE UNCHANGED vars
  <2>1. UNCHANGED <<program, stage, entry, moves, pinned, cache, todo, work>>
    BY <1>8 DEF vars, analysis
  <2> QED BY <2>1, QuietCacheInv, QuietMovesInv
<1> QED BY <1>1, <1>2, <1>3, <1>4, <1>5, <1>6, <1>7, <1>8 DEF Next, Analyze

\* The flags come from the final seeds: when the rounds end, no cached analysis
\* is out of date, so none has to be repeated (narrow_raw_ints, "finish").
THEOREM CacheCorrect == Spec => []CacheCurrent
<1>1. CacheInv => CacheCurrent
  BY DEF CacheInv, CacheCurrent
<1> QED BY <1>1, InitInv, NextInv, PTL DEF Spec

\* However the contributions move, an entry moves at most WidenLimit times, and
\* the last time to everything: the rounds are bounded (widen_move_pinned).
MovesBounded ==
  \A f \in Funcs : moves[f] \in 0..WidenLimit /\ (moves[f] = WidenLimit => entry[f] = Top)
\* So the rounds are bounded.
THEOREM RoundsBounded == Spec => []MovesBounded
<1>1. MovesInv => MovesBounded
  BY RawIntsAssumption DEF MovesInv, MovesBounded
<1> QED BY <1>1, InitInv, NextInv, PTL DEF Spec

\* A pinned entry stays pinned, and stays everything.
PinnedStays == pinned \subseteq pinned' /\ \A f \in pinned : entry'[f] = Top
\* No later round moves a pinned entry.
THEOREM PinnedForever == Spec => [][PinnedStays]_vars
<1>1. ASSUME CacheInv, MovesInv, CacheInv', MovesInv', [Next]_vars
      PROVE  [PinnedStays]_vars
  <2> SUFFICES pinned \subseteq pinned'
    BY <1>1 DEF MovesInv, PinnedStays, Top
  <2>1. CASE Round
    BY <2>1 DEF Round, MoveEntries
  <2>2. CASE ~Round
    <3>1. pinned' = pinned
      BY <1>1, <2>2 DEF Next, Analyze, vars, analysis, Begin, Reanalyze, Bail, Converge, Record, PopBlock,
        Recompute, NarrowRound, Apply, Run, Execute, Compute, CallIn, CallOver, Raise, JumpOn,
        BranchOn, Leave, Follow, Stay
    <3> QED BY <3>1
  <2> QED BY <2>1, <2>2
<1> QED BY <1>1, InitInv, NextInv, PTL DEF Spec

----------------------------------------------------------------------------
(* What depends on the program alone does not change.                       *)
LEMMA SameCode ==
  ASSUME UNCHANGED program
  PROVE  /\ Code' = Code /\ Funcs' = Funcs
         /\ \A f : /\ Locals(f)' = Locals(f) /\ Params(f)' = Params(f) /\ Blocks(f)' = Blocks(f)
                   /\ \A b : BlockOf(f, b)' = BlockOf(f, b) /\ Stmts(f, b)' = Stmts(f, b)
                             /\ Successors(f, b)' = Successors(f, b)
BY DEF Code, Funcs, Locals, Params, Blocks, BlockOf, Stmts, Successors

LEMMA SameEnvs ==
  ASSUME UNCHANGED program
  PROVE  /\ \A f : Envs(f)' = Envs(f) /\ Ins(f)' = Ins(f) /\ Stores(f)' = Stores(f) /\ Facts(f)' = Facts(f)
         /\ \A f, seed : EntryEnv(f, seed)' = EntryEnv(f, seed)
         /\ \A f, in, b, i : EnvAt(f, in, b, i)' = EnvAt(f, in, b, i)
         /\ \A f, b, env : Sent(f, b, env)' = Sent(f, b, env)
         /\ \A f, x, y : Inside(f, x, y)' = Inside(f, x, y)
<1>1. \A f : /\ Locals(f)' = Locals(f) /\ Params(f)' = Params(f) /\ Blocks(f)' = Blocks(f)
             /\ \A b : BlockOf(f, b)' = BlockOf(f, b) /\ Successors(f, b)' = Successors(f, b)
  BY SameCode
<1>2. ASSUME NEW f
      PROVE  Envs(f)' = Envs(f) /\ Ins(f)' = Ins(f) /\ Stores(f)' = Stores(f) /\ Facts(f)' = Facts(f)
  BY <1>1 DEF Envs, Ins, Stores, Facts, Val
<1>3. ASSUME NEW f, NEW seed PROVE EntryEnv(f, seed)' = EntryEnv(f, seed)
  BY <1>1 DEF EntryEnv
<1>4. ASSUME NEW f, NEW in, NEW b, NEW i PROVE EnvAt(f, in, b, i)' = EnvAt(f, in, b, i)
  BY <1>1 DEF EnvAt
<1>5. ASSUME NEW f, NEW b, NEW env PROVE Sent(f, b, env)' = Sent(f, b, env)
  BY <1>1 DEF Sent, With
<1>6. ASSUME NEW f, NEW x, NEW y PROVE Inside(f, x, y)' = Inside(f, x, y)
  BY <1>1 DEF Inside
<1> QED BY <1>2, <1>3, <1>4, <1>5, <1>6

LEMMA SameReach ==
  ASSUME UNCHANGED program
  PROVE  /\ \A f : Points(f)' = Points(f)
         /\ \A f, seed : Starts(f, seed)' = Starts(f, seed) /\ Reach(f, seed)' = Reach(f, seed)
         /\ \A f, in, c : Covers(f, in, c)' = Covers(f, in, c)
         /\ \A f, seed, in : SoundFor(f, seed, in)' = SoundFor(f, seed, in)
         /\ \A f, seed, w : FactsInv(f, seed, w)' = FactsInv(f, seed, w)
<1>1. \A f : /\ Locals(f)' = Locals(f) /\ Params(f)' = Params(f) /\ Blocks(f)' = Blocks(f)
             /\ \A b : /\ BlockOf(f, b)' = BlockOf(f, b) /\ Stmts(f, b)' = Stmts(f, b)
                       /\ Successors(f, b)' = Successors(f, b)
  BY SameCode
<1>2. ASSUME NEW f PROVE Points(f)' = Points(f)
  <2>1. Blocks(f)' = Blocks(f) /\ Stores(f)' = Stores(f) /\ \A b : Stmts(f, b)' = Stmts(f, b)
    BY <1>1, SameEnvs
  <2> QED BY <2>1 DEF Points
<1>3. ASSUME NEW f, NEW seed PROVE Starts(f, seed)' = Starts(f, seed)
  <2>1. Points(f)' = Points(f) /\ Params(f)' = Params(f)
    BY <1>1, <1>2
  <2> QED BY <2>1 DEF Starts
<1>4. ASSUME NEW f, NEW c, NEW d
      PROVE  Steps(f, c, d)' = Steps(f, c, d) /\ Leaves(f, c, d)' = Leaves(f, c, d)
  BY <1>1 DEF Steps, Leaves, Val
<1>5. ASSUME NEW f, NEW seed, NEW S PROVE Closed(f, seed, S)' = Closed(f, seed, S)
  BY <1>2, <1>3, <1>4 DEF Closed
<1>6. ASSUME NEW f, NEW seed PROVE Reach(f, seed)' = Reach(f, seed)
  BY <1>2, <1>5 DEF Reach
<1>7. ASSUME NEW f, NEW in, NEW c PROVE Covers(f, in, c)' = Covers(f, in, c)
  <2>1. Locals(f)' = Locals(f) /\ EnvAt(f, in, c.b, c.i)' = EnvAt(f, in, c.b, c.i)
    BY <1>1, SameEnvs
  <2> QED BY <2>1 DEF Covers, Within
<1>8. ASSUME NEW f, NEW seed, NEW in PROVE SoundFor(f, seed, in)' = SoundFor(f, seed, in)
  BY <1>6, <1>7 DEF SoundFor
<1>9. ASSUME NEW f, NEW in, NEW b PROVE Settled(f, in, b)' = Settled(f, in, b)
  <2>1. /\ \A x, y : Inside(f, x, y)' = Inside(f, x, y)
        /\ \A env : Sent(f, b, env)' = Sent(f, b, env)
    BY SameEnvs
  <2>2. ASSUME NEW s PROVE Delivered(f, in, s)' = Delivered(f, in, s)
    BY <2>1 DEF Delivered
  <2> QED BY <1>1, <2>1, <2>2 DEF Settled
<1>10. ASSUME NEW f, NEW seed, NEW w PROVE FactsInv(f, seed, w)' = FactsInv(f, seed, w)
  <2>1. Facts(f)' = Facts(f) /\ EntryEnv(f, seed)' = EntryEnv(f, seed)
    BY SameEnvs
  <2> QED BY <1>1, <1>8, <1>9, <2>1 DEF FactsInv, Queued
<1> QED BY <1>2, <1>3, <1>6, <1>7, <1>8, <1>10

LEMMA SameRecords ==
  ASSUME UNCHANGED program
  PROVE  /\ \A f, s : StmtAt(f, s)' = StmtAt(f, s) /\ ExprAt(f, s)' = ExprAt(f, s)
         /\ \A f, in : /\ Contribution(f, in)' = Contribution(f, in)
                       /\ UNCHANGED entry => Flags(f, in)' = Flags(f, in)
<1>1. \A f : /\ Locals(f)' = Locals(f) /\ Params(f)' = Params(f) /\ Blocks(f)' = Blocks(f) /\ Code' = Code
             /\ \A b : BlockOf(f, b)' = BlockOf(f, b)
  BY SameCode
<1>2. \A f, in, b, i : EnvAt(f, in, b, i)' = EnvAt(f, in, b, i)
  BY SameEnvs
<1>3. ASSUME NEW f PROVE Sites(f)' = Sites(f)
  BY <1>1 DEF Sites
<1>4. ASSUME NEW f, NEW s PROVE StmtAt(f, s)' = StmtAt(f, s)
  BY <1>1 DEF StmtAt
<1>5. ASSUME NEW f, NEW s PROVE ExprAt(f, s)' = ExprAt(f, s)
  BY <1>4 DEF ExprAt
<1>6. ASSUME NEW f, NEW in, NEW s PROVE IntervalAt(f, in, s)' = IntervalAt(f, in, s)
  BY <1>2, <1>5 DEF IntervalAt
<1>7. ASSUME NEW f, NEW in PROVE Contribution(f, in)' = Contribution(f, in)
  BY <1>3, <1>4, <1>6 DEF Contribution
<1>8. ASSUME UNCHANGED entry, NEW f, NEW in PROVE Flags(f, in)' = Flags(f, in)
  <2>1. ASSUME NEW l PROVE Writers(f, in, l)' = Writers(f, in, l)
    BY <1>1, <1>3, <1>4, <1>6, <1>8 DEF Writers
  <2>2. ASSUME NEW l PROVE LocalEligible(f, in, l)' = LocalEligible(f, in, l)
    BY <2>1 DEF LocalEligible
  <2>3. ASSUME NEW ls, NEW s PROVE Flagged(f, in, ls, s)' = Flagged(f, in, ls, s)
    <3>1. ASSUME NEW e PROVE RawableLeaf(f, ls, e)' = RawableLeaf(f, ls, e)
      BY DEF RawableLeaf
    <3> QED BY <1>5, <1>6, <3>1 DEF Flagged
  <2>4. ReturnIntervals(f, in)' = ReturnIntervals(f, in)
    BY <1>1 DEF ReturnIntervals
  <2>5. RawLocals(f, in)' = RawLocals(f, in)
    BY <1>1, <2>2 DEF RawLocals
  <2>6. ASSUME NEW ls PROVE RawExprs(f, in, ls)' = RawExprs(f, in, ls)
    BY <1>3, <2>3 DEF RawExprs
  <2> QED BY <1>1, <2>4, <2>5, <2>6 DEF Flags, With
<1> QED BY <1>4, <1>5, <1>7, <1>8

Senders(b) == {c \in Blocks(work.fn) : facts.in[c] # None /\ Contains(Successors(work.fn, c), b)}
AllSent(b) == UNION {ToSet(Sent(work.fn, c, facts.in[c])) : c \in Senders(b)}
Received(b) == {s.env : s \in {x \in AllSent(b) : x.to = b /\ x.env # None}}

LEMMA SameCandidates ==
  ASSUME UNCHANGED <<program, work>>, facts'.in = facts.in
  PROVE  Candidates' = Candidates
<1>1. \A f : Locals(f)' = Locals(f) /\ Blocks(f)' = Blocks(f) /\ \A b : Successors(f, b)' = Successors(f, b)
  BY SameCode
<1>2. /\ \A f, seed : EntryEnv(f, seed)' = EntryEnv(f, seed)
      /\ \A f, b, env : Sent(f, b, env)' = Sent(f, b, env)
  BY SameEnvs
<1>3. ASSUME NEW b PROVE JoinInto(b)' = JoinInto(b)
  <2>1. Senders(b)' = Senders(b)
    BY <1>1 DEF Senders
  <2>2. AllSent(b)' = AllSent(b)
    BY <1>2, <2>1 DEF AllSent
  <2>3. Received(b)' = Received(b)
    BY <2>2 DEF Received
  <2>4. JoinInto(b) = IF Received(b) = {} THEN None
                      ELSE [l \in Locals(work.fn) |-> Hull({e[l] : e \in Received(b)})]
    BY DEF JoinInto, Received, AllSent, Senders
  <2>5. JoinInto(b)' = IF Received(b)' = {} THEN None
                       ELSE [l \in Locals(work.fn)' |-> Hull({e[l] : e \in Received(b)'})]
    BY DEF JoinInto, Received, AllSent, Senders
  <2>6. Locals(work.fn)' = Locals(work.fn)
    BY <1>1
  <2>7. ASSUME NEW l PROVE {e[l] : e \in Received(b)'} = {e[l] : e \in Received(b)}
    BY <2>3
  <2>8. [l \in Locals(work.fn)' |-> Hull({e[l] : e \in Received(b)'})]
          = [l \in Locals(work.fn) |-> Hull({e[l] : e \in Received(b)})]
    BY <2>6, <2>7
  <2>9. CASE Received(b) = {}
    <3>1. JoinInto(b) = None
      BY <2>4, <2>9
    <3>2. JoinInto(b)' = None
      BY <2>3, <2>5, <2>9
    <3> QED BY <3>1, <3>2
  <2>10. CASE Received(b) # {}
    <3>1. JoinInto(b) = [l \in Locals(work.fn) |-> Hull({e[l] : e \in Received(b)})]
      BY <2>4, <2>10
    <3>2. JoinInto(b)' = [l \in Locals(work.fn)' |-> Hull({e[l] : e \in Received(b)'})]
      BY <2>3, <2>5, <2>10
    <3> QED BY <2>8, <3>1, <3>2
  <2> QED BY <2>9, <2>10
<1> QED BY <1>1, <1>2, <1>3 DEF Candidates

----------------------------------------------------------------------------
(* The invariant of the whole analysis.                                     *)
\* Entries and contributions are intervals; the entry of a function that takes
\* a parameter holds all contributions to it once the rounds have ended.
EntriesInv ==
  /\ program \in DOMAIN Programs /\ todo \subseteq Funcs
  /\ entry \in [Funcs -> Interval] /\ contrib \in [Funcs -> SUBSET [f : Funcs, iv : Interval]]
  /\ stage # "callers" => \A f \in Funcs : Code[f].np > 0 => entry[f] \in {Top, Fresh(f)}

\* A cached analysis is sound for the seed it was made under, and it is what
\* the function contributes.
CachesInv ==
  /\ DOMAIN cache = Funcs
  /\ \A f \in Funcs : cache[f].in # None =>
       cache[f].in \in Ins(f) /\ cache[f].seed \in Interval /\ SoundFor(f, cache[f].seed, cache[f].in)
  /\ \A f \in Funcs : contrib[f] = Contribution(f, cache[f].in) \/ (f \in todo /\ stage = "callers")

WorkInv ==
  work # Idle =>
    /\ work.fn \in Funcs /\ work.seed = BuildSeed(work.fn) /\ FactsInv(work.fn, work.seed, facts)
    /\ facts.cand # None => facts.queue = <<>> /\ facts.cand = Candidates

\* The flags of a finished function come from an analysis sound for its seed.
FlaggedFrom(f, in) == in \in Ins(f) /\ SoundFor(f, BuildSeed(f), in) /\ raw[f] = Flags(f, in)
RawInv ==
  /\ DOMAIN raw = Funcs
  /\ stage # "callers" => \A f \in Funcs \ todo : raw[f] = NoFlags \/ \E in : FlaggedFrom(f, in)

\* The running activation is at a point that can be reached from its seed.
Place == [b |-> at.b, i |-> at.i, st |-> store]
RunInv ==
  stage = "run" =>
    /\ todo = {} /\ work = Idle
    /\ at.f # 0 => /\ at = [f |-> at.f, b |-> at.b, i |-> at.i]
                   /\ at.f \in Funcs /\ Place \in Reach(at.f, BuildSeed(at.f))
                   /\ \A l \in raw[at.f].locals : Small(store[l].n)

DataInv == EntriesInv /\ CachesInv /\ WorkInv /\ RawInv /\ RunInv

LEMMA SeedType ==
  ASSUME EntriesInv, NEW f \in Funcs PROVE BuildSeed(f) \in Interval
BY TopSound DEF EntriesInv, BuildSeed

LEMMA FirstIn ==
  ASSUME EntriesInv, todo # {} PROVE First(todo) \in todo /\ First(todo) \in Funcs
<1>1. Funcs \subseteq Nat
  BY RawIntsAssumption DEF EntriesInv, Funcs, Code, IsProgram
<1>2. \E f \in todo : \A g \in todo : f <= g
  BY <1>1, NatMin DEF EntriesInv
<1>3. First(todo) \in todo
  BY <1>2 DEF First
<1> QED BY <1>3 DEF EntriesInv

LEMMA FreshType ==
  ASSUME EntriesInv, NEW f \in Funcs
  PROVE  /\ Fresh(f) \in Interval
         /\ \A g \in Funcs : \A c \in contrib[g] : c.f = f => Values(c.iv) \subseteq Values(Fresh(f))
<1> DEFINE S == {Bottom} \cup {c.iv : c \in {d \in UNION {contrib[g] : g \in Funcs} : d.f = f}}
<1>1. Bottom \in Interval
  BY DEF Interval
<1>2. ASSUME NEW g \in Funcs, NEW c \in contrib[g] PROVE c.iv \in Interval
  BY <1>2 DEF EntriesInv
<1>3. S \subseteq Interval /\ S # {}
  BY <1>1, <1>2
<1>4. ASSUME NEW g \in Funcs, NEW c \in contrib[g], c.f = f PROVE c.iv \in S
  BY <1>4
<1>5. Fresh(f) = Hull(S)
  BY DEF Fresh
<1> HIDE DEF S
<1>6. Hull(S) \in Interval /\ \A i \in S : Values(i) \subseteq Values(Hull(S))
  BY <1>3, HullSound
<1> QED BY <1>4, <1>5, <1>6

\* Where a statement stands, the expression recorded there, with its interval.
LEMMA SiteExpr ==
  ASSUME program \in DOMAIN Programs, NEW f \in Funcs, NEW s \in Sites(f)
  PROVE  /\ s[1] \in Blocks(f) /\ s[2] \in DOMAIN Stmts(f, s[1]) /\ StmtAt(f, s) = Stmts(f, s[1])[s[2]]
         /\ IsStmt(StmtAt(f, s), Locals(f), Funcs) /\ IsExpr(ExprAt(f, s), Locals(f))
         /\ StmtAt(f, s).e.k = "call" => StmtAt(f, s).e.f \in Funcs
<1>1. s[1] \in Blocks(f) /\ s[2] \in DOMAIN Stmts(f, s[1]) /\ StmtAt(f, s) = Stmts(f, s[1])[s[2]]
  BY DEF Sites, StmtAt, Stmts
<1>2. IsStmt(StmtAt(f, s), Locals(f), Funcs)
  BY <1>1, Shape
<1>3. IsExpr(StmtAt(f, s).e, Locals(f)) => StmtAt(f, s).e.k # "call"
  BY DEF IsExpr, IsLeaf
<1> QED BY <1>1, <1>2, <1>3 DEF IsStmt, ExprAt

LEMMA IntervalAtType ==
  ASSUME program \in DOMAIN Programs, NEW f \in Funcs, NEW in \in Ins(f) \cup {None}, NEW s \in Sites(f),
         in # None
  PROVE  IntervalAt(f, in, s) \in Interval
<1>1. CASE in[s[1]] = None
  BY <1>1, TopSound DEF IntervalAt
<1>2. CASE in[s[1]] # None
  <2>1. s[1] \in Blocks(f) /\ s[2] \in DOMAIN Stmts(f, s[1]) /\ IsExpr(ExprAt(f, s), Locals(f))
    BY SiteExpr
  <2>2. in[s[1]] \in Envs(f)
    BY <1>2, <2>1 DEF Ins
  <2>3. s[2] - 1 \in 0..Len(Stmts(f, s[1]))
    BY <2>1, <2>2, AlongType
  <2>4. EnvAt(f, in, s[1], s[2]) \in [Locals(f) -> Interval]
    BY <2>1, <2>2, <2>3, AlongType DEF EnvAt, Stmts, Envs
  <2> QED BY <1>2, <2>1, <2>4, EvalType DEF IntervalAt
<1> QED BY <1>1, <1>2

LEMMA ContributionType ==
  ASSUME program \in DOMAIN Programs, NEW f \in Funcs, NEW in \in Ins(f) \cup {None}
  PROVE  Contribution(f, in) \in SUBSET [f : Funcs, iv : Interval]
<1>1. ASSUME NEW s \in Sites(f), StmtAt(f, s).e.k = "call"
      PROVE  [f |-> StmtAt(f, s).e.f, iv |-> IF in = None THEN Top ELSE IntervalAt(f, in, s)]
               \in [f : Funcs, iv : Interval]
  BY <1>1, SiteExpr, IntervalAtType, TopSound
<1> QED BY <1>1 DEF Contribution

\* What is computed where a run is lies in the interval recorded there.
LEMMA SiteSound ==
  ASSUME program \in DOMAIN Programs, NEW f \in Funcs, NEW in \in Ins(f), NEW c \in Points(f), Covers(f, in, c),
         c.i <= Len(Stmts(f, c.b)), Outcome(c.st, ExprAt(f, <<c.b, c.i>>)).n \in Value
  PROVE  /\ <<c.b, c.i>> \in Sites(f) /\ StmtAt(f, <<c.b, c.i>>) = Stmts(f, c.b)[c.i]
         /\ in[c.b] # None
         /\ Outcome(c.st, ExprAt(f, <<c.b, c.i>>)).n \in Values(IntervalAt(f, in, <<c.b, c.i>>))
<1> DEFINE s == <<c.b, c.i>>
<1>1. in[c.b] # None /\ Within(c.st, EnvAt(f, in, c.b, c.i), Locals(f))
      /\ EnvAt(f, in, c.b, c.i) \in [Locals(f) -> Interval] /\ c.b \in Blocks(f) /\ in[c.b] \in Envs(f)
  BY EnvAtType DEF Covers, Envs
<1>2. c.i \in 1..Len(Stmts(f, c.b))
  <2>1. c.i \in Nat /\ c.i >= 1
    BY DEF Points
  <2>2. Len(Stmts(f, c.b)) \in Nat
    BY <1>1, AlongType
  <2> QED BY <2>1, <2>2
<1>3. s \in Sites(f)
  <2>1. c.i \in DOMAIN BlockOf(f, c.b).stmts
    BY <1>1, <1>2, AlongType DEF Stmts
  <2> QED BY <1>1, <2>1 DEF Sites
<1>4. StmtAt(f, s) = Stmts(f, c.b)[c.i] /\ IsExpr(ExprAt(f, s), Locals(f))
  BY <1>3, SiteExpr DEF StmtAt, Stmts
<1>5. IntervalAt(f, in, s) = Eval(EnvAt(f, in, c.b, c.i), ExprAt(f, s))
  BY <1>1 DEF IntervalAt
<1>6. Outcome(c.st, ExprAt(f, s)).n \in Values(Eval(EnvAt(f, in, c.b, c.i), ExprAt(f, s)))
  BY <1>1, <1>4, EvalSound
<1> QED BY <1>1, <1>3, <1>4, <1>5, <1>6

----------------------------------------------------------------------------
(* Steps that leave a part of the invariant alone.                          *)
LEMMA SameSeeds ==
  ASSUME UNCHANGED program
  PROVE  /\ UNCHANGED contrib => \A f : Fresh(f)' = Fresh(f)
         /\ UNCHANGED entry => \A f : BuildSeed(f)' = BuildSeed(f)
<1>1. Code' = Code /\ Funcs' = Funcs
  BY SameCode
<1>2. ASSUME UNCHANGED contrib, NEW f PROVE Fresh(f)' = Fresh(f)
  BY <1>1, <1>2 DEF Fresh
<1>3. ASSUME UNCHANGED entry, NEW f PROVE BuildSeed(f)' = BuildSeed(f)
  BY <1>1, <1>3 DEF BuildSeed
<1> QED BY <1>2, <1>3

LEMMA QuietEntries ==
  ASSUME EntriesInv, UNCHANGED <<program, entry, contrib, stage>>, todo' \subseteq todo
  PROVE  EntriesInv'
<1>1. Code' = Code /\ Funcs' = Funcs /\ \A f : Fresh(f)' = Fresh(f)
  BY SameCode, SameSeeds
<1> QED BY <1>1 DEF EntriesInv

LEMMA QuietCaches ==
  ASSUME CachesInv, UNCHANGED <<program, contrib, cache>>,
         \A f \in Funcs : f \in todo /\ stage = "callers" => f \in todo' /\ stage' = "callers"
  PROVE  CachesInv'
<1>1. /\ Funcs' = Funcs /\ \A f : Ins(f)' = Ins(f)
      /\ \A f, seed, in : SoundFor(f, seed, in)' = SoundFor(f, seed, in)
      /\ \A f, in : Contribution(f, in)' = Contribution(f, in)
  BY SameCode, SameEnvs, SameReach, SameRecords
<1> QED BY <1>1 DEF CachesInv

LEMMA QuietRaw ==
  ASSUME RawInv, UNCHANGED <<program, entry, stage, raw, todo>>
  PROVE  RawInv'
<1>1. /\ Funcs' = Funcs /\ (\A f : Ins(f)' = Ins(f)) /\ \A f : BuildSeed(f)' = BuildSeed(f)
      /\ \A f, seed, in : SoundFor(f, seed, in)' = SoundFor(f, seed, in)
      /\ \A f, in : Flags(f, in)' = Flags(f, in)
  BY SameCode, SameEnvs, SameReach, SameRecords, SameSeeds
<1>2. ASSUME NEW f, NEW in PROVE FlaggedFrom(f, in)' = FlaggedFrom(f, in)
  BY <1>1 DEF FlaggedFrom
<1> QED BY <1>1, <1>2 DEF RawInv, NoFlags

LEMMA QuietRun ==
  ASSUME RunInv, UNCHANGED <<program, stage, entry, raw, todo, work, at, store>>
  PROVE  RunInv'
<1>1. /\ Funcs' = Funcs /\ (\A f : BuildSeed(f)' = BuildSeed(f))
      /\ \A f, seed : Reach(f, seed)' = Reach(f, seed)
  BY SameCode, SameReach, SameSeeds
<1>2. Place' = Place
  BY DEF Place
<1> QED BY <1>1, <1>2 DEF RunInv, Small, Idle

LEMMA QuietWork ==
  ASSUME WorkInv, UNCHANGED <<program, entry, work, facts>>
  PROVE  WorkInv'
<1>1. /\ Funcs' = Funcs /\ (\A f : BuildSeed(f)' = BuildSeed(f))
      /\ \A f, seed, w : FactsInv(f, seed, w)' = FactsInv(f, seed, w)
  BY SameCode, SameReach, SameSeeds
<1>2. Candidates' = Candidates
  BY SameCandidates
<1> QED BY <1>1, <1>2 DEF WorkInv, Idle, None

LEMMA InitData == ASSUME Init PROVE DataInv
<1>1. Bottom \in Interval
  BY DEF Interval
<1>2. EntriesInv
  BY <1>1 DEF Init, EntriesInv
<1>3. CachesInv
  BY DEF Init, CachesInv, NoCache
<1>4. WorkInv /\ RawInv /\ RunInv
  BY DEF Init, WorkInv, RawInv, RunInv
<1> QED BY <1>2, <1>3, <1>4 DEF DataInv

\* What Start begins with.
FirstFacts(f, seed) ==
  [in |-> [b \in Blocks(f) |-> IF b = 1 THEN EntryEnv(f, seed) ELSE None],
   visit |-> [b \in Blocks(f) |-> 0], queue |-> <<1>>, steps |-> 0, cand |-> None, round |-> 0]

LEMMA StartFacts ==
  ASSUME program \in DOMAIN Programs, NEW f \in Funcs, NEW seed \in Interval
  PROVE  FactsInv(f, seed, FirstFacts(f, seed)) /\ FirstFacts(f, seed).cand = None
<1> DEFINE w == FirstFacts(f, seed)
<1>1. EntryEnv(f, seed) \in Envs(f) /\ 1 \in Blocks(f)
  BY Shape, TopSound DEF EntryEnv, Envs
<1>2. <<1>> \in Seq(Blocks(f)) /\ ToSet(<<1>>) = {1} /\ <<1>> # <<>>
  BY <1>1 DEF ToSet
<1> DEFINE in == [b \in Blocks(f) |-> IF b = 1 THEN EntryEnv(f, seed) ELSE None]
           q == <<1>>
           visit == [b \in Blocks(f) |-> 0]
<1>3. in \in Ins(f) /\ in[1] = EntryEnv(f, seed) /\ visit \in [Blocks(f) -> Nat]
      /\ \A b \in Blocks(f) : b # 1 => in[b] = None
  BY <1>1 DEF Ins
<1>4. EntryEnv(f, seed) # None
  BY <1>1, NoneIsNoEnv
<1>5. w = [in |-> in, visit |-> visit, queue |-> q, steps |-> 0, cand |-> None, round |-> 0]
  BY DEF FirstFacts
<1> HIDE DEF in, q, visit, w
<1>6. /\ w \in Facts(f) /\ w.in = in /\ w.queue = q /\ w.cand = None /\ w.round = 0
  BY <1>2, <1>3, <1>5 DEF Facts, q
<1>7. Queued(w)
  BY <1>2, <1>3, <1>4, <1>6 DEF Queued, q
<1>8. \A b \in Blocks(f) : in[b] # None => b \in ToSet(q)
  BY <1>2, <1>3 DEF q
<1> QED BY <1>2, <1>3, <1>6, <1>7, <1>8 DEF FactsInv, q, w

LEMMA StartedWork ==
  ASSUME EntriesInv, NEW f \in Funcs, NEW final, Start(f, final), UNCHANGED <<program, entry>>
  PROVE  WorkInv'
<1>1. BuildSeed(f) \in Interval /\ program \in DOMAIN Programs
  BY SeedType DEF EntriesInv
<1>2. work' = [fn |-> f, final |-> final, seed |-> BuildSeed(f), heads |-> LoopHeads(f)]
  BY DEF Start
<1>3. facts' = FirstFacts(f, BuildSeed(f))
  BY DEF Start, FirstFacts
<1>4. FactsInv(f, BuildSeed(f), facts') /\ facts'.cand = None
  BY <1>1, <1>3, StartFacts
<1>5. work'.fn = f /\ work'.seed = BuildSeed(f)
  BY <1>2
<1>6. /\ Funcs' = Funcs /\ (\A g : BuildSeed(g)' = BuildSeed(g))
      /\ \A g, seed, w : FactsInv(g, seed, w)' = FactsInv(g, seed, w)
  BY SameCode, SameReach, SameSeeds
<1> QED BY <1>4, <1>5, <1>6 DEF WorkInv, None

LEMMA StartData ==
  ASSUME DataInv, Begin \/ Reanalyze
  PROVE  DataInv'
<1>1. /\ UNCHANGED <<program, stage, entry, moves, pinned, contrib, cache, todo, raw, at, store>>
      /\ todo # {} /\ stage # "run"
  BY DEF Begin, Reanalyze
<1>2. WorkInv'
  <2>1. PICK final \in BOOLEAN : Start(First(todo), final)
    BY DEF Begin, Reanalyze
  <2>2. First(todo) \in Funcs
    BY <1>1, FirstIn DEF DataInv
  <2> QED BY <1>1, <2>1, <2>2, StartedWork DEF DataInv
<1>3. EntriesInv' /\ CachesInv' /\ RawInv'
  BY <1>1, QuietEntries, QuietCaches, QuietRaw DEF DataInv
<1>4. RunInv'
  BY <1>1 DEF RunInv
<1> QED BY <1>2, <1>3, <1>4 DEF DataInv

----------------------------------------------------------------------------
(* The analysis of a function goes on.                                      *)
\* What does not change when only the facts do.
LEMMA QuietRest ==
  ASSUME DataInv, stage # "run",
         UNCHANGED <<program, stage, entry, moves, pinned, contrib, cache, todo, work, raw, at, store>>,
         WorkInv'
  PROVE  DataInv'
<1>1. EntriesInv' /\ CachesInv' /\ RawInv'
  BY QuietEntries, QuietCaches, QuietRaw DEF DataInv
<1>2. RunInv'
  BY DEF RunInv
<1> QED BY <1>1, <1>2 DEF DataInv

LEMMA NotRunning ==
  ASSUME DataInv, work # Idle PROVE stage # "run" /\ work.fn \in Funcs /\ work.seed \in Interval
BY SeedType DEF DataInv, RunInv, WorkInv

\* The facts may change to any that satisfy the invariant.
LEMMA FactsStep ==
  ASSUME DataInv, work # Idle,
         UNCHANGED <<program, stage, entry, moves, pinned, contrib, cache, todo, work, raw, at, store>>,
         FactsInv(work.fn, work.seed, facts'),
         facts'.cand # None => facts'.queue = <<>> /\ facts'.cand = Candidates /\ facts'.in = facts.in
  PROVE  DataInv'
<1>1. /\ Funcs' = Funcs /\ (\A g : BuildSeed(g)' = BuildSeed(g))
      /\ \A g, seed, w : FactsInv(g, seed, w)' = FactsInv(g, seed, w)
  BY SameCode, SameReach, SameSeeds
<1>2. facts'.in = facts.in => Candidates' = Candidates
  BY SameCandidates
<1>3. work.fn \in Funcs /\ work.seed = BuildSeed(work.fn)
  BY DEF DataInv, WorkInv
<1>4. WorkInv'
  BY <1>1, <1>2, <1>3 DEF WorkInv, None
<1> QED BY <1>4, NotRunning, QuietRest

LEMMA PopData ==
  ASSUME DataInv, PopBlock PROVE DataInv'
<1>1. /\ work # Idle /\ facts.queue # <<>>
      /\ UNCHANGED <<program, stage, entry, moves, pinned, contrib, cache, todo, work, raw, at, store>>
  BY DEF PopBlock
<1>2. facts' = ReceiveAll([facts EXCEPT !.queue = Tail(@), !.steps = @ + 1],
                          Sent(work.fn, Head(facts.queue), facts.in[Head(facts.queue)]))
  BY DEF PopBlock
<1>3. FactsInv(work.fn, work.seed, facts) /\ program \in DOMAIN Programs
  BY <1>1 DEF DataInv, WorkInv, EntriesInv
<1>4. FactsInv(work.fn, work.seed, facts') /\ facts'.cand = None
  BY <1>1, <1>2, <1>3, NotRunning, PopFacts
<1> QED BY <1>1, <1>4, FactsStep

LEMMA RecomputeData ==
  ASSUME DataInv, Recompute PROVE DataInv'
<1>1. /\ work # Idle /\ facts.queue = <<>> /\ facts' = [facts EXCEPT !.cand = Candidates]
      /\ UNCHANGED <<program, stage, entry, moves, pinned, contrib, cache, todo, work, raw, at, store>>
  BY DEF Recompute
<1>2. FactsInv(work.fn, work.seed, facts) /\ program \in DOMAIN Programs
  BY <1>1 DEF DataInv, WorkInv, EntriesInv
<1>3. facts \in Facts(work.fn) /\ facts.in \in Ins(work.fn)
  BY <1>2 DEF FactsInv, Facts
<1>4. Candidates \in Ins(work.fn)
  BY <1>1, <1>2, <1>3, NotRunning, CandidatesType
<1>5. /\ facts' \in Facts(work.fn) /\ facts'.in = facts.in /\ facts'.queue = facts.queue
      /\ facts'.cand = Candidates
  BY <1>1, <1>3, <1>4 DEF Facts
<1>6. FactsInv(work.fn, work.seed, facts')
  BY <1>1, <1>2, <1>5 DEF FactsInv, Queued
<1> QED BY <1>1, <1>5, <1>6, FactsStep

LEMMA NarrowData ==
  ASSUME DataInv, NarrowRound PROVE DataInv'
<1>1. /\ work # Idle /\ facts.cand # None /\ facts' = [facts EXCEPT !.in = Narrowed, !.cand = None, !.round = @ + 1]
      /\ UNCHANGED <<program, stage, entry, moves, pinned, contrib, cache, todo, work, raw, at, store>>
  BY DEF NarrowRound
<1>2. FactsInv(work.fn, work.seed, facts) /\ program \in DOMAIN Programs /\ facts.queue = <<>> /\ facts.cand = Candidates
  BY <1>1 DEF DataInv, WorkInv, EntriesInv
<1>3. /\ facts \in Facts(work.fn) /\ facts.in \in Ins(work.fn) /\ facts.in[1] = EntryEnv(work.fn, work.seed)
      /\ SoundFor(work.fn, work.seed, facts.in)
  BY <1>2 DEF FactsInv, Facts
<1>4. /\ Narrowed \in Ins(work.fn) /\ Narrowed[1] = EntryEnv(work.fn, work.seed)
      /\ SoundFor(work.fn, work.seed, Narrowed)
  BY <1>1, <1>2, <1>3, NotRunning, NarrowedSound
<1>5. /\ facts' \in Facts(work.fn) /\ facts'.in = Narrowed /\ facts'.queue = <<>> /\ facts'.cand = None
  <2>1. ASSUME NEW f, NEW w \in Facts(f), NEW x \in Ins(f)
        PROVE  [w EXCEPT !.in = x, !.cand = None, !.round = @ + 1] \in Facts(f)
    <3> DEFINE n == w.round + 1
               c == None
    <3>1. [w EXCEPT !.in = x, !.cand = None, !.round = @ + 1] = [w EXCEPT !.in = x, !.cand = c, !.round = n]
      BY DEF Facts
    <3>2. n \in Nat /\ c \in Ins(f) \cup {None}
      BY DEF Facts
    <3> HIDE DEF n, c
    <3>3. [w EXCEPT !.in = x, !.cand = c, !.round = n] \in Facts(f)
      BY <3>2 DEF Facts
    <3> QED BY <3>1, <3>3
  <2>2. \A f, w : w \in Facts(f) => DOMAIN w = {"in", "visit", "queue", "steps", "cand", "round"}
    BY DEF Facts
  <2>3. facts' \in Facts(work.fn)
    BY <1>1, <1>3, <1>4, <2>1
  <2>4. facts'.in = Narrowed /\ facts'.queue = facts.queue /\ facts'.cand = None
    BY <1>1, <1>3, <2>2
  <2> QED BY <1>2, <2>3, <2>4
<1>6. Queued(facts')
  BY <1>5 DEF Queued, ToSet
<1>7. FactsInv(work.fn, work.seed, facts')
  BY <1>4, <1>5, <1>6 DEF FactsInv
<1> QED BY <1>1, <1>5, <1>7, FactsStep

\* The analysis is recorded, as given up or with environments that are sound.
LEMMA RecordData ==
  ASSUME DataInv, CacheInv, work # Idle, NEW in,
         in = None \/ (in \in Ins(work.fn) /\ SoundFor(work.fn, work.seed, in)), Record(in)
  PROVE  DataInv'
<1>1. /\ work' = Idle /\ todo' = todo \ {work.fn} /\ UNCHANGED <<program, stage, entry, at, store>>
  BY DEF Record
<1>2. /\ stage # "run" /\ work.fn \in Funcs /\ work.seed \in Interval /\ program \in DOMAIN Programs
      /\ work.seed = BuildSeed(work.fn)
  BY NotRunning DEF DataInv, EntriesInv, WorkInv
<1>3. WorkInv' /\ RunInv'
  BY <1>1, <1>2 DEF WorkInv, RunInv, Idle
<1>4. /\ Code' = Code /\ Funcs' = Funcs /\ (\A f : Ins(f)' = Ins(f)) /\ \A f : BuildSeed(f)' = BuildSeed(f)
      /\ \A f, seed, x : SoundFor(f, seed, x)' = SoundFor(f, seed, x)
      /\ \A f, x : Contribution(f, x)' = Contribution(f, x) /\ Flags(f, x)' = Flags(f, x)
  BY <1>1, SameCode, SameEnvs, SameReach, SameRecords, SameSeeds
<1>5. CASE work.final
  <2>1. stage = "finish" /\ UNCHANGED <<contrib, cache>>
        /\ raw' = [raw EXCEPT ![work.fn] = IF in = None THEN NoFlags ELSE Flags(work.fn, in)]
    BY <1>2, <1>5 DEF CacheInv, Record
  <2>2. EntriesInv' /\ CachesInv'
    BY <1>1, <2>1, QuietEntries, QuietCaches DEF DataInv
  <2>3. ASSUME NEW f \in Funcs \ todo' PROVE raw'[f] = NoFlags \/ \E x : FlaggedFrom(f, x)'
    <3>1. CASE f = work.fn /\ in = None
      BY <2>1, <3>1, <1>2 DEF DataInv, RawInv
    <3>2. CASE f = work.fn /\ in # None
      <4>1. raw'[f] = Flags(f, in) /\ in \in Ins(f) /\ SoundFor(f, BuildSeed(f), in)
        BY <2>1, <3>2, <1>2 DEF DataInv, RawInv
      <4>2. FlaggedFrom(f, in)'
        BY <1>4, <4>1 DEF FlaggedFrom
      <4> QED BY <4>2
    <3>3. CASE f # work.fn
      <4>1. raw'[f] = raw[f] /\ f \in Funcs \ todo
        BY <1>1, <1>2, <2>1, <3>3 DEF DataInv, RawInv
      <4>2. raw[f] = NoFlags \/ \E x : FlaggedFrom(f, x)
        BY <2>1, <4>1 DEF DataInv, RawInv
      <4>3. ASSUME NEW x, FlaggedFrom(f, x) PROVE FlaggedFrom(f, x)'
        BY <1>4, <4>1, <4>3 DEF FlaggedFrom
      <4> QED BY <4>1, <4>2, <4>3
    <3> QED BY <3>1, <3>2, <3>3
  <2>4. RawInv'
    <3>1. DOMAIN raw' = Funcs
      BY <2>1 DEF DataInv, RawInv
    <3> QED BY <1>4, <2>3, <3>1 DEF RawInv, NoFlags
  <2> QED BY <1>3, <2>2, <2>4 DEF DataInv
<1>6. CASE ~work.final
  <2>1. /\ stage = "callers" /\ UNCHANGED raw
        /\ contrib' = [contrib EXCEPT ![work.fn] = Contribution(work.fn, in)]
        /\ cache' = [cache EXCEPT ![work.fn] = [seed |-> work.seed, in |-> in]]
    BY <1>2, <1>6 DEF CacheInv, Record
  <2>2. Contribution(work.fn, in) \in SUBSET [f : Funcs, iv : Interval]
    BY <1>2, ContributionType
  <2>3. EntriesInv'
    BY <1>1, <1>4, <2>1, <2>2 DEF DataInv, EntriesInv
  <2>4. ASSUME NEW f \in Funcs, cache'[f].in # None
        PROVE  cache'[f].in \in Ins(f) /\ cache'[f].seed \in Interval /\ SoundFor(f, cache'[f].seed, cache'[f].in)
    <3>1. CASE f = work.fn
      BY <1>2, <2>1, <2>4, <3>1 DEF DataInv, CachesInv
    <3>2. CASE f # work.fn
      BY <2>1, <2>4, <3>2 DEF DataInv, CachesInv
    <3> QED BY <3>1, <3>2
  <2>5. ASSUME NEW f \in Funcs PROVE contrib'[f] = Contribution(f, cache'[f].in) \/ f \in todo'
    <3>1. CASE f = work.fn
      BY <1>2, <2>1, <3>1 DEF DataInv, CachesInv, EntriesInv
    <3>2. CASE f # work.fn
      BY <1>1, <2>1, <3>2 DEF DataInv, CachesInv, EntriesInv
    <3> QED BY <3>1, <3>2
  <2>6. DOMAIN cache' = Funcs
    BY <2>1 DEF DataInv, CachesInv
  <2>7. CachesInv'
    BY <1>1, <1>4, <2>1, <2>4, <2>5, <2>6 DEF CachesInv, None
  <2>8. RawInv'
    BY <1>1, <1>4, <2>1 DEF DataInv, RawInv
  <2> QED BY <1>3, <2>3, <2>7, <2>8 DEF DataInv
<1> QED BY <1>5, <1>6

LEMMA FinishData ==
  ASSUME DataInv, CacheInv, Bail \/ Converge PROVE DataInv'
<1>1. CASE Bail
  BY <1>1, RecordData DEF Bail
<1>2. CASE Converge
  <2>1. work # Idle /\ Record(facts.in) /\ (facts.cand # None \/ facts.round = WidenLimit + 2)
    BY <1>2 DEF Converge
  <2>2. FactsInv(work.fn, work.seed, facts)
    BY <2>1 DEF DataInv, WorkInv
  <2>3. facts.queue = <<>>
    BY <2>1, <2>2, RawIntsAssumption DEF FactsInv
  <2>4. facts.in \in Ins(work.fn) /\ SoundFor(work.fn, work.seed, facts.in)
    BY <2>2, <2>3 DEF FactsInv, Facts
  <2> QED BY <2>1, <2>4, RecordData
<1> QED BY <1>1, <1>2

----------------------------------------------------------------------------
(* The rounds end; the flags are set.                                       *)
LEMMA RoundData ==
  ASSUME DataInv, MovesInv, Round PROVE DataInv'
<1>1. /\ stage = "callers" /\ todo = {} /\ work = Idle /\ MoveEntries
      /\ UNCHANGED <<program, contrib, cache, work, facts, raw, at, store>>
      /\ IF Moved = {} THEN stage' = "finish" /\ todo' = Funcs
         ELSE UNCHANGED stage /\ todo' = {f \in Moved : ~Code[f].taken}
  BY DEF Round
<1>2. /\ Code' = Code /\ Funcs' = Funcs /\ (\A f : Ins(f)' = Ins(f)) /\ (\A f : Fresh(f)' = Fresh(f))
      /\ \A f, seed, x : SoundFor(f, seed, x)' = SoundFor(f, seed, x)
      /\ \A f, x : Contribution(f, x)' = Contribution(f, x)
  BY <1>1, SameCode, SameEnvs, SameReach, SameRecords, SameSeeds
<1>3. EntriesInv /\ CachesInv /\ RawInv
  BY DEF DataInv
<1>4. Moved \subseteq Funcs /\ todo' \subseteq Funcs
  BY <1>1 DEF Moved
<1>5. EntriesInv'
  <2>1. /\ DOMAIN entry' = Funcs
        /\ \A f \in Funcs : entry'[f] \in {Top, Fresh(f), entry[f]} /\ (f \notin Moved => entry'[f] = entry[f])
    BY <1>1 DEF MoveEntries
  <2>2. entry' = [f \in Funcs |-> entry'[f]]
    BY <1>1 DEF MoveEntries
  <2>3. entry' \in [Funcs -> Interval]
    BY <1>3, <2>1, <2>2, FreshType, TopSound DEF EntriesInv
  <2>4. ASSUME stage' # "callers", NEW f \in Funcs, Code[f].np > 0 PROVE entry'[f] \in {Top, Fresh(f)}
    <3>1. Moved = {}
      BY <1>1, <2>4
    <3>2. f \in pinned \/ Fresh(f) = entry[f]
      BY <2>4, <3>1 DEF Moved
    <3> QED BY <2>1, <3>1, <3>2 DEF MovesInv
  <2> QED BY <1>1, <1>2, <1>3, <1>4, <2>3, <2>4 DEF EntriesInv, Top
<1>6. CachesInv'
  BY <1>1, <1>2, <1>3 DEF CachesInv, None
<1>7. WorkInv'
  BY <1>1 DEF WorkInv, Idle
<1>8. RawInv' /\ RunInv'
  BY <1>1, <1>2, <1>3 DEF RawInv, RunInv
<1> QED BY <1>5, <1>6, <1>7, <1>8 DEF DataInv

LEMMA AppliedRaw ==
  ASSUME EntriesInv, CachesInv, RawInv, stage = "finish", NEW f \in Funcs, CacheUsable(f),
         UNCHANGED <<program, stage, entry>>, todo' = todo \ {f}, raw' = [raw EXCEPT ![f] = Flags(f, cache[f].in)]
  PROVE  RawInv'
<1>1. /\ Funcs' = Funcs /\ (\A g : Ins(g)' = Ins(g)) /\ \A g : BuildSeed(g)' = BuildSeed(g)
      /\ \A g, seed, x : SoundFor(g, seed, x)' = SoundFor(g, seed, x)
      /\ \A g, x : Flags(g, x)' = Flags(g, x)
  BY SameCode, SameEnvs, SameReach, SameRecords, SameSeeds
<1>2. cache[f].in \in Ins(f) /\ SoundFor(f, BuildSeed(f), cache[f].in)
  BY DEF CacheUsable, CachesInv
<1>3. ASSUME NEW g \in Funcs \ todo' PROVE raw'[g] = NoFlags \/ \E x : FlaggedFrom(g, x)'
  <2>1. CASE g = f
    <3>1. PICK x : x = cache[f].in
      OBVIOUS
    <3>2. x \in Ins(g) /\ SoundFor(g, BuildSeed(g), x) /\ raw'[g] = Flags(g, x)
      BY <1>2, <2>1, <3>1 DEF RawInv
    <3>3. FlaggedFrom(g, x)'
      BY <1>1, <3>2 DEF FlaggedFrom
    <3> QED BY <3>3
  <2>2. CASE g # f
    <3>1. raw'[g] = raw[g] /\ g \in Funcs \ todo
      BY <2>2 DEF RawInv
    <3>2. raw[g] = NoFlags \/ \E x : FlaggedFrom(g, x)
      BY <3>1 DEF RawInv
    <3>3. ASSUME NEW x, FlaggedFrom(g, x) PROVE FlaggedFrom(g, x)'
      BY <1>1, <3>1, <3>3 DEF FlaggedFrom
    <3> QED BY <3>1, <3>2, <3>3
  <2> QED BY <2>1, <2>2
<1>4. DOMAIN raw' = Funcs
  BY DEF RawInv
<1> QED BY <1>1, <1>3, <1>4 DEF RawInv, NoFlags

LEMMA ApplyData ==
  ASSUME DataInv, Apply PROVE DataInv'
<1>1. /\ stage = "finish" /\ work = Idle /\ todo # {} /\ CacheUsable(First(todo)) /\ todo' = todo \ {First(todo)}
      /\ raw' = [raw EXCEPT ![First(todo)] = Flags(First(todo), cache[First(todo)].in)]
      /\ UNCHANGED <<program, stage, entry, moves, pinned, contrib, cache, work, facts, at, store>>
  BY DEF Apply
<1>2. PICK f \in Funcs : f = First(todo)
  BY <1>1, FirstIn DEF DataInv
<1>3. RawInv'
  BY <1>1, <1>2, AppliedRaw DEF DataInv
<1>4. EntriesInv' /\ CachesInv'
  BY <1>1, QuietEntries, QuietCaches DEF DataInv
<1>5. WorkInv' /\ RunInv'
  BY <1>1 DEF WorkInv, RunInv, Idle
<1> QED BY <1>3, <1>4, <1>5 DEF DataInv

----------------------------------------------------------------------------
(* The program runs.                                                        *)
LEMMA ValueFacts ==
  /\ CallResults \subseteq Val /\ Unbound \in Val /\ 0 \in Value /\ Small(0) /\ ~Eligible(Top) /\ ~Eligible(Bottom)
  /\ \A n \in Int : Fits(n) => n \in Value
BY RawIntsAssumption, IntervalsAssumption
   DEF CallResults, Val, Number, TrueValue, Unbound, Value, Small, Eligible, Top, Bottom, Fits

LEMMA EligibleSmall ==
  ASSUME NEW i \in Interval, Eligible(i), NEW n \in Values(i) PROVE Small(n) /\ n \in Int
BY EligibleBounds, ValueBounds, IntervalsAssumption DEF Small, Eligible

LEMMA FlagsFields ==
  ASSUME NEW f, NEW in
  PROVE  LET locals == RawLocals(f, in)
         IN  Flags(f, in) =
               [in |-> in, locals |-> locals, exprs |-> RawExprs(f, in, locals),
                ret |-> /\ ~Code[f].taken /\ ReturnIntervals(f, in) # {}
                        /\ \A iv \in ReturnIntervals(f, in) : Eligible(iv)]
<1> DEFINE R(ls) == [in |-> in, locals |-> ls, exprs |-> RawExprs(f, in, ls),
                     ret |-> /\ ~Code[f].taken /\ ReturnIntervals(f, in) # {}
                             /\ \A iv \in ReturnIntervals(f, in) : Eligible(iv)]
           S == {R(ls) : ls \in {RawLocals(f, in)}}
<1>1. Flags(f, in) = CHOOSE r \in S : TRUE
  BY DEF Flags, With
<1>2. \A r : r \in S <=> r = R(RawLocals(f, in))
  <2> HIDE DEF R
  <2> QED OBVIOUS
<1>3. (CHOOSE r \in S : TRUE) = R(RawLocals(f, in))
  <2> HIDE DEF S, R
  <2> QED BY <1>2
<1> QED BY <1>1, <1>3

\* A local in an untagged slot: everything that is ever written to it is small.
LEMMA RawLocalWriters ==
  ASSUME DataInv, stage # "callers", todo = {}, NEW f \in Funcs, NEW l \in raw[f].locals
  PROVE  \E in : FlaggedFrom(f, in) /\ l \in Locals(f) /\ \A iv \in Writers(f, in, l) : Eligible(iv)
<1>1. raw[f] = NoFlags \/ \E in : FlaggedFrom(f, in)
  BY DEF DataInv, RawInv
<1>2. NoFlags.locals = {}
  BY DEF NoFlags
<1>3. PICK in : FlaggedFrom(f, in)
  BY <1>1, <1>2
<1>4. raw[f].locals = RawLocals(f, in)
  BY <1>3, FlagsFields DEF FlaggedFrom
<1> QED BY <1>3, <1>4 DEF RawLocals, LocalEligible

\* A call starts the function at a point the analysis of it starts from.
LEMMA EnterSound ==
  ASSUME DataInv, stage # "callers", todo = {}, NEW f \in Funcs, NEW v \in Val,
         Params(f) # {} => v.n \in Values(BuildSeed(f)),
         NEW st, st = [l \in Locals(f) |-> IF l \in Params(f) THEN v ELSE Unbound]
  PROVE  /\ [b |-> 1, i |-> 1, st |-> st] \in Reach(f, BuildSeed(f))
         /\ \A l \in raw[f].locals : Small(st[l].n)
<1> DEFINE c == [b |-> 1, i |-> 1, st |-> st]
<1>1. program \in DOMAIN Programs
  BY DEF DataInv, EntriesInv
<1>2. 1 \in Blocks(f) /\ Params(f) \subseteq Locals(f)
  BY <1>1, Shape
<1>3. Len(Stmts(f, 1)) \in Nat
  <2>1. Stmts(f, 1) \in Seq(ToSet(Stmts(f, 1)))
    BY <1>1, <1>2, Shape
  <2> QED BY <2>1, LenProperties
<1>4. st \in Stores(f)
  BY ValueFacts DEF Stores
<1>5. c \in Points(f)
  <2>1. 1 \in 1..Len(Stmts(f, 1)) + 1
    BY <1>3
  <2> QED BY <1>2, <1>4, <2>1 DEF Points
<1>6. c \in Starts(f, BuildSeed(f))
  BY <1>2, <1>5 DEF Starts
<1>7. c \in Reach(f, BuildSeed(f))
  BY <1>6, ReachClosed DEF Closed
<1>8. ASSUME NEW l \in raw[f].locals PROVE Small(st[l].n)
  <2>1. PICK in : FlaggedFrom(f, in) /\ l \in Locals(f) /\ \A iv \in Writers(f, in, l) : Eligible(iv)
    BY <1>8, RawLocalWriters
  <2>2. CASE l \notin Params(f)
    BY <2>1, <2>2, ValueFacts DEF Unbound
  <2>3. CASE l \in Params(f)
    <3>1. (IF Code[f].taken THEN Top ELSE entry[f]) \in Writers(f, in, l)
      BY <2>3 DEF Writers
    <3>2. ~Code[f].taken /\ Eligible(entry[f]) /\ entry[f] # Bottom
      BY <2>1, <3>1, ValueFacts
    <3>3. BuildSeed(f) = entry[f] /\ entry[f] \in Interval
      BY <3>2 DEF BuildSeed, DataInv, EntriesInv
    <3>4. v.n \in Values(entry[f])
      BY <2>3, <3>3
    <3> QED BY <2>1, <2>3, <3>2, <3>3, <3>4, EligibleSmall
  <2> QED BY <2>2, <2>3
<1> QED BY <1>7, <1>8

\* What the running activation does next keeps the invariant, if the new point
\* can be reached and its untagged locals are small.
LEMMA RunStep ==
  ASSUME DataInv, CacheInv, stage' = "run", UNCHANGED <<program, analysis>>, todo = {}, stage # "callers",
         at'.f # 0 => /\ at'.f \in Funcs /\ at' = [f |-> at'.f, b |-> at'.b, i |-> at'.i]
                      /\ [b |-> at'.b, i |-> at'.i, st |-> store'] \in Reach(at'.f, BuildSeed(at'.f))
                      /\ \A l \in raw[at'.f].locals : Small(store'[l].n)
  PROVE  DataInv'
<1>1. UNCHANGED <<entry, moves, pinned, contrib, cache, todo, work, facts, raw>>
  BY DEF analysis
<1>2. /\ Code' = Code /\ Funcs' = Funcs /\ (\A f : Ins(f)' = Ins(f)) /\ (\A f : Fresh(f)' = Fresh(f))
      /\ (\A f : BuildSeed(f)' = BuildSeed(f))
      /\ (\A f, seed, x : SoundFor(f, seed, x)' = SoundFor(f, seed, x))
      /\ (\A f, seed : Reach(f, seed)' = Reach(f, seed))
      /\ \A f, x : Contribution(f, x)' = Contribution(f, x) /\ Flags(f, x)' = Flags(f, x)
  BY <1>1, SameCode, SameEnvs, SameReach, SameRecords, SameSeeds
<1>3. EntriesInv' /\ CachesInv'
  <2>1. EntriesInv'
    BY <1>1, <1>2 DEF DataInv, EntriesInv, Top
  <2>2. CachesInv'
    BY <1>1, <1>2 DEF DataInv, CachesInv, None
  <2> QED BY <2>1, <2>2
<1>4. WorkInv'
  BY <1>1, QuietWork DEF DataInv
<1>5. RawInv'
  <2>1. ASSUME NEW f, NEW in PROVE FlaggedFrom(f, in)' = FlaggedFrom(f, in)
    BY <1>1, <1>2 DEF FlaggedFrom
  <2> QED BY <1>1, <1>2, <2>1 DEF DataInv, RawInv, NoFlags
<1>6. RunInv'
  <2>1. work = Idle
    BY DEF CacheInv
  <2>2. Place' = [b |-> at'.b, i |-> at'.i, st |-> store']
    BY DEF Place
  <2> QED BY <1>1, <1>2, <2>1, <2>2 DEF RunInv, Small, Idle
<1> QED BY <1>3, <1>4, <1>5, <1>6 DEF DataInv

LEMMA EnterStep ==
  ASSUME DataInv, CacheInv, stage' = "run", UNCHANGED <<program, analysis>>, todo = {}, stage # "callers",
         NEW f \in Funcs, NEW v \in Val, Params(f) # {} => v.n \in Values(BuildSeed(f)), Enter(f, v)
  PROVE  DataInv'
<1>1. /\ at' = [f |-> f, b |-> 1, i |-> 1]
      /\ store' = [l \in Locals(f) |-> IF l \in Params(f) THEN v ELSE Unbound]
  BY DEF Enter
<1>2. /\ [b |-> 1, i |-> 1, st |-> store'] \in Reach(f, BuildSeed(f))
      /\ \A l \in raw[f].locals : Small(store'[l].n)
  <2> DEFINE st == [l \in Locals(f) |-> IF l \in Params(f) THEN v ELSE Unbound]
  <2>1. /\ [b |-> 1, i |-> 1, st |-> st] \in Reach(f, BuildSeed(f))
        /\ \A l \in raw[f].locals : Small(st[l].n)
    BY EnterSound
  <2> QED BY <1>1, <2>1
<1>3. at'.f = f /\ at'.b = 1 /\ at'.i = 1
  BY <1>1
<1> QED BY <1>1, <1>2, <1>3, RunStep

LEMMA RunData ==
  ASSUME DataInv, CacheInv, Run PROVE DataInv'
<1>1. stage = "finish" /\ todo = {} /\ stage' = "run" /\ UNCHANGED <<program, analysis>>
  BY DEF Run
<1>2. CASE Enter(1, Unbound)
  <2>1. 1 \in Funcs /\ Params(1) = {}
    BY RawIntsAssumption DEF DataInv, EntriesInv, IsProgram, Funcs, Code, Params
  <2>2. Unbound \in Val
    BY ValueFacts
  <2> QED BY <1>1, <1>2, <2>1, <2>2, EnterStep
<1>3. CASE \E f \in {g \in Funcs : Code[g].taken}, v \in CallResults : Enter(f, v)
  <2>1. PICK f \in Funcs, v \in CallResults : Code[f].taken /\ Enter(f, v)
    BY <1>3
  <2>2. v \in Val /\ v.n \in Value
    BY ValueFacts DEF Val
  <2>3. BuildSeed(f) = Top /\ Values(Top) = Value
    BY <2>1, TopSound DEF BuildSeed
  <2> QED BY <1>1, <2>1, <2>2, <2>3, EnterStep
<1> QED BY <1>2, <1>3 DEF Run

----------------------------------------------------------------------------
(* One step of the running activation.                                      *)
\* Where the activation is, and what the finished analyses know of it.
LEMMA RunFacts ==
  ASSUME DataInv, stage = "run", at.f # 0
  PROVE  /\ program \in DOMAIN Programs /\ todo = {} /\ at.f \in Funcs /\ at = [f |-> at.f, b |-> at.b, i |-> at.i]
         /\ Place \in Points(at.f) /\ Place \in Reach(at.f, BuildSeed(at.f))
         /\ Place.b = at.b /\ Place.i = at.i /\ Place.st = store
         /\ at.b \in Blocks(at.f) /\ store \in Stores(at.f) /\ at.i \in Nat /\ at.i \in 1..Len(Stmts(at.f, at.b)) + 1
         /\ Here = BlockOf(at.f, at.b) /\ Here.stmts = Stmts(at.f, at.b) /\ Len(Stmts(at.f, at.b)) \in Nat
         /\ DOMAIN Stmts(at.f, at.b) = 1..Len(Stmts(at.f, at.b))
         /\ \A l \in raw[at.f].locals : Small(store[l].n)
<1>1. /\ program \in DOMAIN Programs /\ todo = {} /\ at.f \in Funcs /\ at = [f |-> at.f, b |-> at.b, i |-> at.i]
      /\ Place \in Reach(at.f, BuildSeed(at.f)) /\ \A l \in raw[at.f].locals : Small(store[l].n)
  BY DEF DataInv, EntriesInv, RunInv
<1>2. Place.b = at.b /\ Place.i = at.i /\ Place.st = store
  BY DEF Place
<1>3. Place \in Points(at.f)
  BY <1>1, ReachClosed
<1>4. at.b \in Blocks(at.f) /\ store \in Stores(at.f) /\ at.i \in Nat /\ at.i \in 1..Len(Stmts(at.f, at.b)) + 1
  BY <1>2, <1>3 DEF Points
<1>5. Stmts(at.f, at.b) \in Seq(ToSet(Stmts(at.f, at.b)))
  BY <1>1, <1>4, Shape
<1>6. Len(Stmts(at.f, at.b)) \in Nat /\ DOMAIN Stmts(at.f, at.b) = 1..Len(Stmts(at.f, at.b))
  BY <1>5, LenProperties
<1> QED BY <1>1, <1>2, <1>3, <1>4, <1>6 DEF Here, Stmts

\* The statement the activation is at.
LEMMA StmtFacts ==
  ASSUME DataInv, InStmt
  PROVE  /\ Stmt = Stmts(at.f, at.b)[at.i] /\ at.i \in DOMAIN Stmts(at.f, at.b)
         /\ <<at.b, at.i>> \in Sites(at.f) /\ StmtAt(at.f, <<at.b, at.i>>) = Stmt
         /\ ExprAt(at.f, <<at.b, at.i>>) = Arithmetic
         /\ IsExpr(Arithmetic, Locals(at.f)) /\ Stmt.t \in Locals(at.f) \cup {0}
         /\ Stmt.e.k = "call" => Stmt.e.f \in Funcs
<1>1. stage = "run" /\ at.f # 0 /\ at.i <= Len(Here.stmts)
  BY DEF InStmt
<1>2. Stmt = Stmts(at.f, at.b)[at.i] /\ at.i \in DOMAIN Stmts(at.f, at.b)
  BY <1>1, RunFacts DEF Stmt
<1>3. <<at.b, at.i>> \in Sites(at.f)
  BY <1>1, <1>2, RunFacts DEF Sites, Stmts
<1>4. StmtAt(at.f, <<at.b, at.i>>) = Stmt
  BY <1>2 DEF StmtAt, Stmts
<1>5. ExprAt(at.f, <<at.b, at.i>>) = Arithmetic
  BY <1>4 DEF ExprAt, Arithmetic
<1>6. IsStmt(Stmt, Locals(at.f), Funcs)
  BY <1>1, <1>3, <1>4, RunFacts, SiteExpr
<1> QED BY <1>1, <1>2, <1>3, <1>4, <1>5, <1>6, RunFacts, SiteExpr DEF IsStmt

\* Arithmetic that a run goes through gives a value.
LEMMA OutcomeType ==
  ASSUME NEW L, NEW st \in [L -> Val], NEW e, IsExpr(e, L), ~DividesByZero(st, e), Fits(Outcome(st, e).n)
  PROVE  Outcome(st, e) \in Val /\ Outcome(st, e).n \in Value
<1>0. \A x : IsLeaf(x, L) => ValueOf(st, x) \in Val
  <2> SUFFICES ASSUME NEW x, IsLeaf(x, L) PROVE ValueOf(st, x) \in Val
    OBVIOUS
  <2>1. TrueValue \in Val /\ \A n \in Value : Number(n) \in Val
    BY ValueFacts DEF CallResults, Val, Number
  <2> QED BY <2>1 DEF IsLeaf, ValueOf
<1>1. CASE e.k # "bin"
  <2>1. IsLeaf(e, L) /\ Outcome(st, e) = ValueOf(st, e)
    BY <1>1 DEF IsExpr, Outcome
  <2> QED BY <1>0, <2>1 DEF Val
<1>2. CASE e.k = "bin"
  <2>1. e.op \in Operators /\ IsLeaf(e.l, L) /\ IsLeaf(e.r, L)
    BY <1>2 DEF IsExpr, IsLeaf
  <2> DEFINE v == ValueOf(st, e.l).n
             w == ValueOf(st, e.r).n
  <2>2. v \in Int /\ w \in Int
    BY <1>0, <2>1 DEF Val, Value
  <2>3. Outcome(st, e) = Number(Calculate(e.op, v, w))
    BY <1>2 DEF Outcome
  <2>4. e.op \in {"mod", "floordiv"} => w # 0
    BY <1>2 DEF DividesByZero
  <2> HIDE DEF v, w
  <2>5. Calculate(e.op, v, w) \in Int
    <3>1. w < 0 => -w \in Nat \ {0}
      BY <2>2
    <3>2. w > 0 => v % w \in Int /\ v \div w \in Int
      BY <2>2
    <3>3. w < 0 => (-v) % (-w) \in Int /\ (-v) \div (-w) \in Int
      BY <2>2, <3>1
    <3> QED BY <2>1, <2>2, <2>4, <3>2, <3>3 DEF Calculate, Operators
  <2>6. Outcome(st, e).n = Calculate(e.op, v, w)
    BY <2>3 DEF Number
  <2> QED BY <2>3, <2>5, <2>6, ValueFacts DEF Number, Val
<1> QED BY <1>1, <1>2

\* A value written by the current statement into an untagged slot is small.
LEMMA WrittenSmall ==
  ASSUME DataInv, InStmt, Stmt.t \in raw[at.f].locals
  PROVE  /\ Stmt.e.k # "call"
         /\ Outcome(store, Stmt.e).n \in Value => Small(Outcome(store, Stmt.e).n)
<1>1. stage = "run" /\ at.f # 0
  BY DEF InStmt
<1> DEFINE s == <<at.b, at.i>>
<1>2. PICK in : FlaggedFrom(at.f, in) /\ Stmt.t \in Locals(at.f) /\ \A iv \in Writers(at.f, in, Stmt.t) : Eligible(iv)
  BY <1>1, RunFacts, RawLocalWriters
<1>3. Covers(at.f, in, Place) /\ in \in Ins(at.f)
  BY <1>1, <1>2, RunFacts DEF FlaggedFrom, SoundFor
<1>4. in[s[1]] # None /\ s \in Sites(at.f) /\ StmtAt(at.f, s) = Stmt
  BY <1>1, <1>3, RunFacts, StmtFacts DEF Covers
<1>5. (IF Stmt.e.k = "call" THEN Top ELSE IntervalAt(at.f, in, s)) \in Writers(at.f, in, Stmt.t)
  <2> HIDE DEF s
  <2> QED BY <1>4 DEF Writers
<1>6. Stmt.e.k # "call" /\ Eligible(IntervalAt(at.f, in, s))
  BY <1>2, <1>5, ValueFacts
<1>7. ASSUME Outcome(store, Stmt.e).n \in Value PROVE Small(Outcome(store, Stmt.e).n)
  <2>1. ExprAt(at.f, s) = Stmt.e
    BY <1>4, <1>6 DEF ExprAt
  <2>2. Outcome(store, Stmt.e).n \in Values(IntervalAt(at.f, in, s))
    <3>1. at.i <= Len(Stmts(at.f, at.b))
      BY <1>1, RunFacts, StmtFacts
    <3> QED BY <1>1, <1>3, <1>7, <2>1, <3>1, RunFacts, SiteSound
  <2>3. IntervalAt(at.f, in, s) \in Interval
    <3>1. in # None
      BY <1>1, <1>3, RunFacts DEF Ins, None
    <3> QED BY <1>1, <1>3, <1>4, <3>1, RunFacts, IntervalAtType
  <2> QED BY <1>6, <2>2, <2>3, EligibleSmall
<1> QED BY <1>6, <1>7

----------------------------------------------------------------------------
\* Within its function the activation goes to a point that can be reached.
LEMMA MoveOn ==
  ASSUME DataInv, CacheInv, stage = "run", at.f # 0, Stay, NEW b, NEW i,
         at' = [at EXCEPT !.b = b, !.i = i], NEW d, d = [b |-> b, i |-> i, st |-> store'],
         d \in Points(at.f), Steps(at.f, Place, d) \/ Leaves(at.f, Place, d),
         \A l \in raw[at.f].locals : Small(store'[l].n)
  PROVE  DataInv'
<1>1. d \in Reach(at.f, BuildSeed(at.f))
  BY RunFacts, ReachClosed DEF Closed
<1>2. at' = [f |-> at.f, b |-> b, i |-> i]
  BY RunFacts
<1>3. at'.f = at.f /\ at'.b = b /\ at'.i = i
  BY <1>2
<1>4. stage' = "run" /\ todo = {} /\ UNCHANGED <<program, analysis>> /\ at.f \in Funcs
  BY RunFacts DEF Stay
<1> QED BY <1>1, <1>2, <1>3, <1>4, RunStep

LEMMA WriteStep ==
  ASSUME DataInv, CacheInv, InStmt, Stay, Next1, NEW v \in Val, Store(v),
         Stmt.e.k # "call" => v = Outcome(store, Stmt.e) /\ v.n \in Value
  PROVE  DataInv'
<1>1. stage = "run" /\ at.f # 0 /\ at.i <= Len(Here.stmts)
  BY DEF InStmt
<1>2. Stmt.t \in Locals(at.f) \cup {0} /\ 0 \notin Locals(at.f)
  BY <1>1, StmtFacts, RunFacts, Shape
<1>3. store' = Put(store, Stmt.t, v)
  BY DEF Store, Put
<1>4. store' \in Stores(at.f)
  BY <1>1, <1>2, <1>3, RunFacts DEF Put, Stores
<1>5. at' = [at EXCEPT !.b = at.b, !.i = at.i + 1]
  BY <1>1, RunFacts DEF Next1
<1> DEFINE d == [b |-> at.b, i |-> at.i + 1, st |-> store']
<1>6. d \in Points(at.f)
  <2>1. at.i + 1 \in Nat /\ at.i + 1 \in 1..Len(Stmts(at.f, at.b)) + 1
    BY <1>1, RunFacts
  <2> QED BY <1>1, <1>4, <2>1, RunFacts DEF Points
<1>7. Steps(at.f, Place, d)
  <2>1. Place.i <= Len(Stmts(at.f, Place.b)) /\ Stmts(at.f, Place.b)[Place.i] = Stmt
    BY <1>1, RunFacts, StmtFacts
  <2> QED BY <1>1, <1>3, <2>1, RunFacts DEF Steps
<1>8. ASSUME NEW l \in raw[at.f].locals PROVE Small(store'[l].n)
  <2>1. Small(store[l].n)
    BY <1>1, <1>8, RunFacts
  <2>2. CASE l = Stmt.t
    <3>1. v = Outcome(store, Stmt.e) /\ Small(v.n)
      BY <1>8, <2>2, WrittenSmall
    <3>2. (l # 0 /\ l \in DOMAIN store) \/ store' = store
      BY <1>1, <1>2, <1>3, <2>2, RunFacts DEF Put, Stores
    <3> QED BY <1>3, <2>1, <2>2, <3>1, <3>2 DEF Put
  <2>3. CASE l # Stmt.t
    BY <1>3, <2>1, <2>3 DEF Put
  <2> QED BY <2>2, <2>3
<1> QED BY <1>1, <1>5, <1>6, <1>7, <1>8, MoveOn

LEMMA JumpStep ==
  ASSUME DataInv, CacheInv, stage = "run", at.f # 0, NEW b \in Blocks(at.f), Follow(b),
         Leaves(at.f, Place, [b |-> b, i |-> 1, st |-> store])
  PROVE  DataInv'
<1>1. at' = [at EXCEPT !.b = b, !.i = 1] /\ store' = store /\ Stay
  BY DEF Follow
<1> DEFINE d == [b |-> b, i |-> 1, st |-> store']
<1>2. d \in Points(at.f)
  <2>1. Stmts(at.f, b) \in Seq(ToSet(Stmts(at.f, b)))
    BY RunFacts, Shape
  <2>2. 1 \in 1..Len(Stmts(at.f, b)) + 1
    BY <2>1, LenProperties
  <2> QED BY <1>1, <2>2, RunFacts DEF Points
<1>3. \A l \in raw[at.f].locals : Small(store'[l].n)
  BY <1>1, RunFacts
<1>4. Leaves(at.f, Place, d)
  BY <1>1
<1> QED BY <1>1, <1>2, <1>3, <1>4, MoveOn

\* The argument of a call lies in the callee's seed: the caller contributed it.
LEMMA ArgumentSound ==
  ASSUME DataInv, CacheInv, InStmt, Stmt.e.k = "call", Params(Stmt.e.f) # {},
         Outcome(store, Stmt.e.a).n \in Value
  PROVE  Outcome(store, Stmt.e.a).n \in Values(BuildSeed(Stmt.e.f))
<1> DEFINE s == <<at.b, at.i>>
           g == Stmt.e.f
           f == at.f
           in == cache[f].in
           n == Outcome(store, Stmt.e.a).n
<1>1. stage = "run" /\ f # 0 /\ f \in Funcs /\ g \in Funcs
  BY RunFacts, StmtFacts DEF InStmt
<1>2. CASE BuildSeed(g) = Top
  BY <1>2, TopSound
<1>3. CASE BuildSeed(g) # Top
  <2>1. BuildSeed(g) = entry[g] /\ entry[g] # Top
    BY <1>3 DEF BuildSeed
  <2>2. Code[g].np > 0
    <3>1. Code[g].np \in {0, 1}
      BY <1>1, RawIntsAssumption DEF DataInv, EntriesInv, IsProgram, IsFunction, Funcs, Code
    <3> QED BY <3>1 DEF Params
  <2>3. entry[g] = Fresh(g)
    BY <1>1, <2>1, <2>2 DEF DataInv, EntriesInv
  <2> DEFINE c == [f |-> g, iv |-> IF in = None THEN Top ELSE IntervalAt(f, in, s)]
  <2>4. contrib[f] = Contribution(f, in) /\ cache[f].seed = BuildSeed(f)
    BY <1>1 DEF DataInv, CachesInv, CacheInv
  <2>5. c \in contrib[f]
    <3>1. s \in Sites(f) /\ StmtAt(f, s) = Stmt
      BY StmtFacts
    <3>2. c = [f |-> StmtAt(f, s).e.f, iv |-> IF in = None THEN Top ELSE IntervalAt(f, in, s)]
      BY <3>1
    <3>3. StmtAt(f, s).e.k = "call"
      BY <3>1
    <3> HIDE DEF s, f, g, in, c
    <3> QED BY <2>4, <3>1, <3>2, <3>3 DEF Contribution
  <2>6. Values(c.iv) \subseteq Values(Fresh(g))
    <3>1. c.f = g
      OBVIOUS
    <3> HIDE DEF c
    <3> QED BY <1>1, <2>5, <3>1, FreshType DEF DataInv
  <2>7. n \in Values(c.iv)
    <3>1. CASE in = None
      BY <3>1, TopSound
    <3>2. CASE in # None
      <4>1. in \in Ins(f) /\ SoundFor(f, BuildSeed(f), in)
        BY <1>1, <2>4, <3>2 DEF DataInv, CachesInv
      <4>2. Covers(f, in, Place)
        BY <1>1, <4>1, RunFacts DEF SoundFor
      <4>3. ExprAt(f, s) = Stmt.e.a
        BY StmtFacts DEF Arithmetic
      <4>4. at.i <= Len(Stmts(f, at.b))
        BY <1>1, RunFacts, StmtFacts
      <4>5. n \in Values(IntervalAt(f, in, s))
        BY <1>1, <4>1, <4>2, <4>3, <4>4, RunFacts, SiteSound
      <4> QED BY <3>2, <4>5
    <3> QED BY <3>1, <3>2
  <2> QED BY <2>1, <2>3, <2>6, <2>7
<1> QED BY <1>2, <1>3

LEMMA ExecuteData ==
  ASSUME DataInv, CacheInv, Execute PROVE DataInv'
<1>1. CASE Compute
  <2>1. /\ InStmt /\ Stmt.e.k # "call" /\ Evaluates(Stmt.e) /\ Store(Outcome(store, Stmt.e)) /\ Next1 /\ Stay
    BY <1>1 DEF Compute
  <2>2. IsExpr(Stmt.e, Locals(at.f)) /\ store \in [Locals(at.f) -> Val]
    BY <2>1, StmtFacts, RunFacts DEF Arithmetic, InStmt, Stores
  <2>3. Outcome(store, Stmt.e) \in Val /\ Outcome(store, Stmt.e).n \in Value
    BY <2>1, <2>2, OutcomeType DEF Evaluates
  <2> QED BY <2>1, <2>3, WriteStep
<1>2. CASE CallOver
  <2>1. /\ InStmt /\ Stmt.e.k = "call" /\ Next1 /\ Stay
    BY <1>2 DEF CallOver
  <2>2. PICK v \in CallResults : Store(v)
    BY <1>2 DEF CallOver
  <2>3. v \in Val
    BY ValueFacts
  <2> QED BY <2>1, <2>2, <2>3, WriteStep
<1>3. CASE CallIn
  <2>1. /\ InStmt /\ Stmt.e.k = "call" /\ Evaluates(Stmt.e.a) /\ Stay
        /\ Enter(Stmt.e.f, Outcome(store, Stmt.e.a))
    BY <1>3 DEF CallIn
  <2>2. IsExpr(Stmt.e.a, Locals(at.f)) /\ store \in [Locals(at.f) -> Val] /\ Stmt.e.f \in Funcs
    BY <2>1, StmtFacts, RunFacts DEF Arithmetic, InStmt, Stores
  <2>3. Outcome(store, Stmt.e.a) \in Val /\ Outcome(store, Stmt.e.a).n \in Value
    BY <2>1, <2>2, OutcomeType DEF Evaluates
  <2>4. Params(Stmt.e.f) # {} => Outcome(store, Stmt.e.a).n \in Values(BuildSeed(Stmt.e.f))
    BY <2>1, <2>3, ArgumentSound
  <2>5. stage' = "run" /\ stage = "run" /\ UNCHANGED <<program, analysis>> /\ todo = {}
    BY <2>1, RunFacts DEF InStmt, Stay
  <2> QED BY <2>1, <2>2, <2>3, <2>4, <2>5, EnterStep
<1>4. CASE Raise
  <2>1. /\ InStmt /\ Here.handler # 0 /\ Follow(Here.handler)
    BY <1>4 DEF Raise, Follow
  <2>2. /\ stage = "run" /\ at.f # 0 /\ Here = BlockOf(at.f, at.b) /\ at.b \in Blocks(at.f) /\ at.f \in Funcs
        /\ program \in DOMAIN Programs /\ Place.b = at.b /\ Place.st = store
    BY <2>1, RunFacts DEF InStmt
  <2>3. Here.handler \in Blocks(at.f)
    BY <2>1, <2>2, Shape
  <2>4. Leaves(at.f, Place, [b |-> Here.handler, i |-> 1, st |-> store])
    BY <2>1, <2>2 DEF Leaves
  <2> QED BY <2>1, <2>2, <2>3, <2>4, JumpStep
<1>5. CASE JumpOn \/ BranchOn
  <2>1. InTerm /\ stage = "run" /\ at.f # 0 /\ at.i > Len(Here.stmts)
    BY <1>5 DEF JumpOn, BranchOn, InTerm
  <2>2. /\ Here = BlockOf(at.f, at.b) /\ at.b \in Blocks(at.f) /\ at.f \in Funcs /\ program \in DOMAIN Programs
        /\ Place.b = at.b /\ Place.st = store /\ Place.i = Len(Stmts(at.f, at.b)) + 1
    <3>1. at.i = Len(Stmts(at.f, at.b)) + 1
      BY <2>1, RunFacts
    <3> QED BY <2>1, <3>1, RunFacts
  <2>3. IsTerm(Here.term, Locals(at.f), Blocks(at.f) \ {1})
    BY <2>2, Shape
  <2>4. CASE JumpOn
    <3>1. Here.term.k = "jump" /\ Follow(Here.term.to) /\ Here.term.to \in Blocks(at.f)
      BY <2>3, <2>4 DEF JumpOn, IsTerm
    <3>2. Leaves(at.f, Place, [b |-> Here.term.to, i |-> 1, st |-> store])
      BY <2>2, <3>1 DEF Leaves
    <3> QED BY <2>1, <3>1, <3>2, JumpStep
  <2>5. CASE BranchOn
    <3> DEFINE to == IF Compare(Here.term.op, ValueOf(store, Here.term.l).n, ValueOf(store, Here.term.r).n)
                     THEN Here.term.to ELSE Here.term.else
    <3>1. Here.term.k = "branch" /\ Follow(to) /\ to \in Blocks(at.f)
      BY <2>3, <2>5 DEF BranchOn, IsTerm
    <3>2. Leaves(at.f, Place, [b |-> to, i |-> 1, st |-> store])
      BY <2>2, <3>1 DEF Leaves
    <3> HIDE DEF to
    <3> QED BY <2>1, <3>1, <3>2, JumpStep
  <2> QED BY <1>5, <2>4, <2>5
<1>6. CASE Leave
  <2>1. InTerm /\ Stay /\ at' = NoActivation
    BY <1>6 DEF Leave
  <2>2. stage' = "run" /\ stage = "run" /\ UNCHANGED <<program, analysis>> /\ todo = {}
    BY <2>1, RunFacts DEF InTerm, Stay
  <2>3. at'.f = 0
    BY <2>1 DEF NoActivation
  <2> QED BY <2>2, <2>3, RunStep
<1> QED BY <1>1, <1>2, <1>3, <1>4, <1>5, <1>6 DEF Execute

----------------------------------------------------------------------------
(* The theorems.                                                            *)
LEMMA NextData ==
  ASSUME DataInv, CacheInv, MovesInv, [Next]_vars PROVE DataInv'
<1>1. CASE Analyze
  BY <1>1, StartData, FinishData, PopData, RecomputeData, NarrowData, RoundData, ApplyData DEF Analyze
<1>2. CASE Run
  BY <1>2, RunData
<1>3. CASE Execute
  BY <1>3, ExecuteData
<1>4. CASE UNCHANGED vars
  <2>1. /\ UNCHANGED <<program, stage, entry, moves, pinned, contrib, cache, todo, work, facts, raw, at, store>>
    BY <1>4 DEF vars, analysis
  <2>2. EntriesInv' /\ CachesInv' /\ RawInv' /\ RunInv' /\ WorkInv'
    BY <2>1, QuietEntries, QuietCaches, QuietRaw, QuietRun, QuietWork DEF DataInv
  <2> QED BY <2>2 DEF DataInv
<1> QED BY <1>1, <1>2, <1>3, <1>4 DEF Next

\* Whenever a run enters a block, the environment recorded there holds every
\* local: no interprocedural round, widening, narrowing, cached analysis or
\* exception edge loses a value.
THEOREM EnvIsSound == Spec => []EnvSound
<1>1. DataInv => EnvSound
  <2> SUFFICES ASSUME DataInv, stage = "run", at.f # 0, at.i = 1, raw[at.f].in # None
               PROVE  /\ raw[at.f].in[at.b] # None
                      /\ \A l \in Locals(at.f) : store[l].n \in Values(raw[at.f].in[at.b][l])
    BY DEF EnvSound
  <2>1. at.f \in Funcs /\ todo = {} /\ NoFlags.in = None
    BY RunFacts DEF NoFlags
  <2>2. PICK in : FlaggedFrom(at.f, in)
    BY <2>1 DEF DataInv, RawInv
  <2>3. raw[at.f].in = in
    BY <2>2, FlagsFields DEF FlaggedFrom
  <2>4. Covers(at.f, in, Place) /\ in \in Ins(at.f)
    BY <2>2, RunFacts DEF FlaggedFrom, SoundFor
  <2>5. in[at.b] # None /\ EnvAt(at.f, in, at.b, at.i) = in[at.b]
    BY <2>1, <2>4, RunFacts, EnvAtType DEF Covers
  <2> QED BY <2>3, <2>4, <2>5, RunFacts DEF Covers, Within
<1>2. Init => DataInv
  BY InitData
<1>3. CacheInv /\ MovesInv /\ DataInv /\ [Next]_vars => DataInv'
  BY NextData
<1> QED BY <1>1, <1>2, <1>3, InitInv, NextInv, PTL DEF Spec

----------------------------------------------------------------------------
(* What is untagged stays within the bound.                                 *)
\* An operation whose interval is within the bound never divides by zero, and
\* on small operands it gives a value the analysis can name.
LEMMA EligibleOutcome ==
  ASSUME NEW op \in Operators, NEW a \in Interval, NEW b \in Interval, Eligible(BinopInterval(op, a, b)),
         NEW v \in Values(a), NEW w \in Values(b), Small(v), Small(w)
  PROVE  /\ op \in {"mod", "floordiv"} => w > 0
         /\ Calculate(op, v, w) \in Value
<1>1. v \in Int /\ w \in Int /\ -Bound <= v /\ v <= Bound /\ -Bound <= w /\ w <= Bound /\ Bound \in Nat \ {0}
  BY ValueBounds, IntervalsAssumption DEF Small
<1>2. op \in {"mod", "floordiv"} => w > 0
  <2>1. op \in {"mod", "floordiv"} => Eligible(b) /\ b.lo >= 1
    BY ValueFacts DEF BinopInterval, Mod, FloorDiv
  <2> QED BY <2>1, <1>1, ValueBounds
<1>3. Bound * Bound \in Nat /\ Bound <= Bound * Bound
  <2>1. 1 * Bound <= Bound * Bound
    BY <1>1, TimesMonotone
  <2> QED BY <1>1, <2>1
<1>4. \A n \in Int : -(Bound * Bound + Bound) <= n /\ n <= Bound * Bound + Bound => n \in Value
  BY <1>1, <1>3, IntervalsAssumption DEF Value
<1>5. CASE op = "add" \/ op = "sub"
  BY <1>1, <1>3, <1>4, <1>5 DEF Calculate
<1>6. CASE op = "mul"
  <2>1. v * w \in Int
    BY <1>1
  <2>2. -(Bound * Bound) <= v * w /\ v * w <= Bound * Bound
    <3>1. /\ (-Bound) * w <= v * w \/ Bound * w <= v * w
          /\ v * w <= (-Bound) * w \/ v * w <= Bound * w
      BY <1>1, FactorBetween
    <3>2. /\ (-Bound) * Bound <= w * Bound /\ w * Bound <= Bound * Bound
      BY <1>1, TimesMonotone
    <3>3. (-Bound) * Bound = -(Bound * Bound) /\ w * Bound = Bound * w /\ (-Bound) * w = -(Bound * w) /\ Bound * w \in Int
      BY <1>1
    <3> QED BY <1>3, <2>1, <3>1, <3>2, <3>3
  <2>3. Calculate(op, v, w) = v * w
    BY <1>6 DEF Calculate
  <2>4. ASSUME NEW p \in Int, NEW q \in Nat, -q <= p, p <= q PROVE -(q + Bound) <= p /\ p <= q + Bound
    <3>1. Bound \in Nat
      BY <1>1
    <3> QED BY <2>4, <3>1
  <2>5. -(Bound * Bound + Bound) <= v * w /\ v * w <= Bound * Bound + Bound
    <3> DEFINE p == v * w
               q == Bound * Bound
    <3>1. p \in Int /\ q \in Nat /\ -q <= p /\ p <= q
      BY <1>3, <2>1, <2>2
    <3> HIDE DEF p, q
    <3>2. -(q + Bound) <= p /\ p <= q + Bound
      BY <2>4, <3>1
    <3> QED BY <3>2 DEF p, q
  <2> QED BY <1>2, <1>4, <2>1, <2>3, <2>5
<1>7. CASE op = "mod"
  <2>1. w > 0 /\ Calculate(op, v, w) = v % w
    BY <1>2, <1>7 DEF Calculate
  <2>2. v % w \in Int /\ 0 <= v % w /\ v % w < w
    BY <1>1, <2>1
  <2> QED BY <1>1, <1>3, <1>4, <2>1, <2>2
<1>8. CASE op = "floordiv"
  <2>1. w > 0 /\ Calculate(op, v, w) = v \div w
    BY <1>2, <1>8 DEF Calculate
  <2> DEFINE q == v \div w
  <2>2. q \in Int /\ w * q <= v /\ v < w * q + w
    BY <1>1, <2>1, QuotientBounds
  <2>3. -Bound <= q /\ q <= Bound
    <3> HIDE DEF q
    <3>1. ASSUME q > Bound PROVE FALSE
      <4>1. 1 * q <= w * q
        BY <1>1, <2>1, <2>2, <3>1, TimesMonotone
      <4> QED BY <1>1, <2>2, <3>1, <4>1
    <3>2. ASSUME q + 1 <= -Bound PROVE FALSE
      <4>1. w * (q + 1) <= 1 * (q + 1)
        BY <1>1, <2>1, <2>2, <3>2, TimesMonotone
      <4>2. w * (q + 1) = w * q + w /\ w * q \in Int
        BY <1>1, <2>2
      <4> QED BY <1>1, <2>2, <3>2, <4>1, <4>2
    <3> QED BY <1>1, <2>2, <3>1, <3>2
  <2> QED BY <1>1, <1>3, <1>4, <2>1, <2>2, <2>3
<1> QED BY <1>2, <1>5, <1>6, <1>7, <1>8 DEF Operators

\* An untagged instruction: its operands are small, and so is what it computes.
LEMMA RawExprSound ==
  ASSUME DataInv, InStmt, <<at.b, at.i>> \in raw[at.f].exprs
  PROVE  /\ ~DividesByZero(store, Arithmetic)
         /\ Small(Outcome(store, Arithmetic).n)
         /\ Small(ValueOf(store, Arithmetic.l).n) /\ Small(ValueOf(store, Arithmetic.r).n)
<1> DEFINE s == <<at.b, at.i>>
           f == at.f
           e == Arithmetic
<1>1. stage = "run" /\ f # 0 /\ f \in Funcs /\ todo = {} /\ NoFlags.exprs = {} /\ program \in DOMAIN Programs
  BY RunFacts DEF NoFlags, InStmt
<1>2. PICK in : FlaggedFrom(f, in)
  BY <1>1 DEF DataInv, RawInv
<1> DEFINE ls == raw[f].locals
           env == EnvAt(f, in, at.b, at.i)
<1>3. s \in RawExprs(f, in, ls)
  BY <1>2, FlagsFields DEF FlaggedFrom
<1>4. e.k = "bin" /\ Eligible(IntervalAt(f, in, s)) /\ RawableLeaf(f, ls, e.l) /\ RawableLeaf(f, ls, e.r)
  BY <1>3, StmtFacts DEF RawExprs, Flagged
<1>5. Covers(f, in, Place) /\ in \in Ins(f)
  BY <1>1, <1>2, RunFacts DEF FlaggedFrom, SoundFor
<1>6. in[at.b] # None /\ Within(store, env, Locals(f)) /\ env \in [Locals(f) -> Interval]
  BY <1>1, <1>5, RunFacts, EnvAtType DEF Covers, Envs
<1>7. e.op \in Operators /\ IsLeaf(e.l, Locals(f)) /\ IsLeaf(e.r, Locals(f))
  BY <1>4, StmtFacts DEF IsExpr, IsLeaf
<1> DEFINE v == ValueOf(store, e.l).n
           w == ValueOf(store, e.r).n
           a == LeafInterval(env, e.l)
           b == LeafInterval(env, e.r)
<1>8. a \in Interval /\ v \in Values(a) /\ b \in Interval /\ w \in Values(b)
  <2> HIDE DEF env
  <2> QED BY <1>6, <1>7, LeafSound
<1>9. IntervalAt(f, in, s) = BinopInterval(e.op, a, b)
  <2>1. IntervalAt(f, in, s) = Eval(env, e)
    BY <1>6, StmtFacts DEF IntervalAt
  <2> HIDE DEF env
  <2> QED BY <1>4, <2>1 DEF Eval
<1>10. \A x : RawableLeaf(f, ls, x) => Small(ValueOf(store, x).n)
  BY <1>1, RunFacts DEF RawableLeaf, ValueOf, Number, Small
<1>11. (e.op \in {"mod", "floordiv"} => w > 0) /\ Calculate(e.op, v, w) \in Value
  <2>1. Small(v) /\ Small(w) /\ Eligible(BinopInterval(e.op, a, b))
    BY <1>4, <1>9, <1>10
  <2> HIDE DEF v, w, a, b, e
  <2> QED BY <1>7, <1>8, <2>1, EligibleOutcome
<1>12. ~DividesByZero(store, e)
  BY <1>11 DEF DividesByZero
<1>13. Outcome(store, e).n = Calculate(e.op, v, w)
  BY <1>4 DEF Outcome, Number
<1>14. Outcome(store, e).n \in Values(IntervalAt(f, in, s))
  <2>1. at.i <= Len(Stmts(f, at.b)) /\ ExprAt(f, s) = e
    BY <1>1, RunFacts, StmtFacts
  <2> QED BY <1>1, <1>5, <1>11, <1>13, <2>1, RunFacts, SiteSound
<1>15. IntervalAt(f, in, s) \in Interval
  BY <1>7, <1>8, <1>9, BinopType
<1>16. Small(Outcome(store, e).n)
  BY <1>4, <1>14, <1>15, EligibleSmall
<1> QED BY <1>4, <1>10, <1>12, <1>16

\* An untagged return: the returned value is small.
LEMMA RawReturnSound ==
  ASSUME DataInv, InTerm, Here.term.k = "return", raw[at.f].ret
  PROVE  Small(ValueOf(store, Here.term.e).n)
<1> DEFINE f == at.f
<1>1. stage = "run" /\ f # 0 /\ f \in Funcs /\ todo = {} /\ ~NoFlags.ret /\ program \in DOMAIN Programs
      /\ at.b \in Blocks(f) /\ Here = BlockOf(f, at.b) /\ at.i = Len(Stmts(f, at.b)) + 1
  <2>1. at.i > Len(Stmts(f, at.b))
    BY RunFacts DEF InTerm
  <2> QED BY <2>1, RunFacts DEF NoFlags, InTerm
<1>2. PICK in : FlaggedFrom(f, in)
  BY <1>1 DEF DataInv, RawInv
<1>3. \A iv \in ReturnIntervals(f, in) : Eligible(iv)
  BY <1>2, FlagsFields DEF FlaggedFrom
<1>4. Covers(f, in, Place) /\ in \in Ins(f)
  BY <1>1, <1>2, RunFacts DEF FlaggedFrom, SoundFor
<1> DEFINE env == EnvAt(f, in, at.b, at.i)
<1>5. in[at.b] # None /\ Within(store, env, Locals(f)) /\ env \in [Locals(f) -> Interval]
  BY <1>1, <1>4, RunFacts, EnvAtType DEF Covers, Envs
<1>6. env = Transfer(in[at.b], BlockOf(f, at.b).stmts)
  <2>1. Len(Stmts(f, at.b)) \in Nat
    BY <1>1, RunFacts
  <2>2. at.i - 1 = Len(BlockOf(f, at.b).stmts)
    BY <1>1, <2>1 DEF Stmts
  <2> QED BY <2>2 DEF EnvAt, Transfer
<1>7. LeafInterval(env, Here.term.e) \in ReturnIntervals(f, in)
  BY <1>1, <1>5, <1>6 DEF ReturnIntervals
<1>8. IsLeaf(Here.term.e, Locals(f))
  <2>1. IsTerm(Here.term, Locals(f), Blocks(f) \ {1})
    BY <1>1, Shape
  <2> QED BY <2>1 DEF IsTerm
<1>9. LeafInterval(env, Here.term.e) \in Interval /\ ValueOf(store, Here.term.e).n \in Values(LeafInterval(env, Here.term.e))
  <2> HIDE DEF env
  <2> QED BY <1>5, <1>8, LeafSound
<1> QED BY <1>3, <1>7, <1>9, EligibleSmall

\* Untagged slots, instructions and returns never leave the bound, and an
\* untagged division never meets zero: 64-bit arithmetic on them is Python's.
THEOREM RawIsBounded == Spec => []RawInBound
<1>1. DataInv => RawInBound
  <2> SUFFICES ASSUME DataInv, stage = "run", at.f # 0
               PROVE  /\ \A l \in raw[at.f].locals : Small(store[l].n)
                      /\ InStmt /\ <<at.b, at.i>> \in raw[at.f].exprs =>
                           /\ ~DividesByZero(store, Arithmetic)
                           /\ Small(Outcome(store, Arithmetic).n)
                           /\ Small(ValueOf(store, Arithmetic.l).n) /\ Small(ValueOf(store, Arithmetic.r).n)
                      /\ InTerm /\ Here.term.k = "return" /\ raw[at.f].ret => Small(ValueOf(store, Here.term.e).n)
    BY DEF RawInBound
  <2> QED BY RunFacts, RawExprSound, RawReturnSound
<1>2. Init => DataInv
  BY InitData
<1>3. CacheInv /\ MovesInv /\ DataInv /\ [Next]_vars => DataInv'
  BY NextData
<1> QED BY <1>1, <1>2, <1>3, InitInv, NextInv, PTL DEF Spec
=============================================================================
