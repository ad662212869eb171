--------------------------- MODULE ContainersProofs --------------------------
(* Theorems of the runtime's heap and of the hash containers in it, for     *)
(* every heap, object graph, hash function, table size and sequence of      *)
(* calls:                                                                   *)
(*   1. the table and the entries of a dict agree, a lookup finds exactly   *)
(*      what is there, each call changes the key it names, an iteration is  *)
(*      in order, and the dict is Python's;                                 *)
(*   2. the collector reclaims what it should, and its accounts are exact;  *)
(*   3. the table of a set is sound, its counters are right and an empty    *)
(*      slot is left;                                                       *)
(*   4. what follows of the behaviours of MCContainers.                     *)
EXTENDS MCContainers, SeqLemmas, FiniteSetTheorems, TLAPS

(* 1. Dict.  First come powers of 2, for a probe to visit every slot; then   *)
(* the live entries of an array and their ranks; then what each operation   *)
(* keeps of a sound table; then the invariant of the program.               *)

LEMMA DividesDef ==
  ASSUME NEW d \in Nat \ {0}, NEW p \in Nat
  PROVE  Divides(d, p) <=> \E k \in Nat : d * k = p
<1>1. ASSUME NEW k \in Nat, d * k = p PROVE k \in 0..p
  <2>1. d * k = (d - 1) * k + k /\ (d - 1) * k >= 0
    OBVIOUS
  <2> QED BY <1>1, <2>1
<1>2. \A k \in 0..p : k \in Nat
  OBVIOUS
<1> QED BY <1>1, <1>2, Zenon DEF Divides

LEMMA OddLemma ==
  ASSUME NEW d \in Nat \ {0}, ~Divides(2, d)
  PROVE  \E m \in Nat : d = 2 * m + 1
<1>1. \A k \in Nat : 2 * k # d
  BY DividesDef
<1>2. d = 2 * (d \div 2) + (d % 2) /\ d % 2 \in 0..1 /\ d \div 2 \in Nat
  OBVIOUS
<1>3. d % 2 = 1
  BY <1>1, <1>2
<1> QED BY <1>2, <1>3

LEMMA DoubledIsPower ==
  ASSUME NEW p \in Nat \ {0}, PowerOf2(p)
  PROVE  PowerOf2(2 * p)
<1> SUFFICES ASSUME NEW d \in 2..2 * p, Divides(d, 2 * p), ~Divides(2, d)
             PROVE  FALSE
  BY DEF PowerOf2
<1>1. d \in Nat \ {0} /\ d \in Nat
  OBVIOUS
<1>2. PICK k \in Nat : d * k = 2 * p
  BY <1>1, DividesDef
<1>3. PICK m \in Nat : d = 2 * m + 1
  BY <1>1, OddLemma
<1>4. k = 2 * (p - m * k)
  <2>1. (2 * m + 1) * k = 2 * (m * k) + k
    OBVIOUS
  <2> QED BY <1>2, <1>3, <2>1
<1> DEFINE j == p - m * k
<1>5. j \in Nat
  BY <1>4
<1>6. d * j = p
  <2>1. d * (2 * j) = 2 * (d * j)
    BY <1>5
  <2> HIDE DEF j
  <2>2. d * k = d * (2 * j)
    BY <1>4 DEF j
  <2> QED BY <1>2, <1>5, <2>1, <2>2
<1>7. d <= p
  <2> HIDE DEF j
  <2>1. j # 0
    BY <1>6
  <2>2. d * j = d * (j - 1) + d
    BY <1>5, <2>1
  <2>3. d * (j - 1) >= 0 /\ d * (j - 1) \in Int
    BY <1>5, <2>1
  <2> QED BY <1>6, <2>2, <2>3
<1>8. Divides(d, p)
  BY <1>1, <1>5, <1>6, DividesDef
<1> QED BY <1>7, <1>8 DEF PowerOf2

LEMMA HalvedIsPower ==
  ASSUME NEW q \in Nat \ {0}, PowerOf2(2 * q)
  PROVE  PowerOf2(q)
<1> SUFFICES ASSUME NEW d \in 2..q, Divides(d, q) PROVE Divides(2, d)
  BY DEF PowerOf2
<1>1. PICK k \in Nat : d * k = q
  BY DividesDef
<1>2. d * (2 * k) = 2 * q
  <2>1. d * (2 * k) = 2 * (d * k)
    OBVIOUS
  <2> QED BY <1>1, <2>1
<1>3. Divides(d, 2 * q)
  <2>1. d \in Nat \ {0} /\ 2 * q \in Nat /\ 2 * k \in Nat
    OBVIOUS
  <2> QED BY <1>2, <2>1, DividesDef, Zenon
<1> QED BY <1>3 DEF PowerOf2

(* A power of 2 is even or 1.                                               *)
LEMMA PowerIsEven ==
  ASSUME NEW p \in Nat \ {0}, PowerOf2(p), p # 1
  PROVE  \E q \in Nat \ {0} : p = 2 * q
<1>1. p * 1 = p /\ p \in 2..p
  OBVIOUS
<1>2. Divides(p, p)
  BY <1>1, DividesDef
<1>3. Divides(2, p)
  BY <1>1, <1>2 DEF PowerOf2
<1> QED BY <1>3, DividesDef

(* What an odd factor does not divide.                                      *)
LEMMA OddFactor ==
  ASSUME NEW p \in Nat \ {0}, PowerOf2(p),
         NEW a \in Nat, NEW m \in Nat, Divides(p, a * (2 * m + 1))
  PROVE  Divides(p, a)
<1> DEFINE b == 2 * m + 1
           T == {x \in Nat \ {0} : PowerOf2(x) /\ \E y \in Nat :
                    Divides(x, y * b) /\ ~Divides(x, y)}
<1>0. b \in Nat
  OBVIOUS
<1> SUFFICES ASSUME T # {} PROVE FALSE
  <2>1. p \notin T => Divides(p, a)
    OBVIOUS
  <2> QED BY <2>1
<1>1. PICK x \in T : \A z \in T : x <= z
  BY NatMin
<1>2. PICK y \in Nat : Divides(x, y * b) /\ ~Divides(x, y)
  OBVIOUS
<1>3. x # 1
  <2>1. 1 * y = y
    OBVIOUS
  <2> QED BY <1>2, <2>1, DividesDef
<1>4. PICK q \in Nat \ {0} : x = 2 * q
  BY <1>3, PowerIsEven
<1>5. PowerOf2(q)
  BY <1>4, HalvedIsPower
<1>6. PICK k \in Nat : (2 * q) * k = y * b
  <2>1. y * b \in Nat
    BY <1>0
  <2> HIDE DEF b
  <2> QED BY <1>2, <1>4, <2>1, DividesDef
<1>7. y = 2 * (q * k - y * m)
  <2>1. y * b = 2 * (y * m) + y
    OBVIOUS
  <2>2. (2 * q) * k = 2 * (q * k)
    OBVIOUS
  <2>3. q * k \in Nat /\ y * m \in Nat
    OBVIOUS
  <2> QED BY <1>6, <2>1, <2>2, <2>3
<1> DEFINE h == q * k - y * m
<1>8. h \in Nat
  <2>1. q * k - y * m \in Int
    OBVIOUS
  <2> QED BY <1>7, <2>1
<1>9. q * k = h * b
  <2> HIDE DEF h, b
  <2>1. y = 2 * h
    BY <1>7 DEF h
  <2>2. (2 * h) * b = 2 * (h * b) /\ (2 * q) * k = 2 * (q * k)
    BY <1>0, <1>8
  <2>3. q * k \in Nat /\ h * b \in Nat
    BY <1>0, <1>8
  <2> QED BY <1>6, <2>1, <2>2, <2>3
<1>10. Divides(q, h * b)
  <2> HIDE DEF h, b
  <2>1. h * b \in Nat
    BY <1>0, <1>8
  <2> QED BY <1>9, <2>1, DividesDef
<1>11. Divides(q, h)
  <2> HIDE DEF h, b
  <2>1. q < x
    BY <1>4
  <2>2. q \notin T
    BY <1>1, <2>1
  <2> QED BY <1>5, <1>8, <1>10, <2>2
<1>12. Divides(x, y)
  <2> HIDE DEF h, b
  <2>1. PICK g \in Nat : q * g = h
    BY <1>8, <1>11, DividesDef
  <2>2. (2 * q) * g = 2 * (q * g)
    OBVIOUS
  <2>3. x * g = y
    BY <1>4, <1>7, <2>1, <2>2 DEF h
  <2> QED BY <2>3, DividesDef
<1> QED BY <1>2, <1>12

-----------------------------------------------------------------------------
LEMMA NextPower ==
  ASSUME NEW n \in Nat \ {0}
  PROVE  /\ NextPowerOf2(n) \in Nat \ {0} /\ NextPowerOf2(n) >= n
         /\ PowerOf2(NextPowerOf2(n))
<1> DEFINE P(m) == {p \in m..2 * m : PowerOf2(p)}
           T == {m \in Nat \ {0} : P(m) = {}}
<1>1. T = {}
  <2> SUFFICES ASSUME T # {} PROVE FALSE
    OBVIOUS
  <2>1. PICK m \in T : \A z \in T : m <= z
    BY NatMin
  <2>2. m # 1
    <3>1. PowerOf2(1)
      BY DEF PowerOf2
    <3> QED BY <3>1
  <2>3. m - 1 \in Nat \ {0} /\ m - 1 \notin T
    BY <2>1, <2>2
  <2>4. PICK p \in (m - 1)..(2 * (m - 1)) : PowerOf2(p)
    BY <2>3
  <2>5. PowerOf2(2 * p)
    BY <2>3, <2>4, DoubledIsPower
  <2>6. p \in P(m) \/ 2 * p \in P(m)
    BY <2>3, <2>4, <2>5
  <2> QED BY <2>6
<1>2. PICK p \in P(n) : \A y \in P(n) : p <= y
  <2>1. P(n) # {} /\ P(n) \subseteq Nat
    BY <1>1
  <2> HIDE DEF P
  <2> QED BY <2>1, NatMin
<1>3. NextPowerOf2(n) \in P(n)
  BY <1>2 DEF NextPowerOf2, Min
<1> QED BY <1>3

(* i * (i + 1) is even.                                                     *)
LEMMA TriangleDef ==
  ASSUME NEW i \in Nat
  PROVE  Triangle(i) \in Nat /\ 2 * Triangle(i) = i * (i + 1)
<1>1. i = 2 * (i \div 2) + (i % 2) /\ i % 2 \in 0..1 /\ i \div 2 \in Nat
  OBVIOUS
<1> DEFINE h == i \div 2
<1>2. \E t \in Nat : i * (i + 1) = 2 * t
  <2> HIDE DEF h
  <2>1. CASE i % 2 = 0
    <3>1. i = 2 * h /\ h \in Nat
      BY <1>1, <2>1 DEF h
    <3>2. (2 * h) * (i + 1) = 2 * (h * (i + 1)) /\ h * (i + 1) \in Nat
      BY <3>1
    <3> QED BY <3>1, <3>2
  <2>2. CASE i % 2 = 1
    <3>1. i + 1 = 2 * (h + 1) /\ h \in Nat
      BY <1>1, <2>2 DEF h
    <3>2. i * (2 * (h + 1)) = 2 * (i * (h + 1)) /\ i * (h + 1) \in Nat
      BY <3>1
    <3> QED BY <3>1, <3>2
  <2> QED BY <1>1, <2>1, <2>2
<1>3. PICK t \in Nat : i * (i + 1) = 2 * t
  BY <1>2
<1>4. (2 * t) \div 2 = t
  OBVIOUS
<1> QED BY <1>3, <1>4 DEF Triangle

(* Equal remainders differ by a multiple.                                   *)
LEMMA SameRemainder ==
  ASSUME NEW c \in Nat \ {0}, NEW x \in Nat, NEW y \in Nat, x <= y, x % c = y % c
  PROVE  Divides(c, y - x)
<1>1. PICK a \in Nat : x = c * a + (x % c)
  <2>1. x \div c \in Nat /\ x = c * (x \div c) + (x % c)
    OBVIOUS
  <2> QED BY <2>1
<1>2. PICK b \in Nat : y = c * b + (y % c)
  <2>1. y \div c \in Nat /\ y = c * (y \div c) + (y % c)
    OBVIOUS
  <2> QED BY <2>1
<1>3. y - x = c * b - c * a
  BY <1>1, <1>2
<1>4. c * b - c * a = c * (b - a) /\ b - a \in Int
  OBVIOUS
<1>5. b - a \in Nat
  <2> SUFFICES ASSUME b < a PROVE FALSE
    OBVIOUS
  <2>1. c * (b - a) < 0
    OBVIOUS
  <2> QED BY <1>3, <1>4, <2>1
<1>6. y - x \in Nat
  OBVIOUS
<1> QED BY <1>3, <1>4, <1>5, <1>6, DividesDef

LEMMA TooSmall ==
  ASSUME NEW d \in Nat \ {0}, NEW p \in Nat \ {0}, p < d
  PROVE  ~Divides(d, p)
<1> SUFFICES ASSUME NEW k \in Nat, d * k = p PROVE FALSE
  BY DividesDef
<1>1. k # 0
  OBVIOUS
<1>2. d * k = d * (k - 1) + d /\ d * (k - 1) >= 0
  BY <1>1
<1> QED BY <1>2

(* Two probes of a key short of the capacity never meet.                    *)
LEMMA ProbesDistinct ==
  ASSUME NEW c \in Nat \ {0}, PowerOf2(c), NEW h \in Nat,
         NEW i \in 0..c - 1, NEW j \in 0..c - 1, i < j
  PROVE  Probe(h, i, c) # Probe(h, j, c)
<1> SUFFICES ASSUME Probe(h, i, c) = Probe(h, j, c) PROVE FALSE
  OBVIOUS
<1>1. /\ Triangle(i) \in Nat /\ 2 * Triangle(i) = i * (i + 1)
      /\ Triangle(j) \in Nat /\ 2 * Triangle(j) = j * (j + 1)
  BY TriangleDef
<1> DEFINE a == j - i
           b == j + i + 1
<1>2. j * (j + 1) - i * (i + 1) = a * b
  OBVIOUS
<1>3. a \in Nat \ {0} /\ b \in Nat \ {0} /\ a < c /\ b < 2 * c
      /\ j * (j + 1) \in Nat /\ i * (i + 1) \in Nat
  OBVIOUS
<1>4. a * b > 0 /\ a * b \in Nat
  <2> HIDE DEF a, b
  <2> QED BY <1>3
<1>5. Triangle(j) - Triangle(i) \in Nat /\ 2 * (Triangle(j) - Triangle(i)) = a * b
  <2> HIDE DEF a, b
  <2> QED BY <1>1, <1>2, <1>3, <1>4
<1>6. Divides(c, Triangle(j) - Triangle(i))
  <2>1. (h + Triangle(j)) - (h + Triangle(i)) = Triangle(j) - Triangle(i)
        /\ h + Triangle(i) <= h + Triangle(j)
        /\ h + Triangle(i) \in Nat /\ h + Triangle(j) \in Nat
    BY <1>1, <1>5
  <2>2. Divides(c, (h + Triangle(j)) - (h + Triangle(i)))
    BY <2>1, SameRemainder DEF Probe
  <2> QED BY <2>1, <2>2
<1>7. Divides(2 * c, a * b)
  <2> HIDE DEF a, b
  <2>1. PICK k \in Nat : c * k = Triangle(j) - Triangle(i)
    BY <1>5, <1>6, DividesDef
  <2>2. (2 * c) * k = 2 * (c * k)
    OBVIOUS
  <2>3. (2 * c) * k = a * b
    BY <1>5, <2>1, <2>2
  <2> QED BY <1>4, <2>3, DividesDef
<1>8. PowerOf2(2 * c) /\ 2 * c \in Nat \ {0}
  BY DoubledIsPower
<1>9. Divides(2 * c, a) \/ Divides(2 * c, b)
  <2>1. PICK m \in Nat : a = 2 * m + 1 \/ b = 2 * m + 1
    <3>1. \E m \in Nat : a = 2 * m + 1 \/ a = 2 * m
      <4>1. a = 2 * (a \div 2) + (a % 2) /\ a % 2 \in 0..1 /\ a \div 2 \in Nat
        BY <1>3
      <4> HIDE DEF a
      <4> QED BY <1>3, <4>1
    <3>2. b = a + 2 * i + 1
      OBVIOUS
    <3>3. PICK m \in Nat : a = 2 * m + 1 \/ a = 2 * m
      BY <3>1
    <3>4. CASE a = 2 * m
      <4>1. b = 2 * (m + i) + 1 /\ m + i \in Nat
        BY <3>2, <3>4
      <4> HIDE DEF a, b
      <4> QED BY <4>1
    <3> HIDE DEF a, b
    <3> QED BY <3>3, <3>4
  <2> HIDE DEF a, b
  <2>2. a * b = b * a
    BY <1>3
  <2>3. CASE b = 2 * m + 1
    BY <1>3, <1>7, <1>8, <2>3, OddFactor
  <2>4. CASE a = 2 * m + 1
    BY <1>3, <1>7, <1>8, <2>2, <2>4, OddFactor
  <2> QED BY <2>1, <2>3, <2>4
<1> HIDE DEF a, b
<1>10. a < 2 * c
  BY <1>3
<1> QED BY <1>3, <1>8, <1>9, <1>10, TooSmall

(* So the probes of a key visit every slot.                                 *)
LEMMA ProbesVisitAll ==
  ASSUME NEW c \in Nat \ {0}, PowerOf2(c), NEW h \in Nat, NEW slot \in 0..c - 1
  PROVE  \E i \in 0..c - 1 : Probe(h, i, c) = slot
<1> DEFINE N == 0..c - 1
           f == [i \in N |-> Probe(h, i, c)]
<1>1. f \in [N -> N]
  <2> SUFFICES ASSUME NEW i \in N PROVE Probe(h, i, c) \in N
    OBVIOUS
  <2>1. h + Triangle(i) \in Nat
    BY TriangleDef
  <2> QED BY <2>1 DEF Probe
<1>2. f \in Injection(N, N)
  <2>1. \A i, j \in N : i # j => f[i] # f[j]
    <3> SUFFICES ASSUME NEW i \in N, NEW j \in N, i # j
                 PROVE  Probe(h, i, c) # Probe(h, j, c)
      OBVIOUS
    <3>1. i < j \/ j < i
      OBVIOUS
    <3> QED BY <3>1, ProbesDistinct
  <2> HIDE DEF f, N
  <2> QED BY <1>1, <2>1 DEF Injection, IsInjective
<1>3. IsFiniteSet(N)
  BY FS_Interval
<1>4. f \in Surjection(N, N)
  BY <1>2, <1>3, FS_Injection
<1>5. \E i \in N : f[i] = slot
  BY <1>4 DEF Surjection
<1> QED BY <1>5
LEMMA IntervalLemma ==
  ASSUME NEW c \in Nat
  PROVE  IsFiniteSet(0..c - 1) /\ Cardinality(0..c - 1) = c
BY FS_Interval
-----------------------------------------------------------------------------

Entry == [key : Keys \cup {NoKey}, value : Values \cup {NoKey}]
LiveEntry == {e \in Entry : Live(e)}
KeptStep(es, i, f) == IF i = 0 THEN <<>>
                      ELSE IF Live(es[i]) THEN Append(f[i - 1], es[i]) ELSE f[i - 1]
Kept(es, n, f) == f = [i \in 0..n |-> KeptStep(es, i, f)]

LEMMA KeptOne ==
  ASSUME NEW es, NEW m \in Nat, NEW g, Kept(es, m, g),
         NEW x, x = (IF Live(es[m + 1]) THEN Append(g[m], es[m + 1]) ELSE g[m]),
         NEW h, h = [i \in 0..m + 1 |-> IF i = m + 1 THEN x ELSE g[i]]
  PROVE  Kept(es, m + 1, h) /\ h[m + 1] = x /\ \A i \in 0..m : h[i] = g[i]
<1>1. h[m + 1] = x /\ \A i \in 0..m : h[i] = g[i]
  OBVIOUS
<1>2. m \in 0..m /\ \A i \in 0..m + 1 : i = m + 1 \/ i \in 0..m
  OBVIOUS
<1>3. KeptStep(es, m + 1, h) = x
  BY <1>1, <1>2 DEF KeptStep
<1>4. \A i \in 0..m : KeptStep(es, i, h) = g[i]
  <2> SUFFICES ASSUME NEW i \in 0..m PROVE KeptStep(es, i, h) = g[i]
    OBVIOUS
  <2>1. g[i] = KeptStep(es, i, g)
    BY DEF Kept
  <2>2. i = 0 \/ (i - 1 \in 0..m /\ h[i - 1] = g[i - 1])
    BY <1>1
  <2> QED BY <2>1, <2>2 DEF KeptStep
<1>5. \A i \in 0..m + 1 : KeptStep(es, i, h) = IF i = m + 1 THEN x ELSE g[i]
  BY <1>2, <1>3, <1>4
<1>6. h = [i \in 0..m + 1 |-> KeptStep(es, i, h)]
  BY <1>5
<1> QED BY <1>1, <1>6 DEF Kept

LEMMA KeptExists ==
  ASSUME NEW es, NEW n \in Nat
  PROVE  \E f : Kept(es, n, f)
<1> DEFINE G == {m \in Nat : \E g : Kept(es, m, g)}
<1>1. 0 \in G
  <2> DEFINE g == [i \in 0..0 |-> <<>>]
  <2>1. Kept(es, 0, g)
    BY DEF Kept, KeptStep
  <2> HIDE DEF g
  <2> QED BY <2>1
<1>2. \A m \in 0..n - 1 : m \in G => m + 1 \in G
  <2> SUFFICES ASSUME NEW m \in 0..n - 1, NEW g, Kept(es, m, g)
               PROVE  \E h : Kept(es, m + 1, h)
    OBVIOUS
  <2> DEFINE x == IF Live(es[m + 1]) THEN Append(g[m], es[m + 1]) ELSE g[m]
             h == [i \in 0..m + 1 |-> IF i = m + 1 THEN x ELSE g[i]]
  <2>1. m \in Nat
    OBVIOUS
  <2>2. Kept(es, m + 1, h)
    BY <2>1, KeptOne
  <2> HIDE DEF h
  <2> QED BY <2>2
<1>3. 0..n \subseteq G
  <2> HIDE DEF G
  <2> QED BY <1>1, <1>2, UpTo
<1>4. n \in 0..n
  OBVIOUS
<1> QED BY <1>3, <1>4

(* Two such functions agree as far as their sequences do.                   *)
LEMMA KeptAgree ==
  ASSUME NEW es, NEW fs, NEW k \in Nat, NEW n \in Nat, k <= n,
         NEW f, Kept(es, k, f), NEW g, Kept(fs, n, g),
         \A i \in 1..k : es[i] = fs[i]
  PROVE  \A i \in 0..k : f[i] = g[i]
<1> DEFINE G == {i \in Nat : i <= k => f[i] = g[i]}
<1>1. 0 \in G
  BY DEF Kept, KeptStep
<1>2. ASSUME NEW i \in 0..k - 1, i \in G PROVE i + 1 \in G
  <2>1. i + 1 \in 0..k /\ i + 1 \in 0..n /\ es[i + 1] = fs[i + 1] /\ f[i] = g[i]
    BY <1>2
  <2>2. f[i + 1] = KeptStep(es, i + 1, f) /\ g[i + 1] = KeptStep(fs, i + 1, g)
    BY <2>1 DEF Kept
  <2> QED BY <2>1, <2>2 DEF KeptStep
<1>3. 0..k \subseteq G
  <2> HIDE DEF G
  <2> QED BY <1>1, <1>2, UpTo
<1> QED BY <1>3

LEMMA LivingIs ==
  ASSUME NEW es, Len(es) \in Nat, NEW f, Kept(es, Len(es), f)
  PROVE  Living(es) = f[Len(es)]
<1> DEFINE g == CHOOSE h : h = [i \in 0..Len(es) |-> KeptStep(es, i, h)]
<1>1. g = [i \in 0..Len(es) |-> KeptStep(es, i, g)]
  BY DEF Kept
<1>2. Kept(es, Len(es), g)
  <2> HIDE DEF g
  <2> QED BY <1>1 DEF Kept
<1>3. Living(es) = g[Len(es)]
  BY DEF Living, KeptStep
<1> HIDE DEF g
<1>4. \A i \in 0..Len(es) : f[i] = g[i]
  BY <1>2, KeptAgree
<1> QED BY <1>3, <1>4

LEMMA LivingEmpty == Living(<<>>) = <<>>
<1>1. Len(<<>>) = 0
  BY EmptySeq
<1>2. PICK f : Kept(<<>>, 0, f)
  BY KeptExists
<1>3. f[0] = <<>>
  BY <1>2 DEF Kept, KeptStep
<1> QED BY <1>1, <1>2, <1>3, LivingIs

LEMMA LivingAppend ==
  ASSUME NEW es \in Seq(Entry), NEW e \in Entry
  PROVE  Living(Append(es, e)) = IF Live(e) THEN Append(Living(es), e) ELSE Living(es)
<1> DEFINE n == Len(es)
           fs == Append(es, e)
<1>1. /\ n \in Nat /\ Len(fs) = n + 1 /\ fs[n + 1] = e
      /\ \A i \in 1..n : fs[i] = es[i]
  BY LenProperties, AppendProperties
<1>2. PICK f : Kept(es, n, f)
  BY <1>1, KeptExists
<1> HIDE DEF fs
<1>3. PICK g : Kept(fs, n + 1, g)
  <2>1. n + 1 \in Nat
    BY <1>1
  <2> HIDE DEF n
  <2> QED BY <2>1, KeptExists
<1>4. Living(es) = f[n] /\ Living(fs) = g[n + 1]
  <2>1. n + 1 \in Nat
    BY <1>1
  <2>2. Living(es) = f[n]
    BY <1>1, <1>2, LivingIs
  <2>3. Kept(fs, Len(fs), g) /\ Len(fs) \in Nat
    BY <1>1, <1>3, <2>1
  <2>4. Living(fs) = g[Len(fs)]
    BY <2>3, LivingIs
  <2> QED BY <1>1, <2>2, <2>4
<1>5. f[n] = g[n]
  <2>1. n + 1 \in Nat /\ n <= n + 1 /\ n <= n /\ n \in 0..n
    BY <1>1
  <2>2. \A i \in 1..n : es[i] = fs[i]
    BY <1>1
  <2>3. \A i \in 0..n : f[i] = g[i]
    <3> DEFINE p == n + 1
    <3>1. n \in Nat /\ p \in Nat /\ n <= p /\ n <= n
      BY <1>1
    <3>2. Kept(fs, p, g)
      BY <1>3
    <3> HIDE DEF n, p
    <3> QED BY <3>1, <3>2, <1>2, <2>2, KeptAgree
  <2> QED BY <2>1, <2>3
<1>6. g[n + 1] = KeptStep(fs, n + 1, g)
  BY <1>1, <1>3 DEF Kept
<1> QED BY <1>1, <1>4, <1>5, <1>6 DEF KeptStep, fs

(* The live entries among the first n.                                      *)
Upto(es, n) == Living(SubSeq(es, 1, n))

LEMMA UptoLemma ==
  ASSUME NEW es \in Seq(Entry)
  PROVE  /\ Upto(es, 0) = <<>>
         /\ \A n \in 1..Len(es) :
              Upto(es, n) = IF Live(es[n]) THEN Append(Upto(es, n - 1), es[n]) ELSE Upto(es, n - 1)
         /\ Upto(es, Len(es)) = Living(es)
         /\ \A n \in 0..Len(es) : SubSeq(es, 1, n) \in Seq(Entry)
<1>1. Len(es) \in Nat /\ \A i \in 1..Len(es) : es[i] \in Entry
  BY LenProperties, ElementOfSeq
<1>2. SubSeq(es, 1, 0) = <<>>
  BY SubSeqEmpty
<1>3. ASSUME NEW n \in 0..Len(es) PROVE SubSeq(es, 1, n) \in Seq(Entry)
  <2>1. \A i \in 1..n : es[i] \in Entry
    BY <1>1
  <2> QED BY <1>1, <2>1, SubSeqProperties
<1>4. ASSUME NEW n \in 1..Len(es)
      PROVE  SubSeq(es, 1, n) = Append(SubSeq(es, 1, n - 1), es[n])
  <2>1. SubSeq(es, 1, n) = SubSeq(es, 1, n - 1) \o <<es[n]>>
    <3>1. 1 \in 1..Len(es) /\ n \in 1..Len(es)
      BY <1>1
    <3> QED BY <3>1, SubSeqRecursiveSecond
  <2>2. n - 1 \in 0..Len(es)
    BY <1>1
  <2> QED BY <1>1, <1>3, <2>1, <2>2, AppendIsConcat
<1>5. SubSeq(es, 1, Len(es)) = es
  BY SubSeqFull
<1>6. ASSUME NEW n \in 1..Len(es)
      PROVE  Upto(es, n) = IF Live(es[n]) THEN Append(Upto(es, n - 1), es[n]) ELSE Upto(es, n - 1)
  <2>1. SubSeq(es, 1, n - 1) \in Seq(Entry) /\ es[n] \in Entry
    BY <1>1, <1>3
  <2> QED BY <1>4, <2>1, LivingAppend DEF Upto
<1> QED BY <1>2, <1>3, <1>5, <1>6, LivingEmpty DEF Upto

(* Induction over the entries.                                              *)
LEMMA UptoType ==
  ASSUME NEW es \in Seq(Entry), NEW n \in 0..Len(es)
  PROVE  Upto(es, n) \in Seq(LiveEntry)
<1> DEFINE G == {m \in Nat : m <= Len(es) => Upto(es, m) \in Seq(LiveEntry)}
<1>0. Len(es) \in Nat
  BY LenProperties
<1>1. 0 \in G
  BY UptoLemma, EmptySeq
<1>2. ASSUME NEW m \in 0..Len(es) - 1, m \in G PROVE m + 1 \in G
  <2>1. m + 1 \in 1..Len(es) /\ (m + 1) - 1 = m /\ m + 1 \in Nat /\ m <= Len(es)
    BY <1>0
  <2>2. Upto(es, m) \in Seq(LiveEntry)
    BY <1>2, <2>1
  <2>3. Upto(es, m + 1)
          = IF Live(es[m + 1]) THEN Append(Upto(es, m), es[m + 1]) ELSE Upto(es, m)
    BY <2>1, UptoLemma
  <2>4. Live(es[m + 1]) => es[m + 1] \in LiveEntry
    BY <2>1, ElementOfSeq DEF LiveEntry
  <2>5. Upto(es, m + 1) \in Seq(LiveEntry)
    <3>1. CASE Live(es[m + 1])
      BY <2>2, <2>3, <2>4, <3>1, AppendProperties
    <3>2. CASE ~Live(es[m + 1])
      BY <2>2, <2>3, <3>2
    <3> QED BY <3>1, <3>2
  <2> QED BY <2>1, <2>5
<1>3. 0..Len(es) \subseteq G
  <2> HIDE DEF G
  <2> QED BY <1>0, <1>1, <1>2, UpTo
<1> QED BY <1>3

RankOf(es, n) == Len(Upto(es, n))

LEMMA RankType ==
  ASSUME NEW es \in Seq(Entry), NEW n \in 0..Len(es)
  PROVE  /\ RankOf(es, n) \in Nat /\ RankOf(es, 0) = 0 /\ Upto(es, n) \in Seq(LiveEntry)
         /\ RankOf(es, Len(es)) = Len(Living(es)) /\ Living(es) \in Seq(LiveEntry)
<1>1. Upto(es, n) \in Seq(LiveEntry)
  BY UptoType
<1>2. Len(es) \in Nat /\ Len(es) \in 0..Len(es)
  BY LenProperties
<1>3. Living(es) \in Seq(LiveEntry)
  <2>1. Upto(es, Len(es)) \in Seq(LiveEntry)
    BY <1>2, UptoType
  <2> QED BY <2>1, UptoLemma
<1>4. RankOf(es, 0) = 0 /\ RankOf(es, Len(es)) = Len(Living(es))
  BY UptoLemma, EmptySeq DEF RankOf
<1> QED BY <1>1, <1>3, <1>4, LenProperties DEF RankOf

LEMMA RankStep ==
  ASSUME NEW es \in Seq(Entry), NEW n \in 1..Len(es)
  PROVE  /\ Live(es[n]) => /\ RankOf(es, n) = RankOf(es, n - 1) + 1
                           /\ Upto(es, n)[RankOf(es, n)] = es[n]
         /\ ~Live(es[n]) => RankOf(es, n) = RankOf(es, n - 1)
         /\ \A i \in 1..RankOf(es, n - 1) : Upto(es, n)[i] = Upto(es, n - 1)[i]
<1>1. Upto(es, n - 1) \in Seq(LiveEntry)
  <2>1. n - 1 \in 0..Len(es)
    BY LenProperties
  <2> QED BY <2>1, UptoType
<1>2. Live(es[n]) => es[n] \in LiveEntry
  BY ElementOfSeq DEF LiveEntry
<1>3. Upto(es, n) = IF Live(es[n]) THEN Append(Upto(es, n - 1), es[n]) ELSE Upto(es, n - 1)
  BY UptoLemma
<1>4. CASE Live(es[n])
  <2> DEFINE u == Upto(es, n - 1)
             x == es[n]
  <2>1. u \in Seq(LiveEntry) /\ x \in LiveEntry /\ Upto(es, n) = Append(u, x)
    BY <1>1, <1>2, <1>3, <1>4
  <2> HIDE DEF u, x
  <2>2. /\ Len(Append(u, x)) = Len(u) + 1 /\ Append(u, x)[Len(u) + 1] = x
        /\ \A i \in 1..Len(u) : Append(u, x)[i] = u[i]
    BY <2>1, AppendProperties
  <2> QED BY <1>4, <2>1, <2>2 DEF RankOf, u, x
<1>5. CASE ~Live(es[n])
  BY <1>3, <1>5 DEF RankOf
<1> QED BY <1>4, <1>5

(* The live entries of a prefix are a prefix of the live entries.           *)
LEMMA Prefix ==
  ASSUME NEW es \in Seq(Entry), NEW m \in 0..Len(es), NEW n \in m..Len(es)
  PROVE  RankOf(es, m) <= RankOf(es, n) /\ \A i \in 1..RankOf(es, m) : Upto(es, n)[i] = Upto(es, m)[i]
<1> DEFINE G == {j \in Nat : m + j <= Len(es) =>
                   /\ RankOf(es, m) <= RankOf(es, m + j)
                   /\ \A i \in 1..RankOf(es, m) : Upto(es, m + j)[i] = Upto(es, m)[i]}
<1>1. Len(es) \in Nat /\ RankOf(es, m) \in Nat /\ n - m \in Nat
  BY RankType, LenProperties
<1>2. 0 \in G
  BY <1>1
<1>3. ASSUME NEW j \in 0..(n - m) - 1, j \in G PROVE j + 1 \in G
  <2>1. j + 1 \in Nat /\ m + (j + 1) \in 1..Len(es) /\ (m + (j + 1)) - 1 = m + j
        /\ m + j \in 0..Len(es) /\ m + (j + 1) \in 0..Len(es)
    BY <1>1
  <2>2. /\ RankOf(es, m) <= RankOf(es, m + j)
        /\ \A i \in 1..RankOf(es, m) : Upto(es, m + j)[i] = Upto(es, m)[i]
    BY <1>3, <2>1
  <2>3. RankOf(es, m + j) \in Nat
    BY <2>1, RankType
  <2>4. /\ RankOf(es, m + (j + 1)) \in {RankOf(es, m + j), RankOf(es, m + j) + 1}
        /\ \A i \in 1..RankOf(es, m + j) : Upto(es, m + (j + 1))[i] = Upto(es, m + j)[i]
    BY <2>1, RankStep
  <2> QED BY <1>1, <2>1, <2>2, <2>3, <2>4
<1>4. 0..n - m \subseteq G
  <2> HIDE DEF G
  <2> QED BY <1>1, <1>2, <1>3, UpTo
<1>5. n - m \in G /\ m + (n - m) = n
  BY <1>1, <1>4
<1> QED BY <1>1, <1>5

(* The live entries in order: the one at position i comes R(es, i)-th.      *)
LEMMA Rank ==
  ASSUME NEW es \in Seq(Entry), NEW i \in 1..Len(es), Live(es[i])
  PROVE  /\ RankOf(es, i) \in 1..Len(Living(es)) /\ Living(es)[RankOf(es, i)] = es[i]
         /\ RankOf(es, i) = RankOf(es, i - 1) + 1
         /\ \A j \in 0..i - 1 : RankOf(es, j) < RankOf(es, i)
<1>1. Len(es) \in Nat /\ i - 1 \in 0..Len(es) /\ i \in 0..Len(es) /\ Len(es) \in i..Len(es)
  BY LenProperties
<1>2. RankOf(es, i) = RankOf(es, i - 1) + 1 /\ Upto(es, i)[RankOf(es, i)] = es[i]
  BY RankStep
<1>3. RankOf(es, i - 1) \in Nat /\ RankOf(es, i) \in Nat /\ RankOf(es, Len(es)) = Len(Living(es))
      /\ Len(Living(es)) \in Nat
  <2>1. Len(es) \in 0..Len(es)
    BY <1>1
  <2> QED BY <1>1, <2>1, RankType
<1>4. /\ RankOf(es, i) <= RankOf(es, Len(es))
      /\ \A j \in 1..RankOf(es, i) : Upto(es, Len(es))[j] = Upto(es, i)[j]
  BY <1>1, Prefix
<1>5. RankOf(es, i) \in 1..RankOf(es, i)
  BY <1>2, <1>3
<1>6. Living(es)[RankOf(es, i)] = es[i]
  BY <1>2, <1>4, <1>5, UptoLemma
<1>7. ASSUME NEW j \in 0..i - 1 PROVE RankOf(es, j) < RankOf(es, i)
  <2>1. j \in 0..Len(es) /\ i - 1 \in j..Len(es)
    BY <1>1
  <2>2. RankOf(es, j) <= RankOf(es, i - 1) /\ RankOf(es, j) \in Nat
    BY <2>1, Prefix, RankType
  <2> QED BY <1>2, <1>3, <2>2
<1> QED BY <1>2, <1>3, <1>4, <1>6, <1>7

LEMMA RankOnto ==
  ASSUME NEW es \in Seq(Entry), NEW p \in 1..Len(Living(es))
  PROVE  \E i \in 1..Len(es) : /\ Live(es[i]) /\ RankOf(es, i) = p /\ Living(es)[p] = es[i]
<1> DEFINE G == {n \in Nat : n <= Len(es) /\ p <= RankOf(es, n) =>
                   \E i \in 1..Len(es) : Live(es[i]) /\ RankOf(es, i) = p}
<1>1. Len(es) \in Nat /\ Len(es) \in 0..Len(es) /\ p \in Nat /\ p # 0
      /\ RankOf(es, 0) = 0 /\ RankOf(es, Len(es)) = Len(Living(es)) /\ p <= RankOf(es, Len(es))
  <2>1. Len(es) \in Nat /\ Len(es) \in 0..Len(es)
    BY LenProperties
  <2>2. RankOf(es, 0) = 0 /\ RankOf(es, Len(es)) = Len(Living(es)) /\ RankOf(es, Len(es)) \in Nat
    BY <2>1, RankType
  <2> QED BY <2>1, <2>2
<1>2. 0 \in G
  BY <1>1
<1>3. ASSUME NEW n \in 0..Len(es) - 1, n \in G PROVE n + 1 \in G
  <2>1. n + 1 \in Nat /\ n + 1 \in 1..Len(es) /\ (n + 1) - 1 = n
        /\ n \in 0..Len(es) /\ n + 1 \in 0..Len(es)
    BY <1>1
  <2>2. RankOf(es, n) \in Nat /\ RankOf(es, n + 1) \in Nat
    BY <2>1, RankType
  <2>3. /\ Live(es[n + 1]) => RankOf(es, n + 1) = RankOf(es, n) + 1
        /\ ~Live(es[n + 1]) => RankOf(es, n + 1) = RankOf(es, n)
    BY <2>1, RankStep
  <2> SUFFICES ASSUME p <= RankOf(es, n + 1)
               PROVE  \E i \in 1..Len(es) : Live(es[i]) /\ RankOf(es, i) = p
    BY <2>1
  <2>4. CASE p <= RankOf(es, n)
    BY <1>3, <2>1, <2>4
  <2>5. CASE ~(p <= RankOf(es, n))
    <3>1. Live(es[n + 1]) /\ RankOf(es, n + 1) = p
      BY <1>1, <2>2, <2>3, <2>5
    <3> QED BY <2>1, <3>1
  <2> QED BY <2>4, <2>5
<1>4. 0..Len(es) \subseteq G
  <2> HIDE DEF G
  <2> QED BY <1>1, <1>2, <1>3, UpTo
<1>5. PICK i \in 1..Len(es) : Live(es[i]) /\ RankOf(es, i) = p
  BY <1>1, <1>4
<1>6. Living(es)[RankOf(es, i)] = es[i]
  BY <1>5, Rank
<1> QED BY <1>5, <1>6

(* Entries that are not live do not count.                                  *)
LEMMA Skip ==
  ASSUME NEW es \in Seq(Entry), NEW m \in 0..Len(es), NEW n \in m..Len(es),
         \A i \in m + 1..n : ~Live(es[i])
  PROVE  Upto(es, n) = Upto(es, m)
<1> DEFINE G == {j \in Nat : m + j <= n => Upto(es, m + j) = Upto(es, m)}
<1>1. Len(es) \in Nat /\ n - m \in Nat /\ m \in Nat /\ n \in Nat /\ n <= Len(es)
  BY LenProperties
<1>2. 0 \in G
  BY <1>1
<1>3. ASSUME NEW j \in 0..(n - m) - 1, j \in G PROVE j + 1 \in G
  <2>1. j + 1 \in Nat /\ m + (j + 1) \in 1..Len(es) /\ (m + (j + 1)) - 1 = m + j
        /\ m + (j + 1) \in m + 1..n /\ m + j <= n
    BY <1>1
  <2>2. Upto(es, m + j) = Upto(es, m)
    BY <1>3, <2>1
  <2>3. Upto(es, m + (j + 1)) = Upto(es, m + j)
    BY <2>1, UptoLemma
  <2> QED BY <2>1, <2>2, <2>3
<1>4. 0..n - m \subseteq G
  <2> HIDE DEF G
  <2> QED BY <1>1, <1>2, <1>3, UpTo
<1>5. n - m \in G /\ m + (n - m) = n
  BY <1>1, <1>4
<1> QED BY <1>1, <1>5

LEMMA AllLive ==
  ASSUME NEW es \in Seq(Entry), \A i \in 1..Len(es) : Live(es[i])
  PROVE  Living(es) = es
<1> DEFINE G == {n \in Nat : n <= Len(es) => RankOf(es, n) = n}
<1>1. Len(es) \in Nat /\ Len(es) \in 0..Len(es)
  BY LenProperties
<1>2. 0 \in G
  BY <1>1, RankType
<1>3. ASSUME NEW n \in 0..Len(es) - 1, n \in G PROVE n + 1 \in G
  <2>1. n + 1 \in Nat /\ n + 1 \in 1..Len(es) /\ (n + 1) - 1 = n /\ n <= Len(es)
    BY <1>1
  <2>2. RankOf(es, n) = n /\ RankOf(es, n + 1) = RankOf(es, n) + 1
    BY <1>3, <2>1, RankStep
  <2> QED BY <2>1, <2>2
<1>4. 0..Len(es) \subseteq G
  <2> HIDE DEF G
  <2> QED BY <1>1, <1>2, <1>3, UpTo
<1>5. \A n \in 0..Len(es) : RankOf(es, n) = n
  BY <1>1, <1>4
<1>6. Len(Living(es)) = Len(es) /\ Living(es) \in Seq(Entry)
  <2>1. Living(es) \in Seq(LiveEntry) /\ RankOf(es, Len(es)) = Len(Living(es))
    BY <1>1, RankType
  <2>2. LiveEntry \subseteq Entry
    BY DEF LiveEntry
  <2> QED BY <1>1, <1>5, <2>1, <2>2, SeqMonotonic
<1>7. ASSUME NEW i \in 1..Len(es) PROVE Living(es)[i] = es[i]
  <2>1. RankOf(es, i) = i /\ Living(es)[RankOf(es, i)] = es[i]
    BY <1>1, <1>5, Rank
  <2> QED BY <2>1
<1> QED BY <1>6, <1>7, SeqEqual

(* The same entries are live: they have the same ranks.                     *)
LEMMA SameRanks ==
  ASSUME NEW es \in Seq(Entry), NEW fs \in Seq(Entry), Len(fs) = Len(es),
         \A i \in 1..Len(es) : Live(fs[i]) <=> Live(es[i])
  PROVE  \A n \in 0..Len(es) : RankOf(fs, n) = RankOf(es, n)
<1> DEFINE G == {n \in Nat : n <= Len(es) => RankOf(fs, n) = RankOf(es, n)}
<1>1. Len(es) \in Nat
  BY LenProperties
<1>2. 0 \in G
  BY <1>1, RankType
<1>3. ASSUME NEW n \in 0..Len(es) - 1, n \in G PROVE n + 1 \in G
  <2>1. n + 1 \in Nat /\ n + 1 \in 1..Len(es) /\ (n + 1) - 1 = n /\ n <= Len(es)
        /\ n + 1 \in 1..Len(fs)
    BY <1>1
  <2>2. RankOf(fs, n) = RankOf(es, n) /\ (Live(fs[n + 1]) <=> Live(es[n + 1]))
    BY <1>3, <2>1
  <2>3. RankOf(es, n + 1) = IF Live(es[n + 1]) THEN RankOf(es, n) + 1 ELSE RankOf(es, n)
    BY <2>1, RankStep
  <2>4. RankOf(fs, n + 1) = IF Live(fs[n + 1]) THEN RankOf(fs, n) + 1 ELSE RankOf(fs, n)
    BY <2>1, RankStep
  <2> QED BY <2>1, <2>2, <2>3, <2>4
<1>4. 0..Len(es) \subseteq G
  <2> HIDE DEF G
  <2> QED BY <1>1, <1>2, <1>3, UpTo
<1> QED BY <1>4

(* One entry is deleted.                                                    *)
LEMMA DeletedRanks ==
  ASSUME NEW es \in Seq(Entry), NEW fs \in Seq(Entry), Len(fs) = Len(es),
         NEW d \in 1..Len(es), Live(es[d]), ~Live(fs[d]),
         \A i \in 1..Len(es) : i # d => fs[i] = es[i]
  PROVE  \A n \in 0..Len(es) : RankOf(fs, n) = IF n < d THEN RankOf(es, n) ELSE RankOf(es, n) - 1
<1> DEFINE G == {n \in Nat : n <= Len(es) =>
                   RankOf(fs, n) = IF n < d THEN RankOf(es, n) ELSE RankOf(es, n) - 1}
<1>1. Len(es) \in Nat
  BY LenProperties
<1>2. 0 \in G
  BY <1>1, RankType
<1>3. ASSUME NEW n \in 0..Len(es) - 1, n \in G PROVE n + 1 \in G
  <2>1. n + 1 \in Nat /\ n + 1 \in 1..Len(es) /\ (n + 1) - 1 = n /\ n <= Len(es)
        /\ n + 1 \in 1..Len(fs) /\ n \in 0..Len(es)
    BY <1>1
  <2>2. RankOf(fs, n) = IF n < d THEN RankOf(es, n) ELSE RankOf(es, n) - 1
    BY <1>3, <2>1
  <2>3. RankOf(es, n + 1) = IF Live(es[n + 1]) THEN RankOf(es, n) + 1 ELSE RankOf(es, n)
    BY <2>1, RankStep
  <2>4. RankOf(fs, n + 1) = IF Live(fs[n + 1]) THEN RankOf(fs, n) + 1 ELSE RankOf(fs, n)
    BY <2>1, RankStep
  <2>5. RankOf(es, n) \in Nat
    BY <2>1, RankType
  <2>6. CASE n + 1 = d
    BY <2>1, <2>2, <2>3, <2>4, <2>5, <2>6
  <2>7. CASE n + 1 # d
    <3>1. fs[n + 1] = es[n + 1] /\ (n + 1 < d <=> n < d)
      BY <2>1, <2>7
    <3> QED BY <2>1, <2>2, <2>3, <2>4, <2>5, <3>1
  <2> QED BY <2>6, <2>7
<1>4. 0..Len(es) \subseteq G
  <2> HIDE DEF G
  <2> QED BY <1>1, <1>2, <1>3, UpTo
<1> QED BY <1>4

LEMMA RemoveAtLemma ==
  ASSUME NEW S, NEW s \in Seq(S), NEW p \in 1..Len(s)
  PROVE  /\ RemoveAt(s, p) \in Seq(S) /\ Len(RemoveAt(s, p)) = Len(s) - 1
         /\ \A i \in 1..Len(s) - 1 : RemoveAt(s, p)[i] = IF i < p THEN s[i] ELSE s[i + 1]
<1> DEFINE u == SubSeq(s, 1, p - 1)
           w == SubSeq(s, p + 1, Len(s))
<1>1. Len(s) \in Nat /\ \A i \in 1..Len(s) : s[i] \in S
  BY LenProperties, ElementOfSeq
<1>2. /\ u \in Seq(S) /\ Len(u) = p - 1 /\ \A i \in 1..p - 1 : u[i] = s[i]
  <2>1. \A i \in 1..p - 1 : s[i] \in S
    BY <1>1
  <2>2. /\ u \in Seq(S) /\ Len(u) = IF 1 <= p - 1 THEN (p - 1) - 1 + 1 ELSE 0
        /\ \A i \in 1..(p - 1) - 1 + 1 : u[i] = s[1 + i - 1]
    BY <1>1, <2>1, SubSeqProperties
  <2> QED BY <1>1, <2>2
<1>3. /\ w \in Seq(S) /\ Len(w) = Len(s) - p
      /\ \A i \in 1..Len(s) - p : w[i] = s[p + i]
  <2>1. \A i \in p + 1..Len(s) : s[i] \in S
    BY <1>1
  <2>2. /\ w \in Seq(S) /\ Len(w) = IF p + 1 <= Len(s) THEN Len(s) - (p + 1) + 1 ELSE 0
        /\ \A i \in 1..Len(s) - (p + 1) + 1 : w[i] = s[(p + 1) + i - 1]
    BY <1>1, <2>1, SubSeqProperties
  <2>3. \A i \in 1..Len(s) - p : (p + 1) + i - 1 = p + i
    BY <1>1
  <2>4. Len(s) - (p + 1) + 1 = Len(s) - p
    BY <1>1
  <2>5. Len(w) = Len(s) - p
    BY <1>1, <2>2
  <2>6. ASSUME NEW i \in 1..Len(s) - p PROVE w[i] = s[p + i]
    <3>1. w[i] = s[(p + 1) + i - 1]
      <4> HIDE DEF w
      <4> QED BY <2>2, <2>4
    <3> QED BY <2>3, <3>1
  <2> QED BY <2>2, <2>5, <2>6
<1>4. RemoveAt(s, p) = u \o w
  BY DEF RemoveAt
<1> HIDE DEF u, w
<1>5. /\ u \o w \in Seq(S) /\ Len(u \o w) = Len(u) + Len(w)
      /\ \A i \in 1..Len(u) + Len(w) :
           (u \o w)[i] = IF i <= Len(u) THEN u[i] ELSE w[i - Len(u)]
  BY <1>2, <1>3, ConcatProperties
<1>6. Len(u) + Len(w) = Len(s) - 1
  BY <1>1, <1>2, <1>3
<1>7. ASSUME NEW i \in 1..Len(s) - 1
      PROVE  RemoveAt(s, p)[i] = IF i < p THEN s[i] ELSE s[i + 1]
  <2>1. CASE i < p
    BY <1>1, <1>2, <1>4, <1>5, <1>6, <2>1
  <2>2. CASE ~(i < p)
    <3>1. i - Len(u) \in 1..Len(s) - p /\ ~(i <= Len(u)) /\ p + (i - Len(u)) = i + 1
      BY <1>1, <1>2, <2>2
    <3> QED BY <1>3, <1>4, <1>5, <1>6, <2>2, <3>1
  <2> QED BY <2>1, <2>2
<1> QED BY <1>4, <1>5, <1>6, <1>7

LEMMA RemoveLast ==
  ASSUME NEW S, NEW s \in Seq(S), s # <<>>
  PROVE  RemoveAt(s, Len(s)) = SubSeq(s, 1, Len(s) - 1)
<1>1. Len(s) \in Nat \ {0} /\ Len(s) \in 1..Len(s) /\ \A i \in 1..Len(s) : s[i] \in S
  BY EmptySeq, LenProperties, ElementOfSeq
<1>2. /\ RemoveAt(s, Len(s)) \in Seq(S) /\ Len(RemoveAt(s, Len(s))) = Len(s) - 1
      /\ \A i \in 1..Len(s) - 1 : RemoveAt(s, Len(s))[i] = s[i]
  <2>1. \A i \in 1..Len(s) - 1 : i < Len(s)
    BY <1>1
  <2> QED BY <1>1, <2>1, RemoveAtLemma
<1>3. /\ SubSeq(s, 1, Len(s) - 1) \in Seq(S) /\ Len(SubSeq(s, 1, Len(s) - 1)) = Len(s) - 1
      /\ \A i \in 1..Len(s) - 1 : SubSeq(s, 1, Len(s) - 1)[i] = s[i]
  <2>1. \A i \in 1..Len(s) - 1 : s[i] \in S
    BY <1>1
  <2>2. /\ SubSeq(s, 1, Len(s) - 1) \in Seq(S)
        /\ Len(SubSeq(s, 1, Len(s) - 1)) = IF 1 <= Len(s) - 1 THEN (Len(s) - 1) - 1 + 1 ELSE 0
        /\ \A i \in 1..(Len(s) - 1) - 1 + 1 : SubSeq(s, 1, Len(s) - 1)[i] = s[1 + i - 1]
    BY <1>1, <2>1, SubSeqProperties
  <2>3. (Len(s) - 1) - 1 + 1 = Len(s) - 1 /\ \A i \in 1..Len(s) - 1 : 1 + i - 1 = i
    BY <1>1
  <2> QED BY <1>1, <2>2, <2>3
<1> QED BY <1>2, <1>3, SeqEqual

LEMMA LivingReplaced ==
  ASSUME NEW es \in Seq(Entry), NEW fs \in Seq(Entry), Len(fs) = Len(es),
         \A i \in 1..Len(es) : Live(fs[i]) <=> Live(es[i])
  PROVE  /\ Len(Living(fs)) = Len(Living(es))
         /\ \A p \in 1..Len(Living(es)) : \E i \in 1..Len(es) :
              Live(es[i]) /\ Living(es)[p] = es[i] /\ Living(fs)[p] = fs[i]
<1>1. Len(es) \in Nat /\ Len(es) \in 0..Len(es)
  BY LenProperties
<1>2. \A n \in 0..Len(es) : RankOf(fs, n) = RankOf(es, n)
  BY SameRanks
<1>3. Len(Living(fs)) = Len(Living(es))
  BY <1>1, <1>2, RankType
<1>4. ASSUME NEW p \in 1..Len(Living(es))
      PROVE  \E i \in 1..Len(es) : Live(es[i]) /\ Living(es)[p] = es[i] /\ Living(fs)[p] = fs[i]
  <2>1. PICK i \in 1..Len(es) : Live(es[i]) /\ RankOf(es, i) = p /\ Living(es)[p] = es[i]
    BY RankOnto
  <2>2. RankOf(fs, i) = p /\ Live(fs[i]) /\ i \in 1..Len(fs)
    BY <1>1, <1>2, <2>1
  <2>3. Living(fs)[RankOf(fs, i)] = fs[i]
    BY <2>2, Rank
  <2> QED BY <2>1, <2>2, <2>3
<1> QED BY <1>3, <1>4

LEMMA LivingDeleted ==
  ASSUME NEW es \in Seq(Entry), NEW fs \in Seq(Entry), Len(fs) = Len(es),
         NEW d \in 1..Len(es), Live(es[d]), ~Live(fs[d]),
         \A i \in 1..Len(es) : i # d => fs[i] = es[i]
  PROVE  Living(fs) = RemoveAt(Living(es), RankOf(es, d))
<1> DEFINE p == RankOf(es, d)
           s == Living(es)
           t == Living(fs)
<1>1. Len(es) \in Nat /\ Len(es) \in 0..Len(es) /\ d \in 0..Len(es)
  BY LenProperties
<1>2. \A n \in 0..Len(es) : RankOf(fs, n) = IF n < d THEN RankOf(es, n) ELSE RankOf(es, n) - 1
  BY DeletedRanks
<1>3. s \in Seq(LiveEntry) /\ t \in Seq(LiveEntry) /\ p \in 1..Len(s)
      /\ Len(s) = RankOf(es, Len(es)) /\ Len(t) = RankOf(fs, Len(es))
  BY <1>1, RankType, Rank
<1>4. Len(t) = Len(s) - 1 /\ Len(s) \in Nat
  <2>1. ~(Len(es) < d)
    BY <1>1
  <2> QED BY <1>1, <1>2, <1>3, <2>1, LenProperties
<1>5. ASSUME NEW i \in 1..Len(t) PROVE t[i] = IF i < p THEN s[i] ELSE s[i + 1]
  <2>1. PICK j \in 1..Len(fs) : Live(fs[j]) /\ RankOf(fs, j) = i /\ t[i] = fs[j]
    BY RankOnto
  <2>2. j # d /\ fs[j] = es[j] /\ Live(es[j]) /\ j \in 1..Len(es)
    BY <2>1
  <2>3. s[RankOf(es, j)] = es[j] /\ RankOf(es, j) \in Nat /\ p \in Nat
    <3>1. s[RankOf(es, j)] = es[j]
      BY <2>2, Rank
    <3>2. j \in 0..Len(es)
      BY <1>1, <2>2
    <3>3. RankOf(es, j) \in Nat /\ RankOf(es, d) \in Nat
      BY <1>1, <3>2, RankType
    <3> QED BY <3>1, <3>3
  <2>4. CASE j < d
    <3>1. RankOf(fs, j) = RankOf(es, j)
      BY <1>1, <1>2, <2>4
    <3>2. RankOf(es, j) < p
      <4>1. j \in 0..d - 1
        BY <1>1, <2>2, <2>4
      <4> QED BY <4>1, Rank
    <3> QED BY <2>1, <2>2, <2>3, <3>1, <3>2
  <2>5. CASE ~(j < d)
    <3>1. RankOf(fs, j) = RankOf(es, j) - 1
      BY <1>1, <1>2, <2>5
    <3>2. p < RankOf(es, j)
      <4>1. d \in 0..j - 1
        BY <1>1, <2>2, <2>5
      <4> QED BY <2>2, <4>1, Rank
    <3>3. i + 1 = RankOf(es, j) /\ ~(i < p)
      BY <2>1, <2>3, <3>1, <3>2
    <3> QED BY <2>1, <2>2, <2>3, <3>3
  <2> QED BY <2>4, <2>5
<1> HIDE DEF s, t, p
<1>6. /\ RemoveAt(s, p) \in Seq(LiveEntry) /\ Len(RemoveAt(s, p)) = Len(s) - 1
      /\ \A i \in 1..Len(s) - 1 : RemoveAt(s, p)[i] = IF i < p THEN s[i] ELSE s[i + 1]
  BY <1>3, RemoveAtLemma
<1>7. t = RemoveAt(s, p)
  <2>1. \A i \in 1..Len(t) : t[i] = RemoveAt(s, p)[i]
    BY <1>4, <1>5, <1>6
  <2> QED BY <1>3, <1>4, <1>6, <2>1, SeqEqual
<1> QED BY <1>7 DEF s, t, p

-----------------------------------------------------------------------------
Caps == {c \in Nat : c >= 1 /\ PowerOf2(c)}
Used(ix) == {s \in DOMAIN ix : ix[s] >= 0}
Unbroken(c, ix, k, p) == \A h \in 0..p - 1 : ix[Slot(c, k, h)] # EMPTY
Reaches(c, ix, k, j) == \E p \in 0..c - 1 : ix[Slot(c, k, p)] = j /\ Unbroken(c, ix, k, p)
Once(es) == \A i, j \in 1..Len(es) : Live(es[i]) /\ es[i].key = es[j].key => i = j
Sound(c, ix, es) ==
  /\ c \in Caps /\ ix \in [0..c - 1 -> Int] /\ es \in Seq(Entry) /\ Len(es) <= c
  /\ \A s \in 0..c - 1 : \/ ix[s] \in {EMPTY, DUMMY}
                         \/ ix[s] \in 0..Len(es) - 1 /\ Live(es[ix[s] + 1])
  /\ \A s, t \in 0..c - 1 : ix[s] >= 0 /\ ix[s] = ix[t] => s = t
  /\ \A i \in 1..Len(es) : Live(es[i]) => Reaches(c, ix, es[i].key, i - 1)
  /\ Once(es)
  /\ Cardinality(Used(ix)) = Len(Living(es))
Table(d) ==
  /\ d = [cap |-> d.cap, indices |-> d.indices, entries |-> d.entries, len |-> d.len]
  /\ Sound(d.cap, d.indices, d.entries)
  /\ d.len = Len(Living(d.entries))

LEMMA SlotType ==
  ASSUME DictAssumption, NEW c \in Nat \ {0}, NEW k \in Keys, NEW i \in Nat
  PROVE  Slot(c, k, i) \in 0..c - 1
<1>1. Hash[k] \in Nat /\ Triangle(i) \in Nat
  BY TriangleDef DEF DictAssumption
<1> QED BY <1>1 DEF Slot, Probe

LEMMA EntryKeys ==
  ASSUME DictAssumption, NEW es \in Seq(Entry), NEW i \in 1..Len(es)
  PROVE  /\ es[i] \in Entry /\ (Live(es[i]) <=> es[i].key \in Keys)
         /\ \A k \in Keys : es[i].key = k => Live(es[i])
<1>1. es[i] \in Entry
  BY ElementOfSeq
<1> QED BY <1>1 DEF Entry, Live, DictAssumption

LEMMA EndLemma ==
  ASSUME NEW d, d.cap \in Nat, NEW k
  PROVE  /\ End(d, k) \in 0..d.cap /\ Ends(d, k, End(d, k))
         /\ \A h \in 0..End(d, k) - 1 : ~Ends(d, k, h)
<1> DEFINE T == {i \in 0..d.cap : Ends(d, k, i)}
<1>1. d.cap \in T
  BY DEF Ends
<1>2. PICK i \in T : \A j \in T : i <= j
  <2>1. T \subseteq Nat /\ T # {}
    BY <1>1
  <2> HIDE DEF T
  <2> QED BY <2>1, NatMin
<1>3. i \in 0..d.cap /\ Ends(d, k, i) /\ \A h \in 0..i - 1 : ~Ends(d, k, h)
  BY <1>2
<1> QED BY <1>3 DEF End

(* A lookup finds the entry that holds the key, and none if there is none.  *)
LEMMA LookupLemma ==
  ASSUME DictAssumption, NEW d, Table(d), NEW k \in Keys
  PROVE  /\ \A i \in 1..Len(d.entries) : d.entries[i].key = k =>
              /\ LookupEntry(d, k) = i - 1 /\ End(d, k) \in 0..d.cap - 1
              /\ At(d, k, End(d, k)) = i - 1
         /\ (\A i \in 1..Len(d.entries) : d.entries[i].key # k) => LookupEntry(d, k) = -1
<1> DEFINE c == d.cap
           es == d.entries
           ix == d.indices
           end == End(d, k)
<1>1. /\ c \in Nat \ {0} /\ es \in Seq(Entry) /\ Len(es) \in Nat /\ Once(es)
      /\ ix \in [0..c - 1 -> Int]
      /\ \A s \in 0..c - 1 : \/ ix[s] \in {EMPTY, DUMMY}
                             \/ ix[s] \in 0..Len(es) - 1 /\ Live(es[ix[s] + 1])
      /\ \A i \in 1..Len(es) : Live(es[i]) => Reaches(c, ix, es[i].key, i - 1)
  BY LenProperties DEF Table, Sound, Caps
<1>2. end \in 0..c /\ Ends(d, k, end) /\ \A h \in 0..end - 1 : ~Ends(d, k, h)
  BY <1>1, EndLemma
<1>3. ASSUME NEW i \in 1..Len(es), es[i].key = k
      PROVE  LookupEntry(d, k) = i - 1 /\ end \in 0..c - 1 /\ At(d, k, end) = i - 1
  <2>1. Live(es[i])
    BY <1>1, <1>3, EntryKeys
  <2>2. PICK p \in 0..c - 1 : ix[Slot(c, k, p)] = i - 1 /\ Unbroken(c, ix, k, p)
    BY <1>1, <1>3, <2>1 DEF Reaches
  <2>3. i - 1 \in 0..Len(es) - 1 /\ (i - 1) + 1 = i /\ i - 1 # EMPTY
    BY <1>1 DEF EMPTY
  <2>4. Ends(d, k, p)
    BY <1>3, <2>2, <2>3 DEF Ends, At, Holds
  <2>5. end <= p /\ end \in 0..c - 1
    <3>1. ~(p \in 0..end - 1)
      BY <1>2, <2>4
    <3> QED BY <1>1, <1>2, <3>1
  <2>6. At(d, k, end) # EMPTY
    <3>1. CASE end = p
      BY <2>2, <2>3, <3>1 DEF At
    <3>2. CASE end < p
      <4>1. end \in 0..p - 1
        BY <2>5, <3>2
      <4> QED BY <2>2, <4>1 DEF At, Unbroken
    <3> QED BY <2>5, <3>1, <3>2
  <2>7. Holds(d, At(d, k, end), k)
    <3>1. end # c
      BY <1>1, <2>5
    <3> QED BY <1>2, <2>6, <3>1 DEF Ends
  <2>8. At(d, k, end) = i - 1
    <3> DEFINE a == At(d, k, end)
    <3>1. a \in 0..Len(es) - 1 /\ es[a + 1].key = k
      BY <2>7 DEF Holds
    <3>2. a + 1 \in 1..Len(es) /\ a \in Nat
      BY <1>1, <3>1
    <3>3. a + 1 = i
      <4> HIDE DEF a
      <4> QED BY <1>1, <1>3, <2>1, <3>1, <3>2 DEF Once
    <3> QED BY <3>2, <3>3
  <2>9. end # c
    BY <1>1, <2>5
  <2> QED BY <2>5, <2>6, <2>8, <2>9 DEF LookupEntry
<1>4. ASSUME \A i \in 1..Len(es) : es[i].key # k PROVE LookupEntry(d, k) = -1
  <2>1. end = c \/ At(d, k, end) = EMPTY
    <3>1. ~Holds(d, At(d, k, end), k)
      <4> SUFFICES ASSUME NEW a \in 0..Len(es) - 1, es[a + 1].key = k PROVE FALSE
        BY DEF Holds
      <4>1. a + 1 \in 1..Len(es)
        BY <1>1
      <4> QED BY <1>4, <4>1
    <3> QED BY <1>2, <3>1 DEF Ends
  <2> QED BY <2>1 DEF LookupEntry
<1> QED BY <1>3, <1>4

(* Where an entry of key k may go.                                          *)
Free(d, k, t) ==
  /\ t \in 0..d.cap - 1 /\ d.indices[t] \in {EMPTY, DUMMY}
  /\ \E p \in 0..d.cap - 1 : t = Slot(d.cap, k, p) /\ Unbroken(d.cap, d.indices, k, p)

(* Fewer entries than slots: a probe meets a slot that no entry uses.       *)
LEMMA UnusedReached ==
  ASSUME DictAssumption, NEW d, Sound(d.cap, d.indices, d.entries), NEW k \in Keys,
         Len(Living(d.entries)) < d.cap
  PROVE  \E p \in 0..d.cap - 1 : At(d, k, p) \in {EMPTY, DUMMY}
<1> DEFINE c == d.cap
           ix == d.indices
           es == d.entries
<1>1. /\ c \in Nat \ {0} /\ PowerOf2(c) /\ ix \in [0..c - 1 -> Int] /\ DOMAIN ix = 0..c - 1
      /\ \A s \in 0..c - 1 : ix[s] \in {EMPTY, DUMMY} \/ ix[s] \in 0..Len(es) - 1
      /\ Cardinality(Used(ix)) = Len(Living(es)) /\ es \in Seq(Entry)
  BY DEF Sound, Caps
<1>2. PICK s \in 0..c - 1 : ix[s] \in {EMPTY, DUMMY}
  <2> SUFFICES ASSUME \A s \in 0..c - 1 : ix[s] \notin {EMPTY, DUMMY} PROVE FALSE
    OBVIOUS
  <2>1. Used(ix) = 0..c - 1
    BY <1>1 DEF Used
  <2>2. Cardinality(0..c - 1) = c
    <3>1. c \in Nat
      BY <1>1
    <3> HIDE DEF c
    <3> QED BY <3>1, FS_Interval
  <2> QED BY <1>1, <2>1, <2>2
<1>3. Hash[k] \in Nat
  BY DEF DictAssumption
<1>4. \E p \in 0..c - 1 : Probe(Hash[k], p, c) = s
  BY <1>1, <1>3, ProbesVisitAll
<1> QED BY <1>2, <1>4 DEF At, Slot

LEMMA InsertLemma ==
  ASSUME DictAssumption, NEW d, Table(d), NEW k \in Keys, d.len < d.cap,
         \A i \in 1..Len(d.entries) : d.entries[i].key # k
  PROVE  Free(d, k, InsertSlot(d, k))
<1> DEFINE c == d.cap
           ix == d.indices
           es == d.entries
           end == End(d, k)
           dummies == {i \in 0..end - 1 : At(d, k, i) = DUMMY}
<1>1. c \in Nat \ {0} /\ es \in Seq(Entry) /\ Len(es) \in Nat
  BY LenProperties DEF Table, Sound, Caps
<1>2. end \in 0..c /\ Ends(d, k, end) /\ \A h \in 0..end - 1 : ~Ends(d, k, h)
  BY <1>1, EndLemma
<1>3. ASSUME NEW p \in 0..c - 1 PROVE Slot(c, k, p) \in 0..c - 1
  BY <1>1, SlotType
<1>4. ASSUME NEW a PROVE ~Holds(d, a, k)
  <2> SUFFICES ASSUME a \in 0..Len(es) - 1, es[a + 1].key = k PROVE FALSE
    BY DEF Holds
  <2>1. a + 1 \in 1..Len(es)
    BY <1>1
  <2> QED BY <2>1
<1>5. \A p \in 0..end : Unbroken(c, ix, k, p)
  <2> SUFFICES ASSUME NEW p \in 0..end, NEW h \in 0..p - 1 PROVE ix[Slot(c, k, h)] # EMPTY
    BY DEF Unbroken
  <2>1. h \in 0..end - 1
    BY <1>2
  <2> QED BY <1>2, <2>1 DEF Ends, At
<1>6. CASE dummies # {}
  <2>1. Min(dummies) \in dummies
    <3>1. dummies \subseteq Nat
      OBVIOUS
    <3>2. PICK m \in dummies : \A y \in dummies : m <= y
      BY <1>6, <3>1, NatMin
    <3> HIDE DEF dummies
    <3> QED BY <3>2 DEF Min
  <2>2. Min(dummies) \in 0..c - 1 /\ Min(dummies) \in 0..end /\ At(d, k, Min(dummies)) = DUMMY
    BY <1>1, <1>2, <2>1
  <2>3. InsertSlot(d, k) = Slot(c, k, Min(dummies))
    BY <1>6 DEF InsertSlot
  <2> HIDE DEF dummies
  <2> QED BY <1>3, <1>5, <2>2, <2>3 DEF Free, At
<1>7. CASE dummies = {}
  <2>1. end \in 0..c - 1
    <3> SUFFICES ASSUME end = c PROVE FALSE
      BY <1>1, <1>2
    <3>1. PICK p \in 0..c - 1 : At(d, k, p) \in {EMPTY, DUMMY}
      BY UnusedReached DEF Table
    <3>2. ~Ends(d, k, p) /\ p \in 0..end - 1
      BY <1>2
    <3>3. At(d, k, p) = DUMMY
      BY <3>1, <3>2 DEF Ends
    <3> QED BY <1>7, <3>2, <3>3
  <2>2. At(d, k, end) = EMPTY
    BY <1>1, <1>2, <1>4, <2>1 DEF Ends
  <2>3. InsertSlot(d, k) = Slot(c, k, end)
    <3>1. end < c
      BY <1>1, <2>1
    <3> QED BY <1>7, <3>1 DEF InsertSlot
  <2> QED BY <1>1, <1>2, <1>3, <1>5, <2>1, <2>2, <2>3 DEF Free, At
<1> QED BY <1>6, <1>7

(* An entry appended, and its index put in a free slot.                     *)
LEMMA PutLemma ==
  ASSUME DictAssumption, NEW d, Sound(d.cap, d.indices, d.entries),
         Len(d.entries) < d.cap, NEW e \in Entry, Live(e),
         \A i \in 1..Len(d.entries) : d.entries[i].key # e.key,
         NEW t, Free(d, e.key, t)
  PROVE  /\ Sound(d.cap, [d.indices EXCEPT ![t] = Len(d.entries)], Append(d.entries, e))
         /\ Living(Append(d.entries, e)) = Append(Living(d.entries), e)
         /\ Len(Living(Append(d.entries, e))) = Len(Living(d.entries)) + 1
<1> DEFINE c == d.cap
           ix == d.indices
           es == d.entries
           n == Len(es)
           iy == [ix EXCEPT ![t] = n]
           fs == Append(es, e)
<1>1. /\ c \in Caps /\ c \in Nat /\ c >= 1 /\ ix \in [0..c - 1 -> Int] /\ DOMAIN ix = 0..c - 1
      /\ es \in Seq(Entry) /\ n \in Nat /\ n < c /\ Once(es)
      /\ \A s \in 0..c - 1 : \/ ix[s] \in {EMPTY, DUMMY}
                             \/ ix[s] \in 0..n - 1 /\ Live(es[ix[s] + 1])
      /\ \A s, u \in 0..c - 1 : ix[s] >= 0 /\ ix[s] = ix[u] => s = u
      /\ \A i \in 1..n : Live(es[i]) => Reaches(c, ix, es[i].key, i - 1)
      /\ Cardinality(Used(ix)) = Len(Living(es))
  BY LenProperties DEF Sound, Caps
<1>0. c \in Nat \ {0}
  BY <1>1
<1>2. /\ fs \in Seq(Entry) /\ Len(fs) = n + 1 /\ fs[n + 1] = e
      /\ \A i \in 1..n : fs[i] = es[i]
  BY <1>1, AppendProperties
<1>3. /\ t \in 0..c - 1 /\ ix[t] \in {EMPTY, DUMMY} /\ ix[t] < 0
  BY DEF Free, EMPTY, DUMMY
<1>4. /\ iy \in [0..c - 1 -> Int] /\ DOMAIN iy = 0..c - 1 /\ iy[t] = n
      /\ \A s \in 0..c - 1 : s # t => iy[s] = ix[s]
  BY <1>1, <1>3
<1>5. Living(fs) = Append(Living(es), e) /\ Len(Living(fs)) = Len(Living(es)) + 1
      /\ Len(Living(es)) \in Nat
  <2>1. Living(es) \in Seq(LiveEntry) /\ e \in LiveEntry
    <3>1. 0 \in 0..Len(es)
      BY <1>1
    <3> QED BY <1>1, <3>1, RankType DEF LiveEntry
  <2> QED BY <1>1, <2>1, LivingAppend, AppendProperties, LenProperties
<1> HIDE DEF fs, iy
<1>6. \A i \in 1..n + 1 : i = n + 1 \/ i \in 1..n
  BY <1>1
<1>7. ASSUME NEW s \in 0..c - 1
      PROVE  \/ iy[s] \in {EMPTY, DUMMY}
             \/ iy[s] \in 0..Len(fs) - 1 /\ Live(fs[iy[s] + 1])
  <2>1. CASE s = t
    BY <1>1, <1>2, <1>4, <2>1
  <2>2. CASE s # t /\ ix[s] \notin {EMPTY, DUMMY}
    <3>1. iy[s] = ix[s] /\ ix[s] \in 0..n - 1 /\ Live(es[ix[s] + 1])
      BY <1>1, <1>4, <2>2
    <3> DEFINE j == ix[s]
    <3>2. j + 1 \in 1..n /\ j \in 0..Len(fs) - 1
      <4>1. j \in 0..n - 1
        BY <3>1
      <4> HIDE DEF j
      <4> QED BY <1>1, <1>2, <4>1
    <3>3. fs[j + 1] = es[j + 1]
      BY <1>2, <3>2
    <3> QED BY <3>1, <3>2, <3>3
  <2>3. CASE s # t /\ ix[s] \in {EMPTY, DUMMY}
    BY <1>4, <2>3
  <2> QED BY <2>1, <2>2, <2>3
<1>8. \A s \in 0..c - 1 : ix[s] # n
  <2> SUFFICES ASSUME NEW s \in 0..c - 1, ix[s] = n PROVE FALSE
    OBVIOUS
  <2>1. n \notin {EMPTY, DUMMY} /\ n \notin 0..n - 1
    BY <1>1 DEF EMPTY, DUMMY
  <2>2. ix[s] \in {EMPTY, DUMMY} \/ ix[s] \in 0..n - 1
    BY <1>1
  <2> QED BY <2>1, <2>2
<1>9. ASSUME NEW s \in 0..c - 1, NEW u \in 0..c - 1, iy[s] >= 0, iy[s] = iy[u]
      PROVE  s = u
  BY <1>1, <1>4, <1>8, <1>9
<1>10. \A s \in 0..c - 1 : ix[s] # EMPTY => iy[s] # EMPTY
  <2>1. n # EMPTY
    BY <1>1 DEF EMPTY
  <2> QED BY <1>4, <2>1
<1>11. ASSUME NEW k \in Keys, NEW p \in 0..c - 1, Unbroken(c, ix, k, p)
       PROVE  Unbroken(c, iy, k, p)
  <2> SUFFICES ASSUME NEW h \in 0..p - 1 PROVE iy[Slot(c, k, h)] # EMPTY
    BY DEF Unbroken
  <2>1. Slot(c, k, h) \in 0..c - 1
    <3>1. h \in Nat
      BY <1>0
    <3> HIDE DEF c
    <3> QED BY <1>0, <3>1, SlotType
  <2> QED BY <1>10, <1>11, <2>1 DEF Unbroken
<1>12. e.key \in Keys
  BY DEF Entry, Live
<1>13. ASSUME NEW i \in 1..Len(fs), Live(fs[i]) PROVE Reaches(c, iy, fs[i].key, i - 1)
  <2>1. CASE i = n + 1
    <3>1. PICK p \in 0..c - 1 : t = Slot(c, e.key, p) /\ Unbroken(c, ix, e.key, p)
      BY DEF Free
    <3>2. fs[i].key = e.key /\ i - 1 = n
      BY <1>1, <1>2, <2>1
    <3> QED BY <1>4, <1>11, <1>12, <3>1, <3>2 DEF Reaches
  <2>2. CASE i \in 1..n
    <3>1. fs[i] = es[i] /\ Live(es[i]) /\ es[i].key \in Keys
      BY <1>1, <1>2, <1>13, <2>2, EntryKeys
    <3>2. PICK p \in 0..c - 1 : /\ ix[Slot(c, es[i].key, p)] = i - 1
                                /\ Unbroken(c, ix, es[i].key, p)
      BY <1>1, <2>2, <3>1 DEF Reaches
    <3>3. Slot(c, es[i].key, p) \in 0..c - 1
      <4>1. p \in Nat
        BY <1>0
      <4> HIDE DEF c, es
      <4> QED BY <1>0, <3>1, <4>1, SlotType
    <3>4. i - 1 >= 0
      BY <1>1
    <3>5. iy[Slot(c, es[i].key, p)] = i - 1
      BY <1>3, <1>4, <3>2, <3>3, <3>4
    <3> QED BY <1>11, <3>1, <3>2, <3>5 DEF Reaches
  <2> QED BY <1>2, <1>6, <2>1, <2>2
<1>14. Once(fs)
  <2> SUFFICES ASSUME NEW i \in 1..n + 1, NEW j \in 1..n + 1, Live(fs[i]), fs[i].key = fs[j].key
               PROVE  i = j
    BY <1>2 DEF Once
  <2> QED BY <1>1, <1>2, <1>6 DEF Once
<1>15. Cardinality(Used(iy)) = Len(Living(fs))
  <2>1. Used(iy) = Used(ix) \cup {t} /\ t \notin Used(ix)
    <3>1. n >= 0 /\ ~(ix[t] >= 0) /\ ix[t] \in Int
      BY <1>1, <1>3 DEF EMPTY, DUMMY
    <3>2. Used(iy) = {s \in 0..c - 1 : iy[s] >= 0} /\ Used(ix) = {s \in 0..c - 1 : ix[s] >= 0}
      BY <1>1, <1>4 DEF Used
    <3> QED BY <1>3, <1>4, <3>1, <3>2
  <2>2. IsFiniteSet(Used(ix))
    <3>1. Used(ix) \in SUBSET (0..c - 1)
      BY <1>1 DEF Used
    <3>2. c - 1 \in Int
      BY <1>1
    <3>3. IsFiniteSet(0..c - 1)
      BY <1>1, IntervalLemma
    <3> QED BY <3>1, <3>3, FS_Subset
  <2>3. Cardinality(Used(iy)) = Cardinality(Used(ix)) + 1
    BY <2>1, <2>2, FS_AddElement
  <2> QED BY <1>1, <1>5, <2>3
<1>16. Sound(c, iy, fs)
  <2>1. Len(fs) <= c
    BY <1>1, <1>2
  <2> QED BY <1>1, <1>2, <1>4, <1>7, <1>9, <1>13, <1>14, <1>15, <2>1 DEF Sound
<1> QED BY <1>5, <1>16 DEF fs, iy

LEMMA FreshLemma ==
  ASSUME NEW c \in Caps
  PROVE  /\ Sound(c, Fresh(c).indices, <<>>)
         /\ Fresh(c) = [cap |-> c, indices |-> Fresh(c).indices, entries |-> <<>>, len |-> 0]
         /\ \A s \in 0..c - 1 : Fresh(c).indices[s] = EMPTY
<1> DEFINE ix == [s \in 0..c - 1 |-> EMPTY]
<1>1. c \in Nat /\ c >= 1
  BY DEF Caps
<1>2. ix \in [0..c - 1 -> Int] /\ \A s \in 0..c - 1 : ix[s] = EMPTY
  BY DEF EMPTY
<1>3. Used(ix) = {}
  BY <1>2 DEF Used, EMPTY
<1>4. Len(<<>>) = 0 /\ <<>> \in Seq(Entry) /\ Living(<<>>) = <<>>
  BY EmptySeq, LivingEmpty
<1>5. Cardinality(Used(ix)) = Len(Living(<<>>))
  BY <1>3, <1>4, FS_EmptySet
<1>6. \A s \in 0..c - 1 : ~(ix[s] >= 0)
  BY <1>2 DEF EMPTY
<1> HIDE DEF ix
<1>7. Once(<<>>)
  BY <1>4 DEF Once
<1>8. Sound(c, ix, <<>>)
  BY <1>1, <1>2, <1>4, <1>5, <1>6, <1>7 DEF Sound
<1> QED BY <1>2, <1>8 DEF Fresh, ix

LEMMA AtLeastLemma ==
  ASSUME DictAssumption, NEW n \in Nat
  PROVE  AtLeast(n) \in Caps /\ AtLeast(n) >= n
<1> DEFINE m == IF n < MinCap THEN MinCap ELSE n
<1>1. m \in Nat \ {0} /\ m >= n
  BY DEF DictAssumption
<1>2. NextPowerOf2(m) \in Nat \ {0} /\ NextPowerOf2(m) >= m /\ PowerOf2(NextPowerOf2(m))
  BY <1>1, NextPower
<1> QED BY <1>1, <1>2 DEF AtLeast, Caps

(* The rebuilt table after i of the live entries.                           *)
Placed(len, kept, cap, i, r) ==
  /\ r = [cap |-> cap, indices |-> r.indices, entries |-> SubSeq(kept, 1, i), len |-> len]
  /\ Sound(cap, r.indices, SubSeq(kept, 1, i))
  /\ \A s \in 0..cap - 1 : r.indices[s] # DUMMY

LEMMA PlaceLemma ==
  ASSUME DictAssumption, NEW len, NEW kept \in Seq(LiveEntry), Once(kept),
         NEW cap \in Caps, Len(kept) < cap, NEW i \in 0..Len(kept) - 1,
         NEW r, Placed(len, kept, cap, i, r)
  PROVE  Placed(len, kept, cap, i + 1, Place(r, kept[i + 1]))
<1> DEFINE e == kept[i + 1]
           es == SubSeq(kept, 1, i)
           ix == r.indices
           free == {p \in Probes(r) : At(r, e.key, p) = EMPTY}
           t == Slot(cap, e.key, Min(free))
<1>0. Len(kept) \in Nat /\ i \in Nat /\ i + 1 \in 1..Len(kept) /\ \A j \in 1..Len(kept) : kept[j] \in LiveEntry
      /\ cap \in Nat \ {0} /\ LiveEntry \subseteq Entry
  BY LenProperties, ElementOfSeq DEF Caps, LiveEntry
<1>1. e \in Entry /\ Live(e) /\ e.key \in Keys
  BY <1>0 DEF LiveEntry, Entry, Live
<1>2. /\ es \in Seq(Entry) /\ Len(es) = i /\ \A j \in 1..i : es[j] = kept[j]
  <2>1. \A j \in 1..i : kept[j] \in Entry
    BY <1>0
  <2>2. /\ es \in Seq(Entry) /\ Len(es) = IF 1 <= i THEN i - 1 + 1 ELSE 0
        /\ \A j \in 1..i - 1 + 1 : es[j] = kept[1 + j - 1]
    BY <1>0, <2>1, SubSeqProperties
  <2> QED BY <1>0, <2>2
<1>3. /\ r.cap = cap /\ r.entries = es /\ r.len = len /\ Sound(r.cap, r.indices, r.entries)
      /\ \A s \in 0..cap - 1 : ix[s] # DUMMY
  <2>1. r.cap = cap /\ r.entries = es /\ r.len = len
    BY DEF Placed
  <2> QED BY <2>1 DEF Placed
<1>4. Living(es) = es
  <2>1. \A j \in 1..Len(es) : Live(es[j])
    BY <1>0, <1>2 DEF LiveEntry
  <2> QED BY <1>2, <2>1, AllLive
<1>5. PICK p \in 0..cap - 1 : At(r, e.key, p) = EMPTY
  <2>1. Len(Living(r.entries)) < r.cap
    BY <1>0, <1>2, <1>3, <1>4
  <2>2. PICK p \in 0..cap - 1 : At(r, e.key, p) \in {EMPTY, DUMMY}
    <3> HIDE DEF e
    <3> QED BY <1>1, <1>3, <2>1, UnusedReached
  <2>3. Slot(cap, e.key, p) \in 0..cap - 1
    <3>1. p \in Nat
      BY <1>0
    <3> HIDE DEF e
    <3> QED BY <1>0, <1>1, <3>1, SlotType
  <2> QED BY <1>3, <2>2, <2>3 DEF At
<1>6. Min(free) \in free /\ \A y \in free : Min(free) <= y
  <2>1. free # {} /\ free \subseteq Nat
    BY <1>0, <1>3, <1>5 DEF Probes
  <2>2. PICK m \in free : \A y \in free : m <= y
    <3> HIDE DEF free
    <3> QED BY <2>1, NatMin
  <2> HIDE DEF free
  <2> QED BY <2>2 DEF Min
<1>7. Min(free) \in 0..cap - 1 /\ ix[t] = EMPTY
  BY <1>3, <1>6 DEF Probes, At
<1>8. t \in 0..cap - 1
  <2>1. Min(free) \in Nat
    BY <1>0, <1>7
  <2> HIDE DEF e, free
  <2> QED BY <1>0, <1>1, <2>1, SlotType
<1>9. Unbroken(cap, ix, e.key, Min(free))
  <2> SUFFICES ASSUME NEW h \in 0..Min(free) - 1 PROVE ix[Slot(cap, e.key, h)] # EMPTY
    BY DEF Unbroken
  <2>1. h \in 0..cap - 1 /\ ~(Min(free) <= h)
    BY <1>0, <1>7
  <2>2. h \notin free
    BY <1>6, <2>1
  <2> QED BY <1>3, <2>1, <2>2 DEF Probes, At
<1>10. Free(r, e.key, t)
  BY <1>3, <1>7, <1>8, <1>9 DEF Free
<1>11. \A j \in 1..Len(r.entries) : r.entries[j].key # e.key
  <2> SUFFICES ASSUME NEW j \in 1..i, es[j].key = e.key PROVE FALSE
    BY <1>2, <1>3
  <2>1. j \in 1..Len(kept) /\ kept[j].key = kept[i + 1].key /\ Live(kept[j]) /\ j # i + 1
    BY <1>0, <1>2 DEF LiveEntry
  <2> QED BY <1>0, <2>1 DEF Once
<1> DEFINE iy == [ix EXCEPT ![t] = Len(es)]
<1>12. Sound(cap, iy, Append(es, e))
  <2>1. Len(r.entries) < r.cap
    BY <1>0, <1>2, <1>3
  <2>2. Sound(r.cap, [r.indices EXCEPT ![t] = Len(r.entries)], Append(r.entries, e))
    <3> HIDE DEF e, t
    <3> QED BY <1>1, <1>3, <1>10, <1>11, <2>1, PutLemma
  <2> QED BY <1>3, <2>2
<1>13. SubSeq(kept, 1, i + 1) = Append(es, e)
  <2>1. SubSeq(kept, 1, i + 1) = SubSeq(kept, 1, (i + 1) - 1) \o <<e>>
    <3>1. 1 \in 1..Len(kept) /\ i + 1 \in 1..Len(kept)
      BY <1>0
    <3> QED BY <3>1, SubSeqRecursiveSecond
  <2>2. (i + 1) - 1 = i
    BY <1>0
  <2> HIDE DEF e
  <2> QED BY <1>1, <1>2, <2>1, <2>2, AppendIsConcat
<1>14. \A s \in 0..cap - 1 : iy[s] # DUMMY
  <2>1. ix \in [0..cap - 1 -> Int] /\ Len(es) # DUMMY
    BY <1>0, <1>2, <1>3 DEF Sound, DUMMY
  <2> QED BY <1>3, <2>1
<1>15. Place(r, e) = [cap |-> cap, indices |-> iy, entries |-> Append(es, e), len |-> len]
  BY <1>3 DEF Place
<1> DEFINE q == Place(r, e)
<1>16. q.indices = iy
  BY <1>15
<1>17. q = [cap |-> cap, indices |-> q.indices, entries |-> SubSeq(kept, 1, i + 1), len |-> len]
  BY <1>13, <1>15, <1>16
<1> HIDE DEF iy, e, es, q
<1>18. Sound(cap, q.indices, SubSeq(kept, 1, i + 1))
  BY <1>12, <1>13, <1>16
<1> QED BY <1>14, <1>16, <1>17, <1>18 DEF Placed, e, q

MoveStep(d, kept, i, g) ==
  IF i = 0 THEN [Fresh(AtLeast(3 * d.len)) EXCEPT !.len = d.len] ELSE Place(g[i - 1], kept[i])

LEMMA MoveAll ==
  ASSUME DictAssumption, NEW d, NEW kept \in Seq(LiveEntry), Once(kept),
         NEW cap \in Caps, Len(kept) < cap, cap = AtLeast(3 * d.len), NEW n \in 0..Len(kept)
  PROVE  \E g : /\ g = [i \in 0..n |-> MoveStep(d, kept, i, g)]
                /\ \A i \in 0..n : Placed(d.len, kept, cap, i, g[i])
<1> DEFINE Good(m, g) == /\ g = [i \in 0..m |-> MoveStep(d, kept, i, g)]
                         /\ \A i \in 0..m : Placed(d.len, kept, cap, i, g[i])
           G == {m \in Nat : m <= Len(kept) => \E g : Good(m, g)}
<1>0. Len(kept) \in Nat
  BY LenProperties
<1>1. 0 \in G
  <2> DEFINE z == [Fresh(cap) EXCEPT !.len = d.len]
             g == [i \in 0..0 |-> z]
  <2>1. g = [i \in 0..0 |-> MoveStep(d, kept, i, g)]
    BY DEF MoveStep
  <2>2. SubSeq(kept, 1, 0) = <<>>
    BY SubSeqEmpty
  <2>3. /\ Sound(cap, Fresh(cap).indices, <<>>)
        /\ Fresh(cap) = [cap |-> cap, indices |-> Fresh(cap).indices, entries |-> <<>>, len |-> 0]
        /\ \A s \in 0..cap - 1 : Fresh(cap).indices[s] = EMPTY
    BY FreshLemma
  <2>4. z = [cap |-> cap, indices |-> Fresh(cap).indices, entries |-> <<>>, len |-> d.len]
    BY <2>3
  <2>5. Placed(d.len, kept, cap, 0, z)
    <3>1. z.indices = Fresh(cap).indices
      BY <2>4
    <3>2. \A s \in 0..cap - 1 : z.indices[s] # DUMMY
      BY <2>3, <3>1 DEF EMPTY, DUMMY
    <3>3. z = [cap |-> cap, indices |-> z.indices, entries |-> SubSeq(kept, 1, 0), len |-> d.len]
      BY <2>2, <2>4, <3>1
    <3> HIDE DEF z
    <3> QED BY <2>2, <2>3, <3>1, <3>2, <3>3 DEF Placed
  <2>6. \A i \in 0..0 : Placed(d.len, kept, cap, i, g[i])
    BY <2>5
  <2>7. Good(0, g)
    <3> HIDE DEF g
    <3> QED BY <2>1, <2>6
  <2> HIDE DEF g, Good
  <2> QED BY <2>7
<1>2. ASSUME NEW m \in 0..Len(kept) - 1, m \in G PROVE m + 1 \in G
  <2>1. m \in Nat /\ m \in 0..m /\ m <= Len(kept) /\ m + 1 \in Nat
    BY <1>0
  <2>2. PICK g : Good(m, g)
    BY <1>2, <2>1
  <2> DEFINE x == Place(g[m], kept[m + 1])
             h == [i \in 0..m + 1 |-> IF i = m + 1 THEN x ELSE g[i]]
  <2>3. Placed(d.len, kept, cap, m, g[m])
    BY <2>1, <2>2
  <2>4. Placed(d.len, kept, cap, m + 1, x)
    <3> HIDE DEF Good
    <3> QED BY <2>3, PlaceLemma
  <2> HIDE DEF x
  <2>5. h[m + 1] = x /\ \A i \in 0..m : h[i] = g[i]
    BY <2>1
  <2>6. MoveStep(d, kept, m + 1, h) = x
    BY <2>1, <2>5 DEF MoveStep, x
  <2>7. \A i \in 0..m : MoveStep(d, kept, i, h) = g[i]
    <3> SUFFICES ASSUME NEW i \in 0..m PROVE MoveStep(d, kept, i, h) = g[i]
      OBVIOUS
    <3>1. g[i] = MoveStep(d, kept, i, g)
      BY <2>2
    <3>2. i = 0 \/ (i - 1 \in 0..m /\ h[i - 1] = g[i - 1])
      BY <2>1, <2>5
    <3> QED BY <3>1, <3>2 DEF MoveStep
  <2>8. \A i \in 0..m + 1 : i = m + 1 \/ i \in 0..m
    BY <2>1
  <2>9. h = [i \in 0..m + 1 |-> MoveStep(d, kept, i, h)]
    <3>1. \A i \in 0..m + 1 : MoveStep(d, kept, i, h) = IF i = m + 1 THEN x ELSE g[i]
      BY <2>1, <2>6, <2>7, <2>8
    <3> QED BY <3>1
  <2>10. \A i \in 0..m + 1 : Placed(d.len, kept, cap, i, h[i])
    <3> HIDE DEF h
    <3> QED BY <2>2, <2>4, <2>5, <2>8
  <2>11. Good(m + 1, h)
    <3> HIDE DEF h
    <3> QED BY <2>9, <2>10
  <2> HIDE DEF h, Good
  <2> QED BY <2>1, <2>11
<1>3. 0..Len(kept) \subseteq G
  <2> HIDE DEF G
  <2> QED BY <1>0, <1>1, <1>2, UpTo
<1> HIDE DEF Good
<1>4. \E g : Good(n, g)
  BY <1>0, <1>3
<1> QED BY <1>4 DEF Good

(* The live entries of a sound table: each key once.                        *)
LEMMA LivingOnce ==
  ASSUME NEW es \in Seq(Entry), Once(es)
  PROVE  Living(es) \in Seq(LiveEntry) /\ Once(Living(es)) /\ Living(Living(es)) = Living(es)
         /\ Len(Living(es)) \in Nat
<1> DEFINE s == Living(es)
<1>1. s \in Seq(LiveEntry) /\ Len(s) \in Nat
  <2>1. Len(es) \in 0..Len(es)
    BY LenProperties
  <2> QED BY <2>1, RankType, LenProperties
<1>2. Once(s)
  <2> SUFFICES ASSUME NEW i \in 1..Len(s), NEW j \in 1..Len(s), Live(s[i]), s[i].key = s[j].key
               PROVE  i = j
    BY DEF Once
  <2>1. PICK p \in 1..Len(es) : Live(es[p]) /\ RankOf(es, p) = i /\ s[i] = es[p]
    BY RankOnto
  <2>2. PICK q \in 1..Len(es) : Live(es[q]) /\ RankOf(es, q) = j /\ s[j] = es[q]
    BY RankOnto
  <2>3. p = q
    BY <2>1, <2>2 DEF Once
  <2> QED BY <2>1, <2>2, <2>3
<1>3. Living(s) = s
  <2>1. s \in Seq(Entry) /\ \A i \in 1..Len(s) : Live(s[i])
    <3>1. LiveEntry \subseteq Entry
      BY DEF LiveEntry
    <3> HIDE DEF s
    <3> QED BY <1>1, <3>1, SeqMonotonic, ElementOfSeq DEF LiveEntry
  <2> HIDE DEF s
  <2> QED BY <2>1, AllLive
<1> QED BY <1>1, <1>2, <1>3

(* A rebuild keeps the live entries and their order, and makes room.        *)
LEMMA ResizeLemma ==
  ASSUME DictAssumption, NEW d, Table(d)
  PROVE  /\ Table(Resize(d)) /\ Resize(d).len = d.len
         /\ Resize(d).entries = Living(d.entries)
         /\ Living(Resize(d).entries) = Living(d.entries)
         /\ d.len < Resize(d).cap /\ Len(Resize(d).entries) = d.len /\ d.len \in Nat
<1> DEFINE kept == Living(d.entries)
           n == Len(kept)
           f == CHOOSE g : g = [i \in 0..n |-> MoveStep(d, kept, i, g)]
           cap == AtLeast(3 * d.len)
<1>1. kept \in Seq(LiveEntry) /\ Once(kept) /\ Living(kept) = kept /\ n \in Nat /\ d.len = n
  BY LivingOnce DEF Table, Sound
<1>2. cap \in Caps /\ cap >= 3 * n
  <2>1. 3 * d.len \in Nat
    BY <1>1
  <2> QED BY <1>1, <2>1, AtLeastLemma
<1>3. n < cap
  BY <1>1, <1>2 DEF Caps
<1> HIDE DEF kept, cap
<1>4. PICK g : /\ g = [i \in 0..n |-> MoveStep(d, kept, i, g)]
               /\ \A i \in 0..n : Placed(d.len, kept, cap, i, g[i])
  <2>1. n \in 0..Len(kept)
    BY <1>1
  <2>2. cap = AtLeast(3 * d.len)
    BY DEF cap
  <2> QED BY <1>1, <1>2, <1>3, <2>1, <2>2, MoveAll
<1>5. f = [i \in 0..n |-> MoveStep(d, kept, i, f)]
  BY <1>4
<1>6. \A i \in 0..n : f[i] = g[i]
  <2> HIDE DEF f
  <2> DEFINE G == {i \in Nat : i <= n => f[i] = g[i]}
  <2>1. 0 \in G
    BY <1>1, <1>4, <1>5 DEF MoveStep
  <2>2. ASSUME NEW i \in 0..n - 1, i \in G PROVE i + 1 \in G
    <3>1. i + 1 \in 0..n /\ i + 1 # 0 /\ (i + 1) - 1 = i /\ f[i] = g[i]
      BY <1>1, <2>2
    <3>2. f[i + 1] = MoveStep(d, kept, i + 1, f) /\ g[i + 1] = MoveStep(d, kept, i + 1, g)
      BY <1>4, <1>5, <3>1
    <3> QED BY <1>1, <3>1, <3>2 DEF MoveStep
  <2>3. 0..n \subseteq G
    <3> HIDE DEF G, n
    <3> QED BY <1>1, <2>1, <2>2, UpTo
  <2> QED BY <1>1, <2>3
<1>7. Resize(d) = f[n]
  BY DEF Resize, MoveStep, kept
<1>8. Placed(d.len, kept, cap, n, Resize(d))
  BY <1>1, <1>4, <1>6, <1>7
<1>9. SubSeq(kept, 1, n) = kept
  BY <1>1, SubSeqFull
<1>10. /\ Resize(d) = [cap |-> cap, indices |-> Resize(d).indices, entries |-> kept, len |-> d.len]
       /\ Sound(cap, Resize(d).indices, kept)
  BY <1>8, <1>9 DEF Placed
<1>11. Resize(d).cap = cap /\ Resize(d).entries = kept /\ Resize(d).len = d.len
  BY <1>10
<1>12. Table(Resize(d))
  BY <1>1, <1>10, <1>11 DEF Table
<1> QED BY <1>1, <1>3, <1>11, <1>12 DEF kept

LEMMA TableParts ==
  ASSUME NEW d, Table(d)
  PROVE  /\ d.cap \in Nat /\ d.cap >= 1 /\ PowerOf2(d.cap)
         /\ d.indices \in [0..d.cap - 1 -> Int] /\ DOMAIN d.indices = 0..d.cap - 1
         /\ d.entries \in Seq(Entry) /\ Len(d.entries) \in Nat /\ Len(d.entries) <= d.cap
         /\ Once(d.entries) /\ d.len \in Nat /\ d.len = Len(Living(d.entries))
         /\ Living(d.entries) \in Seq(LiveEntry) /\ Once(Living(d.entries))
BY LivingOnce, LenProperties DEF Table, Sound, Caps

LEMMA MakeRoomLemma ==
  ASSUME DictAssumption, NEW d, Table(d)
  PROVE  /\ Table(MakeRoom(d)) /\ MakeRoom(d).len = d.len
         /\ Living(MakeRoom(d).entries) = Living(d.entries)
         /\ d.len < MakeRoom(d).cap
         /\ MakeRoom(d) = d \/ MakeRoom(d).entries = Living(d.entries)
<1>1. CASE d.len * 3 >= d.cap * 2
  BY <1>1, ResizeLemma DEF MakeRoom
<1>2. CASE ~(d.len * 3 >= d.cap * 2)
  <2>1. d.len < d.cap
    BY <1>2, TableParts
  <2> QED BY <1>2, <2>1 DEF MakeRoom
<1> QED BY <1>1, <1>2

(* An entry deleted, and its index buried.                                  *)
Unindexed(ix, t) == [ix EXCEPT ![t] = DUMMY]
Erased(es, i) == [es EXCEPT ![i] = Deleted]

LEMMA DeleteLemma ==
  ASSUME DictAssumption, NEW c, NEW ix, NEW es, Sound(c, ix, es),
         NEW i \in 1..Len(es), Live(es[i]), NEW t \in 0..c - 1, ix[t] = i - 1
  PROVE  /\ Sound(c, Unindexed(ix, t), Erased(es, i)) /\ Len(Erased(es, i)) = Len(es)
         /\ Living(Erased(es, i)) = RemoveAt(Living(es), RankOf(es, i))
<1> DEFINE n == Len(es)
           iy == Unindexed(ix, t)
           fs == Erased(es, i)
<1>1. /\ c \in Caps /\ c \in Nat \ {0} /\ ix \in [0..c - 1 -> Int] /\ DOMAIN ix = 0..c - 1
      /\ es \in Seq(Entry) /\ n \in Nat /\ n <= c /\ Once(es)
      /\ \A s \in 0..c - 1 : \/ ix[s] \in {EMPTY, DUMMY}
                             \/ ix[s] \in 0..n - 1 /\ Live(es[ix[s] + 1])
      /\ \A s, u \in 0..c - 1 : ix[s] >= 0 /\ ix[s] = ix[u] => s = u
      /\ \A j \in 1..n : Live(es[j]) => Reaches(c, ix, es[j].key, j - 1)
      /\ Cardinality(Used(ix)) = Len(Living(es))
  BY LenProperties DEF Sound, Caps
<1>2. Deleted \in Entry /\ ~Live(Deleted)
  BY DEF Deleted, Entry, Live
<1>3. /\ fs \in Seq(Entry) /\ Len(fs) = n
      /\ \A j \in 1..n : fs[j] = IF j = i THEN Deleted ELSE es[j]
  BY <1>1, <1>2, ExceptSeq DEF Erased
<1>4. /\ iy \in [0..c - 1 -> Int] /\ DOMAIN iy = 0..c - 1 /\ iy[t] = DUMMY
      /\ \A s \in 0..c - 1 : s # t => iy[s] = ix[s]
  BY <1>1 DEF DUMMY, Unindexed
<1> HIDE DEF iy, fs
<1>5. Living(fs) = RemoveAt(Living(es), RankOf(es, i))
  <2>1. ~Live(fs[i]) /\ \A j \in 1..n : j # i => fs[j] = es[j]
    BY <1>2, <1>3
  <2> QED BY <1>1, <1>3, <2>1, LivingDeleted
<1>6. Len(Living(fs)) = Len(Living(es)) - 1
  <2>1. Living(es) \in Seq(LiveEntry)
    BY <1>1, LivingOnce
  <2>2. RankOf(es, i) \in 1..Len(Living(es))
    BY <1>1, Rank
  <2> QED BY <1>5, <2>1, <2>2, RemoveAtLemma
<1>7. i \in Nat /\ i - 1 >= 0 /\ ix[t] >= 0
  BY <1>1
<1>8. ASSUME NEW s \in 0..c - 1
      PROVE  \/ iy[s] \in {EMPTY, DUMMY}
             \/ iy[s] \in 0..Len(fs) - 1 /\ Live(fs[iy[s] + 1])
  <2>1. CASE s = t
    BY <1>4, <2>1
  <2>2. CASE s # t /\ ix[s] \notin {EMPTY, DUMMY}
    <3>1. iy[s] = ix[s] /\ ix[s] \in 0..n - 1 /\ Live(es[ix[s] + 1]) /\ ix[s] # i - 1
      BY <1>1, <1>4, <1>7, <2>2
    <3> DEFINE j == ix[s]
    <3>2. j + 1 \in 1..n /\ j + 1 # i
      <4>1. j \in 0..n - 1 /\ j # i - 1
        BY <3>1
      <4> HIDE DEF j
      <4> QED BY <1>1, <1>7, <4>1
    <3>3. fs[j + 1] = es[j + 1]
      BY <1>3, <3>2
    <3> QED BY <1>3, <3>1, <3>3
  <2>3. CASE s # t /\ ix[s] \in {EMPTY, DUMMY}
    BY <1>4, <2>3
  <2> QED BY <2>1, <2>2, <2>3
<1>9. ASSUME NEW s \in 0..c - 1, NEW u \in 0..c - 1, iy[s] >= 0, iy[s] = iy[u]
      PROVE  s = u
  <2>1. s # t /\ u # t
    BY <1>4, <1>9 DEF DUMMY
  <2> QED BY <1>1, <1>4, <1>9, <2>1
<1>10. \A s \in 0..c - 1 : ix[s] # EMPTY => iy[s] # EMPTY
  BY <1>4 DEF EMPTY, DUMMY
<1>11. ASSUME NEW j \in 1..Len(fs), Live(fs[j]) PROVE Reaches(c, iy, fs[j].key, j - 1)
  <2>1. j # i /\ fs[j] = es[j] /\ Live(es[j]) /\ j \in 1..n
    BY <1>2, <1>3, <1>11
  <2>2. es[j].key \in Keys
    BY <1>1, <2>1, EntryKeys
  <2>3. PICK p \in 0..c - 1 : /\ ix[Slot(c, es[j].key, p)] = j - 1
                              /\ Unbroken(c, ix, es[j].key, p)
    BY <1>1, <2>1 DEF Reaches
  <2>4. ASSUME NEW h \in 0..p PROVE Slot(c, es[j].key, h) \in 0..c - 1
    <3>1. h \in Nat
      BY <1>1
    <3> QED BY <1>1, <2>2, <3>1, SlotType
  <2>5. p \in 0..p /\ \A h \in 0..p - 1 : h \in 0..p
    BY <1>1
  <2>6. iy[Slot(c, es[j].key, p)] = j - 1
    <3>1. Slot(c, es[j].key, p) # t
      <4>1. j \in Nat /\ j - 1 # i - 1
        BY <1>1, <1>7, <2>1
      <4> QED BY <2>3, <4>1
    <3> QED BY <1>4, <2>3, <2>4, <2>5, <3>1
  <2>7. Unbroken(c, iy, es[j].key, p)
    BY <1>10, <2>3, <2>4, <2>5 DEF Unbroken
  <2> QED BY <2>1, <2>6, <2>7 DEF Reaches
<1>12. Once(fs)
  <2> SUFFICES ASSUME NEW j \in 1..n, NEW m \in 1..n, Live(fs[j]), fs[j].key = fs[m].key
               PROVE  j = m
    BY <1>3 DEF Once
  <2>1. fs[j] = es[j] /\ fs[m] = es[m]
    BY <1>2, <1>3 DEF Live
  <2> QED BY <1>1, <2>1 DEF Once
<1>13. Cardinality(Used(iy)) = Len(Living(fs))
  <2>1. Used(iy) = Used(ix) \ {t} /\ t \in Used(ix)
    <3>1. Used(iy) = {s \in 0..c - 1 : iy[s] >= 0} /\ Used(ix) = {s \in 0..c - 1 : ix[s] >= 0}
      BY <1>1, <1>4 DEF Used
    <3>2. ~(iy[t] >= 0)
      BY <1>4 DEF DUMMY
    <3> QED BY <1>4, <1>7, <3>1, <3>2
  <2>2. IsFiniteSet(Used(ix))
    <3>1. Used(ix) \in SUBSET (0..c - 1)
      BY <1>1 DEF Used
    <3>2. c - 1 \in Int
      BY <1>1
    <3>3. IsFiniteSet(0..c - 1)
      BY <3>2, FS_Interval
    <3> QED BY <3>1, <3>3, FS_Subset
  <2>3. Cardinality(Used(iy)) = Cardinality(Used(ix)) - 1
    BY <2>1, <2>2, FS_RemoveElement
  <2> QED BY <1>1, <1>6, <2>3
<1>14. Sound(c, iy, fs)
  BY <1>1, <1>3, <1>4, <1>8, <1>9, <1>11, <1>12, <1>13 DEF Sound
<1> QED BY <1>3, <1>5, <1>14 DEF iy, fs

(* Entries that are not live dropped from the end.                          *)
LEMMA TrimLemma ==
  ASSUME DictAssumption, NEW c, NEW ix, NEW es, Sound(c, ix, es),
         NEW m \in 0..Len(es), \A j \in m + 1..Len(es) : ~Live(es[j])
  PROVE  Sound(c, ix, SubSeq(es, 1, m)) /\ Living(SubSeq(es, 1, m)) = Living(es)
<1> DEFINE fs == SubSeq(es, 1, m)
           n == Len(es)
<1>1. /\ c \in Caps /\ c \in Nat \ {0} /\ ix \in [0..c - 1 -> Int]
      /\ es \in Seq(Entry) /\ n \in Nat /\ n <= c /\ Once(es) /\ m \in Nat /\ m <= n
      /\ \A s \in 0..c - 1 : \/ ix[s] \in {EMPTY, DUMMY}
                             \/ ix[s] \in 0..n - 1 /\ Live(es[ix[s] + 1])
      /\ \A s, u \in 0..c - 1 : ix[s] >= 0 /\ ix[s] = ix[u] => s = u
      /\ \A j \in 1..n : Live(es[j]) => Reaches(c, ix, es[j].key, j - 1)
      /\ Cardinality(Used(ix)) = Len(Living(es))
  BY LenProperties DEF Sound, Caps
<1>2. /\ fs \in Seq(Entry) /\ Len(fs) = m /\ \A j \in 1..m : fs[j] = es[j]
  <2>1. \A j \in 1..m : es[j] \in Entry
    BY <1>1, ElementOfSeq
  <2>2. /\ fs \in Seq(Entry) /\ Len(fs) = IF 1 <= m THEN m - 1 + 1 ELSE 0
        /\ \A j \in 1..m - 1 + 1 : fs[j] = es[1 + j - 1]
    BY <1>1, <2>1, SubSeqProperties
  <2> QED BY <1>1, <2>2
<1>3. Living(fs) = Living(es)
  <2>1. n \in m..Len(es)
    BY <1>1
  <2>2. Upto(es, n) = Upto(es, m)
    BY <1>1, <2>1, Skip
  <2>3. Upto(es, n) = Living(es)
    BY <1>1, UptoLemma
  <2> QED BY <2>2, <2>3 DEF Upto
<1>4. ASSUME NEW j \in 1..n, Live(es[j]) PROVE j \in 1..m
  BY <1>1, <1>4
<1> HIDE DEF fs
<1>5. ASSUME NEW s \in 0..c - 1
      PROVE  \/ ix[s] \in {EMPTY, DUMMY}
             \/ ix[s] \in 0..Len(fs) - 1 /\ Live(fs[ix[s] + 1])
  <2> SUFFICES ASSUME ix[s] \notin {EMPTY, DUMMY}
               PROVE  ix[s] \in 0..Len(fs) - 1 /\ Live(fs[ix[s] + 1])
    OBVIOUS
  <2> DEFINE j == ix[s]
  <2>1. j \in 0..n - 1 /\ Live(es[j + 1])
    BY <1>1
  <2> HIDE DEF j
  <2>2. j + 1 \in 1..m
    <3>1. j + 1 \in 1..n
      BY <1>1, <2>1
    <3> QED BY <1>4, <2>1, <3>1
  <2>3. j \in 0..m - 1
    BY <1>1, <2>1, <2>2
  <2> QED BY <1>2, <2>1, <2>2, <2>3 DEF j
<1>6. \A j \in 1..Len(fs) : Live(fs[j]) => Reaches(c, ix, fs[j].key, j - 1)
  <2>1. \A j \in 1..m : j \in 1..n
    BY <1>1
  <2> QED BY <1>1, <1>2, <2>1
<1>7. Once(fs)
  <2>1. \A j \in 1..m : j \in 1..n
    BY <1>1
  <2> QED BY <1>1, <1>2, <2>1 DEF Once
<1>8. Sound(c, ix, fs)
  <2>1. Len(fs) <= c
    BY <1>1, <1>2
  <2> QED BY <1>1, <1>2, <1>3, <1>5, <1>6, <1>7, <2>1 DEF Sound
<1> QED BY <1>3, <1>8 DEF fs

(* A value overwritten.                                                     *)
Overwrite(d, i, v) == [d EXCEPT !.entries[i].value = v]

LEMMA OverwriteLemma ==
  ASSUME DictAssumption, NEW d, Table(d), NEW k \in Keys, NEW v \in Values,
         NEW i \in 1..Len(d.entries), d.entries[i].key = k,
         NEW r, r = Overwrite(d, i, v)
  PROVE  /\ Table(r) /\ Len(r.entries) = Len(d.entries)
         /\ \A j \in 1..Len(d.entries) :
              r.entries[j] = IF d.entries[j].key = k THEN [key |-> k, value |-> v]
                             ELSE d.entries[j]
         /\ Len(Living(r.entries)) = Len(Living(d.entries))
         /\ \A p \in 1..Len(Living(d.entries)) :
              Living(r.entries)[p]
                = IF Living(d.entries)[p].key = k THEN [key |-> k, value |-> v]
                  ELSE Living(d.entries)[p]
<1> DEFINE es == d.entries
           n == Len(es)
           e == [key |-> k, value |-> v]
           fs == [es EXCEPT ![i] = e]
           c == d.cap
           ix == d.indices
<1>1. /\ c \in Caps /\ c \in Nat \ {0} /\ ix \in [0..c - 1 -> Int]
      /\ es \in Seq(Entry) /\ n \in Nat /\ n <= c /\ Once(es)
      /\ \A s \in 0..c - 1 : \/ ix[s] \in {EMPTY, DUMMY}
                             \/ ix[s] \in 0..n - 1 /\ Live(es[ix[s] + 1])
      /\ \A s, u \in 0..c - 1 : ix[s] >= 0 /\ ix[s] = ix[u] => s = u
      /\ \A j \in 1..n : Live(es[j]) => Reaches(c, ix, es[j].key, j - 1)
      /\ Cardinality(Used(ix)) = Len(Living(es))
  BY LenProperties DEF Table, Sound, Caps
<1>2. es[i] \in Entry /\ Live(es[i]) /\ e \in Entry /\ Live(e)
  BY <1>1, EntryKeys DEF Entry, Live, DictAssumption
<1>3. [es[i] EXCEPT !.value = v] = e
  <2>1. es[i] = [key |-> es[i].key, value |-> es[i].value]
    BY <1>2 DEF Entry
  <2> QED BY <2>1
<1>4. r = [cap |-> c, indices |-> ix, entries |-> fs, len |-> d.len]
  <2>1. d = [cap |-> d.cap, indices |-> d.indices, entries |-> d.entries, len |-> d.len]
    BY DEF Table
  <2>2. r = [d EXCEPT !.entries = [es EXCEPT ![i] = [es[i] EXCEPT !.value = v]]]
    BY DEF Overwrite
  <2>3. r = [d EXCEPT !.entries = fs]
    BY <1>3, <2>2
  <2> HIDE DEF fs
  <2> QED BY <2>1, <2>3
<1>5. /\ fs \in Seq(Entry) /\ Len(fs) = n
      /\ \A j \in 1..n : fs[j] = IF j = i THEN e ELSE es[j]
  BY <1>1, <1>2, ExceptSeq
<1>6. \A j \in 1..n : es[j].key = k <=> j = i
  BY <1>1, <1>2 DEF Once
<1> HIDE DEF fs
<1>7. \A j \in 1..n : fs[j] = IF es[j].key = k THEN e ELSE es[j]
  BY <1>5, <1>6
<1>8. \A j \in 1..n : (Live(fs[j]) <=> Live(es[j])) /\ fs[j].key = es[j].key
  BY <1>2, <1>5
<1>9. /\ Len(Living(fs)) = Len(Living(es))
      /\ \A p \in 1..Len(Living(es)) : \E j \in 1..n :
           Live(es[j]) /\ Living(es)[p] = es[j] /\ Living(fs)[p] = fs[j]
  BY <1>1, <1>5, <1>8, LivingReplaced
<1>10. \A p \in 1..Len(Living(es)) :
         Living(fs)[p] = IF Living(es)[p].key = k THEN e ELSE Living(es)[p]
  BY <1>7, <1>9
<1>11. Once(fs)
  BY <1>1, <1>5, <1>8 DEF Once
<1>12. \A s \in 0..c - 1 : \/ ix[s] \in {EMPTY, DUMMY}
                           \/ ix[s] \in 0..Len(fs) - 1 /\ Live(fs[ix[s] + 1])
  <2> SUFFICES ASSUME NEW s \in 0..c - 1, ix[s] \notin {EMPTY, DUMMY}
               PROVE  ix[s] \in 0..Len(fs) - 1 /\ Live(fs[ix[s] + 1])
    OBVIOUS
  <2> DEFINE j == ix[s]
  <2>1. j \in 0..n - 1 /\ Live(es[j + 1])
    BY <1>1
  <2> HIDE DEF j
  <2>2. j + 1 \in 1..n
    BY <1>1, <2>1
  <2> QED BY <1>5, <1>8, <2>1, <2>2 DEF j
<1>13. Sound(c, ix, fs)
  BY <1>1, <1>5, <1>8, <1>9, <1>11, <1>12 DEF Sound
<1>14. r.cap = c /\ r.indices = ix /\ r.entries = fs /\ r.len = d.len
  BY <1>4
<1>15. Table(r)
  BY <1>4, <1>9, <1>13, <1>14 DEF Table
<1> QED BY <1>5, <1>7, <1>9, <1>10, <1>14, <1>15

Item(k, v) == [key |-> k, value |-> v]
HasKey(s, k) == \E i \in 1..Len(s) : s[i].key = k

(* A key is in an entry exactly when it is in a live one.                   *)
LEMMA KeysLive ==
  ASSUME DictAssumption, NEW es \in Seq(Entry), NEW k \in Keys
  PROVE  HasKey(Living(es), k) <=> HasKey(es, k)
<1>1. ASSUME NEW i \in 1..Len(es), es[i].key = k PROVE HasKey(Living(es), k)
  <2>1. Live(es[i])
    BY <1>1, EntryKeys
  <2>2. RankOf(es, i) \in 1..Len(Living(es)) /\ Living(es)[RankOf(es, i)] = es[i]
    BY <2>1, Rank
  <2> QED BY <1>1, <2>2 DEF HasKey
<1>2. ASSUME NEW p \in 1..Len(Living(es)), Living(es)[p].key = k PROVE HasKey(es, k)
  <2>1. PICK i \in 1..Len(es) : Live(es[i]) /\ RankOf(es, i) = p /\ Living(es)[p] = es[i]
    BY RankOnto
  <2> QED BY <1>2, <2>1 DEF HasKey
<1> QED BY <1>1, <1>2 DEF HasKey

(* rt_dict_set: the entry of the key overwritten, or one appended.          *)
Overwritten(s, t, k, v) ==
  /\ Len(t) = Len(s)
  /\ \A i \in 1..Len(s) : t[i] = IF s[i].key = k THEN Item(k, v) ELSE s[i]

LEMMA AddEntryLemma ==
  ASSUME DictAssumption, NEW d, Table(d), NEW k \in Keys, NEW v \in Values,
         ~HasKey(d.entries, k), d.len < d.cap, Len(d.entries) < d.cap
  PROVE  /\ Table(AddEntry(d, k, v))
         /\ Living(AddEntry(d, k, v).entries) = Append(Living(d.entries), Item(k, v))
<1> DEFINE e == Item(k, v)
           t == InsertSlot(d, k)
           r == AddEntry(d, k, v)
<1>1. e \in Entry /\ Live(e) /\ e.key = k
  BY DEF Entry, Live, Item, DictAssumption
<1>2. \A i \in 1..Len(d.entries) : d.entries[i].key # k
  BY DEF HasKey
<1>3. Free(d, k, t)
  BY <1>2, InsertLemma
<1> HIDE DEF t, e
<1>4. /\ Sound(d.cap, [d.indices EXCEPT ![t] = Len(d.entries)], Append(d.entries, e))
      /\ Living(Append(d.entries, e)) = Append(Living(d.entries), e)
      /\ Len(Living(Append(d.entries, e))) = Len(Living(d.entries)) + 1
  BY <1>1, <1>2, <1>3, PutLemma DEF Table
<1>5. r = [cap |-> d.cap, indices |-> [d.indices EXCEPT ![t] = Len(d.entries)],
           entries |-> Append(d.entries, e), len |-> d.len + 1]
  BY DEF AddEntry, t, e, Item
<1>6. d.len = Len(Living(d.entries))
  BY DEF Table
<1>7. /\ r.cap = d.cap /\ r.indices = [d.indices EXCEPT ![t] = Len(d.entries)]
      /\ r.entries = Append(d.entries, e) /\ r.len = d.len + 1
  BY <1>5
<1> HIDE DEF r
<1>8. Table(r)
  BY <1>4, <1>5, <1>6, <1>7 DEF Table
<1> QED BY <1>4, <1>7, <1>8 DEF r, e

LEMMA AssignLemma ==
  ASSUME DictAssumption, NEW d, Table(d), NEW k \in Keys, NEW v \in Values,
         NEW r, r = Set(d, k, v)
  PROVE  /\ Table(r)
         /\ ~HasKey(Living(d.entries), k) =>
              Living(r.entries) = Append(Living(d.entries), Item(k, v))
         /\ HasKey(Living(d.entries), k) =>
              /\ Overwritten(Living(d.entries), Living(r.entries), k, v)
              /\ Overwritten(MakeRoom(d).entries, r.entries, k, v)
<1> DEFINE m == MakeRoom(d)
           j == LookupEntry(m, k)
<1>1. /\ Table(m) /\ m.len = d.len /\ Living(m.entries) = Living(d.entries)
      /\ d.len < m.cap
  BY MakeRoomLemma
<1> HIDE DEF m
<1>2. /\ m.entries \in Seq(Entry) /\ Len(m.entries) \in Nat /\ Len(m.entries) <= m.cap
      /\ d.entries \in Seq(Entry) /\ m.cap \in Nat /\ m.len \in Nat
  BY <1>1, TableParts
<1>3. r = CASE j >= 0 -> [m EXCEPT !.entries[j + 1].value = v]
            [] j < 0 /\ Len(m.entries) < m.cap -> AddEntry(m, k, v)
            [] OTHER -> AddEntry(Resize(m), k, v)
  BY DEF Set, m
<1>4. HasKey(m.entries, k) <=> HasKey(Living(d.entries), k)
  BY <1>1, <1>2, KeysLive
<1>5. CASE HasKey(m.entries, k)
  <2>1. PICK i \in 1..Len(m.entries) : m.entries[i].key = k
    BY <1>5 DEF HasKey
  <2>2. j = i - 1 /\ j >= 0 /\ j + 1 = i
    <3>1. j = i - 1
      BY <1>1, <2>1, LookupLemma
    <3> QED BY <1>2, <3>1
  <2>3. r = Overwrite(m, i, v)
    BY <1>3, <2>2 DEF Overwrite
  <2>4. /\ Table(r) /\ Len(r.entries) = Len(m.entries)
        /\ \A h \in 1..Len(m.entries) :
             r.entries[h] = IF m.entries[h].key = k THEN [key |-> k, value |-> v]
                            ELSE m.entries[h]
        /\ Len(Living(r.entries)) = Len(Living(m.entries))
        /\ \A p \in 1..Len(Living(m.entries)) :
             Living(r.entries)[p]
               = IF Living(m.entries)[p].key = k THEN [key |-> k, value |-> v]
                 ELSE Living(m.entries)[p]
    BY <1>1, <2>1, <2>3, OverwriteLemma
  <2> QED BY <1>1, <1>4, <1>5, <2>4 DEF Overwritten, Item, m
<1>6. CASE ~HasKey(m.entries, k)
  <2>1. j = -1
    BY <1>1, <1>6, LookupLemma DEF HasKey
  <2>2. ASSUME NEW q, Table(q), q.len = d.len, Living(q.entries) = Living(d.entries),
               d.len < q.cap, Len(q.entries) < q.cap, r = AddEntry(q, k, v)
        PROVE  Table(r) /\ Living(r.entries) = Append(Living(d.entries), Item(k, v))
    <3>1. q.entries \in Seq(Entry)
      BY <2>2, TableParts
    <3>2. ~HasKey(q.entries, k)
      BY <1>4, <1>6, <2>2, <3>1, KeysLive
    <3> QED BY <2>2, <3>2, AddEntryLemma
  <2>3. CASE Len(m.entries) < m.cap
    <3>1. r = AddEntry(m, k, v)
      BY <1>3, <2>1, <2>3
    <3> QED BY <1>1, <1>4, <1>6, <2>2, <2>3, <3>1
  <2>4. CASE ~(Len(m.entries) < m.cap)
    <3>1. r = AddEntry(Resize(m), k, v)
      BY <1>3, <2>1, <2>4
    <3>2. /\ Table(Resize(m)) /\ Resize(m).len = m.len
          /\ Living(Resize(m).entries) = Living(m.entries)
          /\ m.len < Resize(m).cap /\ Len(Resize(m).entries) = m.len
      BY <1>1, ResizeLemma
    <3> QED BY <1>1, <1>4, <1>6, <2>2, <3>1, <3>2
  <2> QED BY <2>3, <2>4
<1> QED BY <1>5, <1>6

(* rt_dict_pop and rt_dict_delete.                                          *)
LEMMA RemovedLemma ==
  ASSUME DictAssumption, NEW d, Table(d), NEW k \in Keys,
         NEW i \in 1..Len(d.entries), d.entries[i].key = k
  PROVE  /\ Table(Removed(d, k)) /\ Len(Removed(d, k).entries) = Len(d.entries)
         /\ Living(Removed(d, k).entries) = RemoveAt(Living(d.entries), RankOf(d.entries, i))
<1> DEFINE r == Removed(d, k)
           t == Slot(d.cap, k, End(d, k))
<1>1. LookupEntry(d, k) = i - 1 /\ End(d, k) \in 0..d.cap - 1 /\ At(d, k, End(d, k)) = i - 1
  BY LookupLemma
<1>2. d.cap \in Nat \ {0} /\ d.entries \in Seq(Entry) /\ Len(d.entries) \in Nat /\ i \in Nat
      /\ d.len = Len(Living(d.entries)) /\ Living(d.entries) \in Seq(LiveEntry)
  BY TableParts
<1>3. t \in 0..d.cap - 1 /\ d.indices[t] = i - 1
  <2>1. End(d, k) \in Nat
    BY <1>1, <1>2
  <2> QED BY <1>1, <1>2, <2>1, SlotType DEF At
<1>4. Live(d.entries[i])
  BY <1>2, EntryKeys
<1> HIDE DEF t
<1>5. r = [cap |-> d.cap, indices |-> Unindexed(d.indices, t),
           entries |-> Erased(d.entries, i), len |-> d.len - 1]
  <2>1. LookupEntry(d, k) + 1 = i
    BY <1>1, <1>2
  <2> QED BY <2>1 DEF Removed, t, Unindexed, Erased
<1>6. /\ r.cap = d.cap /\ r.indices = Unindexed(d.indices, t)
      /\ r.entries = Erased(d.entries, i) /\ r.len = d.len - 1
  BY <1>5
<1> HIDE DEF r
<1>7. /\ Sound(r.cap, r.indices, r.entries) /\ Len(r.entries) = Len(d.entries)
      /\ Living(r.entries) = RemoveAt(Living(d.entries), RankOf(d.entries, i))
  BY <1>3, <1>4, <1>6, DeleteLemma DEF Table
<1>8. RankOf(d.entries, i) \in 1..Len(Living(d.entries))
  BY <1>2, <1>4, Rank
<1>9. Len(Living(r.entries)) = d.len - 1
  BY <1>2, <1>7, <1>8, RemoveAtLemma
<1>10. Table(r)
  BY <1>5, <1>6, <1>7, <1>9 DEF Table
<1> QED BY <1>7, <1>10 DEF r

(* The last live entry.                                                     *)
LEMMA LastLiveLemma ==
  ASSUME NEW es \in Seq(Entry)
  PROVE  /\ LastLive(es) \in 0..Len(es)
         /\ LastLive(es) # 0 => Live(es[LastLive(es)])
         /\ \A i \in 1..Len(es) : Live(es[i]) => i <= LastLive(es)
<1> DEFINE S == {i \in DOMAIN es : Live(es[i])} \cup {0}
           n == Len(es)
           T == {n - i : i \in S}
<1>1. n \in Nat /\ DOMAIN es = 1..n /\ S \subseteq 0..n /\ 0 \in S
  BY LenProperties
<1>2. T \subseteq Nat /\ T # {}
  BY <1>1
<1>3. PICK x \in T : \A y \in T : x <= y
  <2> HIDE DEF T
  <2> QED BY <1>2, NatMin
<1>4. PICK i \in S : x = n - i
  BY <1>3
<1>5. \A j \in S : i >= j
  <2> SUFFICES ASSUME NEW j \in S PROVE i >= j
    OBVIOUS
  <2>1. x <= n - j
    BY <1>3
  <2>2. i \in 0..n /\ j \in 0..n
    BY <1>1
  <2> HIDE DEF S
  <2> QED BY <1>1, <1>4, <2>1, <2>2
<1>6. LastLive(es) \in S /\ \A j \in S : LastLive(es) >= j
  <2>1. LastLive(es) = Max(S)
    BY DEF LastLive
  <2> HIDE DEF S
  <2> QED BY <1>5, <2>1 DEF Max
<1>7. \A j \in 1..n : Live(es[j]) => j <= LastLive(es)
  <2>1. LastLive(es) \in 0..n
    BY <1>1, <1>6
  <2> QED BY <1>1, <1>6, <2>1
<1> QED BY <1>1, <1>6, <1>7

LEMMA PopLastLemma ==
  ASSUME DictAssumption, NEW d, Table(d), d.len > 0
  PROVE  /\ Table(PopLast(d)) /\ Len(PopLast(d).entries) <= Len(d.entries)
         /\ Living(d.entries) # <<>>
         /\ Living(PopLast(d).entries) = RemoveAt(Living(d.entries), Len(Living(d.entries)))
<1> DEFINE es == d.entries
           c == d.cap
           ix == d.indices
           last == LastLive(es)
           k == es[last].key
           S == {p \in Probes(d) : At(d, k, p) \in {last - 1, EMPTY}}
           i == Min(S)
           t == Slot(c, k, i)
           r == PopLast(d)
<1>1. /\ c \in Nat \ {0} /\ es \in Seq(Entry) /\ Len(es) \in Nat /\ d.len \in Nat
      /\ d.len = Len(Living(es)) /\ Living(es) \in Seq(LiveEntry) /\ ix \in [0..c - 1 -> Int]
  BY TableParts
<1>2. /\ last \in 0..Len(es) /\ (last # 0 => Live(es[last]))
      /\ \A j \in 1..Len(es) : Live(es[j]) => j <= last
  BY <1>1, LastLiveLemma
<1>3. last \in 1..Len(es) /\ Live(es[last]) /\ k \in Keys /\ last \in Nat
  <2>1. 1 \in 1..Len(Living(es))
    BY <1>1
  <2>2. PICK j \in 1..Len(es) : Live(es[j])
    BY <1>1, <2>1, RankOnto
  <2>3. last \in 1..Len(es) /\ last # 0
    BY <1>1, <1>2, <2>2
  <2> QED BY <1>1, <1>2, <2>3, EntryKeys
<1>4. RankOf(es, last) = Len(Living(es))
  <2>1. last \in 0..Len(es) /\ Len(es) \in last..Len(es) /\ \A j \in last + 1..Len(es) : ~Live(es[j])
    BY <1>1, <1>2
  <2>2. Upto(es, Len(es)) = Upto(es, last)
    <3> HIDE DEF last
    <3> QED BY <1>1, <2>1, Skip
  <2> QED BY <1>1, <2>2, UptoLemma DEF RankOf
<1> HIDE DEF last
<1>5. PICK p \in 0..c - 1 : ix[Slot(c, k, p)] = last - 1 /\ Unbroken(c, ix, k, p)
  BY <1>3 DEF Table, Sound, Reaches
<1>6. i \in S /\ \A y \in S : i <= y
  <2>1. p \in S /\ S \subseteq Nat
    BY <1>1, <1>5 DEF Probes, At
  <2>2. PICK m \in S : \A y \in S : m <= y
    <3> HIDE DEF S
    <3> QED BY <2>1, NatMin
  <2> HIDE DEF S
  <2> QED BY <2>2 DEF Min
<1>7. i \in 0..c - 1 /\ At(d, k, i) \in {last - 1, EMPTY} /\ i <= p
  <2>1. p \in S
    BY <1>1, <1>5 DEF Probes, At
  <2> QED BY <1>6, <2>1 DEF Probes
<1> HIDE DEF S, i
<1>8. At(d, k, i) = last - 1 /\ At(d, k, i) # EMPTY
  <2>1. last - 1 # EMPTY
    BY <1>3 DEF EMPTY
  <2>2. CASE i = p
    BY <1>5, <2>1, <2>2 DEF At
  <2>3. CASE i < p
    <3>1. i \in 0..p - 1
      BY <1>7, <2>3
    <3>2. At(d, k, i) # EMPTY
      BY <1>5, <3>1 DEF At, Unbroken
    <3> QED BY <1>7, <3>2
  <2> QED BY <1>7, <2>2, <2>3
<1>9. t \in 0..c - 1 /\ ix[t] = last - 1
  <2>1. i \in Nat
    BY <1>7
  <2> HIDE DEF k
  <2> QED BY <1>1, <1>3, <1>8, <2>1, SlotType DEF At
<1> DEFINE fs == Erased(es, last)
           iy == Unindexed(ix, t)
           m == LastLive(fs)
<1>10. r = [cap |-> c, indices |-> iy, entries |-> SubSeq(fs, 1, m), len |-> d.len - 1]
  <2>1. ~(At(d, k, i) = EMPTY)
    BY <1>8
  <2> QED BY <2>1 DEF PopLast, last, i, S, Erased, Unindexed
<1> HIDE DEF t
<1>11. /\ Sound(c, iy, fs) /\ Len(fs) = Len(es)
       /\ Living(fs) = RemoveAt(Living(es), RankOf(es, last))
  BY <1>3, <1>9, DeleteLemma DEF Table
<1> HIDE DEF fs, iy
<1>12. fs \in Seq(Entry)
  BY <1>11 DEF Sound
<1>13. m \in 0..Len(fs) /\ \A j \in 1..Len(fs) : Live(fs[j]) => j <= m
  BY <1>12, LastLiveLemma
<1>14. \A j \in m + 1..Len(fs) : ~Live(fs[j])
  <2> SUFFICES ASSUME NEW j \in m + 1..Len(fs), Live(fs[j]) PROVE FALSE
    OBVIOUS
  <2>1. j \in 1..Len(fs) /\ ~(j <= m)
    BY <1>1, <1>11, <1>13
  <2> QED BY <1>13, <2>1
<1> HIDE DEF m
<1>15. Sound(c, iy, SubSeq(fs, 1, m)) /\ Living(SubSeq(fs, 1, m)) = Living(fs)
  BY <1>11, <1>13, <1>14, TrimLemma
<1> HIDE DEF r
<1>16. /\ r.cap = c /\ r.indices = iy /\ r.entries = SubSeq(fs, 1, m) /\ r.len = d.len - 1
  BY <1>10
<1>17. Living(r.entries) = RemoveAt(Living(es), Len(Living(es)))
  BY <1>4, <1>11, <1>15, <1>16
<1>18. Len(Living(r.entries)) = d.len - 1
  <2>1. Len(Living(es)) \in 1..Len(Living(es))
    BY <1>1
  <2> QED BY <1>1, <1>17, <2>1, RemoveAtLemma
<1>19. Len(SubSeq(fs, 1, m)) <= Len(es)
  <2>1. \A j \in 1..m : fs[j] \in Entry
    BY <1>1, <1>11, <1>12, <1>13, ElementOfSeq
  <2>2. Len(SubSeq(fs, 1, m)) = IF 1 <= m THEN m - 1 + 1 ELSE 0
    BY <1>13, <2>1, SubSeqProperties
  <2> QED BY <1>1, <1>11, <1>13, <2>2
<1>20. Table(r)
  BY <1>10, <1>15, <1>16, <1>18 DEF Table
<1>21. Living(es) # <<>>
  BY <1>1, EmptySeq
<1> QED BY <1>16, <1>17, <1>19, <1>20, <1>21 DEF r

(* The keys, and the items, of a sequence of live entries.                  *)
KeySeq(s) == [i \in DOMAIN s |-> s[i].key]
Pairs(s) == [i \in DOMAIN s |-> <<s[i].key, s[i].value>>]
Pair == Keys \X (Values \cup {NoKey})

LEMMA LenIs ==
  ASSUME NEW S, NEW n \in Nat, NEW f \in [1..n -> S]
  PROVE  f \in Seq(S) /\ Len(f) = n
<1>1. f \in Seq(S)
  BY SeqDef
<1>2. 1..Len(f) = 1..n /\ Len(f) \in Nat
  BY <1>1, LenProperties
<1>3. Len(f) \in 1..Len(f) \/ Len(f) = 0
  BY <1>2
<1>4. n \in 1..n \/ n = 0
  OBVIOUS
<1>5. n <= Len(f)
  BY <1>2, <1>4
<1>6. Len(f) <= n
  BY <1>2, <1>3
<1> QED BY <1>1, <1>2, <1>5, <1>6

LEMMA SeqsOf ==
  ASSUME NEW s \in Seq(LiveEntry)
  PROVE  /\ KeySeq(s) \in Seq(Keys) /\ Len(KeySeq(s)) = Len(s)
         /\ \A i \in 1..Len(s) : KeySeq(s)[i] = s[i].key
         /\ Pairs(s) \in Seq(Pair) /\ Len(Pairs(s)) = Len(s)
         /\ \A i \in 1..Len(s) : Pairs(s)[i] = <<s[i].key, s[i].value>>
         /\ DOMAIN s = 1..Len(s) /\ Len(s) \in Nat
<1>1. /\ Len(s) \in Nat /\ DOMAIN s = 1..Len(s)
      /\ \A i \in 1..Len(s) : s[i].key \in Keys /\ s[i].value \in Values \cup {NoKey}
  BY LenProperties, ElementOfSeq DEF LiveEntry, Entry, Live
<1>2. KeySeq(s) \in [1..Len(s) -> Keys] /\ \A i \in 1..Len(s) : KeySeq(s)[i] = s[i].key
  BY <1>1 DEF KeySeq
<1>3. Pairs(s) \in [1..Len(s) -> Pair]
      /\ \A i \in 1..Len(s) : Pairs(s)[i] = <<s[i].key, s[i].value>>
  BY <1>1 DEF Pairs, Pair
<1> QED BY <1>1, <1>2, <1>3, LenIs

LEMMA ItemsAre ==
  \A d : Items(d) = Pairs(Living(d.entries)) /\ LiveKeys(d) = KeySeq(Living(d.entries))
BY DEF Items, Pairs, LiveKeys, KeySeq

LEMMA HasIs ==
  ASSUME NEW s \in Seq(LiveEntry), NEW k
  PROVE  /\ Py!Has(Pairs(s), k) <=> HasKey(s, k)
         /\ k \in ToSet(KeySeq(s)) <=> HasKey(s, k)
         /\ DOMAIN Pairs(s) = 1..Len(s)
<1>1. DOMAIN Pairs(s) = 1..Len(s) /\ DOMAIN KeySeq(s) = 1..Len(s)
  BY SeqsOf DEF Pairs, KeySeq
<1>2. \A i \in 1..Len(s) : Pairs(s)[i][1] = s[i].key
  BY SeqsOf
<1>3. Py!Has(Pairs(s), k) <=> HasKey(s, k)
  BY <1>1, <1>2 DEF Py!Has, HasKey
<1>4. k \in ToSet(KeySeq(s)) <=> HasKey(s, k)
  BY <1>1, SeqsOf DEF ToSet, HasKey
<1> QED BY <1>1, <1>3, <1>4

LEMMA AppendedIs ==
  ASSUME DictAssumption, NEW s \in Seq(LiveEntry), NEW k \in Keys, NEW v \in Values,
         ~HasKey(s, k)
  PROVE  Pairs(Append(s, Item(k, v))) = Py!Updated(Pairs(s), k, v)
<1> DEFINE e == Item(k, v)
           t == Append(s, e)
           u == Append(Pairs(s), <<k, v>>)
<1>1. e \in LiveEntry /\ e.key = k /\ e.value = v
  BY DEF Item, LiveEntry, Entry, Live, DictAssumption
<1> HIDE DEF e
<1>2. /\ t \in Seq(LiveEntry) /\ Len(t) = Len(s) + 1 /\ t[Len(s) + 1] = e
      /\ \A i \in 1..Len(s) : t[i] = s[i]
  BY <1>1, AppendProperties
<1>3. /\ Pairs(s) \in Seq(Pair) /\ Len(Pairs(s)) = Len(s) /\ Len(s) \in Nat
      /\ \A i \in 1..Len(s) : Pairs(s)[i] = <<s[i].key, s[i].value>>
  BY SeqsOf
<1> HIDE DEF t
<1>4. /\ Pairs(t) \in Seq(Pair) /\ Len(Pairs(t)) = Len(t)
      /\ \A i \in 1..Len(t) : Pairs(t)[i] = <<t[i].key, t[i].value>>
  BY <1>2, SeqsOf
<1>5. <<k, v>> \in Pair
  BY DEF Pair
<1>6. /\ u \in Seq(Pair) /\ Len(u) = Len(s) + 1 /\ u[Len(s) + 1] = <<k, v>>
      /\ \A i \in 1..Len(s) : u[i] = Pairs(s)[i]
  BY <1>3, <1>5, AppendProperties
<1> HIDE DEF u
<1>7. \A i \in 1..Len(s) + 1 : i = Len(s) + 1 \/ i \in 1..Len(s)
  BY <1>3
<1>8. \A i \in 1..Len(s) + 1 : Pairs(t)[i] = u[i]
  BY <1>1, <1>2, <1>3, <1>4, <1>6, <1>7
<1>9. Pairs(t) = u
  BY <1>2, <1>4, <1>6, <1>8, SeqEqual
<1>10. Py!Updated(Pairs(s), k, v) = u
  BY HasIs DEF Py!Updated, u
<1> QED BY <1>9, <1>10 DEF t, e

LEMMA OverwrittenIs ==
  ASSUME NEW s \in Seq(LiveEntry), NEW t \in Seq(LiveEntry), NEW k \in Keys, NEW v \in Values,
         HasKey(s, k), Overwritten(s, t, k, v)
  PROVE  Pairs(t) = Py!Updated(Pairs(s), k, v) /\ KeySeq(t) = KeySeq(s)
<1>1. /\ Len(t) = Len(s)
      /\ \A i \in 1..Len(s) : t[i] = IF s[i].key = k THEN Item(k, v) ELSE s[i]
  BY DEF Overwritten
<1>2. \A i \in 1..Len(s) : Pairs(s)[i] = <<s[i].key, s[i].value>> /\ Pairs(t)[i] = <<t[i].key, t[i].value>>
  BY <1>1, SeqsOf
<1>3. DOMAIN Pairs(s) = 1..Len(s) /\ DOMAIN Pairs(t) = 1..Len(s)
  BY <1>1, HasIs
<1>4. Py!Updated(Pairs(s), k, v)
        = [i \in 1..Len(s) |-> IF Pairs(s)[i][1] = k THEN <<k, v>> ELSE Pairs(s)[i]]
  BY <1>3, HasIs DEF Py!Updated
<1>5. ASSUME NEW i \in 1..Len(s)
      PROVE  Pairs(t)[i] = IF Pairs(s)[i][1] = k THEN <<k, v>> ELSE Pairs(s)[i]
  <2>1. /\ Pairs(s)[i] = <<s[i].key, s[i].value>> /\ Pairs(s)[i][1] = s[i].key
        /\ Pairs(t)[i] = <<t[i].key, t[i].value>>
    BY <1>2
  <2>2. CASE s[i].key = k
    <3>1. t[i] = Item(k, v)
      BY <1>1, <2>2
    <3>2. t[i].key = k /\ t[i].value = v
      BY <3>1 DEF Item
    <3> QED BY <2>1, <2>2, <3>2
  <2>3. CASE s[i].key # k
    <3>1. t[i] = s[i]
      BY <1>1, <2>3
    <3> QED BY <2>1, <2>3, <3>1
  <2> QED BY <2>2, <2>3
<1>6. Pairs(t) = Py!Updated(Pairs(s), k, v)
  BY <1>3, <1>4, <1>5 DEF Pairs
<1>7. KeySeq(t) = KeySeq(s)
  <2>1. DOMAIN s = 1..Len(s) /\ DOMAIN t = 1..Len(s)
    BY <1>1, SeqsOf
  <2>2. \A i \in 1..Len(s) : t[i].key = s[i].key
    BY <1>1 DEF Item
  <2> QED BY <2>1, <2>2 DEF KeySeq
<1> QED BY <1>6, <1>7

LEMMA RemovedIs ==
  ASSUME NEW s \in Seq(LiveEntry), Once(s), NEW p \in 1..Len(s), NEW k \in Keys, s[p].key = k
  PROVE  /\ RemoveAt(s, p) \in Seq(LiveEntry) /\ ~HasKey(RemoveAt(s, p), k) /\ HasKey(s, k)
         /\ Pairs(RemoveAt(s, p)) = RemoveAt(Pairs(s), p)
         /\ Py!Without(Pairs(s), k) = RemoveAt(Pairs(s), p)
<1> DEFINE t == RemoveAt(s, p)
           u == RemoveAt(Pairs(s), p)
<1>1. /\ t \in Seq(LiveEntry) /\ Len(t) = Len(s) - 1
      /\ \A i \in 1..Len(s) - 1 : t[i] = IF i < p THEN s[i] ELSE s[i + 1]
  BY RemoveAtLemma
<1>2. /\ Pairs(s) \in Seq(Pair) /\ Len(Pairs(s)) = Len(s) /\ Len(s) \in Nat
      /\ \A i \in 1..Len(s) : Pairs(s)[i] = <<s[i].key, s[i].value>>
  BY SeqsOf
<1>3. /\ u \in Seq(Pair) /\ Len(u) = Len(s) - 1
      /\ \A i \in 1..Len(s) - 1 : u[i] = IF i < p THEN Pairs(s)[i] ELSE Pairs(s)[i + 1]
  BY <1>2, RemoveAtLemma
<1> HIDE DEF t, u
<1>4. /\ Pairs(t) \in Seq(Pair) /\ Len(Pairs(t)) = Len(t)
      /\ \A i \in 1..Len(t) : Pairs(t)[i] = <<t[i].key, t[i].value>>
  BY <1>1, SeqsOf
<1>5. \A i \in 1..Len(s) - 1 : i \in 1..Len(s) /\ i + 1 \in 1..Len(s)
  BY <1>2
<1>6. \A i \in 1..Len(s) - 1 : Pairs(t)[i] = u[i]
  BY <1>1, <1>2, <1>3, <1>4, <1>5
<1>7. Pairs(t) = u
  BY <1>1, <1>3, <1>4, <1>6, SeqEqual
<1>8. \A i \in 1..Len(s) : Live(s[i])
  BY ElementOfSeq DEF LiveEntry
<1>9. \A i \in 1..Len(s) : s[i].key = k <=> i = p
  BY <1>8 DEF Once
<1>10. ~HasKey(t, k)
  <2> SUFFICES ASSUME NEW i \in 1..Len(s) - 1, t[i].key = k PROVE FALSE
    BY <1>1 DEF HasKey
  <2>1. CASE i < p
    BY <1>1, <1>2, <1>5, <1>9, <2>1
  <2>2. CASE ~(i < p)
    <3>1. i + 1 # p
      BY <1>2, <2>2
    <3> QED BY <1>1, <1>5, <1>9, <2>2, <3>1
  <2> QED BY <2>1, <2>2
<1>11. (CHOOSE i \in DOMAIN Pairs(s) : Pairs(s)[i][1] = k) = p
  <2>1. DOMAIN Pairs(s) = 1..Len(s)
    BY HasIs
  <2>2. \A i \in DOMAIN Pairs(s) : Pairs(s)[i][1] = k <=> i = p
    BY <1>2, <1>9, <2>1
  <2> QED BY <2>1, <2>2
<1>12. Py!Without(Pairs(s), k) = u
  BY <1>11 DEF Py!Without, Py!RemoveAt, RemoveAt, u
<1>13. HasKey(s, k)
  BY DEF HasKey
<1> QED BY <1>1, <1>7, <1>10, <1>12, <1>13 DEF t, u

(* What each call does to the items.                                        *)
LEMMA AssignItems ==
  ASSUME DictAssumption, NEW d, Table(d), NEW k \in Keys, NEW v \in Values
  PROVE  Items(Set(d, k, v)) = Py!Updated(Items(d), k, v)
<1> DEFINE s == Living(d.entries)
           r == Set(d, k, v)
           t == Living(r.entries)
<1>1. s \in Seq(LiveEntry) /\ Table(r)
  BY AssignLemma, TableParts
<1>2. t \in Seq(LiveEntry)
  BY <1>1, TableParts
<1>3. CASE HasKey(s, k)
  <2>1. Overwritten(s, t, k, v)
    BY <1>3, AssignLemma
  <2> HIDE DEF s, t
  <2>2. Pairs(t) = Py!Updated(Pairs(s), k, v)
    BY <1>1, <1>2, <1>3, <2>1, OverwrittenIs
  <2> QED BY <2>2, ItemsAre DEF s, t
<1>4. CASE ~HasKey(s, k)
  <2>1. t = Append(s, Item(k, v))
    BY <1>4, AssignLemma
  <2> HIDE DEF s, t
  <2>2. Pairs(t) = Py!Updated(Pairs(s), k, v)
    BY <1>1, <1>4, <2>1, AppendedIs
  <2> QED BY <2>2, ItemsAre DEF s, t
<1> QED BY <1>3, <1>4

LEMMA RemovedItems ==
  ASSUME DictAssumption, NEW d, Table(d), NEW k \in Keys, HasKey(d.entries, k)
  PROVE  /\ Table(Removed(d, k)) /\ Len(Removed(d, k).entries) = Len(d.entries)
         /\ Items(Removed(d, k)) = Py!Without(Items(d), k)
         /\ Py!Has(Items(d), k)
         /\ k \in ToSet(LiveKeys(d)) /\ k \notin ToSet(LiveKeys(Removed(d, k)))
<1> DEFINE s == Living(d.entries)
           r == Removed(d, k)
<1>1. PICK i \in 1..Len(d.entries) : d.entries[i].key = k
  BY DEF HasKey
<1> DEFINE p == RankOf(d.entries, i)
<1>2. s \in Seq(LiveEntry) /\ Once(s) /\ d.entries \in Seq(Entry)
  BY TableParts
<1>3. Table(r) /\ Living(r.entries) = RemoveAt(s, p) /\ Len(r.entries) = Len(d.entries)
  BY <1>1, RemovedLemma
<1>4. p \in 1..Len(s) /\ s[p] = d.entries[i]
  BY <1>1, <1>2, EntryKeys, Rank
<1> HIDE DEF s, p, r
<1>5. /\ RemoveAt(s, p) \in Seq(LiveEntry) /\ ~HasKey(RemoveAt(s, p), k) /\ HasKey(s, k)
      /\ Pairs(RemoveAt(s, p)) = RemoveAt(Pairs(s), p)
      /\ Py!Without(Pairs(s), k) = RemoveAt(Pairs(s), p)
  BY <1>1, <1>2, <1>4, RemovedIs
<1> QED BY <1>2, <1>3, <1>5, HasIs, ItemsAre DEF s, r

LEMMA PopLastItems ==
  ASSUME DictAssumption, NEW d, Table(d), d.len > 0
  PROVE  /\ Table(PopLast(d)) /\ Len(PopLast(d).entries) <= Len(d.entries)
         /\ Items(d) # <<>>
         /\ Items(PopLast(d)) = SubSeq(Items(d), 1, Len(Items(d)) - 1)
         /\ ToSet(LiveKeys(PopLast(d))) # ToSet(LiveKeys(d))
<1> DEFINE s == Living(d.entries)
           r == PopLast(d)
           n == Len(s)
           k == s[n].key
<1>1. s \in Seq(LiveEntry) /\ Once(s)
  BY TableParts
<1>2. Table(r) /\ s # <<>> /\ Living(r.entries) = RemoveAt(s, n) /\ Len(r.entries) <= Len(d.entries)
  BY PopLastLemma
<1> HIDE DEF s, r
<1>3. n \in Nat \ {0} /\ n \in 1..n /\ k \in Keys
  BY <1>1, <1>2, EmptySeq, ElementOfSeq DEF LiveEntry, Entry, Live
<1>4. /\ RemoveAt(s, n) \in Seq(LiveEntry) /\ ~HasKey(RemoveAt(s, n), k) /\ HasKey(s, k)
      /\ Pairs(RemoveAt(s, n)) = RemoveAt(Pairs(s), n)
  BY <1>1, <1>3, RemovedIs
<1>5. Pairs(s) \in Seq(Pair) /\ Len(Pairs(s)) = n /\ Pairs(s) # <<>>
  BY <1>1, <1>3, SeqsOf, EmptySeq
<1>6. RemoveAt(Pairs(s), n) = SubSeq(Pairs(s), 1, n - 1)
  BY <1>5, RemoveLast
<1>7. k \in ToSet(KeySeq(s)) /\ k \notin ToSet(KeySeq(RemoveAt(s, n)))
  BY <1>1, <1>4, HasIs
<1> QED BY <1>2, <1>4, <1>5, <1>6, <1>7, ItemsAre DEF s, r

(* Where an iteration is.  The keys it has yielded are found at increasing  *)
(* positions, none past the iterator.                                       *)
Ordered(es, s, it) ==
  \E f \in [1..Len(s) -> 1..Len(es)] :
    /\ \A a \in 1..Len(s) : es[f[a]].key = s[a] /\ (it # Done => f[a] <= it.index)
    /\ \A a, b \in 1..Len(s) : a < b => f[a] < f[b]
(* They are all the live keys up to it.                                     *)
Whole(es, s, it) ==
  /\ it = Done => s = KeySeq(Living(es))
  /\ it # Done => /\ it.index = 0 \/ (it.index \in 1..Len(es) /\ Live(es[it.index]))
                  /\ s = KeySeq(Upto(es, it.index))

IterType(it) == it \in {NoIter, Done} \cup [index : 0..MaxEntries, expected : Nat]

DictInv ==
  /\ Table(dict) /\ Len(dict.entries) <= MaxEntries
  /\ IterType(iter) /\ seen \in Seq(Keys) /\ fixed \in BOOLEAN /\ rebuilt \in BOOLEAN
  /\ fixed => Ordered(dict.entries, seen, iter)
  /\ fixed /\ ~rebuilt => Whole(dict.entries, seen, iter)

LEMMA IndexType ==
  ASSUME DictAssumption, NEW it, IterType(it), it # Done
  PROVE  it.index \in Nat
BY DEF IterType, NoIter, DictAssumption

LEMMA SameKeys ==
  ASSUME NEW es \in Seq(Entry), NEW fs \in Seq(Entry), Len(fs) = Len(es),
         \A i \in 1..Len(es) : fs[i].key = es[i].key
  PROVE  /\ KeySeq(Living(fs)) = KeySeq(Living(es))
         /\ \A i \in 1..Len(es) : Live(fs[i]) <=> Live(es[i])
<1>1. \A i \in 1..Len(es) : Live(fs[i]) <=> Live(es[i])
  BY DEF Live
<1>2. /\ Len(Living(fs)) = Len(Living(es))
      /\ \A p \in 1..Len(Living(es)) : \E i \in 1..Len(es) :
           Live(es[i]) /\ Living(es)[p] = es[i] /\ Living(fs)[p] = fs[i]
  BY <1>1, LivingReplaced
<1>3. \A p \in 1..Len(Living(es)) : Living(fs)[p].key = Living(es)[p].key
  BY <1>2
<1>4. Living(es) \in Seq(LiveEntry) /\ Living(fs) \in Seq(LiveEntry)
  <2>1. Len(es) \in 0..Len(es) /\ Len(fs) \in 0..Len(fs)
    BY LenProperties
  <2> QED BY <2>1, RankType
<1>5. DOMAIN Living(es) = 1..Len(Living(es)) /\ DOMAIN Living(fs) = 1..Len(Living(es))
  BY <1>2, <1>4, SeqsOf
<1> QED BY <1>1, <1>3, <1>5 DEF KeySeq

LEMMA FrontIs ==
  ASSUME NEW es \in Seq(Entry), NEW n \in 0..Len(es)
  PROVE  /\ SubSeq(es, 1, n) \in Seq(Entry) /\ Len(SubSeq(es, 1, n)) = n
         /\ \A j \in 1..n : SubSeq(es, 1, n)[j] = es[j]
<1>1. n \in Nat /\ Len(es) \in Nat
  BY LenProperties
<1>2. \A j \in 1..n : es[j] \in Entry
  BY <1>1, ElementOfSeq
<1>3. /\ SubSeq(es, 1, n) \in Seq(Entry) /\ Len(SubSeq(es, 1, n)) = IF 1 <= n THEN n - 1 + 1 ELSE 0
      /\ \A j \in 1..n - 1 + 1 : SubSeq(es, 1, n)[j] = es[1 + j - 1]
  BY <1>1, <1>2, SubSeqProperties
<1> QED BY <1>1, <1>3

LEMMA SameKeysUpto ==
  ASSUME NEW es \in Seq(Entry), NEW fs \in Seq(Entry), Len(fs) = Len(es),
         \A i \in 1..Len(es) : fs[i].key = es[i].key, NEW n \in 0..Len(es)
  PROVE  KeySeq(Upto(fs, n)) = KeySeq(Upto(es, n))
<1> DEFINE e1 == SubSeq(es, 1, n)
           f1 == SubSeq(fs, 1, n)
<1>1. /\ e1 \in Seq(Entry) /\ Len(e1) = n /\ \A j \in 1..n : e1[j] = es[j]
      /\ f1 \in Seq(Entry) /\ Len(f1) = n /\ \A j \in 1..n : f1[j] = fs[j]
  BY FrontIs
<1>2. \A j \in 1..n : j \in 1..Len(es)
  BY LenProperties
<1>3. KeySeq(Living(f1)) = KeySeq(Living(e1))
  <2> HIDE DEF e1, f1
  <2>1. \A j \in 1..Len(e1) : f1[j].key = e1[j].key
    BY <1>1, <1>2
  <2> QED BY <1>1, <2>1, SameKeys
<1> QED BY <1>3 DEF Upto

LEMMA RankBound ==
  ASSUME NEW es \in Seq(Entry)
  PROVE  \A n \in 0..Len(es) : RankOf(es, n) <= n
<1> DEFINE G == {n \in 0..Len(es) : RankOf(es, n) <= n}
<1>1. Len(es) \in Nat /\ \A n \in 0..Len(es) : RankOf(es, n) \in Nat
  BY LenProperties, RankType
<1>2. 0 \in G
  <2>1. 0 \in 0..Len(es)
    BY <1>1
  <2> QED BY <2>1, RankType
<1>3. ASSUME NEW m \in 0..Len(es) - 1, m \in G PROVE m + 1 \in G
  <2>1. m + 1 \in 1..Len(es) /\ m + 1 \in 0..Len(es) /\ m + 1 - 1 = m /\ m \in Nat
    BY <1>1
  <2>2. RankOf(es, m + 1) = RankOf(es, m) + 1 \/ RankOf(es, m + 1) = RankOf(es, m)
    BY <2>1, RankStep
  <2> QED BY <1>1, <1>3, <2>1, <2>2
<1>4. 0..Len(es) \subseteq G
  <2> HIDE DEF G
  <2> QED BY <1>1, <1>2, <1>3, UpTo
<1> QED BY <1>4

LEMMA OrderedSame ==
  ASSUME NEW es, NEW fs, Len(fs) = Len(es), NEW s, NEW it, Ordered(es, s, it),
         \A i \in 1..Len(es) : fs[i].key = es[i].key
  PROVE  Ordered(fs, s, it)
BY DEF Ordered

LEMMA OrderedLiving ==
  ASSUME DictAssumption, NEW es \in Seq(Entry), NEW s \in Seq(Keys), NEW it, IterType(it),
         Ordered(es, s, it)
  PROVE  Ordered(Living(es), s, it)
<1>1. PICK f \in [1..Len(s) -> 1..Len(es)] :
        /\ \A a \in 1..Len(s) : es[f[a]].key = s[a] /\ (it # Done => f[a] <= it.index)
        /\ \A a, b \in 1..Len(s) : a < b => f[a] < f[b]
  BY DEF Ordered
<1> DEFINE g == [a \in 1..Len(s) |-> RankOf(es, f[a])]
<1>2. ASSUME NEW a \in 1..Len(s)
      PROVE  /\ g[a] \in 1..Len(Living(es)) /\ Living(es)[g[a]].key = s[a]
             /\ g[a] <= f[a] /\ Live(es[f[a]]) /\ f[a] \in Nat /\ g[a] \in Nat
             /\ g[a] = RankOf(es, f[a])
  <2>1. f[a] \in 1..Len(es) /\ f[a] \in 0..Len(es) /\ f[a] \in Nat
    BY LenProperties
  <2>2. s[a] \in Keys
    BY ElementOfSeq
  <2>3. Live(es[f[a]])
    BY <1>1, <2>1, <2>2, EntryKeys
  <2>4. RankOf(es, f[a]) \in 1..Len(Living(es)) /\ Living(es)[RankOf(es, f[a])] = es[f[a]]
    BY <2>1, <2>3, Rank
  <2>5. RankOf(es, f[a]) <= f[a] /\ RankOf(es, f[a]) \in Nat
    BY <2>1, RankBound, RankType
  <2> QED BY <1>1, <2>1, <2>3, <2>4, <2>5
<1>3. ASSUME NEW a \in 1..Len(s), NEW b \in 1..Len(s), a < b PROVE g[a] < g[b]
  <2>1. f[a] < f[b] /\ f[a] \in 0..f[b] - 1
    BY <1>1, <1>2, <1>3
  <2>2. RankOf(es, f[a]) < RankOf(es, f[b])
    BY <1>2, <2>1, Rank
  <2> QED BY <1>2, <2>2
<1>4. ASSUME NEW a \in 1..Len(s), it # Done PROVE g[a] <= it.index
  <2>1. it.index \in Nat /\ f[a] <= it.index
    BY <1>1, <1>4, IndexType
  <2> QED BY <1>2, <2>1
<1>5. g \in [1..Len(s) -> 1..Len(Living(es))]
  BY <1>2
<1> HIDE DEF g
<1> QED BY <1>2, <1>3, <1>4, <1>5 DEF Ordered

LEMMA NoneSeen == ASSUME NEW es, NEW it PROVE Ordered(es, <<>>, it)
<1>1. 1..Len(<<>>) = {}
  OBVIOUS
<1>2. [x \in {} |-> x] \in [{} -> 1..Len(es)]
  OBVIOUS
<1> QED BY <1>1, <1>2 DEF Ordered

LEMMA EmptyKeys == KeySeq(<<>>) = <<>> /\ <<>> \in Seq(Keys) /\ KeySeq(Living(<<>>)) = <<>>
<1>1. KeySeq(<<>>) = <<>>
  BY DEF KeySeq
<1> QED BY <1>1, LivingEmpty

LEMMA NotIterating ==
  /\ IterType(NoIter) /\ IterType(Done) /\ NoIter # Done /\ NoIter.index = 0
  /\ \A n \in Nat : DictAssumption => IterType([index |-> 0, expected |-> n])
  /\ \A n : [index |-> 0, expected |-> n] # Done
BY DEF IterType, NoIter, Done, DictAssumption

LEMMA UptoNone ==
  ASSUME NEW es \in Seq(Entry)
  PROVE  KeySeq(Upto(es, 0)) = <<>>
BY UptoLemma, EmptyKeys

LEMMA DictInit == DictAssumption /\ Init => DictInv
<1> SUFFICES ASSUME DictAssumption, Init PROVE DictInv
  OBVIOUS
<1>1. PICK n \in Requests : dict = Fresh(AtLeast((n * 3) \div 2))
  BY DEF Init
<1> DEFINE c == AtLeast((n * 3) \div 2)
<1>2. c \in Caps
  <2>1. n \in Nat
    BY DEF DictAssumption
  <2>2. (n * 3) \div 2 \in Nat
    BY <2>1
  <2> QED BY <2>2, AtLeastLemma
<1> HIDE DEF c
<1>3. /\ Sound(c, Fresh(c).indices, <<>>)
      /\ Fresh(c) = [cap |-> c, indices |-> Fresh(c).indices, entries |-> <<>>, len |-> 0]
  BY <1>2, FreshLemma
<1>4. dict = Fresh(c) /\ dict.cap = c /\ dict.indices = Fresh(c).indices
      /\ dict.entries = <<>> /\ dict.len = 0
  BY <1>1, <1>3 DEF c
<1>5. Table(dict)
  BY <1>3, <1>4, LivingEmpty DEF Table
<1>6. iter = NoIter /\ seen = <<>> /\ fixed = TRUE /\ rebuilt = FALSE
  BY DEF Init
<1>7. Whole(dict.entries, seen, iter)
  <2>1. <<>> \in Seq(Entry)
    OBVIOUS
  <2>2. KeySeq(Upto(<<>>, 0)) = <<>>
    BY <2>1, UptoNone
  <2> QED BY <1>4, <1>6, <2>2, NotIterating DEF Whole
<1>8. Len(dict.entries) <= MaxEntries
  <2>1. Len(<<>>) = 0
    OBVIOUS
  <2> QED BY <1>4, <2>1 DEF DictAssumption
<1>9. IterType(iter) /\ seen \in Seq(Keys) /\ Ordered(dict.entries, seen, iter)
  BY <1>6, NotIterating, NoneSeen, EmptyKeys
<1> QED BY <1>5, <1>6, <1>7, <1>8, <1>9 DEF DictInv

(* A call that leaves the table sound leaves the rest of the invariant to   *)
(* the iteration, if it goes on.                                            *)
LEMMA BecomesKeeps ==
  ASSUME DictAssumption, DictInv, NEW d, Becomes(d), Table(d), rebuilt' \in BOOLEAN,
         fixed' => Ordered(d.entries, seen, iter),
         fixed' /\ ~rebuilt' => Whole(d.entries, seen, iter)
  PROVE  DictInv'
<1>1. /\ dict' = d /\ Len(d.entries) <= MaxEntries /\ iter' = iter
      /\ seen' = IF fixed' THEN seen ELSE <<>>
      /\ fixed' = (fixed /\ ToSet(LiveKeys(d)) = ToSet(LiveKeys(dict)))
  BY DEF Becomes
<1>2. fixed' \in BOOLEAN
  BY <1>1 DEF DictInv
<1>3. Table(dict)' /\ Len(dict.entries)' <= MaxEntries /\ IterType(iter)'
  BY <1>1 DEF Table, DictInv, IterType, NoIter, Done
<1>4. seen' \in Seq(Keys)
  BY <1>1, <1>2, EmptyKeys DEF DictInv
<1>5. ASSUME fixed' PROVE Ordered(dict.entries, seen, iter)'
  <2>1. dict' = d /\ seen' = seen /\ iter' = iter
    BY <1>1, <1>5
  <2> QED BY <1>5, <2>1 DEF Ordered, Done
<1>6. ASSUME fixed', ~rebuilt' PROVE Whole(dict.entries, seen, iter)'
  <2>1. dict' = d /\ seen' = seen /\ iter' = iter
    BY <1>1, <1>6
  <2> QED BY <1>6, <2>1 DEF Whole, Done
<1> QED BY <1>2, <1>3, <1>4, <1>5, <1>6 DEF DictInv

LEMMA AssignKeeps ==
  ASSUME DictAssumption, DictInv, NEW k \in Keys, NEW v \in Values, Assign(k, v)
  PROVE  DictInv'
<1> DEFINE r == Set(dict, k, v)
           s == Living(dict.entries)
           m == MakeRoom(dict)
<1>1. Becomes(r) /\ rebuilt' = (fixed' /\ (rebuilt \/ m # dict))
  BY DEF Assign
<1>2. /\ Table(dict) /\ dict.entries \in Seq(Entry) /\ s \in Seq(LiveEntry)
  BY TableParts DEF DictInv
<1>3. /\ Table(r)
      /\ ~HasKey(s, k) => Living(r.entries) = Append(s, Item(k, v))
      /\ HasKey(s, k) => Overwritten(m.entries, r.entries, k, v)
  BY <1>2, AssignLemma
<1>4. Table(m) /\ (m = dict \/ m.entries = s)
  BY <1>2, MakeRoomLemma
<1>5. /\ m.entries \in Seq(Entry) /\ r.entries \in Seq(Entry) /\ Living(r.entries) \in Seq(LiveEntry)
  BY <1>3, <1>4, TableParts
<1> HIDE DEF r, m
<1>6. ASSUME fixed' PROVE HasKey(s, k)
  <2>1. SUFFICES ASSUME ~HasKey(s, k) PROVE FALSE
    OBVIOUS
  <2>2. ToSet(LiveKeys(r)) = ToSet(LiveKeys(dict))
    BY <1>1, <1>6 DEF Becomes
  <2> DEFINE t == Living(r.entries)
  <2>3. k \notin ToSet(KeySeq(s))
    BY <1>2, <2>1, HasIs
  <2> HIDE DEF s
  <2>4. k \notin ToSet(KeySeq(t))
    BY <2>2, <2>3, ItemsAre DEF s
  <2>5. ~HasKey(t, k)
    BY <1>5, <2>4, HasIs
  <2>6. t = Append(s, Item(k, v))
    BY <1>3, <2>1
  <2>7. Item(k, v) \in LiveEntry /\ Item(k, v).key = k
    BY DEF Item, LiveEntry, Entry, Live, DictAssumption
  <2>8. Len(t) = Len(s) + 1 /\ t[Len(s) + 1] = Item(k, v) /\ Len(s) + 1 \in 1..Len(s) + 1
    <3>1. Len(s) \in Nat
      BY <1>2, LenProperties
    <3> QED BY <1>2, <2>6, <2>7, <3>1, AppendProperties
  <2> QED BY <2>5, <2>7, <2>8 DEF HasKey
<1>7. ASSUME fixed'
      PROVE  Len(r.entries) = Len(m.entries)
             /\ \A i \in 1..Len(m.entries) : r.entries[i].key = m.entries[i].key
  BY <1>3, <1>6, <1>7 DEF Overwritten, Item
<1>8. ASSUME fixed' PROVE Ordered(r.entries, seen, iter)
  <2>1. Ordered(dict.entries, seen, iter) /\ seen \in Seq(Keys) /\ IterType(iter)
    BY <1>1, <1>8 DEF DictInv, Becomes
  <2>2. Ordered(m.entries, seen, iter)
    BY <1>2, <1>4, <2>1, OrderedLiving
  <2> QED BY <1>7, <1>8, <2>2, OrderedSame
<1>9. ASSUME fixed', ~rebuilt' PROVE Whole(r.entries, seen, iter)
  <2>1. m = dict /\ ~rebuilt /\ Whole(dict.entries, seen, iter)
    BY <1>1, <1>9 DEF DictInv, Becomes
  <2> DEFINE es == dict.entries
             fs == r.entries
  <2>2. Len(fs) = Len(es) /\ \A i \in 1..Len(es) : fs[i].key = es[i].key
    BY <1>7, <1>9, <2>1
  <2>3. es \in Seq(Entry) /\ fs \in Seq(Entry) /\ Len(es) \in Nat
    BY <1>2, <1>5, LenProperties
  <2> HIDE DEF es, fs
  <2>4. /\ KeySeq(Living(fs)) = KeySeq(Living(es))
        /\ \A i \in 1..Len(es) : Live(fs[i]) <=> Live(es[i])
    BY <2>2, <2>3, SameKeys
  <2>5. \A n \in 0..Len(es) : KeySeq(Upto(fs, n)) = KeySeq(Upto(es, n))
    BY <2>2, <2>3, SameKeysUpto
  <2>6. iter.index = 0 \/ iter.index \in 1..Len(es) => iter.index \in 0..Len(es)
    BY <2>3
  <2>7. Whole(es, seen, iter)
    BY <2>1 DEF es
  <2>8. Whole(fs, seen, iter)
    BY <2>2, <2>4, <2>5, <2>6, <2>7 DEF Whole
  <2> QED BY <2>8 DEF fs
<1>10. rebuilt' \in BOOLEAN
  BY <1>1 DEF DictInv, Becomes
<1> QED BY <1>1, <1>3, <1>8, <1>9, <1>10, BecomesKeeps

LEMMA DeleteKeeps ==
  ASSUME DictAssumption, DictInv, NEW k \in Keys, Delete(k)
  PROVE  HasKey(dict.entries, k) /\ DictInv'
<1>1. Table(dict)
  BY DEF DictInv
<1>2. HasKey(dict.entries, k)
  <2>1. SUFFICES ASSUME ~HasKey(dict.entries, k) PROVE FALSE
    OBVIOUS
  <2>2. LookupEntry(dict, k) = -1
    BY <1>1, <2>1, LookupLemma DEF HasKey
  <2> QED BY <2>2 DEF Delete
<1>3. Becomes(Removed(dict, k)) /\ rebuilt' = (fixed' /\ rebuilt)
  BY DEF Delete
<1>4. Table(Removed(dict, k)) /\ k \in ToSet(LiveKeys(dict))
      /\ k \notin ToSet(LiveKeys(Removed(dict, k)))
  BY <1>1, <1>2, RemovedItems
<1>5. ~fixed'
  BY <1>3, <1>4 DEF Becomes
<1>6. rebuilt' \in BOOLEAN
  BY <1>3, <1>5
<1> QED BY <1>2, <1>3, <1>4, <1>5, <1>6, BecomesKeeps

LEMMA PopItemKeeps ==
  ASSUME DictAssumption, DictInv, PopItem
  PROVE  DictInv'
<1>1. Table(dict) /\ dict.len > 0 /\ Becomes(PopLast(dict)) /\ rebuilt' = (fixed' /\ rebuilt)
  BY DEF DictInv, PopItem
<1>2. Table(PopLast(dict)) /\ ToSet(LiveKeys(PopLast(dict))) # ToSet(LiveKeys(dict))
  BY <1>1, PopLastItems
<1>3. ~fixed'
  BY <1>1, <1>2 DEF Becomes
<1>4. rebuilt' \in BOOLEAN
  BY <1>1, <1>3
<1> QED BY <1>1, <1>2, <1>3, <1>4, BecomesKeeps

LEMMA ClearTable ==
  ASSUME DictAssumption, NEW d, Table(d)
  PROVE  Table(Fresh(d.cap)) /\ Fresh(d.cap).entries = <<>> /\ Items(Fresh(d.cap)) = <<>>
         /\ LiveKeys(Fresh(d.cap)) = <<>>
<1> DEFINE c == d.cap
<1>1. c \in Caps
  BY TableParts DEF Caps
<1> HIDE DEF c
<1>2. /\ Sound(c, Fresh(c).indices, <<>>)
      /\ Fresh(c) = [cap |-> c, indices |-> Fresh(c).indices, entries |-> <<>>, len |-> 0]
  BY <1>1, FreshLemma
<1>3. Fresh(c).cap = c /\ Fresh(c).entries = <<>> /\ Fresh(c).len = 0
  BY <1>2
<1>4. Table(Fresh(c))
  BY <1>2, <1>3, LivingEmpty DEF Table
<1>5. Living(Fresh(c).entries) = <<>>
  BY <1>3, LivingEmpty
<1>6. Items(Fresh(c)) = Pairs(<<>>) /\ LiveKeys(Fresh(c)) = KeySeq(<<>>)
  BY <1>5, ItemsAre
<1>7. Pairs(<<>>) = <<>>
  BY DEF Pairs
<1> QED BY <1>3, <1>4, <1>6, <1>7, EmptyKeys DEF c

LEMMA ClearKeeps ==
  ASSUME DictAssumption, DictInv, Clear
  PROVE  DictInv'
<1> DEFINE r == Fresh(dict.cap)
           es == dict.entries
<1>1. Table(dict) /\ Becomes(r) /\ rebuilt' = (fixed' /\ rebuilt) /\ es \in Seq(Entry)
  BY TableParts DEF DictInv, Clear
<1>2. Table(r) /\ r.entries = <<>> /\ LiveKeys(r) = <<>>
  BY <1>1, ClearTable
<1> HIDE DEF r
<1>3. ASSUME fixed' PROVE \A i \in 1..Len(es) : ~Live(es[i])
  <2>1. ToSet(LiveKeys(dict)) = ToSet(<<>>) /\ ToSet(<<>>) = {}
    BY <1>1, <1>2, <1>3, EmptyLemma DEF Becomes
  <2> SUFFICES ASSUME NEW i \in 1..Len(es), Live(es[i]) PROVE FALSE
    OBVIOUS
  <2>2. es[i].key \in Keys
    BY <1>1, EntryKeys
  <2>3. HasKey(es, es[i].key)
    BY DEF HasKey
  <2>4. HasKey(Living(es), es[i].key)
    BY <1>1, <2>2, <2>3, KeysLive
  <2>5. Living(es) \in Seq(LiveEntry)
    BY <1>1, TableParts
  <2>6. es[i].key \in ToSet(KeySeq(Living(es)))
    BY <2>4, <2>5, HasIs
  <2> QED BY <2>1, <2>6, ItemsAre
<1>4. ASSUME fixed' PROVE seen = <<>> /\ Ordered(r.entries, seen, iter)
  <2>1. Ordered(es, seen, iter) /\ seen \in Seq(Keys)
    BY <1>1, <1>4 DEF DictInv, Becomes
  <2>2. PICK f \in [1..Len(seen) -> 1..Len(es)] : \A a \in 1..Len(seen) : es[f[a]].key = seen[a]
    BY <2>1 DEF Ordered
  <2>3. ASSUME NEW a \in 1..Len(seen) PROVE FALSE
    <3>1. seen[a] \in Keys /\ f[a] \in 1..Len(es)
      BY <2>1, ElementOfSeq
    <3>2. Live(es[f[a]])
      BY <1>1, <2>2, <3>1, EntryKeys
    <3> QED BY <1>3, <1>4, <3>1, <3>2
  <2>4. seen = <<>>
    <3>1. Len(seen) \in Nat
      BY <2>1, LenProperties
    <3>2. Len(seen) = 0
      BY <2>3, <3>1
    <3> QED BY <2>1, <3>2, EmptySeq
  <2> QED BY <2>4, NoneSeen
<1>5. ASSUME fixed', ~rebuilt' PROVE Whole(r.entries, seen, iter)
  <2>1. Whole(es, seen, iter)
    BY <1>1, <1>5 DEF DictInv, Becomes
  <2>2. seen = <<>>
    BY <1>4, <1>5
  <2>3. iter # Done => iter.index = 0
    BY <1>3, <1>5, <2>1 DEF Whole
  <2>4. <<>> \in Seq(Entry)
    OBVIOUS
  <2>5. KeySeq(Upto(<<>>, 0)) = <<>>
    BY <2>4, UptoNone
  <2> QED BY <1>2, <2>2, <2>3, <2>5, EmptyKeys DEF Whole
<1>6. rebuilt' \in BOOLEAN
  BY <1>1 DEF DictInv, Becomes
<1> QED BY <1>1, <1>2, <1>4, <1>5, <1>6, BecomesKeeps

(* The least entry left.                                                    *)
LEMMA RestLemma ==
  ASSUME DictAssumption, DictInv, Iterating
  PROVE  /\ iter \in [index : 0..MaxEntries, expected : Nat] /\ iter # Done
         /\ dict.entries \in Seq(Entry) /\ DOMAIN dict.entries = 1..Len(dict.entries)
         /\ Len(dict.entries) \in Nat /\ iter.index \in Nat
         /\ Rest # {} => /\ Min(Rest) \in 1..Len(dict.entries) /\ Live(dict.entries[Min(Rest)])
                         /\ Min(Rest) > iter.index
                         /\ \A i \in iter.index + 1..Min(Rest) - 1 : ~Live(dict.entries[i])
         /\ Rest = {} => \A i \in iter.index + 1..Len(dict.entries) : ~Live(dict.entries[i])
<1>1. iter \in [index : 0..MaxEntries, expected : Nat] /\ iter # Done
  BY DEF DictInv, IterType, Iterating
<1>2. dict.entries \in Seq(Entry) /\ Len(dict.entries) \in Nat
  BY TableParts DEF DictInv
<1>3. iter.index \in Nat /\ DOMAIN dict.entries = 1..Len(dict.entries)
  BY <1>1, <1>2, LenProperties DEF DictAssumption
<1> DEFINE n == Len(dict.entries)
           ix == iter.index
<1>4. Rest = {i \in 1..n : i > ix /\ Live(dict.entries[i])}
  BY <1>3 DEF Rest
<1>5. ASSUME Rest # {}
      PROVE  Min(Rest) \in Rest /\ \A y \in Rest : Min(Rest) <= y
  <2>1. Rest \subseteq Nat
    BY <1>2, <1>4
  <2>2. PICK m \in Rest : \A y \in Rest : m <= y
    BY <1>5, <2>1, NatMin
  <2> QED BY <2>2 DEF Min
<1> HIDE DEF n, ix
<1>6. ASSUME Rest # {}, NEW i \in ix + 1..Min(Rest) - 1 PROVE ~Live(dict.entries[i])
  <2>1. Min(Rest) \in 1..n /\ n \in Nat /\ ix \in Nat
    BY <1>2, <1>3, <1>4, <1>5, <1>6 DEF n, ix
  <2>2. i \in 1..n /\ i > ix /\ ~(Min(Rest) <= i)
    <3> DEFINE m == Min(Rest)
    <3> HIDE DEF m
    <3>1. m \in 1..n /\ i \in ix + 1..m - 1
      BY <1>6, <2>1 DEF m
    <3>2. i \in 1..n /\ i > ix /\ ~(m <= i)
      BY <2>1, <3>1
    <3> QED BY <3>2 DEF m
  <2> QED BY <1>4, <1>5, <1>6, <2>2
<1>7. ASSUME Rest = {}, NEW i \in ix + 1..n PROVE ~Live(dict.entries[i])
  <2>1. n \in Nat /\ ix \in Nat
    BY <1>2, <1>3 DEF n, ix
  <2>2. i \in 1..n /\ i > ix
    BY <2>1, <1>7
  <2> QED BY <1>4, <1>7, <2>2
<1> QED BY <1>1, <1>2, <1>3, <1>4, <1>5, <1>6, <1>7 DEF n, ix

LEMMA IterNextKeeps ==
  ASSUME DictAssumption, DictInv, IterNext
  PROVE  DictInv'
<1> DEFINE es == dict.entries
           m == Min(Rest)
           k == es[m].key
           n == Len(seen)
           it == [iter EXCEPT !.index = m]
<1>1. /\ dict' = dict /\ fixed' = fixed /\ rebuilt' = rebuilt /\ iter' = it
      /\ seen' = IF fixed THEN Append(seen, k) ELSE <<>>
      /\ Iterating /\ Rest # {}
  BY DEF IterNext
<1>2. /\ iter \in [index : 0..MaxEntries, expected : Nat] /\ iter # Done /\ iter.index \in Nat
      /\ es \in Seq(Entry) /\ Len(es) \in Nat
      /\ m \in 1..Len(es) /\ Live(es[m]) /\ m > iter.index
      /\ \A i \in iter.index + 1..m - 1 : ~Live(es[i])
  BY <1>1, RestLemma
<1>3. k \in Keys
  BY <1>2, EntryKeys
<1>4. Table(dict) /\ Len(es) <= MaxEntries /\ seen \in Seq(Keys) /\ fixed \in BOOLEAN
      /\ rebuilt \in BOOLEAN /\ MaxEntries \in Nat
  BY DEF DictInv, DictAssumption
<1> HIDE DEF m, es
<1>5. it \in [index : 0..MaxEntries, expected : Nat] /\ it.index = m /\ it # Done
  <2>1. m \in 0..MaxEntries /\ m # -1
    BY <1>2, <1>4
  <2> QED BY <1>2, <2>1 DEF Done
<1>6. /\ n \in Nat /\ Append(seen, k) \in Seq(Keys) /\ Len(Append(seen, k)) = n + 1
      /\ Append(seen, k)[n + 1] = k /\ \A a \in 1..n : Append(seen, k)[a] = seen[a]
      /\ \A a \in 1..n + 1 : a \in 1..n \/ a = n + 1
  BY <1>3, <1>4, LenProperties, AppendProperties
<1> HIDE DEF k, it
<1>7. ASSUME fixed PROVE Ordered(es, Append(seen, k), it)
  <2>1. PICK f \in [1..n -> 1..Len(es)] :
          /\ \A a \in 1..n : es[f[a]].key = seen[a] /\ f[a] <= iter.index
          /\ \A a, b \in 1..n : a < b => f[a] < f[b]
    BY <1>2, <1>7 DEF DictInv, Ordered, es
  <2> DEFINE g == [a \in 1..n + 1 |-> IF a = n + 1 THEN m ELSE f[a]]
             s == Append(seen, k)
  <2> HIDE DEF n
  <2>2. \A a \in 1..n : a # n + 1 /\ a \in 1..n + 1 /\ f[a] \in 1..Len(es)
    BY <1>6
  <2>3. g[n + 1] = m /\ \A a \in 1..n : g[a] = f[a]
    <3>1. n + 1 \in 1..n + 1
      BY <1>6
    <3> QED BY <2>2, <3>1
  <2>4. g \in [1..n + 1 -> 1..Len(es)]
    BY <1>2, <1>6, <2>2
  <2> HIDE DEF g
  <2>5. \A a \in 1..n : f[a] <= m /\ f[a] < m
    BY <1>2, <2>1, <2>2
  <2>6. \A a \in 1..n + 1 : es[g[a]].key = s[a] /\ g[a] <= m
    <3>1. m <= m /\ es[m].key = k
      BY <1>2 DEF k
    <3> QED BY <1>6, <2>1, <2>3, <2>5, <3>1
  <2>7. \A a, b \in 1..n + 1 : a < b => g[a] < g[b]
    <3> SUFFICES ASSUME NEW a \in 1..n + 1, NEW b \in 1..n + 1, a < b PROVE g[a] < g[b]
      OBVIOUS
    <3>1. a \in 1..n
      BY <1>6
    <3>2. CASE b \in 1..n
      BY <2>1, <2>3, <3>1, <3>2
    <3>3. CASE b = n + 1
      BY <2>3, <2>5, <3>1, <3>3
    <3> QED BY <1>6, <3>2, <3>3
  <2>8. Len(s) = n + 1
    BY <1>6
  <2> HIDE DEF s
  <2>9. Ordered(es, s, it)
    BY <1>5, <2>4, <2>6, <2>7, <2>8 DEF Ordered
  <2> QED BY <2>9 DEF s
<1>8. ASSUME fixed, ~rebuilt PROVE Whole(es, Append(seen, k), it)
  <2>1. seen = KeySeq(Upto(es, iter.index))
        /\ (iter.index = 0 \/ iter.index \in 1..Len(es))
    BY <1>2, <1>8 DEF DictInv, Whole, es
  <2> DEFINE u == Upto(es, m - 1)
             e == es[m]
  <2>2. iter.index \in 0..Len(es) /\ m - 1 \in iter.index..Len(es) /\ m - 1 \in 0..Len(es)
        /\ m \in 0..Len(es)
    BY <1>2, <2>1
  <2>3. u = Upto(es, iter.index)
    BY <1>2, <2>2, Skip
  <2>4. Upto(es, m) = Append(u, e)
    BY <1>2, UptoLemma
  <2>5. u \in Seq(LiveEntry) /\ Append(u, e) \in Seq(LiveEntry) /\ e \in LiveEntry
    <3>1. u \in Seq(LiveEntry)
      BY <1>2, <2>2, UptoType
    <3>2. e \in LiveEntry
      BY <1>2, EntryKeys DEF LiveEntry
    <3> QED BY <3>1, <3>2, AppendProperties
  <2> HIDE DEF u, e
  <2>6. KeySeq(Append(u, e)) = Append(KeySeq(u), e.key)
    <3> DEFINE t == Append(u, e)
               h == Len(u)
    <3>1. /\ h \in Nat /\ Len(t) = h + 1 /\ t[h + 1] = e /\ \A i \in 1..h : t[i] = u[i]
      BY <2>5, LenProperties, AppendProperties
    <3>2. t \in Seq(LiveEntry)
      BY <2>5
    <3> HIDE DEF t, h
    <3>3. /\ KeySeq(t) \in Seq(Keys) /\ Len(KeySeq(t)) = h + 1
          /\ \A i \in 1..h + 1 : KeySeq(t)[i] = t[i].key
      BY <3>1, <3>2, SeqsOf
    <3>4. /\ KeySeq(u) \in Seq(Keys) /\ Len(KeySeq(u)) = h
          /\ \A i \in 1..h : KeySeq(u)[i] = u[i].key
      BY <2>5, SeqsOf DEF h
    <3>5. e.key \in Keys
      BY <2>5 DEF LiveEntry, Entry, Live
    <3> DEFINE w == Append(KeySeq(u), e.key)
    <3>6. /\ w \in Seq(Keys) /\ Len(w) = h + 1 /\ w[h + 1] = e.key
          /\ \A i \in 1..h : w[i] = KeySeq(u)[i]
      BY <3>4, <3>5, AppendProperties
    <3> HIDE DEF w
    <3>7. \A i \in 1..h + 1 : i = h + 1 \/ i \in 1..h
      BY <3>1
    <3>8. \A i \in 1..h + 1 : KeySeq(t)[i] = w[i]
      BY <3>1, <3>3, <3>4, <3>6, <3>7
    <3>9. KeySeq(t) = w
      BY <3>3, <3>6, <3>8, SeqEqual
    <3> QED BY <3>9 DEF t, w
  <2>7. Append(seen, k) = KeySeq(Upto(es, m))
    BY <2>1, <2>3, <2>4, <2>6 DEF k, e
  <2> QED BY <1>2, <1>5, <2>7 DEF Whole
<1>9. Table(dict)' /\ Len(dict.entries)' <= MaxEntries
  BY <1>1, <1>4 DEF Table, es
<1>10. IterType(iter)'
  BY <1>1, <1>5 DEF IterType, NoIter, Done
<1>11. seen' \in Seq(Keys)
  BY <1>1, <1>4, <1>6, EmptyKeys
<1>12. ASSUME fixed' PROVE Ordered(dict.entries, seen, iter)'
  <2>1. dict' = dict /\ seen' = Append(seen, k) /\ iter' = it /\ fixed
    BY <1>1, <1>12
  <2> QED BY <1>7, <2>1 DEF Ordered, Done, es
<1>13. ASSUME fixed', ~rebuilt' PROVE Whole(dict.entries, seen, iter)'
  <2>1. dict' = dict /\ seen' = Append(seen, k) /\ iter' = it /\ fixed /\ ~rebuilt
    BY <1>1, <1>13
  <2> QED BY <1>8, <2>1 DEF Whole, Done, es
<1> QED BY <1>1, <1>4, <1>9, <1>10, <1>11, <1>12, <1>13 DEF DictInv

LEMMA IterEndKeeps ==
  ASSUME DictAssumption, DictInv, IterEnd
  PROVE  DictInv'
<1> DEFINE es == dict.entries
<1>1. /\ dict' = dict /\ fixed' = fixed /\ rebuilt' = rebuilt /\ iter' = Done /\ seen' = seen
      /\ Iterating /\ Rest = {}
  BY DEF IterEnd
<1>2. /\ iter # Done /\ iter.index \in Nat /\ es \in Seq(Entry) /\ Len(es) \in Nat
      /\ \A i \in iter.index + 1..Len(es) : ~Live(es[i])
  BY <1>1, RestLemma
<1>3. ASSUME fixed PROVE Ordered(es, seen, Done)
  BY <1>3 DEF DictInv, Ordered
<1>4. ASSUME fixed, ~rebuilt PROVE Whole(es, seen, Done)
  <2>1. seen = KeySeq(Upto(es, iter.index))
        /\ (iter.index = 0 \/ iter.index \in 1..Len(es))
    BY <1>2, <1>4 DEF DictInv, Whole
  <2> HIDE DEF es
  <2>2. iter.index \in 0..Len(es) /\ Len(es) \in iter.index..Len(es)
    BY <1>2, <2>1
  <2>3. Upto(es, Len(es)) = Upto(es, iter.index)
    BY <1>2, <2>2, Skip
  <2>4. Upto(es, Len(es)) = Living(es)
    BY <1>2, UptoLemma
  <2> QED BY <2>1, <2>3, <2>4 DEF Whole
<1>5. Table(dict)' /\ Len(dict.entries)' <= MaxEntries
  BY <1>1 DEF Table, DictInv
<1>6. IterType(iter)'
  BY <1>1 DEF IterType, Done
<1>7. ASSUME fixed' PROVE Ordered(dict.entries, seen, iter)'
  <2>1. dict' = dict /\ seen' = seen /\ iter' = Done /\ fixed
    BY <1>1, <1>7
  <2> QED BY <1>3, <2>1 DEF Ordered, Done
<1>8. ASSUME fixed', ~rebuilt' PROVE Whole(dict.entries, seen, iter)'
  <2>1. dict' = dict /\ seen' = seen /\ iter' = Done /\ fixed /\ ~rebuilt
    BY <1>1, <1>8
  <2> QED BY <1>4, <2>1 DEF Whole, Done
<1> QED BY <1>1, <1>5, <1>6, <1>7, <1>8 DEF DictInv

LEMMA IterateKeeps ==
  ASSUME DictAssumption, DictInv, NEW it, Iterate(it),
         it = NoIter \/ it = [index |-> 0, expected |-> dict.len]
  PROVE  DictInv'
<1>1. /\ dict' = dict /\ fixed' = TRUE /\ rebuilt' = FALSE /\ iter' = it /\ seen' = <<>>
  BY DEF Iterate
<1>2. dict.len \in Nat /\ dict.entries \in Seq(Entry)
  BY TableParts DEF DictInv
<1>3. IterType(it) /\ it # Done /\ it.index = 0
  BY <1>2, NotIterating
<1>4. Table(dict)' /\ Len(dict.entries)' <= MaxEntries
  BY <1>1 DEF Table, DictInv
<1>5. IterType(iter)'
  BY <1>1, <1>3 DEF IterType, Done, NoIter
<1>6. Ordered(dict.entries, seen, iter)'
  <2>1. Ordered(dict'.entries, seen', iter')
    BY <1>1, NoneSeen
  <2> QED BY <2>1 DEF Ordered, Done
<1>7. Whole(dict.entries, seen, iter)'
  <2>1. Whole(dict.entries, <<>>, it)
    BY <1>2, <1>3, UptoNone DEF Whole
  <2> QED BY <1>1, <2>1 DEF Whole, Done
<1> QED BY <1>1, <1>4, <1>5, <1>6, <1>7, EmptyKeys DEF DictInv

LEMMA DictStep == DictAssumption /\ DictInv /\ [Next]_vars => DictInv'
<1> SUFFICES ASSUME DictAssumption, DictInv, [Next]_vars PROVE DictInv'
  OBVIOUS
<1>1. ASSUME NEW k \in Keys, NEW v \in Values, Assign(k, v) PROVE DictInv'
  BY <1>1, AssignKeeps
<1>2. ASSUME NEW k \in Keys, Delete(k) PROVE DictInv'
  BY <1>2, DeleteKeeps
<1>3. ASSUME PopItem PROVE DictInv'
  BY <1>3, PopItemKeeps
<1>4. ASSUME Clear PROVE DictInv'
  BY <1>4, ClearKeeps
<1>5. ASSUME MakeIter PROVE DictInv'
  BY <1>5, IterateKeeps DEF MakeIter
<1>6. ASSUME IterNext PROVE DictInv'
  BY <1>6, IterNextKeeps
<1>7. ASSUME IterEnd PROVE DictInv'
  BY <1>7, IterEndKeeps
<1>8. ASSUME IterRaises PROVE DictInv'
  BY <1>8, IterateKeeps DEF IterRaises
<1>9. ASSUME UNCHANGED vars PROVE DictInv'
  <2>1. /\ dict' = dict /\ iter' = iter /\ fixed' = fixed /\ seen' = seen /\ rebuilt' = rebuilt
    BY <1>9 DEF vars
  <2>2. Table(dict)' /\ IterType(iter)' /\ Len(dict.entries)' <= MaxEntries
    BY <2>1 DEF DictInv, Table, IterType, NoIter, Done
  <2>3. (Ordered(dict.entries, seen, iter)' <=> Ordered(dict.entries, seen, iter))
        /\ (Whole(dict.entries, seen, iter)' <=> Whole(dict.entries, seen, iter))
    BY <2>1 DEF Ordered, Whole, Done
  <2> QED BY <2>1, <2>2, <2>3 DEF DictInv
<1> QED BY <1>1, <1>2, <1>3, <1>4, <1>5, <1>6, <1>7, <1>8, <1>9 DEF Next
-----------------------------------------------------------------------------
(* What the invariant says.                                                 *)
LEMMA DictTypeOK == DictAssumption /\ DictInv => TypeOK
<1> SUFFICES ASSUME DictAssumption, DictInv PROVE TypeOK
  OBVIOUS
<1>1. /\ PowerOf2(dict.cap) /\ DOMAIN dict.indices = 0..dict.cap - 1 /\ dict.cap \in Nat
      /\ dict.entries \in Seq(Entry) /\ dict.len \in Nat /\ Len(dict.entries) \in Nat
  BY TableParts DEF DictInv
<1>2. ASSUME NEW s \in DOMAIN dict.indices PROVE dict.indices[s] \in -2..MaxEntries - 1
  <2>1. \/ dict.indices[s] \in {EMPTY, DUMMY}
        \/ dict.indices[s] \in 0..Len(dict.entries) - 1
    BY <1>1 DEF DictInv, Table, Sound
  <2>2. Len(dict.entries) <= MaxEntries /\ MaxEntries \in Nat
    BY DEF DictInv, DictAssumption
  <2> QED BY <1>1, <2>1, <2>2 DEF EMPTY, DUMMY
<1> QED BY <1>1, <1>2 DEF TypeOK, DictInv, IterType, Entry

LEMMA DictLookupExact == DictAssumption /\ DictInv => LookupExact
<1> SUFFICES ASSUME DictAssumption, DictInv PROVE LookupExact
  OBVIOUS
<1> DEFINE es == dict.entries
<1>1. /\ Table(dict) /\ es \in Seq(Entry) /\ Len(es) \in Nat /\ Len(es) <= dict.cap
      /\ Once(es) /\ dict.len = Len(Living(es)) /\ Living(es) \in Seq(LiveEntry)
  BY TableParts DEF DictInv
<1>2. DOMAIN es = 1..Len(es)
  BY <1>1, LenProperties
<1>3. ASSUME NEW k \in Keys
      PROVE  {i \in DOMAIN es : es[i].key = k}
               = (IF LookupEntry(dict, k) < 0 THEN {} ELSE {LookupEntry(dict, k) + 1})
  <2>1. CASE \A i \in 1..Len(es) : es[i].key # k
    <3>1. LookupEntry(dict, k) = -1
      BY <1>1, <2>1, LookupLemma
    <3> QED BY <1>2, <2>1, <3>1
  <2>2. CASE \E i \in 1..Len(es) : es[i].key = k
    <3>1. PICK i \in 1..Len(es) : es[i].key = k
      BY <2>2
    <3>2. LookupEntry(dict, k) = i - 1
      BY <1>1, <3>1, LookupLemma
    <3>3. ~(LookupEntry(dict, k) < 0) /\ LookupEntry(dict, k) + 1 = i
      BY <1>1, <3>2
    <3>4. Live(es[i])
      BY <1>1, <3>1, EntryKeys
    <3>5. \A j \in 1..Len(es) : es[j].key = k <=> j = i
      BY <1>1, <3>1, <3>4 DEF Once
    <3> QED BY <1>2, <3>3, <3>5
  <2> QED BY <2>1, <2>2
<1>4. dict.len = Len(LiveKeys(dict))
  BY <1>1, SeqsOf, ItemsAre
<1> QED BY <1>1, <1>3, <1>4 DEF LookupExact

LEMMA DictCallsExact == DictAssumption /\ DictInv => CallsExact
<1> SUFFICES ASSUME DictAssumption, DictInv PROVE CallsExact
  OBVIOUS
<1>1. Table(dict) /\ dict.entries \in Seq(Entry) /\ Living(dict.entries) \in Seq(LiveEntry)
  BY TableParts DEF DictInv
<1>2. ASSUME NEW k \in Keys, Py!Has(Items(dict), k)
      PROVE  Items(Removed(dict, k)) = Py!Without(Items(dict), k)
  <2>1. HasKey(Living(dict.entries), k)
    BY <1>1, <1>2, HasIs, ItemsAre
  <2>2. HasKey(dict.entries, k)
    BY <1>1, <2>1, KeysLive
  <2> QED BY <1>1, <2>2, RemovedItems
<1> QED BY <1>1, <1>2, AssignItems DEF CallsExact

LEMMA DictIterationSound == DictAssumption /\ DictInv => IterationSound
<1> SUFFICES ASSUME DictAssumption, DictInv, fixed
             PROVE  /\ InOrder(seen, LiveKeys(dict))
                    /\ iter = Done /\ ~rebuilt => seen = LiveKeys(dict)
  BY DEF IterationSound
<1>1. iter = Done /\ ~rebuilt => seen = LiveKeys(dict)
  BY ItemsAre DEF DictInv, Whole
<1> DEFINE s == Living(dict.entries)
           t == LiveKeys(dict)
<1>2. Ordered(s, seen, iter)
  BY TableParts, OrderedLiving DEF DictInv
<1>3. /\ s \in Seq(LiveEntry) /\ t = KeySeq(s) /\ seen \in Seq(Keys)
      /\ DOMAIN seen = 1..Len(seen)
  BY TableParts, ItemsAre, LenProperties DEF DictInv
<1> HIDE DEF s, t
<1>4. DOMAIN t = 1..Len(s) /\ \A p \in 1..Len(s) : t[p] = s[p].key
  BY <1>3, HasIs, SeqsOf DEF KeySeq
<1>5. PICK f \in [1..Len(seen) -> 1..Len(s)] :
        /\ \A a \in 1..Len(seen) : s[f[a]].key = seen[a]
        /\ \A a, b \in 1..Len(seen) : a < b => f[a] < f[b]
  BY <1>2 DEF Ordered
<1>6. ASSUME NEW i \in DOMAIN seen, NEW j \in DOMAIN seen, i < j
      PROVE  \E m, n \in DOMAIN t : m < n /\ seen[i] = t[m] /\ seen[j] = t[n]
  <2>1. /\ f[i] \in DOMAIN t /\ f[j] \in DOMAIN t /\ f[i] < f[j]
        /\ seen[i] = t[f[i]] /\ seen[j] = t[f[j]]
    BY <1>3, <1>4, <1>5, <1>6
  <2> QED BY <2>1
<1>7. InOrder(seen, t)
  BY <1>6 DEF InOrder
<1> QED BY <1>1, <1>7 DEF t

(* The dict is Python's.                                                    *)
LEMMA DictInitPy == DictAssumption /\ Init => Py!Init
<1> SUFFICES ASSUME DictAssumption, Init PROVE Items(dict) = <<>>
  BY DEF Py!Init
<1>1. PICK n \in Requests : dict = Fresh(AtLeast((n * 3) \div 2))
  BY DEF Init
<1>2. Fresh(AtLeast((n * 3) \div 2)).entries = <<>>
  BY DEF Fresh
<1>3. Living(dict.entries) = <<>>
  BY <1>1, <1>2, LivingEmpty
<1>4. Pairs(<<>>) = <<>>
  BY DEF Pairs
<1> QED BY <1>3, <1>4, ItemsAre

LEMMA DictStepPy ==
  DictAssumption /\ DictInv /\ [Next]_vars => Items(dict') = Items(dict) \/ Py!Next
<1> SUFFICES ASSUME DictAssumption, DictInv, [Next]_vars
             PROVE  Items(dict') = Items(dict) \/ Py!Next
  OBVIOUS
<1>1. Table(dict)
  BY DEF DictInv
<1>2. ASSUME NEW k \in Keys, NEW v \in Values, Assign(k, v) PROVE Py!Next
  <2>1. dict' = Set(dict, k, v)
    BY <1>2 DEF Assign, Becomes
  <2>2. Items(dict') = Py!Updated(Items(dict), k, v)
    BY <1>1, <2>1, AssignItems
  <2>3. Py!Assign(k, v)
    BY <2>2 DEF Py!Assign, Items
  <2> QED BY <2>3 DEF Py!Next
<1>3. ASSUME NEW k \in Keys, Delete(k) PROVE Py!Next
  <2>1. HasKey(dict.entries, k)
    BY <1>3, DeleteKeeps
  <2>2. dict' = Removed(dict, k)
    BY <1>3 DEF Delete, Becomes
  <2>3. Items(dict') = Py!Without(Items(dict), k) /\ Py!Has(Items(dict), k)
    BY <1>1, <2>1, <2>2, RemovedItems
  <2>4. Py!Delete(k)
    BY <2>3 DEF Py!Delete, Items
  <2> QED BY <2>4 DEF Py!Next
<1>4. ASSUME PopItem PROVE Py!Next
  <2>1. dict' = PopLast(dict) /\ dict.len > 0
    BY <1>4 DEF PopItem, Becomes
  <2>2. Items(dict) # <<>> /\ Items(dict') = SubSeq(Items(dict), 1, Len(Items(dict)) - 1)
    BY <1>1, <2>1, PopLastItems
  <2>3. Py!PopItem
    BY <2>2 DEF Py!PopItem, Items
  <2> QED BY <2>3 DEF Py!Next
<1>5. ASSUME Clear PROVE Py!Next
  <2>1. dict' = Fresh(dict.cap)
    BY <1>5 DEF Clear, Becomes
  <2>2. Items(dict') = <<>>
    BY <1>1, <2>1, ClearTable
  <2>3. Py!Clear
    BY <2>2 DEF Py!Clear, Items
  <2> QED BY <2>3 DEF Py!Next
<1>6. CASE dict' = dict
  BY <1>6
<1>7. MakeIter \/ IterNext \/ IterEnd \/ IterRaises \/ UNCHANGED vars => dict' = dict
  BY DEF MakeIter, IterNext, IterEnd, IterRaises, Iterate, vars
<1> QED BY <1>2, <1>3, <1>4, <1>5, <1>6, <1>7 DEF Next
-----------------------------------------------------------------------------
(* Under any sequence of calls the table stays sound and the iterator where *)
(* its walk left it.                                                        *)
THEOREM Invariant ==
  ASSUME DictAssumption
  PROVE  Spec => []DictInv
<1>1. Init => DictInv
  BY DictInit
<1>2. DictInv /\ [Next]_vars => DictInv'
  BY DictStep
<1> QED BY <1>1, <1>2, PTL DEF Spec
-----------------------------------------------------------------------------
(* 2. The collector.                                                        *)

Reach == Heap!ReachFrom(Heap!Roots)
Quiet == {"run", "mark", "prune", "slab", "alloc"}

(* No live object points to a free address, except while the sweep is       *)
(* between its two parts.                                                    *)
LiveClosed == phase \in Quiet => /\ Heap!Roots \subseteq live
                                 /\ reg \in live \cup {Null}
                                 /\ Heap!Closed(live)
(* mark_object's loop: what is marked is reachable, every root is marked or *)
(* waits, and a marked object off the worklist has its children marked.     *)
Marking == phase = "mark" => /\ pending \subseteq Heap!Roots
                             /\ Heap!Roots \subseteq pending \cup marked
                             /\ worklist \subseteq marked
                             /\ marked \subseteq Reach
                             /\ \A o \in marked \ worklist : refs[o] \subseteq marked
Marked == phase \in {"prune", "slab"} => marked = Reach
Swept == phase = "large" => /\ Heap!Roots \subseteq Objs
                            /\ Reach \subseteq live
                            /\ Heap!Small \subseteq Reach
                            /\ marked = Reach \ Heap!Small
Unmarked == /\ phase \in {"run", "alloc"} => marked = {}
            /\ phase # "mark" => pending = {} /\ worklist = {}
            /\ phase # "run" => reg = Null
Pool == /\ pool \subseteq live
        /\ \A p, q \in pool : text[p] # Null /\ (text[p] = text[q] => p = q)
        /\ phase \in {"slab", "large"} => pool \subseteq Reach
        /\ phase # "run" /\ request.text # Null =>
             \A p \in pool : text[p] # request.text

Inv == /\ Heap!HeapTypeOK /\ LiveClosed /\ Marking /\ Marked /\ Swept /\ Unmarked
       /\ Pool
-----------------------------------------------------------------------------
LEMMA HeapConstants ==
  /\ Null \notin Objs /\ Null \notin Texts /\ IsFiniteSet(Objs)
  /\ Sizes \subseteq Nat \ {0} /\ Sizes # {}
  /\ SlabMax \in Nat \ {0} /\ MinThreshold \in Nat
  /\ MaxDepth \in Nat /\ Stress \in BOOLEAN
<1>1. Heap!IsFiniteSet(Objs) => IsFiniteSet(Objs)
  BY DEF Heap!IsFiniteSet, IsFiniteSet
<1> QED BY <1>1, ContainersAssumption DEF Heap!GcAssumption

(* What the model takes from the library is the same here.                  *)
LEMMA HeapLibrary ==
  /\ \A T : Heap!Cardinality(T) = Cardinality(T)
  /\ \A x, s : Heap!Cons(x, s) = Cons(x, s)
<1>1. \A T : Heap!IsFiniteSet(T) <=> IsFiniteSet(T)
  BY DEF Heap!IsFiniteSet, IsFiniteSet
<1>2. \A T : Heap!Cardinality(T) = Cardinality(T)
  BY <1>1 DEF Heap!Cardinality, Cardinality
<1>3. \A x, s : Heap!Cons(x, s) = Cons(x, s)
  BY DEF Heap!Cons, Cons
<1> QED BY <1>2, <1>3

(* ReachFrom(R) is the least closed set that contains R.                    *)
LEMMA ReachLemma ==
  ASSUME NEW R \in SUBSET Objs, refs \in [Objs -> SUBSET Objs]
  PROVE  /\ R \subseteq Heap!ReachFrom(R) /\ Heap!ReachFrom(R) \subseteq Objs
         /\ Heap!Closed(Heap!ReachFrom(R))
         /\ \A S : R \subseteq S /\ Heap!Closed(S) => Heap!ReachFrom(R) \subseteq S
<1>1. R \subseteq Heap!ReachFrom(R) /\ Heap!ReachFrom(R) \subseteq Objs
  BY DEF Heap!ReachFrom
<1>2. Heap!Closed(Heap!ReachFrom(R))
  <2> SUFFICES ASSUME NEW o \in Heap!ReachFrom(R), NEW p \in refs[o]
               PROVE  p \in Heap!ReachFrom(R)
    BY DEF Heap!Closed
  <2>1. p \in Objs
    BY <1>1
  <2>2. ASSUME NEW S \in SUBSET Objs, R \subseteq S, Heap!Closed(S)
        PROVE  p \in S
    BY <2>2 DEF Heap!ReachFrom, Heap!Closed
  <2> QED BY <2>1, <2>2 DEF Heap!ReachFrom
<1>3. ASSUME NEW S, R \subseteq S, Heap!Closed(S) PROVE Heap!ReachFrom(R) \subseteq S
  <2>1. R \subseteq S \cap Objs /\ Heap!Closed(S \cap Objs)
    BY <1>3 DEF Heap!Closed
  <2> QED BY <2>1 DEF Heap!ReachFrom
<1> QED BY <1>1, <1>2, <1>3

LEMMA RootsType == ASSUME Heap!HeapTypeOK PROVE Heap!Roots \in SUBSET Objs
<1>1. \A i \in DOMAIN stack : stack[i] \in Heap!Frames
  BY LenProperties, ElementOfSeq DEF Heap!HeapTypeOK
<1> QED BY <1>1 DEF Heap!HeapTypeOK, Heap!Roots, Heap!Frames, Heap!Ptrs

(* What is reachable does not change when only unreachable objects do.      *)
LEMMA ReachStable ==
  ASSUME Heap!HeapTypeOK, refs' \in [Objs -> SUBSET Objs], Heap!Roots' = Heap!Roots,
         \A o \in Reach : refs'[o] = refs[o]
  PROVE  Reach' = Reach
<1>0. Heap!Roots \in SUBSET Objs /\ refs \in [Objs -> SUBSET Objs]
  BY RootsType DEF Heap!HeapTypeOK
<1>1. Reach' = {o \in Objs : \A S \in SUBSET Objs :
                  Heap!Roots \subseteq S /\ (\A x \in S : refs'[x] \subseteq S) => o \in S}
  BY DEF Reach, Heap!ReachFrom, Heap!Closed
<1>2. Reach' \subseteq Reach
  <2>1. /\ Heap!Roots \subseteq Reach /\ Reach \in SUBSET Objs
        /\ \A x \in Reach : refs'[x] \subseteq Reach
    BY <1>0, ReachLemma DEF Heap!Closed, Reach
  <2> QED BY <1>1, <2>1
<1>3. Reach \subseteq Reach'
  <2> SUFFICES ASSUME NEW o \in Reach, NEW S \in SUBSET Objs,
                      Heap!Roots \subseteq S, \A x \in S : refs'[x] \subseteq S
               PROVE  o \in S
    BY <1>0, <1>1, ReachLemma DEF Reach
  <2>1. Heap!Roots \subseteq S \cap Reach /\ Heap!Closed(S \cap Reach)
    BY <1>0, ReachLemma DEF Heap!Closed, Reach
  <2>2. Reach \subseteq S \cap Reach
    BY <1>0, <2>1, ReachLemma DEF Reach
  <2> QED BY <2>2
<1> QED BY <1>2, <1>3

(* The same with the roots and fields untouched.                            *)
LEMMA ReachSame ==
  ASSUME Heap!HeapTypeOK, UNCHANGED <<refs, stack, statics>>
  PROVE  Heap!Roots' = Heap!Roots /\ Reach' = Reach
<1>1. Heap!Roots' = Heap!Roots
  BY DEF Heap!Roots
<1> QED BY <1>1, ReachStable DEF Heap!HeapTypeOK

(* What the program can use is live, so storing it keeps the heap closed.   *)
LEMMA UsableLive ==
  ASSUME Heap!HeapTypeOK, Heap!Roots \subseteq live, reg \in live \cup {Null}, Heap!Closed(live)
  PROVE  Heap!Usable \subseteq live /\ Heap!Usable \subseteq Objs
<1>1. Heap!Roots \cup ({reg} \ {Null}) \in SUBSET Objs
  BY RootsType DEF Heap!HeapTypeOK, Heap!Ptrs
<1>2. Heap!Roots \cup ({reg} \ {Null}) \subseteq live
  OBVIOUS
<1> QED BY <1>1, <1>2, ReachLemma DEF Heap!Usable, Heap!HeapTypeOK

LEMMA InitInv == Heap!Init => Inv
<1> SUFFICES ASSUME Heap!Init PROVE Inv
  OBVIOUS
<1>1. Heap!Roots = {}
  BY DEF Heap!Init, Heap!Roots
<1>2. Heap!HeapTypeOK
  BY HeapConstants DEF Heap!Init, Heap!HeapTypeOK, Heap!Ptrs, Heap!AllocRequests, Heap!NoRequest, Heap!Frames
<1> QED
  BY <1>1, <1>2
  DEF Heap!Init, Inv, LiveClosed, Marking, Marked, Swept, Unmarked, Pool, Heap!Closed, Quiet
-----------------------------------------------------------------------------
USE HeapConstants

(* A mutator step that leaves the heap's objects alone and puts only usable *)
(* pointers in roots and the register.                                      *)
LEMMA RootStep ==
  ASSUME Inv, Heap!Running, UNCHANGED Heap!objects,
         stack' \in Seq(Heap!Frames), statics' \in [Statics -> Heap!Ptrs], reg' \in Heap!Ptrs,
         Heap!Roots' \subseteq live, reg' \in live \cup {Null}
  PROVE  Inv'
<1> USE DEF Inv, Heap!Running, Heap!objects, Heap!marking
<1>1. Heap!HeapTypeOK'
  BY DEF Heap!HeapTypeOK
<1>2. LiveClosed'
  BY DEF LiveClosed, Heap!Closed, Quiet
<1> QED BY <1>1, <1>2 DEF Marking, Marked, Swept, Unmarked, Pool

LEMMA PushInv == ASSUME Inv, Heap!Push PROVE Inv'
<1> DEFINE f == [s \in RootSlots |-> Null]
<1>1. f \in Heap!Frames
  BY DEF Heap!Frames, Heap!Ptrs
<1>2. /\ stack' \in Seq(Heap!Frames)
      /\ \A i \in DOMAIN stack' : stack'[i] = f \/ \E j \in DOMAIN stack : stack'[i] = stack[j]
  <2>1. stack \in Seq(Heap!Frames) /\ stack' = Cons(f, stack)
    BY HeapLibrary DEF Heap!Push, Inv, Heap!HeapTypeOK
  <2>2. ToSet(stack') = {f} \cup ToSet(stack) /\ stack' \in Seq(Heap!Frames)
    BY <1>1, <2>1, PushLemma
  <2> QED BY <2>2 DEF ToSet
<1>3. Heap!Roots' \subseteq Heap!Roots
  BY <1>2 DEF Heap!Roots, Heap!Push
<1>4. Heap!Roots' \subseteq live /\ reg' \in live \cup {Null} /\ reg' \in Heap!Ptrs
  BY <1>3 DEF Inv, LiveClosed, Quiet, Heap!Push, Heap!Running, Heap!HeapTypeOK
<1> QED BY <1>2, <1>4, RootStep DEF Heap!Push, Inv, Heap!HeapTypeOK

LEMMA PopInv == ASSUME Inv, Heap!Pop PROVE Inv'
<1>1. /\ stack' \in Seq(Heap!Frames)
      /\ \A i \in DOMAIN stack' : \E j \in DOMAIN stack : stack'[i] = stack[j]
  <2>1. stack \in Seq(Heap!Frames) /\ stack # <<>> /\ stack' = Tail(stack)
    BY DEF Heap!Pop, Inv, Heap!HeapTypeOK
  <2>2. ToSet(stack') \subseteq ToSet(stack) /\ stack' \in Seq(Heap!Frames)
    BY <2>1, PopLemma
  <2> QED BY <2>2 DEF ToSet
<1>2. Heap!Roots' \subseteq Heap!Roots
  BY <1>1 DEF Heap!Roots, Heap!Pop
<1>3. Heap!Roots' \subseteq live /\ reg' \in live \cup {Null} /\ reg' \in Heap!Ptrs
  BY <1>2 DEF Inv, LiveClosed, Quiet, Heap!Pop, Heap!Running, Heap!HeapTypeOK
<1> QED BY <1>1, <1>3, RootStep DEF Heap!Pop, Inv, Heap!HeapTypeOK

LEMMA UnwindInv == ASSUME Inv, NEW n \in 1..MaxDepth, Heap!Unwind(n) PROVE Inv'
<1>1. /\ stack' \in Seq(Heap!Frames)
      /\ \A i \in DOMAIN stack' : \E j \in DOMAIN stack : stack'[i] = stack[j]
  <2>1. /\ stack \in Seq(Heap!Frames) /\ Len(stack) \in Nat /\ n \in 1..Len(stack)
        /\ stack' = SubSeq(stack, n + 1, Len(stack))
    BY LenProperties DEF Heap!Unwind, Inv, Heap!HeapTypeOK
  <2>2. \A i \in n + 1..Len(stack) : stack[i] \in Heap!Frames
    BY <2>1, ElementOfSeq
  <2>3. /\ stack' \in Seq(Heap!Frames)
        /\ Len(stack') = IF n + 1 <= Len(stack) THEN Len(stack) - (n + 1) + 1 ELSE 0
        /\ \A i \in 1..Len(stack) - (n + 1) + 1 : stack'[i] = stack[n + 1 + i - 1]
    BY <2>1, <2>2, SubSeqProperties
  <2>4. DOMAIN stack' = 1..Len(stack') /\ DOMAIN stack = 1..Len(stack)
    BY <2>1, <2>3, LenProperties
  <2>5. \A i \in DOMAIN stack' : /\ i \in 1..Len(stack) - (n + 1) + 1
                                /\ n + 1 + i - 1 \in DOMAIN stack
    <3> SUFFICES ASSUME NEW i \in 1..Len(stack')
                 PROVE  /\ i \in 1..Len(stack) - (n + 1) + 1
                        /\ n + 1 + i - 1 \in 1..Len(stack)
      BY <2>4
    <3> DEFINE m == Len(stack)
    <3>1. m \in Nat /\ n \in Nat /\ i \in Nat /\ i >= 1 /\ i <= Len(stack')
      BY <2>1, <2>3, LenProperties
    <3>2. n + 1 <= m /\ Len(stack') = m - n
      BY <2>3, <3>1
    <3> QED BY <3>1, <3>2
  <2> QED BY <2>3, <2>5
<1>2. Heap!Roots' \subseteq Heap!Roots
  BY <1>1 DEF Heap!Roots, Heap!Unwind
<1>3. Heap!Roots' \subseteq live /\ reg' \in live \cup {Null} /\ reg' \in Heap!Ptrs
  BY <1>2 DEF Inv, LiveClosed, Quiet, Heap!Unwind, Heap!Running, Heap!HeapTypeOK, Heap!Ptrs
<1> QED BY <1>1, <1>3, RootStep DEF Heap!Unwind, Inv, Heap!HeapTypeOK

LEMMA StoreInv ==
  ASSUME Inv, NEW p \in Heap!Usable \cup {Null},
         \/ \E s \in RootSlots : Heap!StoreRoot(s, p)
         \/ \E s \in Statics : Heap!StoreStatic(s, p)
  PROVE  Inv'
<1>1. phase = "run" /\ p \in live \cup {Null} /\ p \in Heap!Ptrs
  BY UsableLive
  DEF Heap!StoreRoot, Heap!StoreStatic, Heap!Running, Inv, LiveClosed, Quiet, Heap!Ptrs
<1>2. ASSUME NEW s \in RootSlots, Heap!StoreRoot(s, p) PROVE Inv'
  <2>1. stack \in Seq(Heap!Frames) /\ 1 \in 1..Len(stack) /\ stack[1] \in Heap!Frames
    BY <1>2, EmptySeq, ElementOfSeq DEF Heap!StoreRoot, Inv, Heap!HeapTypeOK
  <2> DEFINE f == [stack[1] EXCEPT ![s] = p]
  <2>2. f \in Heap!Frames /\ \A t \in RootSlots : f[t] = p \/ f[t] = stack[1][t]
    BY <1>1, <2>1 DEF Heap!Frames
  <2>3. stack' = [stack EXCEPT ![1] = f]
    BY <1>2 DEF Heap!StoreRoot
  <2>4. /\ stack' \in Seq(Heap!Frames) /\ DOMAIN stack' = DOMAIN stack
        /\ \A j \in DOMAIN stack : stack'[j] = IF j = 1 THEN f ELSE stack[j]
    <3> HIDE DEF f
    <3> QED BY <2>1, <2>2, <2>3, ExceptSeq, LenProperties
  <2>5. Heap!Roots' \subseteq Heap!Roots \cup {p}
    <3>1. ASSUME NEW i \in DOMAIN stack', NEW t \in RootSlots
          PROVE  stack'[i][t] = p \/ stack'[i][t] = stack[i][t]
      BY <2>2, <2>4
    <3> QED BY <2>4, <3>1, <1>2 DEF Heap!Roots, Heap!StoreRoot
  <2>6. Heap!Roots' \subseteq live /\ reg' \in live \cup {Null} /\ reg' \in Heap!Ptrs
    <3>1. Null \notin Heap!Roots'
      BY DEF Heap!Roots
    <3> QED BY <1>1, <1>2, <2>5, <3>1
            DEF Inv, LiveClosed, Quiet, Heap!StoreRoot, Heap!HeapTypeOK
  <2> QED BY <1>2, <2>4, <2>6, RootStep DEF Heap!StoreRoot, Inv, Heap!HeapTypeOK
<1>3. ASSUME NEW s \in Statics, Heap!StoreStatic(s, p) PROVE Inv'
  <2>1. /\ statics' \in [Statics -> Heap!Ptrs]
        /\ \A t \in Statics : statics'[t] = p \/ statics'[t] = statics[t]
    BY <1>1, <1>3 DEF Heap!StoreStatic, Inv, Heap!HeapTypeOK
  <2>2. Heap!Roots' \subseteq Heap!Roots \cup {p} /\ Null \notin Heap!Roots'
    BY <1>3, <2>1 DEF Heap!Roots, Heap!StoreStatic
  <2>3. Heap!Roots' \subseteq live /\ reg' \in live \cup {Null} /\ reg' \in Heap!Ptrs
    BY <1>1, <1>3, <2>2 DEF Inv, LiveClosed, Quiet, Heap!StoreStatic, Heap!HeapTypeOK
  <2> QED BY <1>3, <2>1, <2>3, RootStep DEF Heap!StoreStatic, Inv, Heap!HeapTypeOK
<1> QED BY <1>2, <1>3

LEMMA InternHitInv == ASSUME Inv, NEW t \in Texts, Heap!InternHit(t) PROVE Inv'
<1>1. reg' \in live /\ reg' \in Heap!Ptrs /\ Heap!Roots' = Heap!Roots
  BY DEF Heap!InternHit, Heap!Interned, Inv, Pool, Heap!HeapTypeOK, Heap!Ptrs, Heap!Roots
<1> QED
  BY <1>1, RootStep DEF Heap!InternHit, Inv, Heap!HeapTypeOK, LiveClosed, Heap!Running, Quiet

LEMMA SetFieldsInv ==
  ASSUME Inv, NEW o \in Heap!Usable, NEW ps \in SUBSET Heap!Usable, Heap!SetFields(o, ps)
  PROVE  Inv'
<1> USE DEF Inv, Heap!SetFields, Heap!Running, Heap!marking, Heap!roots
<1>1. Heap!Usable \subseteq live /\ Heap!Usable \subseteq Objs
  BY UsableLive DEF LiveClosed, Quiet
<1>2. Heap!HeapTypeOK'
  BY <1>1 DEF Heap!HeapTypeOK
<1>3. LiveClosed'
  <2>1. Heap!Roots' = Heap!Roots
    BY DEF Heap!Roots
  <2>2. Heap!Closed(live)'
    BY <1>1 DEF Heap!Closed, LiveClosed, Heap!HeapTypeOK, Quiet
  <2> QED BY <2>1, <2>2 DEF LiveClosed, Quiet
<1> QED BY <1>2, <1>3 DEF Marking, Marked, Swept, Unmarked, Pool

LEMMA RequestInv ==
  ASSUME Inv, NEW r \in Heap!AllocRequests, Heap!Request(r),
         r.text # Null => \A p \in pool : text[p] # r.text
  PROVE  Inv'
<1> USE DEF Inv, Heap!Request, Heap!objects
<1>1. Heap!Roots' = Heap!Roots /\ Heap!Roots \in SUBSET Objs /\ phase' \in {"mark", "alloc"}
  BY RootsType DEF Heap!Roots
<1>2. Heap!HeapTypeOK'
  BY <1>1 DEF Heap!HeapTypeOK, Unmarked, Heap!Ptrs
<1>3. LiveClosed'
  BY <1>1 DEF LiveClosed, Heap!Closed, Quiet
<1>4. Marking' /\ Unmarked'
  BY <1>1 DEF Marking, Unmarked
<1> QED BY <1>1, <1>2, <1>3, <1>4 DEF Marked, Swept, Pool

LEMMA MutateInv == ASSUME Inv, Heap!Mutate PROVE Inv'
<1>1. ASSUME NEW t \in Texts, Heap!InternMiss(t) PROVE Inv'
  <2>1. \A p \in pool : text[p] # t
    BY <1>1 DEF Heap!InternMiss, Heap!Interned
  <2> QED BY <1>1, <2>1, RequestInv DEF Heap!InternMiss, Heap!AllocRequests
<1>2. ASSUME NEW n \in Sizes, Heap!NewObject(n) PROVE Inv'
  BY <1>2, RequestInv DEF Heap!NewObject, Heap!AllocRequests
<1> QED
  BY <1>1, <1>2, PushInv, PopInv, UnwindInv, StoreInv, SetFieldsInv, InternHitInv
  DEF Heap!Mutate

LEMMA MarkRootInv == ASSUME Inv, NEW o \in Objs, Heap!MarkRoot(o) PROVE Inv'
<1> USE DEF Inv, Heap!MarkRoot, Heap!objects, Heap!roots
<1>1. Heap!Roots' = Heap!Roots /\ Reach' = Reach /\ Heap!Roots \subseteq Reach
  BY ReachSame, RootsType, ReachLemma DEF Heap!HeapTypeOK, Reach
<1>2. Heap!HeapTypeOK'
  BY DEF Heap!HeapTypeOK
<1>3. LiveClosed'
  BY <1>1 DEF LiveClosed, Heap!Closed, Quiet
<1>4. Marking'
  BY <1>1 DEF Marking
<1> QED BY <1>1, <1>2, <1>3, <1>4 DEF Marked, Swept, Unmarked, Pool

LEMMA TraceInv == ASSUME Inv, NEW o \in Objs, Heap!Trace(o) PROVE Inv'
<1> USE DEF Inv, Heap!Trace, Heap!objects, Heap!roots
<1>1. Heap!Roots' = Heap!Roots /\ Reach' = Reach /\ Heap!Closed(Reach)
  BY ReachSame, RootsType, ReachLemma DEF Heap!HeapTypeOK, Reach
<1>2. Heap!HeapTypeOK'
  BY DEF Heap!HeapTypeOK
<1>3. LiveClosed'
  BY <1>1 DEF LiveClosed, Heap!Closed, Quiet
<1>4. Marking'
  <2>1. refs[o] \subseteq Reach
    BY <1>1 DEF Marking, Heap!Closed
  <2> QED BY <1>1, <2>1 DEF Marking
<1> QED BY <1>1, <1>2, <1>3, <1>4 DEF Marked, Swept, Unmarked, Pool

LEMMA MarkEndInv == ASSUME Inv, Heap!MarkEnd PROVE Inv'
<1> USE DEF Inv, Heap!MarkEnd, Heap!objects, Heap!roots, Heap!marking
<1>1. Heap!Roots' = Heap!Roots /\ Reach' = Reach
  BY ReachSame
<1>2. marked = Reach
  BY RootsType, ReachLemma DEF Heap!HeapTypeOK, Reach, Marking, Heap!Closed
<1>3. Heap!HeapTypeOK'
  BY DEF Heap!HeapTypeOK
<1>4. LiveClosed'
  BY <1>1 DEF LiveClosed, Heap!Closed, Quiet
<1> QED BY <1>1, <1>2, <1>3, <1>4 DEF Marking, Marked, Swept, Unmarked, Pool

LEMMA PruneInv == ASSUME Inv, Heap!Prune PROVE Inv'
<1> USE DEF Inv, Heap!Prune, Heap!roots, Heap!marking
<1>1. Heap!Roots' = Heap!Roots /\ Reach' = Reach
  BY ReachSame
<1>2. Heap!HeapTypeOK'
  BY DEF Heap!HeapTypeOK
<1>3. LiveClosed'
  BY <1>1 DEF LiveClosed, Heap!Closed, Quiet
<1> QED BY <1>1, <1>2, <1>3 DEF Marking, Marked, Swept, Unmarked, Pool

(* Freeing unreachable objects changes neither what is reachable nor what   *)
(* the reachable objects are.                                               *)
LEMMA FreeLemma ==
  ASSUME Heap!HeapTypeOK, NEW dead \in SUBSET Objs, dead \cap Reach = {}, Heap!Free(dead),
         UNCHANGED Heap!roots
  PROVE  /\ live' = live \ dead
         /\ refs' \in [Objs -> SUBSET Objs] /\ size' \in [Objs -> Nat \ {0}]
         /\ text' \in [Objs -> Texts \cup {Null}]
         /\ \A o \in Objs \ dead : /\ refs'[o] = refs[o] /\ text'[o] = text[o]
                                   /\ size'[o] = size[o]
         /\ Heap!Roots' = Heap!Roots /\ Reach' = Reach
<1>1. /\ refs' \in [Objs -> SUBSET Objs] /\ size' \in [Objs -> Nat \ {0}]
      /\ text' \in [Objs -> Texts \cup {Null}] /\ live' = live \ dead
  BY DEF Heap!Free, Heap!HeapTypeOK
<1>2. \A o \in Objs \ dead : /\ refs'[o] = refs[o] /\ text'[o] = text[o]
                             /\ size'[o] = size[o]
  BY DEF Heap!Free
<1>3. Heap!Roots' = Heap!Roots
  BY DEF Heap!roots, Heap!Roots
<1>4. Reach \subseteq Objs
  BY DEF Reach, Heap!ReachFrom
<1> QED BY <1>1, <1>2, <1>3, <1>4, ReachStable

LEMMA SweepSlabInv == ASSUME Inv, Heap!SweepSlab PROVE Inv'
<1> DEFINE dead == Heap!Small \ marked
<1> USE DEF Inv, Heap!SweepSlab
<1>1. marked = Reach /\ dead \subseteq live /\ dead \in SUBSET Objs
      /\ Heap!Roots \in SUBSET Objs
  BY RootsType DEF Marked, Heap!Small, Heap!HeapTypeOK
<1>2. /\ live' = live \ dead
      /\ refs' \in [Objs -> SUBSET Objs] /\ size' \in [Objs -> Nat \ {0}]
      /\ text' \in [Objs -> Texts \cup {Null}]
      /\ \A o \in Objs \ dead : /\ refs'[o] = refs[o] /\ text'[o] = text[o]
                                /\ size'[o] = size[o]
      /\ Heap!Roots' = Heap!Roots /\ Reach' = Reach
  BY <1>1, FreeLemma
<1>3. Reach \subseteq live
  BY <1>1, ReachLemma DEF LiveClosed, Quiet, Reach, Heap!HeapTypeOK
<1>4. Heap!Small' = Heap!Small \ dead
  BY <1>2 DEF Heap!Small, Heap!HeapTypeOK
<1>5. Heap!HeapTypeOK'
  BY <1>2 DEF Heap!HeapTypeOK, Heap!roots
<1>6. Swept'
  BY <1>1, <1>2, <1>3, <1>4 DEF Swept
<1>7. Pool'
  BY <1>1, <1>2, <1>3 DEF Pool, Heap!HeapTypeOK
<1>8. Unmarked'
  BY DEF Unmarked, Heap!roots
<1> QED BY <1>5, <1>6, <1>7, <1>8 DEF LiveClosed, Marking, Marked, Quiet

LEMMA SweepLargeInv ==
  ASSUME Inv, Heap!SweepLarge
  PROVE  Inv' /\ live' = Reach /\ marked' = {}
<1> DEFINE dead == live \ (Heap!Small \cup marked)
<1> USE DEF Inv, Heap!SweepLarge
<1>1. /\ marked = Reach \ Heap!Small /\ Heap!Small \subseteq Reach /\ Reach \subseteq live
      /\ dead \subseteq live /\ dead \in SUBSET Objs /\ dead \cap Reach = {}
      /\ Heap!Roots \in SUBSET Objs
  BY RootsType DEF Swept, Heap!Small, Heap!HeapTypeOK
<1>2. /\ live' = live \ dead
      /\ refs' \in [Objs -> SUBSET Objs] /\ size' \in [Objs -> Nat \ {0}]
      /\ text' \in [Objs -> Texts \cup {Null}]
      /\ \A o \in Objs \ dead : /\ refs'[o] = refs[o] /\ text'[o] = text[o]
                                /\ size'[o] = size[o]
      /\ Heap!Roots' = Heap!Roots /\ Reach' = Reach
  BY <1>1, FreeLemma
<1>3. live' = Reach /\ marked' = {}
  BY <1>1, <1>2
<1>4. Heap!HeapTypeOK'
  BY <1>2, <1>3 DEF Heap!HeapTypeOK, Heap!roots
<1>5. Heap!Roots \subseteq Reach /\ Heap!Closed(Reach)
  BY <1>1, ReachLemma DEF Heap!HeapTypeOK, Reach
<1>6. Heap!Closed(live)'
  BY <1>1, <1>2, <1>3, <1>5 DEF Heap!Closed, Heap!HeapTypeOK
<1>7. LiveClosed'
  BY <1>2, <1>3, <1>5, <1>6 DEF LiveClosed, Unmarked, Heap!roots
<1>8. Pool'
  BY <1>1, <1>2, <1>3 DEF Pool, Heap!HeapTypeOK
<1>9. Unmarked'
  BY <1>3 DEF Unmarked, Heap!roots
<1> QED BY <1>3, <1>4, <1>7, <1>8, <1>9 DEF Marking, Marked, Swept

LEMMA AllocateInv == ASSUME Inv, NEW o \in Objs, Heap!Allocate(o) PROVE Inv'
<1> USE DEF Inv, Heap!Allocate, Heap!marking
<1>1. Heap!HeapTypeOK'
  BY DEF Heap!HeapTypeOK, Heap!AllocRequests, Heap!NoRequest, Heap!Ptrs
<1>2. Heap!Roots' = Heap!Roots
  BY DEF Heap!Roots
<1>3. Heap!Closed(live)'
  BY DEF LiveClosed, Heap!Closed, Heap!HeapTypeOK, Quiet
<1>4. LiveClosed'
  BY <1>2, <1>3 DEF LiveClosed, Quiet
<1>5. Pool'
  <2>1. o \notin pool /\ \A p \in pool : text'[p] = text[p]
    BY DEF Pool, Heap!HeapTypeOK
  <2>2. text'[o] = request.text
    BY DEF Heap!HeapTypeOK
  <2> QED BY <2>1, <2>2 DEF Pool
<1> QED BY <1>1, <1>4, <1>5 DEF Marking, Marked, Swept, Unmarked

LEMMA StutterInv == ASSUME Inv, UNCHANGED Heap!vars PROVE Inv'
<1> USE DEF Inv, Heap!vars
<1>1. Heap!Roots' = Heap!Roots /\ Reach' = Reach
  BY ReachSame
<1>2. Heap!HeapTypeOK'
  BY DEF Heap!HeapTypeOK
<1> QED
  BY <1>1, <1>2
  DEF LiveClosed, Heap!Closed, Marking, Marked, Swept, Heap!Small, Unmarked, Pool

LEMMA NextInv == ASSUME Inv, [Heap!Next]_(Heap!vars) PROVE Inv'
BY MutateInv, MarkRootInv, TraceInv, MarkEndInv, PruneInv, SweepSlabInv,
   SweepLargeInv, AllocateInv, StutterInv
DEF Heap!Next, Heap!Collect

LEMMA HeapInvariant == Heap!Spec => []Inv
<1>1. Inv /\ [Heap!Next]_(Heap!vars) => Inv'
  BY NextInv
<1> QED BY <1>1, InitInv, PTL DEF Heap!Spec
-----------------------------------------------------------------------------
(* The accounting.  A set of objects has finitely many bytes, the bytes of  *)
(* disjoint sets add up, and only the sizes of the objects in it matter.    *)
Sized(sz) == \A o \in Objs : sz[o] \in Nat
BytesOf(sz, S) == UNION {{o} \X (1..sz[o]) : o \in S}
SumOf(sz, S) == Cardinality(BytesOf(sz, S))

LEMMA SumIsSumOf ==
  /\ \A S : Heap!SumSizes(S) = SumOf(size, S)
  /\ Heap!SumSizes(live)' = SumOf(size', live')
BY HeapLibrary DEF Heap!SumSizes, SumOf, Heap!Bytes, BytesOf

LEMMA SumOne ==
  ASSUME NEW o, NEW n \in Nat
  PROVE  IsFiniteSet({o} \X (1..n)) /\ Cardinality({o} \X (1..n)) = n
<1>1. IsFiniteSet({o}) /\ Cardinality({o}) = 1
  BY FS_Singleton
<1>2. IsFiniteSet(1..n) /\ Cardinality(1..n) = n
  BY FS_Interval
<1>3. /\ IsFiniteSet({o} \X (1..n))
      /\ Cardinality({o} \X (1..n)) = Cardinality({o}) * Cardinality(1..n)
  BY <1>1, <1>2, FS_Product
<1> QED BY <1>1, <1>2, <1>3

LEMMA BytesFinite ==
  ASSUME NEW sz, Sized(sz), NEW S \in SUBSET Objs
  PROVE  IsFiniteSet(BytesOf(sz, S)) /\ SumOf(sz, S) \in Nat
<1> DEFINE f == [o \in S |-> {o} \X (1..sz[o])]
           T == {{o} \X (1..sz[o]) : o \in S}
<1>1. IsFiniteSet(T)
  <2>1. IsFiniteSet(S)
    BY FS_Subset
  <2>2. f \in Surjection(S, T)
    BY DEF Surjection
  <2> QED BY <2>1, <2>2, FS_Surjection
<1>2. \A B \in T : IsFiniteSet(B)
  <2> SUFFICES ASSUME NEW o \in S PROVE IsFiniteSet({o} \X (1..sz[o]))
    OBVIOUS
  <2>1. sz[o] \in Nat
    BY DEF Sized
  <2> QED BY <2>1, SumOne
<1>3. IsFiniteSet(BytesOf(sz, S))
  BY <1>1, <1>2, FS_UNION DEF BytesOf
<1> QED BY <1>3, FS_CardinalityType DEF SumOf

LEMMA SumDisjoint ==
  ASSUME NEW sz, Sized(sz), NEW S \in SUBSET Objs, NEW T \in SUBSET Objs, S \cap T = {}
  PROVE  SumOf(sz, S \cup T) = SumOf(sz, S) + SumOf(sz, T)
<1>1. BytesOf(sz, S \cup T) = BytesOf(sz, S) \cup BytesOf(sz, T)
      /\ BytesOf(sz, S) \cap BytesOf(sz, T) = {}
  BY DEF BytesOf
<1>2. IsFiniteSet(BytesOf(sz, S)) /\ IsFiniteSet(BytesOf(sz, T))
      /\ SumOf(sz, S) \in Nat /\ SumOf(sz, T) \in Nat
  BY BytesFinite
<1>3. Cardinality(BytesOf(sz, S) \cup BytesOf(sz, T))
        = Cardinality(BytesOf(sz, S)) + Cardinality(BytesOf(sz, T))
          - Cardinality(BytesOf(sz, S) \cap BytesOf(sz, T))
  BY <1>2, FS_Union
<1>4. Cardinality(BytesOf(sz, S) \cap BytesOf(sz, T)) = 0
  BY <1>1, FS_EmptySet
<1>5. Cardinality(BytesOf(sz, S \cup T)) = SumOf(sz, S) + SumOf(sz, T) - 0
  BY <1>1, <1>3, <1>4, Zenon DEF SumOf
<1>6. SumOf(sz, S \cup T) = Cardinality(BytesOf(sz, S \cup T))
  BY DEF SumOf
<1> QED BY <1>2, <1>5, <1>6

LEMMA SumSame ==
  ASSUME NEW sz, NEW to, NEW S, \A o \in S : to[o] = sz[o]
  PROVE  SumOf(to, S) = SumOf(sz, S)
<1>1. BytesOf(to, S) = BytesOf(sz, S)
  BY DEF BytesOf
<1> QED BY <1>1 DEF SumOf

(* total_allocated through a call: below the threshold when gc_alloc goes   *)
(* on to allocate, which a collection that has just set it ensures too.     *)
Accounted == /\ Heap!TypeOK
             /\ request.size \in Sizes \cup {1}
             /\ phase = "alloc" => total <= threshold
             /\ Heap!HeapAccounted

LEMMA FreeAccounted ==
  ASSUME Heap!HeapTypeOK, total = Heap!SumSizes(live), NEW dead \in SUBSET live, Heap!Free(dead)
  PROVE  total' \in Nat /\ total' = Heap!SumSizes(live)'
<1>1. live \in SUBSET Objs /\ dead \in SUBSET Objs /\ Sized(size)
      /\ live = (live \ dead) \cup dead
  BY DEF Heap!HeapTypeOK, Sized
<1>2. total = SumOf(size, live \ dead) + SumOf(size, dead)
  BY <1>1, SumDisjoint, SumIsSumOf
<1>3. SumOf(size, live \ dead) \in Nat /\ SumOf(size, dead) \in Nat
  BY <1>1, BytesFinite
<1>4. total' = SumOf(size, live \ dead)
  BY <1>2, <1>3, SumIsSumOf DEF Heap!Free, Heap!SaturatingSub
<1>5. SumOf(size', live \ dead) = SumOf(size, live \ dead)
  <2>1. \A o \in live \ dead : size'[o] = size[o]
    BY <1>1 DEF Heap!Free
  <2> QED BY <2>1, SumSame
<1>6. live' = live \ dead
  BY DEF Heap!Free
<1> QED BY <1>3, <1>4, <1>5, <1>6, SumIsSumOf

LEMMA AccountedNext ==
  ASSUME Accounted, Heap!HeapTypeOK', [Heap!Next]_(Heap!vars)
  PROVE  Accounted'
<1> USE DEF Accounted, Heap!TypeOK
<1>1. ASSUME UNCHANGED <<live, size, total, threshold>>,
             request'.size \in Sizes \cup {1},
             phase' = "alloc" => total <= threshold,
             phase' = "run" => phase = "run"
      PROVE  Accounted'
  <2>1. Heap!SumSizes(live)' = Heap!SumSizes(live)
    BY <1>1, SumIsSumOf
  <2> QED BY <1>1, <2>1 DEF Heap!HeapAccounted
<1>2. CASE \E n \in Sizes : Heap!NewObject(n)
  BY <1>1, <1>2 DEF Heap!NewObject, Heap!Request, Heap!Trigger, Heap!objects
<1>3. CASE \E t \in Texts : Heap!InternMiss(t)
  BY <1>1, <1>3 DEF Heap!InternMiss, Heap!Request, Heap!Trigger, Heap!objects
<1>4. CASE Heap!Running /\ UNCHANGED <<live, size, total>>
  BY <1>1, <1>4 DEF Heap!Running
<1>5. CASE Heap!Mutate
  BY <1>2, <1>3, <1>4, <1>5
  DEF Heap!Mutate, Heap!Push, Heap!Pop, Heap!Unwind, Heap!StoreRoot, Heap!StoreStatic, Heap!SetFields, Heap!InternHit,
      Heap!Running, Heap!objects
<1>6. CASE \E o \in Objs : Heap!MarkRoot(o) \/ Heap!Trace(o)
  BY <1>1, <1>6 DEF Heap!MarkRoot, Heap!Trace, Heap!objects
<1>7. CASE Heap!MarkEnd \/ Heap!Prune
  BY <1>1, <1>7 DEF Heap!MarkEnd, Heap!Prune, Heap!objects
<1>8. CASE Heap!SweepSlab
  <2>1. total' \in Nat /\ total' = Heap!SumSizes(live)'
    BY <1>8, FreeAccounted DEF Heap!SweepSlab, Heap!Small, Heap!HeapAccounted
  <2> QED BY <1>8, <2>1 DEF Heap!SweepSlab, Heap!HeapAccounted
<1>9. CASE Heap!SweepLarge
  <2>1. total' \in Nat /\ total' = Heap!SumSizes(live)'
    BY <1>9, FreeAccounted DEF Heap!SweepLarge, Heap!HeapAccounted
  <2>2. threshold' \in Nat /\ total' <= threshold'
    BY <1>9, <2>1, HeapConstants DEF Heap!SweepLarge
  <2> QED BY <1>9, <2>1, <2>2 DEF Heap!SweepLarge, Heap!HeapAccounted
<1>10. ASSUME NEW o \in Objs, Heap!Allocate(o) PROVE Accounted'
  <2>1. /\ live \in SUBSET Objs /\ o \notin live /\ live' = live \cup {o}
        /\ Sized(size) /\ Sized(size')
        /\ \A p \in live : size'[p] = size[p]
        /\ size'[o] = request.size /\ request.size \in Nat
    BY <1>10 DEF Heap!Allocate, Heap!HeapTypeOK, Heap!AllocRequests, Sized
  <2>2. SumOf(size', live \cup {o}) = SumOf(size', live) + SumOf(size', {o})
    BY <2>1, SumDisjoint
  <2>3. SumOf(size', live) = SumOf(size, live)
    BY <2>1, SumSame
  <2>4. SumOf(size', {o}) = request.size
    <3>1. BytesOf(size', {o}) = {o} \X (1..size'[o])
      BY DEF BytesOf
    <3>2. Cardinality({o} \X (1..request.size)) = request.size
      BY <2>1, SumOne
    <3>3. size'[o] = request.size
      BY <2>1
    <3> QED BY <3>1, <3>2, <3>3, Zenon DEF SumOf
  <2>5. total' = Heap!SumSizes(live)' /\ total' \in Nat
    <3>1. total = SumOf(size, live)
      BY SumIsSumOf DEF Heap!HeapAccounted
    <3>2. total' = total + request.size
      BY <1>10 DEF Heap!Allocate
    <3> QED BY <2>1, <2>2, <2>3, <2>4, <3>1, <3>2, SumIsSumOf
  <2>6. phase = "alloc" /\ total' = total + request.size /\ threshold' = threshold
        /\ request'.size = 1 /\ phase' = "run"
    BY <1>10 DEF Heap!Allocate, Heap!NoRequest, Heap!marking
  <2>7. total' <= threshold' + request.size /\ threshold' \in Nat
    BY <2>1, <2>6
  <2>8. Heap!HeapAccounted'
    BY <2>5, <2>6, <2>7 DEF Heap!HeapAccounted
  <2> QED BY <2>5, <2>6, <2>7, <2>8
<1>11. CASE UNCHANGED Heap!vars
  BY <1>1, <1>11 DEF Heap!vars
<1> QED BY <1>5, <1>6, <1>7, <1>8, <1>9, <1>10, <1>11 DEF Heap!Next, Heap!Collect

LEMMA AccountedAlways == Heap!Spec => []Accounted
<1>1. Heap!Init => Accounted
  <2> SUFFICES ASSUME Heap!Init PROVE Accounted
    OBVIOUS
  <2>1. Heap!HeapTypeOK
    BY InitInv DEF Inv
  <2>2. Heap!SumSizes(live) = 0
    <3>1. BytesOf(size, live) = {}
      BY DEF Heap!Init, BytesOf
    <3> QED BY <3>1, FS_EmptySet, SumIsSumOf DEF SumOf
  <2> QED
    BY <2>1, <2>2, HeapConstants DEF Heap!Init, Accounted, Heap!TypeOK, Heap!HeapAccounted, Heap!NoRequest
<1>2. Accounted /\ Inv' /\ [Heap!Next]_(Heap!vars) => Accounted'
  BY AccountedNext DEF Inv
<1> QED BY <1>1, <1>2, HeapInvariant, PTL DEF Heap!Spec
-----------------------------------------------------------------------------
(* 3. The set.  What its model takes from Probing and from the library is   *)
(* the same there, in the proofs about Dict and here.                       *)
LEMMA SetLibrary ==
  /\ \A p : HSet!PowerOf2(p) <=> PowerOf2(p)
  /\ \A i : HSet!Triangle(i) = Triangle(i)
  /\ \A h, i, c : HSet!Probe(h, i, c) = Probe(h, i, c)
  /\ \A n : HSet!NextPowerOf2(n) = NextPowerOf2(n)
  /\ \A s : HSet!ToSet(s) = ToSet(s)
  /\ \A T : HSet!Cardinality(T) = Cardinality(T)
<1>1. \A p : HSet!PowerOf2(p) <=> PowerOf2(p)
  BY DEF HSet!PowerOf2, PowerOf2, HSet!Divides, Divides
<1>2. \A i : HSet!Triangle(i) = Triangle(i)
  BY DEF HSet!Triangle, Triangle
<1>3. \A h, i, c : HSet!Probe(h, i, c) = Probe(h, i, c)
  BY <1>2 DEF HSet!Probe, Probe
<1>4. ASSUME NEW n PROVE HSet!NextPowerOf2(n) = NextPowerOf2(n)
  <2>1. {p \in n..2 * n : HSet!PowerOf2(p)} = {p \in n..2 * n : PowerOf2(p)}
    BY <1>1
  <2> QED BY <2>1 DEF HSet!NextPowerOf2, NextPowerOf2, HSet!Min, Min
<1>5. \A s : HSet!ToSet(s) = ToSet(s)
  BY DEF HSet!ToSet, ToSet
<1>6. \A T : HSet!Cardinality(T) = Cardinality(T)
  <2>1. \A T : HSet!IsFiniteSet(T) <=> IsFiniteSet(T)
    BY DEF HSet!IsFiniteSet, IsFiniteSet
  <2> QED BY <2>1 DEF HSet!Cardinality, Cardinality
<1> QED BY <1>1, <1>2, <1>3, <1>4, <1>5, <1>6

Cells == Elems \cup {Empty, Tombstone}
SetCaps == {c \in Nat : c >= 4 /\ HSet!PowerOf2(c)}
SetOnce(f) == \A i, j \in DOMAIN f : f[i] \in Elems /\ f[i] = f[j] => i = j
SetUnbroken(c, f, e, p) == \A h \in 0..p - 1 : f[HSet!Slot(c, e, h)] # Empty
Reached(c, f) == \A i \in 0..c - 1 : f[i] \in Elems =>
                   \E p \in 0..c - 1 : HSet!Slot(c, f[i], p) = i /\ SetUnbroken(c, f, f[i], p)
SetSound(c, f) == /\ c \in SetCaps /\ f \in [0..c - 1 -> Cells]
               /\ SetOnce(f) /\ Reached(c, f)
Slots(f, C) == {i \in DOMAIN f : f[i] \in C}
SetTable(s) == /\ s = [entries |-> s.entries, len |-> s.len, tombstones |-> s.tombstones]
            /\ SetSound(HSet!Capacity(s), s.entries)
            /\ s.len = Cardinality(Slots(s.entries, Elems))
            /\ s.tombstones = Cardinality(Slots(s.entries, {Tombstone}))
HasEmpty(s) == \E i \in DOMAIN s.entries : s.entries[i] = Empty

LEMMA SetSlotType ==
  ASSUME HSet!HashSetAssumption, NEW c \in Nat \ {0}, NEW e \in Elems, NEW i \in Nat
  PROVE  HSet!Slot(c, e, i) \in 0..c - 1
<1>1. SetHash[e] \in Nat /\ HSet!Triangle(i) \in Nat
  BY TriangleDef, SetLibrary DEF HSet!HashSetAssumption
<1> QED BY <1>1 DEF HSet!Slot, HSet!Probe

LEMMA CapacityIs ==
  ASSUME NEW s, NEW c \in Nat, DOMAIN s.entries = 0..c - 1
  PROVE  HSet!Capacity(s) = c
<1>1. Cardinality(0..c - 1) = c
  BY IntervalLemma
<1> QED BY <1>1, SetLibrary DEF HSet!Capacity

LEMMA SetTableParts ==
  ASSUME NEW s, SetTable(s)
  PROVE  /\ HSet!Capacity(s) \in Nat /\ HSet!Capacity(s) >= 4 /\ HSet!PowerOf2(HSet!Capacity(s))
         /\ DOMAIN s.entries = 0..HSet!Capacity(s) - 1
         /\ \A i \in DOMAIN s.entries : s.entries[i] \in Cells
         /\ SetOnce(s.entries) /\ Reached(HSet!Capacity(s), s.entries)
         /\ HSet!LiveSlots(s) = Slots(s.entries, Elems)
         /\ IsFiniteSet(DOMAIN s.entries)
         /\ \A C : IsFiniteSet(Slots(s.entries, C)) /\ Cardinality(Slots(s.entries, C)) \in Nat
         /\ s.len \in Nat /\ s.tombstones \in Nat
<1>1. /\ HSet!Capacity(s) \in Nat /\ HSet!Capacity(s) >= 4 /\ HSet!PowerOf2(HSet!Capacity(s))
      /\ DOMAIN s.entries = 0..HSet!Capacity(s) - 1
      /\ \A i \in DOMAIN s.entries : s.entries[i] \in Cells
      /\ SetOnce(s.entries) /\ Reached(HSet!Capacity(s), s.entries)
  BY DEF SetTable, SetSound, SetCaps
<1>2. HSet!LiveSlots(s) = Slots(s.entries, Elems)
  BY DEF HSet!LiveSlots, Slots
<1>3. IsFiniteSet(DOMAIN s.entries)
  BY <1>1, IntervalLemma
<1>4. ASSUME NEW C
      PROVE  IsFiniteSet(Slots(s.entries, C)) /\ Cardinality(Slots(s.entries, C)) \in Nat
  <2>1. Slots(s.entries, C) \in SUBSET (DOMAIN s.entries)
    BY DEF Slots
  <2> QED BY <1>3, <2>1, FS_Subset, FS_CardinalityType
<1>5. s.len \in Nat /\ s.tombstones \in Nat
  BY <1>4 DEF SetTable
<1> QED BY <1>1, <1>2, <1>3, <1>4, <1>5

LEMMA SetEndLemma ==
  ASSUME HSet!HashSetAssumption, NEW s, SetTable(s), NEW e \in Elems
  PROVE  /\ HSet!End(s, e) \in 0..HSet!Capacity(s) /\ HSet!Ends(s, e, HSet!End(s, e))
         /\ \A h \in 0..HSet!End(s, e) - 1 : ~HSet!Ends(s, e, h)
<1> DEFINE T == {i \in 0..HSet!Capacity(s) : HSet!Ends(s, e, i)}
<1>1. HSet!Capacity(s) \in Nat
  BY SetTableParts
<1>2. HSet!Capacity(s) \in T
  BY <1>1 DEF HSet!Ends
<1>3. PICK i \in T : \A j \in T : i <= j
  <2>1. T \subseteq Nat /\ T # {}
    BY <1>1, <1>2
  <2> HIDE DEF T
  <2> QED BY <2>1, NatMin
<1>4. i \in 0..HSet!Capacity(s) /\ HSet!Ends(s, e, i) /\ \A h \in 0..i - 1 : ~HSet!Ends(s, e, h)
  BY <1>1, <1>3
<1> QED BY <1>4 DEF HSet!End

(* A lookup finds the element where it is, and nothing where it is not.     *)
LEMMA FindLemma ==
  ASSUME HSet!HashSetAssumption, NEW s, SetTable(s), NEW e \in Elems
  PROVE  /\ \A i \in DOMAIN s.entries : s.entries[i] = e => HSet!FindSlot(s, e) = i
         /\ (\A i \in DOMAIN s.entries : s.entries[i] # e) => HSet!FindSlot(s, e) = -1
<1> DEFINE c == HSet!Capacity(s)
           end == HSet!End(s, e)
<1>1. /\ c \in Nat \ {0} /\ DOMAIN s.entries = 0..c - 1
      /\ SetOnce(s.entries) /\ Reached(c, s.entries)
  BY SetTableParts
<1>2. end \in 0..c /\ HSet!Ends(s, e, end) /\ \A h \in 0..end - 1 : ~HSet!Ends(s, e, h)
  BY SetEndLemma
<1>3. ASSUME NEW p \in 0..c - 1 PROVE HSet!Slot(c, e, p) \in DOMAIN s.entries
  BY <1>1, SetSlotType
<1>4. ASSUME NEW i \in DOMAIN s.entries, s.entries[i] = e PROVE HSet!FindSlot(s, e) = i
  <2>1. PICK p \in 0..c - 1 : HSet!Slot(c, e, p) = i /\ SetUnbroken(c, s.entries, e, p)
    BY <1>1, <1>4 DEF Reached
  <2>2. HSet!Ends(s, e, p)
    BY <1>4, <2>1 DEF HSet!Ends, HSet!At
  <2>3. end <= p
    BY <1>1, <1>2, <2>1, <2>2
  <2>4. end < c /\ end \in 0..c - 1
    BY <1>1, <1>2, <2>3
  <2>5. HSet!At(s, e, end) # Empty
    <3>1. CASE end = p
      BY <1>4, <2>1, <3>1 DEF HSet!At, HSet!HashSetAssumption
    <3>2. CASE end < p
      BY <1>2, <2>1, <3>2 DEF HSet!At, SetUnbroken
    <3> QED BY <1>1, <1>2, <2>3, <3>1, <3>2
  <2>6. HSet!At(s, e, end) = e
    BY <1>1, <1>2, <2>4, <2>5 DEF HSet!Ends
  <2>7. HSet!Slot(c, e, end) = i
    <3>1. HSet!Slot(c, e, end) \in DOMAIN s.entries /\ s.entries[HSet!Slot(c, e, end)] = e
      BY <1>3, <2>4, <2>6 DEF HSet!At
    <3> QED BY <1>1, <1>4, <3>1 DEF SetOnce
  <2> QED BY <2>4, <2>6, <2>7 DEF HSet!FindSlot
<1>5. ASSUME \A i \in DOMAIN s.entries : s.entries[i] # e PROVE HSet!FindSlot(s, e) = -1
  <2>1. ~(end < c /\ HSet!At(s, e, end) = e)
    <3> SUFFICES ASSUME end < c PROVE HSet!At(s, e, end) # e
      OBVIOUS
    <3>1. end \in 0..c - 1
      BY <1>1, <1>2
    <3> QED BY <1>3, <1>5, <3>1 DEF HSet!At
  <2> QED BY <2>1 DEF HSet!FindSlot
<1> QED BY <1>4, <1>5

(* With an empty slot left, an insertion has a slot to take.                *)
SetFree(s, e, t) ==
  /\ t \in DOMAIN s.entries /\ s.entries[t] \in {Empty, Tombstone}
  /\ \E p \in 0..HSet!Capacity(s) - 1 : /\ t = HSet!Slot(HSet!Capacity(s), e, p)
                                   /\ SetUnbroken(HSet!Capacity(s), s.entries, e, p)

LEMMA EmptyReached ==
  ASSUME HSet!HashSetAssumption, NEW s, SetTable(s), NEW e \in Elems, HasEmpty(s)
  PROVE  \E p \in 0..HSet!Capacity(s) - 1 : HSet!At(s, e, p) = Empty
<1>1. PICK i \in DOMAIN s.entries : s.entries[i] = Empty
  BY DEF HasEmpty
<1>2. HSet!Capacity(s) \in Nat \ {0} /\ HSet!PowerOf2(HSet!Capacity(s)) /\ i \in 0..HSet!Capacity(s) - 1
  BY SetTableParts
<1>3. SetHash[e] \in Nat
  BY DEF HSet!HashSetAssumption
<1>4. \E p \in 0..HSet!Capacity(s) - 1 : HSet!Probe(SetHash[e], p, HSet!Capacity(s)) = i
  BY <1>2, <1>3, ProbesVisitAll, SetLibrary
<1> QED BY <1>1, <1>4 DEF HSet!At, HSet!Slot

LEMMA SetInsertLemma ==
  ASSUME HSet!HashSetAssumption, NEW s, SetTable(s), NEW e \in Elems, HasEmpty(s)
  PROVE  /\ \A i \in DOMAIN s.entries : s.entries[i] = e => HSet!InsertSlot(s, e) = i
         /\ e \notin HSet!ElemsOf(s) => SetFree(s, e, HSet!InsertSlot(s, e))
<1> DEFINE c == HSet!Capacity(s)
           end == HSet!End(s, e)
           passed == {i \in 0..end - 1 : HSet!At(s, e, i) = Tombstone}
<1>1. /\ c \in Nat \ {0} /\ DOMAIN s.entries = 0..c - 1
      /\ HSet!LiveSlots(s) = Slots(s.entries, Elems)
  BY SetTableParts
<1>2. end \in 0..c /\ HSet!Ends(s, e, end) /\ \A h \in 0..end - 1 : ~HSet!Ends(s, e, h)
  BY SetEndLemma
<1>3. ASSUME NEW p \in 0..c - 1 PROVE HSet!Slot(c, e, p) \in DOMAIN s.entries
  BY <1>1, SetSlotType
<1>4. end < c /\ end \in 0..c - 1
  <2>1. PICK p \in 0..c - 1 : HSet!At(s, e, p) = Empty
    BY EmptyReached
  <2>2. HSet!Ends(s, e, p)
    BY <2>1 DEF HSet!Ends
  <2> QED BY <1>1, <1>2, <2>2
<1>5. \A p \in 0..end : SetUnbroken(c, s.entries, e, p)
  <2> SUFFICES ASSUME NEW p \in 0..end, NEW h \in 0..p - 1
               PROVE  s.entries[HSet!Slot(c, e, h)] # Empty
    BY DEF SetUnbroken
  <2>1. h \in 0..end - 1
    BY <1>2
  <2> QED BY <1>2, <2>1 DEF HSet!Ends, HSet!At
<1>6. ASSUME NEW i \in DOMAIN s.entries, s.entries[i] = e PROVE HSet!InsertSlot(s, e) = i
  <2>1. HSet!FindSlot(s, e) = i
    BY <1>6, FindLemma
  <2>2. i # -1
    BY <1>1
  <2>3. HSet!At(s, e, end) = e /\ HSet!Slot(c, e, end) = i
    BY <2>1, <2>2 DEF HSet!FindSlot
  <2> QED BY <1>4, <2>3 DEF HSet!InsertSlot
<1>7. ASSUME e \notin HSet!ElemsOf(s) PROVE SetFree(s, e, HSet!InsertSlot(s, e))
  <2>1. \A i \in DOMAIN s.entries : s.entries[i] # e
    BY <1>7 DEF HSet!ElemsOf, HSet!LiveSlots
  <2>2. HSet!At(s, e, end) # e
    BY <1>3, <1>4, <2>1 DEF HSet!At
  <2>3. CASE passed = {}
    <3>1. HSet!InsertSlot(s, e) = HSet!Slot(c, e, end)
      BY <1>4, <2>2, <2>3 DEF HSet!InsertSlot
    <3>2. HSet!At(s, e, end) = Empty
      BY <1>1, <1>2, <1>4, <2>2 DEF HSet!Ends
    <3> QED BY <1>3, <1>4, <1>5, <3>1, <3>2 DEF SetFree, HSet!At
  <2>4. CASE passed # {}
    <3>1. HSet!InsertSlot(s, e) = HSet!Slot(c, e, HSet!Min(passed))
      BY <1>4, <2>2, <2>4 DEF HSet!InsertSlot
    <3>2. HSet!Min(passed) \in passed
      <4>1. passed \subseteq Nat
        OBVIOUS
      <4>2. PICK m \in passed : \A y \in passed : m <= y
        BY <2>4, <4>1, NatMin
      <4> HIDE DEF passed
      <4> QED BY <4>2 DEF HSet!Min
    <3>3. HSet!Min(passed) \in 0..c - 1 /\ HSet!Min(passed) \in 0..end
      BY <1>1, <1>4, <3>2
    <3>4. s.entries[HSet!InsertSlot(s, e)] = Tombstone
      BY <3>1, <3>2 DEF HSet!At
    <3> QED BY <1>3, <1>5, <3>1, <3>3, <3>4 DEF SetFree
  <2> QED BY <2>3, <2>4
<1> QED BY <1>6, <1>7
-----------------------------------------------------------------------------
(* Counting slots.                                                          *)
LEMMA EmptyCount ==
  ASSUME HSet!HashSetAssumption, NEW s, SetTable(s)
  PROVE  HasEmpty(s) <=> s.len + s.tombstones < HSet!Capacity(s)
<1> DEFINE f == s.entries
           L == Slots(f, Elems)
           T == Slots(f, {Tombstone})
           N == DOMAIN f
<1>1. /\ HSet!Capacity(s) \in Nat /\ N = 0..HSet!Capacity(s) - 1 /\ IsFiniteSet(N)
      /\ \A i \in N : f[i] \in Cells
      /\ IsFiniteSet(L) /\ IsFiniteSet(T)
      /\ Cardinality(L) \in Nat /\ Cardinality(T) \in Nat
  BY SetTableParts
<1>2. L \cap T = {} /\ L \cup T \in SUBSET N
  BY DEF Slots, HSet!HashSetAssumption
<1>3. Cardinality(L \cup T) = Cardinality(L) + Cardinality(T)
  <2>1. Cardinality(L \cap T) = 0
    BY <1>2, FS_EmptySet
  <2> HIDE DEF L, T
  <2>2. Cardinality(L \cup T) = Cardinality(L) + Cardinality(T) - Cardinality(L \cap T)
    BY <1>1, FS_Union
  <2> QED BY <1>1, <2>1, <2>2
<1>4. Cardinality(N) = HSet!Capacity(s)
  BY SetLibrary DEF HSet!Capacity
<1>5. s.len + s.tombstones = Cardinality(L \cup T)
  BY <1>3 DEF SetTable
<1>6. /\ Cardinality(L \cup T) <= Cardinality(N) /\ Cardinality(L \cup T) \in Nat
      /\ Cardinality(N) = Cardinality(L \cup T) => N = L \cup T
  <2> HIDE DEF L, T, N
  <2> QED BY <1>1, <1>2, FS_Subset, FS_CardinalityType
<1>7. HasEmpty(s) <=> N # L \cup T
  <2>1. HasEmpty(s) => N # L \cup T
    BY DEF HasEmpty, Slots, HSet!HashSetAssumption
  <2>2. N # L \cup T => HasEmpty(s)
    BY <1>1 DEF HasEmpty, Slots, Cells
  <2> QED BY <2>1, <2>2
<1> HIDE DEF L, T, N
<1>8. Cardinality(L \cup T) < Cardinality(N) <=> N # L \cup T
  <2>1. CASE N = L \cup T
    BY <1>6, <2>1
  <2>2. CASE N # L \cup T
    <3>1. Cardinality(N) \in Nat /\ Cardinality(N) # Cardinality(L \cup T)
      BY <1>1, <1>4, <1>6, <2>2
    <3> QED BY <1>6, <2>2, <3>1
  <2> QED BY <2>1, <2>2
<1> QED BY <1>4, <1>5, <1>7, <1>8

(* An element put in a free slot.                                           *)
LEMMA SetPutLemma ==
  ASSUME HSet!HashSetAssumption, NEW s, SetTable(s), NEW e \in Elems, e \notin HSet!ElemsOf(s),
         NEW t, SetFree(s, e, t), NEW r,
         r = [entries |-> [s.entries EXCEPT ![t] = e], len |-> s.len + 1,
              tombstones |-> IF s.entries[t] = Tombstone THEN s.tombstones - 1
                             ELSE s.tombstones]
  PROVE  SetTable(r) /\ HSet!Capacity(r) = HSet!Capacity(s) /\ HSet!ElemsOf(r) = HSet!ElemsOf(s) \cup {e}
<1> DEFINE f == s.entries
           g == r.entries
           c == HSet!Capacity(s)
<1>1. /\ c \in Nat /\ c >= 4 /\ HSet!PowerOf2(c)
      /\ DOMAIN f = 0..c - 1 /\ f \in [0..c - 1 -> Cells]
      /\ SetOnce(f) /\ Reached(c, f)
  BY SetTableParts DEF SetTable, SetSound
<1>2. t \in 0..c - 1 /\ f[t] \in {Empty, Tombstone} /\ f[t] \notin Elems
  BY <1>1 DEF SetFree, HSet!HashSetAssumption
<1>3. /\ g \in [0..c - 1 -> Cells] /\ DOMAIN g = 0..c - 1 /\ g[t] = e
      /\ \A i \in 0..c - 1 : i # t => g[i] = f[i]
  BY <1>1, <1>2 DEF Cells
<1>4. HSet!Capacity(r) = c
  BY <1>1, <1>3, CapacityIs
<1>5. \A i \in 0..c - 1 : f[i] # e
  BY <1>1 DEF HSet!ElemsOf, HSet!LiveSlots
<1>6. \A h \in 0..c - 1 : f[h] # Empty => g[h] # Empty
  BY <1>3 DEF HSet!HashSetAssumption
<1>7. SetOnce(g)
  BY <1>1, <1>3, <1>5 DEF SetOnce
<1>8. ASSUME NEW x \in Elems, NEW p \in 0..c - 1, SetUnbroken(c, f, x, p)
      PROVE  SetUnbroken(c, g, x, p)
  <2> SUFFICES ASSUME NEW h \in 0..p - 1 PROVE g[HSet!Slot(c, x, h)] # Empty
    BY DEF SetUnbroken
  <2>1. HSet!Slot(c, x, h) \in 0..c - 1
    BY <1>1, SetSlotType
  <2> QED BY <1>6, <1>8, <2>1 DEF SetUnbroken
<1>9. Reached(c, g)
  <2> SUFFICES ASSUME NEW i \in 0..c - 1, g[i] \in Elems
               PROVE  \E p \in 0..c - 1 : HSet!Slot(c, g[i], p) = i /\ SetUnbroken(c, g, g[i], p)
    BY DEF Reached
  <2>1. CASE i = t
    <3>1. PICK p \in 0..c - 1 : t = HSet!Slot(c, e, p) /\ SetUnbroken(c, f, e, p)
      BY DEF SetFree
    <3> QED BY <1>3, <1>8, <2>1, <3>1
  <2>2. CASE i # t
    <3>1. g[i] = f[i]
      BY <1>3, <2>2
    <3>2. PICK p \in 0..c - 1 : HSet!Slot(c, f[i], p) = i /\ SetUnbroken(c, f, f[i], p)
      BY <1>1, <3>1 DEF Reached
    <3> QED BY <1>8, <3>1, <3>2
  <2> QED BY <2>1, <2>2
<1>10. SetSound(c, g)
  BY <1>1, <1>3, <1>7, <1>9 DEF SetSound, SetCaps
<1>11. Slots(g, Elems) = Slots(f, Elems) \cup {t} /\ t \notin Slots(f, Elems)
  BY <1>1, <1>2, <1>3 DEF Slots
<1>12. Slots(g, {Tombstone}) = Slots(f, {Tombstone}) \ {t}
  BY <1>1, <1>2, <1>3 DEF Slots, HSet!HashSetAssumption
<1>13. t \in Slots(f, {Tombstone}) <=> f[t] = Tombstone
  BY <1>1, <1>2 DEF Slots
<1>14. /\ IsFiniteSet(Slots(f, Elems)) /\ IsFiniteSet(Slots(f, {Tombstone}))
       /\ s.len = Cardinality(Slots(f, Elems))
       /\ s.tombstones = Cardinality(Slots(f, {Tombstone}))
  BY SetTableParts DEF SetTable
<1>15. r.len = Cardinality(Slots(g, Elems))
  <2>1. r.len = s.len + 1
    OBVIOUS
  <2> QED BY <1>11, <1>14, <2>1, FS_AddElement
<1>16. r.tombstones = Cardinality(Slots(g, {Tombstone}))
  <2>1. r.tombstones = IF f[t] = Tombstone THEN s.tombstones - 1 ELSE s.tombstones
    OBVIOUS
  <2>2. ASSUME NEW T, IsFiniteSet(T)
        PROVE  Cardinality(T \ {t}) = IF t \in T THEN Cardinality(T) - 1 ELSE Cardinality(T)
    BY <2>2, FS_RemoveElement
  <2>3. Cardinality(Slots(g, {Tombstone})) =
          IF f[t] = Tombstone THEN s.tombstones - 1 ELSE s.tombstones
    BY <1>12, <1>13, <1>14, <2>2
  <2> QED BY <2>1, <2>3
<1>17. HSet!ElemsOf(r) = HSet!ElemsOf(s) \cup {e}
  BY <1>1, <1>2, <1>3 DEF HSet!ElemsOf, HSet!LiveSlots
<1>18. r = [entries |-> r.entries, len |-> r.len, tombstones |-> r.tombstones]
  OBVIOUS
<1> QED BY <1>4, <1>10, <1>15, <1>16, <1>17, <1>18 DEF SetTable

LEMMA SetFreshLemma ==
  ASSUME HSet!HashSetAssumption, NEW c \in SetCaps
  PROVE  /\ SetTable(HSet!Fresh(c)) /\ HSet!Capacity(HSet!Fresh(c)) = c /\ HSet!ElemsOf(HSet!Fresh(c)) = {}
         /\ HSet!Fresh(c).len = 0 /\ HSet!Fresh(c).tombstones = 0 /\ HasEmpty(HSet!Fresh(c))
<1> DEFINE r == HSet!Fresh(c)
<1>1. /\ r = [entries |-> r.entries, len |-> r.len, tombstones |-> r.tombstones]
      /\ r.len = 0 /\ r.tombstones = 0 /\ r.entries \in [0..c - 1 -> Cells]
      /\ \A i \in 0..c - 1 : r.entries[i] = Empty
      /\ DOMAIN r.entries = 0..c - 1
  BY DEF HSet!Fresh, Cells
<1>2. c \in Nat /\ c >= 4
  BY DEF SetCaps
<1> HIDE DEF r
<1>3. HSet!Capacity(r) = c
  BY <1>1, <1>2, CapacityIs
<1>4. Slots(r.entries, Elems) = {} /\ Slots(r.entries, {Tombstone}) = {}
  BY <1>1 DEF Slots, HSet!HashSetAssumption
<1>5. SetOnce(r.entries) /\ Reached(c, r.entries)
  BY <1>1 DEF SetOnce, Reached, HSet!HashSetAssumption
<1>6. HSet!ElemsOf(r) = {}
  BY <1>1 DEF HSet!ElemsOf, HSet!LiveSlots, HSet!HashSetAssumption
<1>7. 0 \in DOMAIN r.entries
  BY <1>1, <1>2
<1>8. SetTable(r) /\ HasEmpty(r)
  BY <1>1, <1>3, <1>4, <1>5, <1>7, FS_EmptySet DEF SetTable, SetSound, HasEmpty
<1> QED BY <1>1, <1>3, <1>6, <1>8 DEF r

(* set_resize puts one element in an empty slot.                            *)
LEMMA SetPlaceLemma ==
  ASSUME HSet!HashSetAssumption, NEW s, SetTable(s), NEW e \in Elems, e \notin HSet!ElemsOf(s),
         HasEmpty(s)
  PROVE  /\ SetTable(HSet!Place(s, e)) /\ HSet!Capacity(HSet!Place(s, e)) = HSet!Capacity(s)
         /\ HSet!ElemsOf(HSet!Place(s, e)) = HSet!ElemsOf(s) \cup {e}
         /\ HSet!Place(s, e).len = s.len + 1 /\ HSet!Place(s, e).tombstones = s.tombstones
<1> DEFINE c == HSet!Capacity(s)
           free == {i \in HSet!Probes(s) : HSet!At(s, e, i) = Empty}
           t == HSet!Slot(c, e, HSet!Min(free))
           r == [entries |-> [s.entries EXCEPT ![t] = e], len |-> s.len + 1,
                 tombstones |-> s.tombstones]
<1>1. c \in Nat \ {0} /\ DOMAIN s.entries = 0..c - 1
  BY SetTableParts
<1>2. free # {} /\ free \subseteq Nat
  BY <1>1, EmptyReached DEF HSet!Probes
<1>3. PICK m \in free : \A y \in free : m <= y
  <2> HIDE DEF free
  <2> QED BY <1>2, NatMin
<1>4. HSet!Min(free) \in free /\ \A y \in free : HSet!Min(free) <= y
  <2> HIDE DEF free
  <2> QED BY <1>3 DEF HSet!Min
<1>5. HSet!Min(free) \in 0..c - 1 /\ HSet!At(s, e, HSet!Min(free)) = Empty
  BY <1>4 DEF HSet!Probes
<1>6. SetUnbroken(c, s.entries, e, HSet!Min(free))
  <2> SUFFICES ASSUME NEW h \in 0..HSet!Min(free) - 1 PROVE s.entries[HSet!Slot(c, e, h)] # Empty
    BY DEF SetUnbroken
  <2>1. h \in 0..c - 1 /\ ~(HSet!Min(free) <= h)
    BY <1>1, <1>5
  <2>2. h \notin free
    BY <1>4, <2>1
  <2> QED BY <2>1, <2>2 DEF HSet!Probes, HSet!At
<1>7. t \in DOMAIN s.entries /\ s.entries[t] = Empty
  BY <1>1, <1>5, SetSlotType DEF HSet!At
<1>8. SetFree(s, e, t)
  BY <1>5, <1>6, <1>7 DEF SetFree
<1>9. s.entries[t] # Tombstone
  BY <1>7 DEF HSet!HashSetAssumption
<1>10. SetTable(r) /\ HSet!Capacity(r) = c /\ HSet!ElemsOf(r) = HSet!ElemsOf(s) \cup {e}
  BY <1>8, <1>9, SetPutLemma
<1>11. HSet!Place(s, e) = r
  BY DEF HSet!Place
<1>12. r.len = s.len + 1 /\ r.tombstones = s.tombstones
  OBVIOUS
<1> HIDE DEF r
<1> QED BY <1>10, <1>11, <1>12
-----------------------------------------------------------------------------
(* set_resize keeps the elements, in a table of the capacity it was given.  *)
Before(s, i) == {j \in HSet!LiveSlots(s) : j < i}
ElemsBefore(s, i) == {s.entries[j] : j \in Before(s, i)}
Moved(s, cap, i, r) == /\ SetTable(r) /\ HSet!Capacity(r) = cap /\ r.tombstones = 0
                       /\ HSet!ElemsOf(r) = ElemsBefore(s, i)
                       /\ r.len = Cardinality(Before(s, i))
SetMoveStep(s, cap, i, g) ==
  IF i = 0 THEN HSet!Fresh(cap)
  ELSE IF s.entries[i - 1] \in Elems THEN HSet!Place(g[i - 1], s.entries[i - 1])
  ELSE g[i - 1]

LEMMA MoveOne ==
  ASSUME HSet!HashSetAssumption, NEW s, SetTable(s), NEW cap \in SetCaps, s.len < cap,
         NEW i \in 0..HSet!Capacity(s) - 1, NEW r, Moved(s, cap, i, r)
  PROVE  Moved(s, cap, i + 1,
               IF s.entries[i] \in Elems THEN HSet!Place(r, s.entries[i]) ELSE r)
<1> DEFINE e == s.entries[i]
<1>1. /\ HSet!Capacity(s) \in Nat /\ DOMAIN s.entries = 0..HSet!Capacity(s) - 1
      /\ SetOnce(s.entries) /\ HSet!LiveSlots(s) = Slots(s.entries, Elems)
      /\ IsFiniteSet(HSet!LiveSlots(s)) /\ s.len = Cardinality(HSet!LiveSlots(s))
      /\ i \in DOMAIN s.entries
  BY SetTableParts DEF SetTable
<1>2. CASE e \notin Elems
  <2>1. Before(s, i + 1) = Before(s, i)
    BY <1>1, <1>2 DEF Before, HSet!LiveSlots
  <2> QED BY <1>2, <2>1 DEF Moved, ElemsBefore
<1>3. CASE e \in Elems
  <2>1. /\ Before(s, i + 1) = Before(s, i) \cup {i} /\ i \notin Before(s, i)
        /\ i \in HSet!LiveSlots(s) /\ Before(s, i) \in SUBSET HSet!LiveSlots(s)
    BY <1>1, <1>3 DEF Before, HSet!LiveSlots
  <2>2. ElemsBefore(s, i + 1) = ElemsBefore(s, i) \cup {e}
    BY <2>1 DEF ElemsBefore
  <2>3. e \notin ElemsBefore(s, i)
    BY <1>1, <1>3, <2>1 DEF ElemsBefore, SetOnce, HSet!LiveSlots
  <2>4. IsFiniteSet(Before(s, i)) /\ Cardinality(Before(s, i)) <= s.len
        /\ Cardinality(Before(s, i)) \in Nat
    BY <1>1, <2>1, FS_Subset, FS_CardinalityType
  <2>5. HasEmpty(r)
    <3>1. r.len + r.tombstones < HSet!Capacity(r)
      <4>1. s.len \in Nat /\ cap \in Nat
        BY SetTableParts DEF SetCaps
      <4> QED BY <2>4, <4>1 DEF Moved
    <3> QED BY <3>1, EmptyCount DEF Moved
  <2>6. /\ SetTable(HSet!Place(r, e)) /\ HSet!Capacity(HSet!Place(r, e)) = cap
        /\ HSet!ElemsOf(HSet!Place(r, e)) = HSet!ElemsOf(r) \cup {e}
        /\ HSet!Place(r, e).len = r.len + 1 /\ HSet!Place(r, e).tombstones = 0
    BY <1>3, <2>3, <2>5, SetPlaceLemma DEF Moved
  <2>7. Cardinality(Before(s, i + 1)) = Cardinality(Before(s, i)) + 1
    BY <2>1, <2>4, FS_AddElement
  <2> QED BY <1>3, <2>2, <2>6, <2>7 DEF Moved
<1> QED BY <1>2, <1>3

LEMMA SetMoveAll ==
  ASSUME HSet!HashSetAssumption, NEW s, SetTable(s), NEW cap \in SetCaps, s.len < cap,
         NEW n \in 0..HSet!Capacity(s)
  PROVE  \E g : /\ g = [i \in 0..n |-> SetMoveStep(s, cap, i, g)]
                /\ \A i \in 0..n : Moved(s, cap, i, g[i])
<1> DEFINE Good(m, g) == /\ g = [i \in 0..m |-> SetMoveStep(s, cap, i, g)]
                         /\ \A i \in 0..m : Moved(s, cap, i, g[i])
           T == {m \in 0..HSet!Capacity(s) : ~\E g : Good(m, g)}
<1>0. HSet!Capacity(s) \in Nat
  BY SetTableParts
<1>1. \E g : Good(0, g)
  <2> DEFINE g == [i \in 0..0 |-> HSet!Fresh(cap)]
  <2>1. g = [i \in 0..0 |-> SetMoveStep(s, cap, i, g)]
    BY DEF SetMoveStep
  <2>2. Moved(s, cap, 0, HSet!Fresh(cap))
    <3>1. Before(s, 0) = {}
      BY SetTableParts DEF Before, HSet!LiveSlots
    <3> QED BY <3>1, SetFreshLemma, FS_EmptySet DEF Moved, ElemsBefore
  <2>3. \A i \in 0..0 : Moved(s, cap, i, g[i])
    BY <2>2
  <2> HIDE DEF g
  <2> QED BY <2>1, <2>3
<1>2. ASSUME NEW m \in 0..HSet!Capacity(s) - 1, NEW g, Good(m, g)
      PROVE  \E h : Good(m + 1, h)
  <2> DEFINE x == IF s.entries[m] \in Elems THEN HSet!Place(g[m], s.entries[m]) ELSE g[m]
             h == [i \in 0..m + 1 |-> IF i = m + 1 THEN x ELSE g[i]]
  <2>1. m \in Nat /\ m \in 0..m /\ m \in 0..HSet!Capacity(s) - 1
    BY <1>0
  <2>2. Moved(s, cap, m, g[m])
    BY <1>2, <2>1
  <2>3. Moved(s, cap, m + 1, x)
    BY <2>2, MoveOne
  <2> HIDE DEF x
  <2>4. h[m + 1] = x /\ \A i \in 0..m : h[i] = g[i]
    BY <2>1
  <2>5. SetMoveStep(s, cap, m + 1, h) = x
    BY <2>1, <2>4 DEF SetMoveStep, x
  <2>6. \A i \in 0..m : SetMoveStep(s, cap, i, h) = g[i]
    <3> SUFFICES ASSUME NEW i \in 0..m PROVE SetMoveStep(s, cap, i, h) = g[i]
      OBVIOUS
    <3>1. g[i] = SetMoveStep(s, cap, i, g)
      BY <1>2
    <3>2. i = 0 \/ (i - 1 \in 0..m /\ h[i - 1] = g[i - 1])
      BY <2>1, <2>4
    <3> QED BY <3>1, <3>2 DEF SetMoveStep
  <2>7. h = [i \in 0..m + 1 |-> SetMoveStep(s, cap, i, h)]
    <3>1. \A i \in 0..m + 1 : i = m + 1 \/ i \in 0..m
      BY <2>1
    <3>2. \A i \in 0..m + 1 : SetMoveStep(s, cap, i, h) = IF i = m + 1 THEN x ELSE g[i]
      BY <2>1, <2>5, <2>6, <3>1
    <3> QED BY <3>2
  <2>8. \A i \in 0..m + 1 : Moved(s, cap, i, h[i])
    <3>1. \A i \in 0..m + 1 : i = m + 1 \/ i \in 0..m
      BY <2>1
    <3> HIDE DEF h
    <3> QED BY <1>2, <2>3, <2>4, <3>1
  <2> HIDE DEF h
  <2> QED BY <2>7, <2>8
<1>3. T = {}
  <2> SUFFICES ASSUME T # {} PROVE FALSE
    OBVIOUS
  <2>1. T \subseteq Nat
    BY <1>0
  <2>2. PICK m \in T : \A z \in T : m <= z
    <3> HIDE DEF T
    <3> QED BY <2>1, NatMin
  <2>3. m # 0
    <3> HIDE DEF Good
    <3> QED BY <1>1, <2>2
  <2>4. m - 1 \in 0..HSet!Capacity(s) - 1 /\ m - 1 \in 0..HSet!Capacity(s)
    BY <1>0, <2>3
  <2>5. m - 1 \notin T
    <3> HIDE DEF T
    <3> QED BY <1>0, <2>1, <2>2, <2>4
  <2>6. PICK g : Good(m - 1, g)
    <3> HIDE DEF Good
    <3> QED BY <2>4, <2>5
  <2>7. \E h : Good((m - 1) + 1, h)
    <3> HIDE DEF Good
    <3> QED BY <1>2, <2>4, <2>6
  <2>8. (m - 1) + 1 = m
    BY <1>0
  <2> HIDE DEF Good
  <2> QED BY <2>2, <2>7, <2>8
<1> HIDE DEF Good
<1>4. \E g : Good(n, g)
  BY <1>3
<1> QED BY <1>4 DEF Good

LEMMA SetResizeLemma ==
  ASSUME HSet!HashSetAssumption, NEW s, SetTable(s), NEW cap \in SetCaps, s.len < cap
  PROVE  /\ SetTable(HSet!Resize(s, cap)) /\ HSet!Capacity(HSet!Resize(s, cap)) = cap
         /\ HSet!Resize(s, cap).tombstones = 0 /\ HSet!Resize(s, cap).len = s.len
         /\ HSet!ElemsOf(HSet!Resize(s, cap)) = HSet!ElemsOf(s)
<1> DEFINE n == HSet!Capacity(s)
           f == CHOOSE g : g = [i \in 0..n |-> SetMoveStep(s, cap, i, g)]
<1>1. n \in Nat /\ n \in 0..n
  BY SetTableParts
<1>2. PICK g : /\ g = [i \in 0..n |-> SetMoveStep(s, cap, i, g)]
               /\ \A i \in 0..n : Moved(s, cap, i, g[i])
  BY <1>1, SetMoveAll
<1>3. f = [i \in 0..n |-> SetMoveStep(s, cap, i, f)]
  BY <1>2
<1>4. \A i \in 0..n : f[i] = g[i]
  <2> HIDE DEF f
  <2> DEFINE T == {i \in 0..n : f[i] # g[i]}
  <2> SUFFICES ASSUME T # {} PROVE FALSE
    OBVIOUS
  <2>1. PICK m \in T : \A z \in T : m <= z
    <3>1. T \subseteq Nat
      BY <1>1
    <3> HIDE DEF T
    <3> QED BY <3>1, NatMin
  <2>2. m \in 0..n /\ (m # 0 => f[m - 1] = g[m - 1])
    BY <1>1, <2>1
  <2>3. f[m] = SetMoveStep(s, cap, m, f) /\ g[m] = SetMoveStep(s, cap, m, g)
    BY <1>2, <1>3, <2>2
  <2> QED BY <2>1, <2>2, <2>3 DEF SetMoveStep
<1>5. HSet!Resize(s, cap) = f[n]
  BY DEF HSet!Resize, SetMoveStep
<1>6. Moved(s, cap, n, HSet!Resize(s, cap))
  BY <1>1, <1>2, <1>4, <1>5
<1>7. Before(s, n) = HSet!LiveSlots(s) /\ HSet!LiveSlots(s) = Slots(s.entries, Elems)
  BY <1>1, SetTableParts DEF Before, HSet!LiveSlots
<1> QED BY <1>6, <1>7 DEF Moved, ElemsBefore, HSet!ElemsOf, SetTable
-----------------------------------------------------------------------------
(* rt_set_add.                                                              *)
Ready(s) == SetTable(s) /\ HasEmpty(s)

LEMMA SetMakeRoomLemma ==
  ASSUME HSet!HashSetAssumption, NEW s, Ready(s)
  PROVE  /\ Ready(HSet!MakeRoom(s)) /\ HSet!ElemsOf(HSet!MakeRoom(s)) = HSet!ElemsOf(s)
         /\ HSet!Fill(HSet!MakeRoom(s)) + 1 < HSet!Capacity(HSet!MakeRoom(s))
         /\ HSet!Capacity(HSet!MakeRoom(s)) >= HSet!Capacity(s)
<1> DEFINE c == HSet!Capacity(s)
           r == HSet!MakeRoom(s)
<1>1. /\ c \in Nat /\ c >= 4 /\ HSet!PowerOf2(c) /\ s.len \in Nat /\ s.tombstones \in Nat
      /\ SetTable(s) /\ s.len + s.tombstones < c
  BY SetTableParts, EmptyCount DEF Ready
<1>2. c \in SetCaps /\ 2 * c \in SetCaps
  BY <1>1, DoubledIsPower, SetLibrary DEF SetCaps
<1>7. HSet!Fill(s) * 4 \in Nat /\ c * 3 \in Nat
  BY <1>1 DEF HSet!Fill
<1>3. CASE HSet!Fill(s) * 4 < c * 3
  <2>1. r = s
    BY <1>3, <1>7 DEF HSet!MakeRoom
  <2>2. HSet!Fill(s) + 1 < c
    BY <1>1, <1>3 DEF HSet!Fill
  <2> HIDE DEF r
  <2> QED BY <1>1, <2>1, <2>2 DEF Ready, r
<1>4. ASSUME NEW cap \in SetCaps, cap >= c, s.len + 1 < cap, r = HSet!Resize(s, cap)
      PROVE  /\ Ready(r) /\ HSet!ElemsOf(r) = HSet!ElemsOf(s)
             /\ HSet!Fill(r) + 1 < HSet!Capacity(r) /\ HSet!Capacity(r) >= c
  <2>1. s.len < cap /\ cap \in Nat
    BY <1>1, <1>4 DEF SetCaps
  <2>2. /\ SetTable(r) /\ HSet!Capacity(r) = cap /\ r.tombstones = 0 /\ r.len = s.len
        /\ HSet!ElemsOf(r) = HSet!ElemsOf(s)
    BY <1>1, <1>4, <2>1, SetResizeLemma
  <2> HIDE DEF r
  <2>3. HasEmpty(r)
    BY <1>1, <2>1, <2>2, EmptyCount
  <2> QED BY <1>1, <1>4, <2>2, <2>3 DEF Ready, HSet!Fill
<1>5. CASE HSet!Fill(s) * 4 >= c * 3 /\ s.len * 2 < c
  <2>1. r = HSet!Resize(s, c)
    BY <1>5, <1>7 DEF HSet!MakeRoom
  <2>2. s.len + 1 < c
    BY <1>1, <1>5
  <2> HIDE DEF r
  <2> QED BY <1>1, <1>2, <1>4, <2>1, <2>2 DEF r
<1>6. CASE HSet!Fill(s) * 4 >= c * 3 /\ ~(s.len * 2 < c)
  <2>1. r = HSet!Resize(s, 2 * c)
    BY <1>6, <1>7 DEF HSet!MakeRoom
  <2>2. s.len + 1 < 2 * c /\ 2 * c >= c
    BY <1>1, <1>6
  <2> HIDE DEF r
  <2> QED BY <1>1, <1>2, <1>4, <2>1, <2>2 DEF r
<1> HIDE DEF r
<1> QED BY <1>1, <1>3, <1>5, <1>6, <1>7 DEF r

LEMMA AddedLemma ==
  ASSUME HSet!HashSetAssumption, NEW s, Ready(s), NEW e \in Elems
  PROVE  /\ Ready(HSet!Added(s, e)) /\ HSet!ElemsOf(HSet!Added(s, e)) = HSet!ElemsOf(s) \cup {e}
         /\ HSet!Capacity(HSet!Added(s, e)) >= HSet!Capacity(s)
         /\ e \in HSet!ElemsOf(s) => HSet!Added(s, e) = HSet!MakeRoom(s)
<1> DEFINE r == HSet!MakeRoom(s)
           t == HSet!InsertSlot(r, e)
           q == [entries |-> [r.entries EXCEPT ![t] = e], len |-> r.len + 1,
                 tombstones |-> IF r.entries[t] = Tombstone THEN r.tombstones - 1
                                ELSE r.tombstones]
<1>1. /\ Ready(r) /\ HSet!ElemsOf(r) = HSet!ElemsOf(s) /\ HSet!Fill(r) + 1 < HSet!Capacity(r)
      /\ HSet!Capacity(r) >= HSet!Capacity(s)
  BY SetMakeRoomLemma
<1>2. /\ HSet!Capacity(r) \in Nat /\ DOMAIN r.entries = 0..HSet!Capacity(r) - 1
      /\ r.len \in Nat /\ r.tombstones \in Nat
  <2> HIDE DEF r
  <2> QED BY <1>1, SetTableParts DEF Ready
<1>3. CASE e \in HSet!ElemsOf(s)
  <2> HIDE DEF r
  <2>1. PICK i \in DOMAIN r.entries : r.entries[i] = e
    BY <1>1, <1>3 DEF HSet!ElemsOf, HSet!LiveSlots
  <2>2. t = i
    BY <1>1, <2>1, SetInsertLemma DEF Ready
  <2>3. HSet!Added(s, e) = r
    BY <2>1, <2>2 DEF HSet!Added, r
  <2> QED BY <1>1, <1>3, <2>3 DEF r
<1>4. CASE e \notin HSet!ElemsOf(s)
  <2> HIDE DEF r
  <2>1. e \notin HSet!ElemsOf(r)
    BY <1>1, <1>4
  <2>2. SetFree(r, e, t)
    BY <1>1, <2>1, SetInsertLemma DEF Ready
  <2>3. t \in 0..HSet!Capacity(r) - 1 /\ r.entries[t] \in {Empty, Tombstone}
    BY <1>2, <2>2 DEF SetFree
  <2>4. ~(t < 0 \/ r.entries[t] = e)
    BY <1>2, <2>3 DEF HSet!HashSetAssumption
  <2>5. HSet!Added(s, e) = q
    BY <2>4 DEF HSet!Added, r
  <2>6. SetTable(q) /\ HSet!Capacity(q) = HSet!Capacity(r) /\ HSet!ElemsOf(q) = HSet!ElemsOf(r) \cup {e}
    <3> HIDE DEF t, q
    <3> QED BY <1>1, <2>1, <2>2, SetPutLemma DEF Ready, q
  <2>7. q.len + q.tombstones < HSet!Capacity(q)
    <3>1. q.len = r.len + 1 /\ (q.tombstones = r.tombstones \/ q.tombstones = r.tombstones - 1)
      OBVIOUS
    <3> HIDE DEF q
    <3> QED BY <1>1, <1>2, <2>6, <3>1 DEF HSet!Fill
  <2> HIDE DEF q
  <2>8. HasEmpty(q)
    BY <2>6, <2>7, EmptyCount
  <2> QED BY <1>1, <1>4, <2>5, <2>6, <2>8 DEF Ready
<1> QED BY <1>3, <1>4

(* Removals.                                                                *)
LEMMA BuriedLemma ==
  ASSUME HSet!HashSetAssumption, NEW s, Ready(s), NEW B \in SUBSET HSet!LiveSlots(s)
  PROVE  /\ Ready(HSet!Buried(s, B)) /\ HSet!Capacity(HSet!Buried(s, B)) = HSet!Capacity(s)
         /\ HSet!ElemsOf(HSet!Buried(s, B)) = {s.entries[i] : i \in HSet!LiveSlots(s) \ B}
         /\ HSet!LiveSlots(HSet!Buried(s, B)) = HSet!LiveSlots(s) \ B
         /\ \A i \in HSet!LiveSlots(s) \ B : HSet!Buried(s, B).entries[i] = s.entries[i]
<1> DEFINE f == s.entries
           r == HSet!Buried(s, B)
           g == r.entries
           c == HSet!Capacity(s)
<1>1. /\ c \in Nat /\ c >= 4 /\ HSet!PowerOf2(c)
      /\ DOMAIN f = 0..c - 1 /\ f \in [0..c - 1 -> Cells]
      /\ SetOnce(f) /\ Reached(c, f) /\ IsFiniteSet(HSet!LiveSlots(s))
      /\ HSet!LiveSlots(s) = Slots(f, Elems)
      /\ HasEmpty(s) /\ s.len = Cardinality(HSet!LiveSlots(s))
      /\ IsFiniteSet(Slots(f, {Tombstone})) /\ s.tombstones = Cardinality(Slots(f, {Tombstone}))
  BY SetTableParts DEF Ready, SetTable, SetSound
<1>2. /\ g \in [0..c - 1 -> Cells] /\ DOMAIN g = 0..c - 1 /\ B \subseteq 0..c - 1
      /\ \A i \in 0..c - 1 : g[i] = IF i \in B THEN Tombstone ELSE f[i]
  BY <1>1 DEF HSet!Buried, Cells, HSet!LiveSlots
<1>3. r.len = s.len - Cardinality(B) /\ r.tombstones = s.tombstones + Cardinality(B)
      /\ r = [entries |-> r.entries, len |-> r.len, tombstones |-> r.tombstones]
  BY SetLibrary DEF HSet!Buried
<1> HIDE DEF r
<1>4. HSet!Capacity(r) = c
  BY <1>1, <1>2, CapacityIs
<1>5. HSet!LiveSlots(r) = HSet!LiveSlots(s) \ B /\ \A i \in HSet!LiveSlots(s) \ B : g[i] = f[i]
  BY <1>1, <1>2 DEF HSet!LiveSlots, HSet!HashSetAssumption
<1>6. HSet!ElemsOf(r) = {f[i] : i \in HSet!LiveSlots(s) \ B}
  BY <1>5 DEF HSet!ElemsOf
<1>7. \A h \in 0..c - 1 : f[h] # Empty => g[h] # Empty
  BY <1>2 DEF HSet!HashSetAssumption
<1>8. SetOnce(g)
  BY <1>1, <1>2 DEF SetOnce, HSet!HashSetAssumption
<1>9. Reached(c, g)
  <2> SUFFICES ASSUME NEW i \in 0..c - 1, g[i] \in Elems
               PROVE  \E p \in 0..c - 1 : HSet!Slot(c, g[i], p) = i /\ SetUnbroken(c, g, g[i], p)
    BY DEF Reached
  <2>1. g[i] = f[i]
    BY <1>2 DEF HSet!HashSetAssumption
  <2>2. PICK p \in 0..c - 1 : HSet!Slot(c, f[i], p) = i /\ SetUnbroken(c, f, f[i], p)
    BY <1>1, <2>1 DEF Reached
  <2>3. SetUnbroken(c, g, f[i], p)
    <3> SUFFICES ASSUME NEW h \in 0..p - 1 PROVE g[HSet!Slot(c, f[i], h)] # Empty
      BY DEF SetUnbroken
    <3>1. HSet!Slot(c, f[i], h) \in 0..c - 1
      <4>1. h \in Nat /\ f[i] \in Elems /\ c \in Nat \ {0}
        BY <1>1, <2>1
      <4> QED BY <4>1, SetSlotType
    <3> QED BY <1>7, <2>2, <3>1 DEF SetUnbroken
  <2> QED BY <2>1, <2>2, <2>3
<1>10. SetSound(c, g)
  BY <1>1, <1>2, <1>8, <1>9 DEF SetSound, SetCaps
<1>11. IsFiniteSet(B) /\ Cardinality(B) \in Nat
  BY <1>1, FS_Subset, FS_CardinalityType
<1>12. r.len = Cardinality(Slots(g, Elems))
  <2>1. Slots(g, Elems) = HSet!LiveSlots(s) \ B
    BY <1>5 DEF HSet!LiveSlots, Slots
  <2>2. Cardinality(HSet!LiveSlots(s) \ B) = Cardinality(HSet!LiveSlots(s)) - Cardinality(HSet!LiveSlots(s) \cap B)
    BY <1>1, <1>11, FS_Difference
  <2>3. HSet!LiveSlots(s) \cap B = B
    OBVIOUS
  <2> QED BY <1>1, <1>3, <2>1, <2>2, <2>3
<1>13. r.tombstones = Cardinality(Slots(g, {Tombstone}))
  <2>1. Slots(g, {Tombstone}) = Slots(f, {Tombstone}) \cup B
        /\ Slots(f, {Tombstone}) \cap B = {}
    BY <1>1, <1>2 DEF Slots, HSet!LiveSlots, HSet!HashSetAssumption
  <2>2. Cardinality(Slots(f, {Tombstone}) \cup B)
          = Cardinality(Slots(f, {Tombstone})) + Cardinality(B)
            - Cardinality(Slots(f, {Tombstone}) \cap B)
    BY <1>1, <1>11, FS_Union
  <2>3. Cardinality(Slots(f, {Tombstone}) \cap B) = 0
    BY <2>1, FS_EmptySet
  <2>4. Cardinality(Slots(f, {Tombstone})) \in Nat
    BY <1>1, FS_CardinalityType
  <2>5. Cardinality(Slots(g, {Tombstone})) = Cardinality(Slots(f, {Tombstone}) \cup B)
    BY <2>1
  <2> HIDE DEF f, g
  <2> QED BY <1>1, <1>3, <1>11, <2>2, <2>3, <2>4, <2>5
<1>14. HasEmpty(r)
  BY <1>1, <1>2 DEF HasEmpty, HSet!LiveSlots, HSet!HashSetAssumption
<1>15. SetTable(r)
  BY <1>3, <1>4, <1>10, <1>12, <1>13 DEF SetTable
<1> QED BY <1>4, <1>5, <1>6, <1>14, <1>15 DEF Ready, r

LEMMA SetRemovedLemma ==
  ASSUME HSet!HashSetAssumption, NEW s, Ready(s), NEW e \in Elems
  PROVE  /\ {HSet!FindSlot(s, e)} \ {-1} \in SUBSET HSet!LiveSlots(s)
         /\ HSet!ElemsOf(HSet!Removed(s, e)) = HSet!ElemsOf(s) \ {e}
<1> DEFINE B == {HSet!FindSlot(s, e)} \ {-1}
<1>1. DOMAIN s.entries = 0..HSet!Capacity(s) - 1 /\ SetOnce(s.entries) /\ SetTable(s)
  BY SetTableParts DEF Ready
<1>2. CASE e \in HSet!ElemsOf(s)
  <2>1. PICK i \in DOMAIN s.entries : s.entries[i] = e
    BY <1>2 DEF HSet!ElemsOf, HSet!LiveSlots
  <2>2. i \in HSet!LiveSlots(s) /\ B = {i}
    <3>1. HSet!FindSlot(s, e) = i
      BY <1>1, <2>1, FindLemma
    <3>2. i # -1
      BY <1>1
    <3> QED BY <2>1, <3>1, <3>2 DEF HSet!LiveSlots
  <2>3. \A j \in HSet!LiveSlots(s) : s.entries[j] = e <=> j = i
    BY <1>1, <2>1 DEF SetOnce, HSet!LiveSlots
  <2>4. HSet!ElemsOf(HSet!Removed(s, e)) = {s.entries[j] : j \in HSet!LiveSlots(s) \ {i}}
    <3> HIDE DEF B
    <3> QED BY <2>2, BuriedLemma DEF HSet!Removed, B
  <2>5. {s.entries[j] : j \in HSet!LiveSlots(s) \ {i}} = HSet!ElemsOf(s) \ {e}
    BY <2>2, <2>3 DEF HSet!ElemsOf
  <2> QED BY <2>2, <2>4, <2>5
<1>3. CASE e \notin HSet!ElemsOf(s)
  <2>1. \A i \in DOMAIN s.entries : s.entries[i] # e
    BY <1>3 DEF HSet!ElemsOf, HSet!LiveSlots
  <2>2. B = {}
    BY <1>1, <2>1, FindLemma
  <2>3. HSet!ElemsOf(HSet!Removed(s, e)) = {s.entries[j] : j \in HSet!LiveSlots(s) \ {}}
    <3> HIDE DEF B
    <3> QED BY <2>2, BuriedLemma DEF HSet!Removed, B
  <2>4. {s.entries[j] : j \in HSet!LiveSlots(s) \ {}} = HSet!ElemsOf(s) \ {e}
    BY <1>3 DEF HSet!ElemsOf
  <2> QED BY <2>2, <2>3, <2>4
<1> QED BY <1>2, <1>3

(* Burying slots without losing an element buries none.                     *)
Same(r, s) == /\ HSet!LiveSlots(r) = HSet!LiveSlots(s)
              /\ \A i \in HSet!LiveSlots(s) : r.entries[i] = s.entries[i]

LEMMA BuriedSame ==
  ASSUME HSet!HashSetAssumption, NEW s, Ready(s), NEW B \in SUBSET HSet!LiveSlots(s),
         HSet!ElemsOf(HSet!Buried(s, B)) = HSet!ElemsOf(s)
  PROVE  Same(HSet!Buried(s, B), s)
<1>1. /\ HSet!LiveSlots(HSet!Buried(s, B)) = HSet!LiveSlots(s) \ B
      /\ \A i \in HSet!LiveSlots(s) \ B : HSet!Buried(s, B).entries[i] = s.entries[i]
      /\ HSet!ElemsOf(HSet!Buried(s, B)) = {s.entries[i] : i \in HSet!LiveSlots(s) \ B}
  BY BuriedLemma
<1>2. SetOnce(s.entries)
  BY SetTableParts DEF Ready
<1>3. B = {}
  <2> SUFFICES ASSUME NEW i \in B PROVE FALSE
    OBVIOUS
  <2>1. PICK j \in HSet!LiveSlots(s) \ B : s.entries[i] = s.entries[j]
    BY <1>1 DEF HSet!ElemsOf
  <2> QED BY <1>2, <2>1 DEF SetOnce, HSet!LiveSlots
<1> QED BY <1>1, <1>3 DEF Same

(* In-place symmetric difference.                                           *)
Sought(s, other, i) == {other[j] : j \in {h \in 1..i : other[h] \notin HSet!ElemsOf(s)}}
Differs(s, other, i, r) ==
  /\ Ready(r) /\ HSet!Capacity(r) >= HSet!Capacity(s)
  /\ HSet!ElemsOf(r) = (HSet!ElemsOf(s) \ HSet!ToSet(other)) \cup Sought(s, other, i)
AfterStep(s, other, i, g) ==
  IF i = 0 THEN HSet!Buried(s, HSet!Holding(s, HSet!ToSet(other)))
  ELSE IF HSet!FindSlot(s, other[i]) < 0 THEN HSet!Added(g[i - 1], other[i])
  ELSE g[i - 1]

LEMMA AfterOne ==
  ASSUME HSet!HashSetAssumption, NEW s, Ready(s), NEW other \in Seq(Elems),
         NEW i \in 0..Len(other) - 1, NEW r, Differs(s, other, i, r)
  PROVE  Differs(s, other, i + 1,
                 IF HSet!FindSlot(s, other[i + 1]) < 0 THEN HSet!Added(r, other[i + 1]) ELSE r)
<1> DEFINE e == other[i + 1]
<1>1. Len(other) \in Nat /\ i \in Nat /\ i + 1 \in 1..Len(other) /\ e \in Elems
  BY LenProperties
<1>2. DOMAIN s.entries = 0..HSet!Capacity(s) - 1 /\ SetTable(s)
      /\ HSet!Capacity(s) \in Nat /\ HSet!Capacity(r) \in Nat
  BY SetTableParts DEF Ready, Differs
<1>3. HSet!FindSlot(s, e) < 0 <=> e \notin HSet!ElemsOf(s)
  <2>1. CASE e \in HSet!ElemsOf(s)
    <3>1. PICK j \in DOMAIN s.entries : s.entries[j] = e
      BY <2>1 DEF HSet!ElemsOf, HSet!LiveSlots
    <3>2. HSet!FindSlot(s, e) = j
      BY <1>1, <1>2, <3>1, FindLemma
    <3> QED BY <1>2, <2>1, <3>2
  <2>2. CASE e \notin HSet!ElemsOf(s)
    <3>1. \A j \in DOMAIN s.entries : s.entries[j] # e
      BY <1>1, <2>2 DEF HSet!ElemsOf, HSet!LiveSlots
    <3>2. HSet!FindSlot(s, e) = -1
      BY <1>1, <1>2, <3>1, FindLemma
    <3> QED BY <2>2, <3>2
  <2> QED BY <2>1, <2>2
<1>4. 1..i + 1 = 1..i \cup {i + 1}
  BY <1>1
<1>5. CASE e \in HSet!ElemsOf(s)
  <2>1. Sought(s, other, i + 1) = Sought(s, other, i)
    BY <1>4, <1>5 DEF Sought
  <2> QED BY <1>3, <1>5, <2>1 DEF Differs
<1>6. CASE e \notin HSet!ElemsOf(s)
  <2>1. Sought(s, other, i + 1) = Sought(s, other, i) \cup {e}
    BY <1>4, <1>6 DEF Sought
  <2>2. /\ Ready(HSet!Added(r, e)) /\ HSet!ElemsOf(HSet!Added(r, e)) = HSet!ElemsOf(r) \cup {e}
        /\ HSet!Capacity(HSet!Added(r, e)) >= HSet!Capacity(r)
    BY <1>1, AddedLemma DEF Differs
  <2>3. HSet!Capacity(HSet!Added(r, e)) \in Nat
    BY <2>2, SetTableParts DEF Ready
  <2>4. HSet!Capacity(HSet!Added(r, e)) >= HSet!Capacity(s)
    BY <1>2, <2>2, <2>3 DEF Differs
  <2> QED BY <1>3, <1>6, <2>1, <2>2, <2>4 DEF Differs
<1> QED BY <1>5, <1>6

LEMMA HoldingLive == \A s, C : HSet!Holding(s, C) \in SUBSET HSet!LiveSlots(s)
BY DEF HSet!Holding

LEMMA AfterZero ==
  ASSUME HSet!HashSetAssumption, NEW s, Ready(s), NEW other \in Seq(Elems)
  PROVE  Differs(s, other, 0, HSet!Buried(s, HSet!Holding(s, HSet!ToSet(other))))
<1> DEFINE B == HSet!Holding(s, HSet!ToSet(other))
<1>1. B \in SUBSET HSet!LiveSlots(s)
  BY HoldingLive
<1>2. HSet!ElemsOf(s) \ HSet!ToSet(other) = {s.entries[i] : i \in HSet!LiveSlots(s) \ B}
  BY DEF HSet!ElemsOf, HSet!Holding
<1>3. Sought(s, other, 0) = {}
  BY DEF Sought
<1>4. HSet!Capacity(s) \in Nat
  BY SetTableParts DEF Ready
<1> HIDE DEF B
<1>5. /\ Ready(HSet!Buried(s, B)) /\ HSet!Capacity(HSet!Buried(s, B)) = HSet!Capacity(s)
      /\ HSet!ElemsOf(HSet!Buried(s, B)) = {s.entries[i] : i \in HSet!LiveSlots(s) \ B}
  BY <1>1, BuriedLemma
<1> QED BY <1>2, <1>3, <1>4, <1>5 DEF Differs, B

LEMMA AfterAll ==
  ASSUME HSet!HashSetAssumption, NEW s, Ready(s), NEW other \in Seq(Elems),
         NEW n \in 0..Len(other)
  PROVE  \E g : /\ g = [i \in 0..n |-> AfterStep(s, other, i, g)]
                /\ \A i \in 0..n : Differs(s, other, i, g[i])
<1> DEFINE Good(m, g) == /\ g = [i \in 0..m |-> AfterStep(s, other, i, g)]
                         /\ \A i \in 0..m : Differs(s, other, i, g[i])
           T == {m \in 0..Len(other) : ~\E g : Good(m, g)}
<1>0. Len(other) \in Nat
  BY LenProperties
<1>1. \E g : Good(0, g)
  <2> DEFINE z == HSet!Buried(s, HSet!Holding(s, HSet!ToSet(other)))
             g == [i \in 0..0 |-> z]
  <2>1. g = [i \in 0..0 |-> AfterStep(s, other, i, g)]
    BY DEF AfterStep
  <2>2. \A i \in 0..0 : Differs(s, other, i, g[i])
    BY AfterZero
  <2> HIDE DEF g
  <2> QED BY <2>1, <2>2
<1>2. ASSUME NEW m \in 0..Len(other) - 1, NEW g, Good(m, g)
      PROVE  \E h : Good(m + 1, h)
  <2> DEFINE x == IF HSet!FindSlot(s, other[m + 1]) < 0 THEN HSet!Added(g[m], other[m + 1])
                  ELSE g[m]
             h == [i \in 0..m + 1 |-> IF i = m + 1 THEN x ELSE g[i]]
  <2>1. m \in Nat /\ m \in 0..m
    BY <1>0
  <2>2. Differs(s, other, m, g[m])
    BY <1>2, <2>1
  <2>3. Differs(s, other, m + 1, x)
    BY <2>2, AfterOne
  <2> HIDE DEF x
  <2>4. h[m + 1] = x /\ \A i \in 0..m : h[i] = g[i]
    BY <2>1
  <2>5. AfterStep(s, other, m + 1, h) = x
    BY <2>1, <2>4 DEF AfterStep, x
  <2>6. \A i \in 0..m : AfterStep(s, other, i, h) = g[i]
    <3> SUFFICES ASSUME NEW i \in 0..m PROVE AfterStep(s, other, i, h) = g[i]
      OBVIOUS
    <3>1. g[i] = AfterStep(s, other, i, g)
      BY <1>2
    <3>2. i = 0 \/ (i - 1 \in 0..m /\ h[i - 1] = g[i - 1])
      BY <2>1, <2>4
    <3> QED BY <3>1, <3>2 DEF AfterStep
  <2>7. \A i \in 0..m + 1 : i = m + 1 \/ i \in 0..m
    BY <2>1
  <2>8. h = [i \in 0..m + 1 |-> AfterStep(s, other, i, h)]
    <3>1. \A i \in 0..m + 1 : AfterStep(s, other, i, h) = IF i = m + 1 THEN x ELSE g[i]
      BY <2>1, <2>5, <2>6, <2>7
    <3> QED BY <3>1
  <2>9. \A i \in 0..m + 1 : Differs(s, other, i, h[i])
    <3> HIDE DEF h
    <3> QED BY <1>2, <2>3, <2>4, <2>7
  <2> HIDE DEF h
  <2> QED BY <2>8, <2>9
<1>3. T = {}
  <2> SUFFICES ASSUME T # {} PROVE FALSE
    OBVIOUS
  <2>1. T \subseteq Nat
    BY <1>0
  <2>2. PICK m \in T : \A z \in T : m <= z
    <3> HIDE DEF T
    <3> QED BY <2>1, NatMin
  <2>3. m # 0
    <3> HIDE DEF Good
    <3> QED BY <1>1, <2>2
  <2>4. m - 1 \in 0..Len(other) - 1 /\ m - 1 \in 0..Len(other)
    BY <1>0, <2>3
  <2>5. m - 1 \notin T
    <3> HIDE DEF T
    <3> QED BY <1>0, <2>1, <2>2, <2>4
  <2>6. PICK g : Good(m - 1, g)
    <3> HIDE DEF Good
    <3> QED BY <2>4, <2>5
  <2>7. \E h : Good((m - 1) + 1, h)
    <3> HIDE DEF Good
    <3> QED BY <1>2, <2>4, <2>6
  <2>8. (m - 1) + 1 = m
    BY <1>0
  <2> HIDE DEF Good
  <2> QED BY <2>2, <2>7, <2>8
<1> HIDE DEF Good
<1>4. \E g : Good(n, g)
  BY <1>3
<1> QED BY <1>4 DEF Good

LEMMA SymmetricDifferenceLemma ==
  ASSUME HSet!HashSetAssumption, NEW s, Ready(s), NEW other \in Seq(Elems)
  PROVE  /\ Ready(HSet!SymmetricDifference(s, other))
         /\ HSet!Capacity(HSet!SymmetricDifference(s, other)) >= HSet!Capacity(s)
         /\ HSet!ElemsOf(HSet!SymmetricDifference(s, other))
              = (HSet!ElemsOf(s) \ HSet!ToSet(other)) \cup (HSet!ToSet(other) \ HSet!ElemsOf(s))
<1> DEFINE n == Len(other)
           f == CHOOSE g : g = [i \in 0..n |-> AfterStep(s, other, i, g)]
<1>1. n \in Nat /\ n \in 0..n
  BY LenProperties
<1>2. PICK g : /\ g = [i \in 0..n |-> AfterStep(s, other, i, g)]
               /\ \A i \in 0..n : Differs(s, other, i, g[i])
  BY <1>1, AfterAll
<1>3. f = [i \in 0..n |-> AfterStep(s, other, i, f)]
  BY <1>2
<1>4. \A i \in 0..n : f[i] = g[i]
  <2> HIDE DEF f
  <2> DEFINE T == {i \in 0..n : f[i] # g[i]}
  <2> SUFFICES ASSUME T # {} PROVE FALSE
    OBVIOUS
  <2>1. PICK m \in T : \A z \in T : m <= z
    <3>1. T \subseteq Nat
      BY <1>1
    <3> HIDE DEF T
    <3> QED BY <3>1, NatMin
  <2>2. m \in 0..n /\ (m # 0 => f[m - 1] = g[m - 1])
    BY <1>1, <2>1
  <2>3. f[m] = AfterStep(s, other, m, f) /\ g[m] = AfterStep(s, other, m, g)
    BY <1>2, <1>3, <2>2
  <2> QED BY <2>1, <2>2, <2>3 DEF AfterStep
<1>5. HSet!SymmetricDifference(s, other) = f[n]
  BY DEF HSet!SymmetricDifference, AfterStep
<1>6. Differs(s, other, n, HSet!SymmetricDifference(s, other))
  BY <1>1, <1>2, <1>4, <1>5
<1>7. Sought(s, other, n) = HSet!ToSet(other) \ HSet!ElemsOf(s)
  <2>1. DOMAIN other = 1..n
    BY LenProperties
  <2> QED BY <2>1 DEF Sought, HSet!ToSet
<1> QED BY <1>6, <1>7 DEF Differs

Walked(s, it) == IF it = HSet!Done THEN HSet!ElemsOf(s)
                 ELSE {s.entries[i] : i \in {j \in HSet!LiveSlots(s) : j < it.index}}
SetIterType(it, c) == it \in {HSet!NoIter, HSet!Done} \cup [index : 0..c, expected : Nat]
SetExact == HSet!IsInjective(yielded) /\ HSet!ToSet(yielded) = Walked(set, place)
SetInv == /\ Ready(set) /\ SetIterType(place, HSet!Capacity(set))
          /\ yielded \in Seq(Elems) /\ same \in BOOLEAN /\ rehashed \in BOOLEAN
          /\ same /\ ~rehashed => SetExact

LEMMA EmptyYield ==
  HSet!IsInjective(<<>>) /\ HSet!ToSet(<<>>) = {} /\ <<>> \in Seq(Elems)
BY DEF HSet!IsInjective, HSet!ToSet

LEMMA IterWidens ==
  ASSUME NEW c \in Nat, NEW d \in Nat, c <= d, NEW it, SetIterType(it, c)
  PROVE  SetIterType(it, d)
BY DEF SetIterType

LEMMA SetInit == HSet!HashSetAssumption /\ HSet!Init => SetInv
<1> SUFFICES ASSUME HSet!HashSetAssumption, HSet!Init PROVE SetInv
  OBVIOUS
<1>1. PICK n \in SetRequests : set = HSet!Fresh(HSet!NextPowerOf2(IF n < MinCap THEN MinCap ELSE n))
  BY DEF HSet!Init
<1> DEFINE m == IF n < MinCap THEN MinCap ELSE n
<1>2. m \in Nat \ {0} /\ m >= 4
  BY DEF HSet!HashSetAssumption
<1>3. HSet!NextPowerOf2(m) \in SetCaps
  BY <1>2, NextPower, SetLibrary DEF SetCaps
<1>4. Ready(set) /\ HSet!ElemsOf(set) = {}
  BY <1>1, <1>3, SetFreshLemma DEF Ready
<1>5. Walked(set, place) = {}
  <2>1. place # HSet!Done /\ place.index = -1
    BY DEF HSet!Init, HSet!NoIter, HSet!Done
  <2>2. DOMAIN set.entries = 0..HSet!Capacity(set) - 1
    BY <1>4, SetTableParts DEF Ready
  <2>3. {j \in HSet!LiveSlots(set) : j < place.index} = {}
    BY <2>1, <2>2 DEF HSet!LiveSlots
  <2> QED BY <2>1, <2>3 DEF Walked
<1>6. SetIterType(place, HSet!Capacity(set))
  BY DEF HSet!Init, SetIterType
<1> QED BY <1>4, <1>5, <1>6, EmptyYield DEF SetInv, SetExact, HSet!Init

(* A call leaves the slots the iteration has passed as they are, if it      *)
(* keeps the elements and does not rebuild.                                 *)
LEMMA SameRefl == \A s : Same(s, s)
BY DEF Same

LEMMA SetBecomesKeeps ==
  ASSUME HSet!HashSetAssumption, SetInv, NEW s, Ready(s), HSet!Becomes(s),
         HSet!Capacity(s) >= HSet!Capacity(set), rehashed' \in BOOLEAN,
         same' /\ ~rehashed' => ~rehashed /\ Same(s, set)
  PROVE  SetInv'
<1>1. set' = s /\ place' = place /\ same' \in BOOLEAN /\ (same' => same)
      /\ yielded' = (IF same' THEN yielded ELSE <<>>)
  BY DEF HSet!Becomes, SetInv
<1>2. Ready(set)'
  BY <1>1 DEF Ready, SetTable, HasEmpty, SetSound, Slots, HSet!Capacity, SetOnce, Reached, SetUnbroken
<1>3. HSet!Capacity(set) \in Nat /\ HSet!Capacity(s) \in Nat
  BY SetTableParts DEF Ready, SetInv
<1>4. SetIterType(place, HSet!Capacity(set))'
  <2>1. SetIterType(place, HSet!Capacity(s))
    BY <1>3, IterWidens DEF SetInv
  <2> QED BY <1>1, <2>1 DEF SetIterType, HSet!Capacity, HSet!NoIter, HSet!Done
<1>5. yielded' \in Seq(Elems)
  BY <1>1, EmptyYield DEF SetInv
<1>6. ASSUME same', ~rehashed' PROVE SetExact'
  <2>1. SetExact /\ Same(s, set) /\ yielded' = yielded
    BY <1>1, <1>6 DEF SetInv
  <2>2. Walked(s, place) = Walked(set, place)
    BY <2>1 DEF Walked, Same, HSet!ElemsOf
  <2>3. Walked(set, place)' = Walked(s, place)
    BY <1>1 DEF Walked, HSet!ElemsOf, HSet!LiveSlots, HSet!Done
  <2> QED BY <2>1, <2>2, <2>3 DEF SetExact, HSet!IsInjective, HSet!ToSet
<1> QED BY <1>1, <1>2, <1>4, <1>5, <1>6 DEF SetInv

LEMMA BuriedKeeps ==
  ASSUME HSet!HashSetAssumption, SetInv, NEW B \in SUBSET HSet!LiveSlots(set), HSet!Shrink(HSet!Buried(set, B))
  PROVE  SetInv'
<1> DEFINE s == HSet!Buried(set, B)
<1>1. Ready(set) /\ HSet!Capacity(set) \in Nat
  BY SetTableParts DEF SetInv, Ready
<1>2. Ready(s) /\ HSet!Capacity(s) = HSet!Capacity(set)
  BY <1>1, BuriedLemma
<1>3. HSet!Becomes(s) /\ rehashed' = (same' /\ rehashed)
  BY DEF HSet!Shrink
<1>4. rehashed' \in BOOLEAN /\ same' \in BOOLEAN
  BY <1>3 DEF HSet!Becomes, SetInv
<1>5. ASSUME same', ~rehashed' PROVE ~rehashed /\ Same(s, set)
  <2>1. HSet!ElemsOf(s) = HSet!ElemsOf(set) /\ ~rehashed
    BY <1>3, <1>5 DEF HSet!Becomes
  <2> QED BY <1>1, <2>1, BuriedSame
<1> HIDE DEF s
<1>6. HSet!Capacity(s) >= HSet!Capacity(set)
  BY <1>1, <1>2
<1> QED BY <1>2, <1>3, <1>4, <1>5, <1>6, SetBecomesKeeps

LEMMA AddKeeps ==
  ASSUME HSet!HashSetAssumption, SetInv, NEW e \in Elems, HSet!Add(e)
  PROVE  SetInv'
<1> DEFINE s == HSet!Added(set, e)
<1>1. Ready(set)
  BY DEF SetInv
<1>2. /\ Ready(s) /\ HSet!ElemsOf(s) = HSet!ElemsOf(set) \cup {e} /\ HSet!Capacity(s) >= HSet!Capacity(set)
      /\ e \in HSet!ElemsOf(set) => s = HSet!MakeRoom(set)
  BY <1>1, AddedLemma
<1>3. HSet!Becomes(s) /\ rehashed' = (same' /\ (rehashed \/ HSet!MakeRoom(set) # set))
  BY DEF HSet!Add
<1>4. rehashed' \in BOOLEAN /\ same' \in BOOLEAN
  BY <1>3 DEF HSet!Becomes, SetInv
<1>5. ASSUME same', ~rehashed' PROVE ~rehashed /\ Same(s, set)
  <2>1. HSet!ElemsOf(s) = HSet!ElemsOf(set) /\ ~rehashed /\ HSet!MakeRoom(set) = set
    BY <1>3, <1>5 DEF HSet!Becomes
  <2>2. s = set
    BY <1>2, <2>1
  <2> QED BY <2>1, <2>2, SameRefl
<1> HIDE DEF s
<1> QED BY <1>2, <1>3, <1>4, <1>5, SetBecomesKeeps

LEMMA SetClearKeeps ==
  ASSUME HSet!HashSetAssumption, SetInv, HSet!Clear
  PROVE  SetInv'
<1> DEFINE s == HSet!Fresh(HSet!Capacity(set))
<1>1. HSet!Capacity(set) \in SetCaps /\ HSet!Capacity(set) \in Nat
      /\ DOMAIN set.entries = 0..HSet!Capacity(set) - 1
  BY SetTableParts DEF SetInv, Ready, SetCaps
<1>2. Ready(s) /\ HSet!Capacity(s) = HSet!Capacity(set) /\ HSet!ElemsOf(s) = {}
  BY <1>1, SetFreshLemma DEF Ready
<1>3. HSet!Becomes(s) /\ rehashed' = (same' /\ rehashed)
  BY DEF HSet!Clear, HSet!Shrink
<1>4. rehashed' \in BOOLEAN /\ same' \in BOOLEAN
  BY <1>3 DEF HSet!Becomes, SetInv
<1>5. ASSUME same', ~rehashed' PROVE ~rehashed /\ Same(s, set)
  <2>1. HSet!ElemsOf(set) = {} /\ ~rehashed
    BY <1>2, <1>3, <1>5 DEF HSet!Becomes
  <2>2. HSet!LiveSlots(set) = {} /\ HSet!LiveSlots(s) = {}
    <3> HIDE DEF s
    <3> QED BY <1>2, <2>1 DEF HSet!ElemsOf
  <2> QED BY <2>1, <2>2 DEF Same
<1> HIDE DEF s
<1>6. HSet!Capacity(s) >= HSet!Capacity(set)
  BY <1>1, <1>2
<1> QED BY <1>2, <1>3, <1>4, <1>5, <1>6, SetBecomesKeeps

LEMMA SymmetricDifferenceKeeps ==
  ASSUME HSet!HashSetAssumption, SetInv, NEW other \in Others, HSet!SymmetricDifferenceUpdate(other)
  PROVE  SetInv'
<1> DEFINE s == HSet!SymmetricDifference(set, other)
<1>1. other \in Seq(Elems) /\ Ready(set)
  BY DEF HSet!HashSetAssumption, SetInv
<1>2. /\ Ready(s) /\ HSet!Capacity(s) >= HSet!Capacity(set)
      /\ HSet!ElemsOf(s) = (HSet!ElemsOf(set) \ HSet!ToSet(other)) \cup (HSet!ToSet(other) \ HSet!ElemsOf(set))
  BY <1>1, SymmetricDifferenceLemma
<1>3. HSet!Becomes(s) /\ rehashed' = (same' /\ rehashed) /\ other # <<>>
  BY DEF HSet!SymmetricDifferenceUpdate, HSet!Shrink
<1>4. rehashed' \in BOOLEAN /\ same' \in BOOLEAN
  BY <1>3 DEF HSet!Becomes, SetInv
<1>5. ~same'
  <2>1. other[1] \in HSet!ToSet(other)
    <3>1. Len(other) \in Nat /\ Len(other) # 0 /\ DOMAIN other = 1..Len(other)
      BY <1>1, <1>3, EmptySeq, LenProperties
    <3> QED BY <3>1 DEF HSet!ToSet
  <2>2. HSet!ElemsOf(s) # HSet!ElemsOf(set)
    <3> HIDE DEF s
    <3> QED BY <1>2, <2>1
  <2> QED BY <1>3, <2>2 DEF HSet!Becomes
<1> HIDE DEF s
<1> QED BY <1>2, <1>3, <1>4, <1>5, SetBecomesKeeps

(* The least slot left.                                                     *)
LEMMA SetRestLemma ==
  ASSUME SetInv, HSet!Iterating, HSet!Rest # {}
  PROVE  /\ HSet!Min(HSet!Rest) \in HSet!LiveSlots(set) /\ HSet!Min(HSet!Rest) >= place.index
         /\ \A i \in HSet!LiveSlots(set) : i < HSet!Min(HSet!Rest) => i < place.index
         /\ place.index \in 0..HSet!Capacity(set)
         /\ HSet!LiveSlots(set) \subseteq 0..HSet!Capacity(set) - 1
         /\ HSet!Capacity(set) \in Nat
<1>1. HSet!Capacity(set) \in Nat /\ HSet!LiveSlots(set) \subseteq 0..HSet!Capacity(set) - 1
  BY SetTableParts DEF SetInv, Ready, HSet!LiveSlots
<1>2. place.index \in 0..HSet!Capacity(set)
  BY DEF SetInv, SetIterType, HSet!Iterating
<1>3. HSet!Rest \subseteq Nat /\ HSet!Rest \subseteq HSet!LiveSlots(set)
  BY <1>1 DEF HSet!Rest
<1>4. PICK m \in HSet!Rest : \A y \in HSet!Rest : m <= y
  BY <1>3, NatMin
<1>5. HSet!Min(HSet!Rest) \in HSet!Rest /\ \A y \in HSet!Rest : HSet!Min(HSet!Rest) <= y
  BY <1>4 DEF HSet!Min
<1>6. ASSUME NEW i \in HSet!LiveSlots(set), i < HSet!Min(HSet!Rest) PROVE i < place.index
  <2>0. i \in Nat /\ HSet!Min(HSet!Rest) \in Nat
    <3>1. i \in 0..HSet!Capacity(set) - 1
      BY <1>1
    <3>2. i \in Nat
      BY <1>1, <3>1
    <3> QED BY <1>3, <1>5, <3>2
  <2>1. i \notin HSet!Rest
    BY <1>5, <1>6, <2>0
  <2> QED BY <1>1, <1>2, <2>1 DEF HSet!Rest
<1> QED BY <1>1, <1>2, <1>3, <1>5, <1>6 DEF HSet!Rest

LEMMA SetIterNextKeeps ==
  ASSUME HSet!HashSetAssumption, SetInv, HSet!IterNext
  PROVE  SetInv'
<1> DEFINE m == HSet!Min(HSet!Rest)
           e == set.entries[m]
<1>1. /\ m \in HSet!LiveSlots(set) /\ m >= place.index
      /\ \A i \in HSet!LiveSlots(set) : i < m => i < place.index
      /\ place.index \in 0..HSet!Capacity(set)
      /\ HSet!LiveSlots(set) \subseteq 0..HSet!Capacity(set) - 1 /\ HSet!Capacity(set) \in Nat
  BY SetRestLemma DEF HSet!IterNext
<1>2. e \in Elems
  BY <1>1 DEF HSet!LiveSlots
<1>3. /\ set' = set /\ same' = same /\ rehashed' = rehashed
      /\ place' = [place EXCEPT !.index = m + 1]
      /\ yielded' = IF same THEN Append(yielded, e) ELSE <<>>
      /\ place \in [index : 0..HSet!Capacity(set), expected : Nat]
  BY DEF HSet!IterNext, HSet!Iterating, SetInv, SetIterType
<1> HIDE DEF m
<1>4. m + 1 \in 0..HSet!Capacity(set)
  BY <1>1
<1>5. place' \in [index : 0..HSet!Capacity(set), expected : Nat] /\ place'.index = m + 1
  BY <1>3, <1>4
<1>6. Ready(set)' /\ HSet!Capacity(set)' = HSet!Capacity(set)
  BY <1>3 DEF SetInv, Ready, SetTable, HasEmpty, SetSound, Slots, HSet!Capacity, SetOnce, Reached, SetUnbroken
<1>7. SetIterType(place, HSet!Capacity(set))'
  BY <1>5, <1>6 DEF SetIterType
<1>8. yielded' \in Seq(Elems)
  BY <1>2, <1>3, EmptyYield, AppendProperties DEF SetInv
<1>9. ASSUME same', ~rehashed' PROVE SetExact'
  <2>1. SetExact /\ yielded' = Append(yielded, e) /\ yielded \in Seq(Elems)
    BY <1>3, <1>9 DEF SetInv
  <2>2. place # HSet!Done /\ place' # HSet!Done
    BY <1>3, <1>5 DEF HSet!Done, HSet!IterNext, HSet!Iterating
  <2>3. e \notin HSet!ToSet(yielded)
    <3>1. SUFFICES ASSUME NEW i \in HSet!LiveSlots(set), i < place.index, set.entries[i] = e
                   PROVE FALSE
      BY <2>1, <2>2 DEF SetExact, Walked
    <3>2. SetOnce(set.entries)
      BY SetTableParts DEF SetInv, Ready
    <3>3. i = m
      BY <1>1, <3>1, <3>2 DEF SetOnce, HSet!LiveSlots
    <3> QED BY <1>1, <3>1, <3>3
  <2>4. {j \in HSet!LiveSlots(set) : j < m + 1} = {j \in HSet!LiveSlots(set) : j < place.index} \cup {m}
    BY <1>1
  <2>5. Walked(set, place)' = Walked(set, place) \cup {e}
    <3>1. Walked(set, place)' = {set.entries[i] : i \in {j \in HSet!LiveSlots(set) : j < m + 1}}
      BY <1>3, <1>5, <2>2 DEF Walked, HSet!LiveSlots, HSet!Done
    <3>2. Walked(set, place) = {set.entries[i] : i \in {j \in HSet!LiveSlots(set) : j < place.index}}
      BY <2>2 DEF Walked
    <3> QED BY <2>4, <3>1, <3>2
  <2>6. HSet!ToSet(yielded') = HSet!ToSet(yielded) \cup {e} /\ HSet!IsInjective(yielded')
    <3> DEFINE n == Len(yielded)
    <3>1. /\ n \in Nat /\ DOMAIN yielded = 1..n /\ DOMAIN yielded' = 1..n + 1
          /\ yielded'[n + 1] = e /\ \A i \in 1..n : yielded'[i] = yielded[i]
      BY <1>2, <2>1, LenProperties, AppendProperties
    <3>2. \A i \in 1..n + 1 : i \in 1..n \/ i = n + 1
      BY <3>1
    <3>3. HSet!ToSet(yielded') = HSet!ToSet(yielded) \cup {e}
      BY <3>1, <3>2 DEF HSet!ToSet
    <3>4. HSet!IsInjective(yielded')
      <4>1. \A i \in 1..n : yielded[i] # e
        BY <2>3, <3>1 DEF HSet!ToSet
      <4>2. \A i, j \in 1..n : yielded[i] = yielded[j] => i = j
        BY <2>1, <3>1 DEF SetExact, HSet!IsInjective
      <4> QED BY <3>1, <3>2, <4>1, <4>2 DEF HSet!IsInjective
    <3> QED BY <3>3, <3>4
  <2> QED BY <2>1, <2>5, <2>6 DEF SetExact, HSet!ToSet, HSet!IsInjective
<1> QED BY <1>3, <1>6, <1>7, <1>8, <1>9 DEF SetInv

LEMMA SetIterEndKeeps ==
  ASSUME HSet!HashSetAssumption, SetInv, HSet!IterEnd
  PROVE  SetInv'
<1>1. /\ set' = set /\ same' = same /\ rehashed' = rehashed /\ yielded' = yielded
      /\ place' = HSet!Done /\ place \in [index : 0..HSet!Capacity(set), expected : Nat]
      /\ place # HSet!Done /\ HSet!Rest = {}
  BY DEF HSet!IterEnd, HSet!Iterating, SetInv, SetIterType
<1>2. Ready(set)' /\ SetIterType(place, HSet!Capacity(set))'
  BY <1>1 DEF SetInv, Ready, SetTable, HasEmpty, SetSound, Slots, HSet!Capacity, SetOnce, Reached,
              SetUnbroken, SetIterType, HSet!Done
<1>3. HSet!LiveSlots(set) \subseteq 0..HSet!Capacity(set) - 1
  BY SetTableParts DEF SetInv, Ready, HSet!LiveSlots
<1>4. HSet!Capacity(set) \in Nat
  BY SetTableParts DEF SetInv, Ready
<1>5. {j \in HSet!LiveSlots(set) : j < place.index} = HSet!LiveSlots(set)
  BY <1>1, <1>3, <1>4 DEF HSet!Rest
<1>6. Walked(set, place)' = Walked(set, place)
  BY <1>1, <1>5 DEF Walked, HSet!ElemsOf, HSet!LiveSlots, HSet!Done
<1> QED BY <1>1, <1>2, <1>6 DEF SetInv, SetExact, HSet!IsInjective, HSet!ToSet

LEMMA SetIterateKeeps ==
  ASSUME HSet!HashSetAssumption, SetInv, NEW it, HSet!Iterate(it),
         it = HSet!NoIter \/ it = [index |-> 0, expected |-> set.len]
  PROVE  SetInv'
<1>1. /\ set' = set /\ same' = TRUE /\ rehashed' = FALSE /\ yielded' = <<>> /\ place' = it
  BY DEF HSet!Iterate
<1>2. Ready(set)' /\ HSet!Capacity(set)' = HSet!Capacity(set)
  BY <1>1 DEF SetInv, Ready, SetTable, HasEmpty, SetSound, Slots, HSet!Capacity, SetOnce, Reached, SetUnbroken
<1>3. HSet!Capacity(set) \in Nat /\ set.len \in Nat /\ HSet!LiveSlots(set) \subseteq 0..HSet!Capacity(set) - 1
  BY SetTableParts DEF SetInv, Ready, HSet!LiveSlots
<1>4. SetIterType(it, HSet!Capacity(set))
  BY <1>3 DEF SetIterType
<1>5. SetIterType(place, HSet!Capacity(set))'
  BY <1>1, <1>2, <1>4 DEF SetIterType, HSet!NoIter, HSet!Done
<1>6. Walked(set, it) = {}
  <2>1. it # HSet!Done /\ it.index \in {-1, 0}
    BY DEF HSet!NoIter, HSet!Done
  <2>2. {j \in HSet!LiveSlots(set) : j < it.index} = {}
    BY <1>3, <2>1
  <2> QED BY <2>1, <2>2 DEF Walked
<1>7. Walked(set, place)' = Walked(set, it)
  BY <1>1 DEF Walked, HSet!ElemsOf, HSet!LiveSlots, HSet!Done
<1> QED BY <1>1, <1>2, <1>5, <1>6, <1>7, EmptyYield DEF SetInv, SetExact

LEMMA SetStep == HSet!HashSetAssumption /\ SetInv /\ [HSet!Next]_(HSet!vars) => SetInv'
<1> SUFFICES ASSUME HSet!HashSetAssumption, SetInv, [HSet!Next]_(HSet!vars) PROVE SetInv'
  OBVIOUS
<1>1. ASSUME NEW e \in Elems, HSet!Add(e) PROVE SetInv'
  BY <1>1, AddKeeps
<1>2. ASSUME NEW e \in Elems, HSet!Discard(e) PROVE SetInv'
  BY <1>2, SetRemovedLemma, BuriedKeeps DEF HSet!Discard, HSet!Removed, SetInv
<1>3. ASSUME HSet!Pop PROVE SetInv'
  <2>1. HSet!Min(HSet!LiveSlots(set)) \in HSet!LiveSlots(set)
    <3>1. HSet!LiveSlots(set) \subseteq Nat
      BY SetTableParts DEF SetInv, Ready, HSet!LiveSlots
    <3>2. PICK m \in HSet!LiveSlots(set) : \A y \in HSet!LiveSlots(set) : m <= y
      BY <1>3, <3>1, NatMin DEF HSet!Pop
    <3> QED BY <3>2 DEF HSet!Min
  <2> QED BY <1>3, <2>1, BuriedKeeps DEF HSet!Pop
<1>4. ASSUME HSet!Clear PROVE SetInv'
  BY <1>4, SetClearKeeps
<1>5. ASSUME NEW C \in SUBSET Elems, HSet!IntersectionUpdate(C) PROVE SetInv'
  BY <1>5, HoldingLive, BuriedKeeps DEF HSet!IntersectionUpdate
<1>6. ASSUME NEW C \in SUBSET Elems, HSet!DifferenceUpdate(C) PROVE SetInv'
  BY <1>6, HoldingLive, BuriedKeeps DEF HSet!DifferenceUpdate
<1>7. ASSUME NEW other \in Others, HSet!SymmetricDifferenceUpdate(other) PROVE SetInv'
  BY <1>7, SymmetricDifferenceKeeps
<1>8. ASSUME HSet!MakeIter PROVE SetInv'
  BY <1>8, SetIterateKeeps DEF HSet!MakeIter
<1>9. ASSUME HSet!IterNext PROVE SetInv'
  BY <1>9, SetIterNextKeeps
<1>10. ASSUME HSet!IterEnd PROVE SetInv'
  BY <1>10, SetIterEndKeeps
<1>11. ASSUME HSet!IterRaises PROVE SetInv'
  BY <1>11, SetIterateKeeps DEF HSet!IterRaises
<1>12. CASE UNCHANGED HSet!vars
  <2>1. /\ set' = set /\ place' = place /\ same' = same /\ yielded' = yielded
        /\ rehashed' = rehashed
    BY <1>12 DEF HSet!vars
  <2>2. Ready(set)' /\ SetIterType(place, HSet!Capacity(set))'
    BY <2>1 DEF SetInv, Ready, SetTable, HasEmpty, SetSound, Slots, HSet!Capacity, SetOnce, Reached,
                SetUnbroken, SetIterType, HSet!NoIter, HSet!Done
  <2>3. SetExact' <=> SetExact
    BY <2>1 DEF SetExact, Walked, HSet!ElemsOf, HSet!LiveSlots, HSet!IsInjective, HSet!ToSet, HSet!Done
  <2> QED BY <2>1, <2>2, <2>3 DEF SetInv
<1> QED BY <1>1, <1>2, <1>3, <1>4, <1>5, <1>6, <1>7, <1>8, <1>9, <1>10, <1>11, <1>12
        DEF HSet!Next

(* What the invariant says.                                                 *)
LEMMA SetTypeOK == HSet!HashSetAssumption /\ SetInv => HSet!TypeOK
<1> SUFFICES ASSUME HSet!HashSetAssumption, SetInv PROVE HSet!TypeOK
  OBVIOUS
<1>1. /\ DOMAIN set.entries = 0..HSet!Capacity(set) - 1 /\ HSet!PowerOf2(HSet!Capacity(set))
      /\ \A i \in DOMAIN set.entries : set.entries[i] \in Elems \cup {Empty, Tombstone}
      /\ set.len \in Nat /\ set.tombstones \in Nat
  BY SetTableParts DEF SetInv, Ready, Cells
<1> QED BY <1>1 DEF HSet!TypeOK, SetInv, SetIterType

LEMMA SetFillExact == SetInv => HSet!FillExact
BY SetTableParts DEF SetInv, Ready, HSet!FillExact, SetTable, Slots, HasEmpty

LEMMA SetContainsExact == HSet!HashSetAssumption /\ SetInv => HSet!ContainsExact
<1> SUFFICES ASSUME HSet!HashSetAssumption, SetInv, NEW e \in Elems
             PROVE  {i \in DOMAIN set.entries : set.entries[i] = e}
                      = (IF HSet!FindSlot(set, e) < 0 THEN {} ELSE {HSet!FindSlot(set, e)})
  BY DEF HSet!ContainsExact
<1>1. DOMAIN set.entries = 0..HSet!Capacity(set) - 1 /\ SetTable(set) /\ SetOnce(set.entries)
  BY SetTableParts DEF SetInv, Ready
<1>2. CASE \E i \in DOMAIN set.entries : set.entries[i] = e
  <2>1. PICK i \in DOMAIN set.entries : set.entries[i] = e
    BY <1>2
  <2>2. HSet!FindSlot(set, e) = i /\ ~(i < 0)
    <3>1. HSet!FindSlot(set, e) = i
      BY <1>1, <2>1, FindLemma
    <3>2. ~(i < 0)
      BY <1>1, SetTableParts
    <3> QED BY <3>1, <3>2
  <2>3. \A j \in DOMAIN set.entries : set.entries[j] = e <=> j = i
    BY <1>1, <2>1 DEF SetOnce
  <2> QED BY <2>1, <2>2, <2>3
<1>3. CASE \A i \in DOMAIN set.entries : set.entries[i] # e
  <2>1. HSet!FindSlot(set, e) = -1
    BY <1>1, <1>3, FindLemma
  <2> QED BY <1>3, <2>1
<1> QED BY <1>2, <1>3

LEMMA SetCallsExact == HSet!HashSetAssumption /\ SetInv => HSet!CallsExact
BY AddedLemma, SetRemovedLemma, SymmetricDifferenceLemma DEF HSet!CallsExact, SetInv, HSet!HashSetAssumption

LEMMA SetIterationExact == SetInv => HSet!IterationExact
<1> SUFFICES ASSUME SetInv, same, ~rehashed
             PROVE  /\ HSet!IsInjective(yielded) /\ HSet!ToSet(yielded) \subseteq HSet!ElemsOf(set)
                    /\ place = HSet!Done => HSet!ToSet(yielded) = HSet!ElemsOf(set)
  BY DEF HSet!IterationExact
<1>1. Walked(set, place) \subseteq HSet!ElemsOf(set)
      /\ (place = HSet!Done => Walked(set, place) = HSet!ElemsOf(set))
  BY DEF Walked, HSet!ElemsOf
<1> QED BY <1>1 DEF SetInv, SetExact
-----------------------------------------------------------------------------
(* 4. The behaviours of MCContainers: the collector, the dict or the set.   *)
allVars == <<using, vars, setVars, heapVars>>
ContainersInv == /\ using = "dict" => DictInv
                 /\ using = "set" => SetInv

LEMMA UsesOne ==
  [ContainersNext]_allVars =>
    /\ using' = using /\ [Heap!Next]_(Heap!vars)
    /\ using = "dict" => [Next]_vars
    /\ using = "set" => [HSet!Next]_(HSet!vars)
<1> SUFFICES ASSUME [ContainersNext]_allVars
             PROVE  /\ using' = using /\ [Heap!Next]_(Heap!vars)
                    /\ using = "dict" => [Next]_vars
                    /\ using = "set" => [HSet!Next]_(HSet!vars)
  OBVIOUS
<1>1. UNCHANGED heapVars => UNCHANGED Heap!vars
  BY DEF heapVars, Heap!vars
<1>2. UNCHANGED setVars => UNCHANGED HSet!vars
  BY DEF setVars, HSet!vars
<1>3. CASE UNCHANGED allVars
  BY <1>1, <1>2, <1>3 DEF allVars
<1>4. CASE ContainersNext
  <2>1. CASE using = "collector" /\ Heap!Next /\ UNCHANGED <<vars, setVars>>
    BY <1>2, <1>4, <2>1 DEF ContainersNext
  <2>2. CASE using = "dict" /\ Next /\ UNCHANGED <<heapVars, setVars>>
    BY <1>1, <1>2, <1>4, <2>2 DEF ContainersNext
  <2>3. CASE using = "set" /\ HSet!Next /\ UNCHANGED <<heapVars, vars>>
    BY <1>1, <1>4, <2>3 DEF ContainersNext
  <2> QED BY <1>4, <2>1, <2>2, <2>3 DEF ContainersNext
<1> QED BY <1>3, <1>4

LEMMA RunsCollector == ContainersSpec => Heap!Spec
<1>1. ContainersInit => Heap!Init
  BY DEF ContainersInit
<1>2. [ContainersNext]_allVars => [Heap!Next]_(Heap!vars)
  BY UsesOne
<1> QED BY <1>1, <1>2, PTL DEF ContainersSpec, Heap!Spec, allVars

(* Memory safety: in every state, in and out of a collection, all that the  *)
(* program can reach is allocated.                                          *)
THEOREM NothingDangles == ContainersSpec => []NoDangling
<1>1. ASSUME Inv PROVE NoDangling
  <2>1. CASE phase \in Quiet
    BY <1>1, <2>1, UsableLive DEF Inv, LiveClosed, NoDangling, Heap!NoDangling
  <2>2. CASE phase = "large"
    <3>1. Heap!Usable = Reach
      BY <1>1, <2>2 DEF Inv, Unmarked, Heap!Usable, Reach
    <3> QED BY <1>1, <2>2, <3>1 DEF Inv, Swept, NoDangling, Heap!NoDangling
  <2> QED BY <1>1, <2>1, <2>2 DEF Inv, Heap!HeapTypeOK, Quiet
<1> QED BY <1>1, RunsCollector, HeapInvariant, PTL

(* total_allocated never drifts from the heap, whatever is swept, and the   *)
(* heap never outgrows its threshold by more than an object.                *)
THEOREM AccountIsExact == ContainersSpec => []HeapAccounted
<1>1. Accounted => HeapAccounted
  BY DEF Accounted, HeapAccounted
<1> QED BY <1>1, RunsCollector, AccountedAlways, PTL

(* prune_string_pool runs early enough, and rt_make_str_interned stays      *)
(* unique across the collection its allocation may start.                   *)
THEOREM PoolCorrect == ContainersSpec => []PoolSound
<1>1. Inv => PoolSound
  BY DEF Inv, Pool, PoolSound, Heap!PoolSound
<1> QED BY <1>1, RunsCollector, HeapInvariant, PTL

(* collect_impl frees all garbage and nothing else.                         *)
THEOREM Exact == ContainersSpec => CollectsExactly
<1>1. Inv /\ [Heap!Next]_(Heap!vars) =>
        [Heap!SweepLarge => live' = Heap!ReachFrom(Heap!Roots) /\ marked' = {}]_(Heap!vars)
  BY SweepLargeInv DEF Reach
<1> QED BY <1>1, RunsCollector, HeapInvariant, PTL
        DEF Heap!Spec, CollectsExactly, Heap!CollectsExactly

(* Under any sequence of calls the tables and their iterators stay sound.   *)
THEOREM TablesInvariant == ContainersSpec => []ContainersInv
<1>1. ContainersInit => ContainersInv
  BY ContainersAssumption, DictInit, SetInit DEF ContainersInit, ContainersInv
<1>2. ContainersInv /\ [ContainersNext]_allVars => ContainersInv'
  <2> SUFFICES ASSUME ContainersInv, [ContainersNext]_allVars PROVE ContainersInv'
    OBVIOUS
  <2>1. using' = using
    BY UsesOne
  <2>2. using = "dict" => DictInv'
    BY ContainersAssumption, UsesOne, DictStep DEF ContainersInv
  <2>3. using = "set" => SetInv'
    BY ContainersAssumption, UsesOne, SetStep DEF ContainersInv
  <2> QED BY <2>1, <2>2, <2>3 DEF ContainersInv
<1> QED BY <1>1, <1>2, PTL DEF ContainersSpec, allVars

(* The heap's records, the tables and the iterators are of their types.     *)
THEOREM ContainersTypeCorrect == ContainersSpec => []ContainersTypeOK
<1>0. Accounted => Heap!TypeOK
  BY DEF Accounted
<1>1. ContainersSpec => []Heap!TypeOK
  BY <1>0, RunsCollector, AccountedAlways, PTL
<1>2. ContainersInv /\ Heap!TypeOK => ContainersTypeOK
  BY ContainersAssumption, DictTypeOK, SetTypeOK DEF ContainersInv, ContainersTypeOK
<1> QED BY <1>1, <1>2, TablesInvariant, PTL

(* Whatever was inserted, removed and rebuilt before, a lookup in a dict or *)
(* a set finds a key exactly when it is there, in the one place it is in.   *)
THEOREM LookupIsExact == ContainersSpec => []ContainersLookupExact
<1>1. ContainersInv => ContainersLookupExact
  BY ContainersAssumption, DictLookupExact, SetContainsExact
     DEF ContainersInv, ContainersLookupExact
<1> QED BY <1>1, TablesInvariant, PTL

(* While no key comes or goes an iteration repeats none and reorders none,  *)
(* and one whose table is not rebuilt yields every key.                     *)
THEOREM IterationIsSound == ContainersSpec => []ContainersIterationSound
<1>1. ContainersInv => ContainersIterationSound
  BY ContainersAssumption, DictIterationSound, SetIterationExact
     DEF ContainersInv, ContainersIterationSound
<1> QED BY <1>1, TablesInvariant, PTL

(* In every state the program may reach, each call would change the keys it *)
(* names and no other.                                                      *)
THEOREM CallsAreExact == ContainersSpec => []ContainersCallsExact
<1>1. ContainersInv => ContainersCallsExact
  BY ContainersAssumption, DictCallsExact, SetCallsExact
     DEF ContainersInv, ContainersCallsExact
<1> QED BY <1>1, TablesInvariant, PTL

(* The counters of a set are those of its table, and a probe always meets   *)
(* an empty slot.                                                           *)
THEOREM FillIsExact == ContainersSpec => []FillExact
<1>1. ContainersInv => FillExact
  BY SetFillExact DEF ContainersInv, FillExact
<1> QED BY <1>1, TablesInvariant, PTL

(* The dict is Python's insertion-ordered mapping: every call is one of its *)
(* steps, compaction and growth are none.                                   *)
THEOREM DictImplementsPython == ContainersSpec => DictIsPython
<1>1. ContainersInit => (using = "dict" => Py!Init)
  BY ContainersAssumption, DictInitPy DEF ContainersInit
<1>2. ContainersInv /\ [ContainersNext]_allVars =>
        [using = "dict" => Items(dict') = Items(dict) \/ Py!Next]_vars
  BY ContainersAssumption, UsesOne, DictStepPy DEF ContainersInv
<1> QED BY <1>1, <1>2, TablesInvariant, PTL DEF ContainersSpec, DictIsPython, allVars

=============================================================================
