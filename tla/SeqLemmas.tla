------------------------------ MODULE SeqLemmas ------------------------------
(* Facts about the list operations the models are built from: the elements  *)
(* of a sequence, and that it has no repeated one, after a pop, a push at   *)
(* the front and an append at the end; what a stack is after them, element  *)
(* by element; removal, insertion and reversal, element by element; least   *)
(* elements of sets of numbers; remainders; what a loop that copies or      *)
(* swaps slots leaves in a buffer.                                          *)
EXTENDS Integers, SequencesExt, Buffers, SequenceTheorems, WellFoundedInduction,
        NaturalsInduction, TLAPS

LEMMA PopLemma ==
  ASSUME NEW S, NEW s \in Seq(S), s # <<>>
  PROVE  /\ Head(s) \in S /\ Tail(s) \in Seq(S)
         /\ ToSet(s) = {Head(s)} \cup ToSet(Tail(s))
         /\ IsInjective(s) =>
              IsInjective(Tail(s)) /\ Head(s) \notin ToSet(Tail(s))
<1> DEFINE t == Tail(s)
<1>1. /\ t \in Seq(S) /\ Head(s) \in S /\ Len(s) \in Nat /\ Len(s) > 0
      /\ Head(s) = s[1]
      /\ DOMAIN s = 1..Len(s) /\ DOMAIN t = 1..Len(s) - 1
      /\ \A i \in 1..Len(s) - 1 : t[i] = s[i + 1]
  BY HeadTailProperties, LenProperties, EmptySeq
<1>2. \A i \in DOMAIN s : i = 1 \/ (i - 1 \in DOMAIN t /\ s[i] = t[i - 1])
  BY <1>1
<1>3. \A i \in DOMAIN t : i + 1 \in DOMAIN s /\ t[i] = s[i + 1]
  BY <1>1
<1>4. ToSet(s) = {Head(s)} \cup ToSet(t)
  <2>1. ToSet(s) \subseteq {Head(s)} \cup ToSet(t)
    <3>1. ASSUME NEW i \in DOMAIN s PROVE s[i] \in {Head(s)} \cup ToSet(t)
      <4> HIDE DEF t
      <4>1. CASE i = 1  BY <1>1, <4>1
      <4>2. CASE i # 1  BY <1>2, <4>2 DEF ToSet
      <4> QED BY <4>1, <4>2
    <3> QED BY <3>1 DEF ToSet
  <2>2. {Head(s)} \cup ToSet(t) \subseteq ToSet(s)
    BY <1>1, <1>3 DEF ToSet
  <2> QED BY <2>1, <2>2
<1>5. ASSUME IsInjective(s) PROVE IsInjective(t) /\ Head(s) \notin ToSet(t)
  BY <1>1, <1>3, <1>5 DEF IsInjective, ToSet
<1> QED BY <1>1, <1>4, <1>5

LEMMA PushLemma ==
  ASSUME NEW S, NEW s \in Seq(S), NEW x \in S
  PROVE  /\ Cons(x, s) \in Seq(S)
         /\ ToSet(Cons(x, s)) = {x} \cup ToSet(s)
         /\ IsInjective(s) /\ x \notin ToSet(s) => IsInjective(Cons(x, s))
<1> DEFINE t == Cons(x, s)
<1>1. /\ t \in Seq(S) /\ t[1] = x /\ Len(s) \in Nat
      /\ DOMAIN s = 1..Len(s) /\ DOMAIN t = 1..Len(s) + 1
      /\ \A i \in 1..Len(s) : t[i + 1] = s[i]
  <2>1. <<x>> \in Seq(S) /\ Len(<<x>>) = 1 /\ <<x>>[1] = x
    OBVIOUS
  <2>2. /\ t \in Seq(S) /\ Len(t) = 1 + Len(s)
        /\ \A i \in 1..1 + Len(s) : t[i] = IF i <= 1 THEN <<x>>[i] ELSE s[i - 1]
    BY <2>1, ConcatProperties DEF Cons
  <2> QED BY <2>1, <2>2, LenProperties
<1>2. \A i \in DOMAIN t : i = 1 \/ (i - 1 \in DOMAIN s /\ t[i] = s[i - 1])
  BY <1>1
<1>3. \A i \in DOMAIN s : i + 1 \in DOMAIN t /\ s[i] = t[i + 1]
  BY <1>1
<1>4. ToSet(t) = {x} \cup ToSet(s)
  <2>1. ToSet(t) \subseteq {x} \cup ToSet(s)
    BY <1>1, <1>2 DEF ToSet
  <2>2. {x} \cup ToSet(s) \subseteq ToSet(t)
    BY <1>1, <1>3 DEF ToSet
  <2> QED BY <2>1, <2>2
<1>5. ASSUME IsInjective(s), x \notin ToSet(s) PROVE IsInjective(t)
  BY <1>1, <1>2, <1>5 DEF IsInjective, ToSet
<1> QED BY <1>1, <1>4, <1>5

LEMMA AppendLemma ==
  ASSUME NEW S, NEW s \in Seq(S), NEW x \in S
  PROVE  /\ Append(s, x) \in Seq(S)
         /\ ToSet(Append(s, x)) = {x} \cup ToSet(s)
         /\ IsInjective(s) /\ x \notin ToSet(s) => IsInjective(Append(s, x))
<1> DEFINE t == Append(s, x)
<1>1. /\ t \in Seq(S) /\ Len(s) \in Nat /\ t[Len(s) + 1] = x
      /\ DOMAIN s = 1..Len(s) /\ DOMAIN t = 1..Len(s) + 1
      /\ \A i \in 1..Len(s) : t[i] = s[i]
  BY AppendProperties, LenProperties
<1>2. \A i \in DOMAIN t : i = Len(s) + 1 \/ (i \in DOMAIN s /\ t[i] = s[i])
  BY <1>1
<1>3. ToSet(t) = {x} \cup ToSet(s)
  <2>1. ToSet(t) \subseteq {x} \cup ToSet(s)
    BY <1>1, <1>2 DEF ToSet
  <2>2. {x} \cup ToSet(s) \subseteq ToSet(t)
    BY <1>1 DEF ToSet
  <2> QED BY <2>1, <2>2
<1>4. ASSUME IsInjective(s), x \notin ToSet(s) PROVE IsInjective(t)
  BY <1>1, <1>2, <1>4 DEF IsInjective, ToSet
<1> QED BY <1>1, <1>3, <1>4

LEMMA EmptyLemma == ToSet(<<>>) = {} /\ IsInjective(<<>>)
BY DEF ToSet, IsInjective

(* A stack, innermost first, after a push and without its n innermost.      *)
LEMMA ConsLemma ==
  ASSUME NEW S, NEW s \in Seq(S), NEW x \in S
  PROVE  /\ Cons(x, s) \in Seq(S) /\ Cons(x, s) # <<>>
         /\ Len(Cons(x, s)) = Len(s) + 1 /\ DOMAIN Cons(x, s) = 1..Len(s) + 1
         /\ Cons(x, s)[1] = x
         /\ \A i \in 1..Len(s) : Cons(x, s)[i + 1] = s[i]
         /\ \A i \in 2..Len(s) + 1 : Cons(x, s)[i] = s[i - 1]
<1>1. <<x>> \in Seq(S) /\ Len(<<x>>) = 1 /\ <<x>>[1] = x
  OBVIOUS
<1>2. /\ Cons(x, s) \in Seq(S) /\ Len(Cons(x, s)) = 1 + Len(s)
      /\ \A i \in 1..1 + Len(s) : Cons(x, s)[i] = IF i <= 1 THEN <<x>>[i] ELSE s[i - 1]
  BY <1>1, ConcatProperties DEF Cons
<1> QED BY <1>1, <1>2, LenProperties, EmptySeq

Drop(s, n) == SubSeq(s, n + 1, Len(s))
LEMMA DropLemma ==
  ASSUME NEW S, NEW s \in Seq(S), NEW n \in 0..Len(s)
  PROVE  /\ Drop(s, n) \in Seq(S) /\ Len(Drop(s, n)) = Len(s) - n
         /\ DOMAIN Drop(s, n) = 1..Len(s) - n
         /\ \A i \in 1..Len(s) - n : Drop(s, n)[i] = s[i + n]
         /\ \A i \in n + 1..Len(s) : Drop(s, n)[i - n] = s[i]
<1> DEFINE t == SubSeq(s, n + 1, Len(s))
<1>1. Len(s) \in Nat /\ n \in Nat /\ n <= Len(s)
  BY LenProperties
<1>2. t \in Seq(S)
  <2>1. \A i \in n + 1..Len(s) : s[i] \in S
    BY <1>1, ElementOfSeq
  <2> QED BY <1>1, <2>1, SubSeqProperties
<1>3. Len(t) = Len(s) - n
  BY <1>1, SubSeqProperties
<1>4. \A i \in 1..Len(s) - n : t[i] = s[i + n]
  BY <1>1, SubSeqProperties
<1> HIDE DEF t
<1>5. DOMAIN t = 1..Len(s) - n
  BY <1>2, <1>3, LenProperties
<1>6. \A i \in n + 1..Len(s) : t[i - n] = s[i]
  <2> SUFFICES ASSUME NEW i \in n + 1..Len(s) PROVE t[i - n] = s[i]
    OBVIOUS
  <2>1. i - n \in 1..Len(s) - n /\ (i - n) + n = i
    BY <1>1
  <2> QED BY <1>4, <2>1
<1>7. t = Drop(s, n)
  BY DEF t, Drop
<1> QED BY <1>2, <1>3, <1>4, <1>5, <1>6, <1>7

LEMMA TailLemma ==
  ASSUME NEW S, NEW s \in Seq(S), s # <<>>
  PROVE  /\ Tail(s) = Drop(s, 1) /\ Len(s) \in Nat \ {0} /\ Head(s) = s[1] /\ s[1] \in S
         /\ DOMAIN s = 1..Len(s)
<1>1. Tail(s) = SubSeq(s, 2, Len(s))
  BY TailIsSubSeq
<1> QED BY <1>1, HeadTailProperties, LenProperties, EmptySeq DEF Drop

LEMMA ConsElements ==
  ASSUME NEW S, NEW s \in Seq(S), NEW x \in S
  PROVE  /\ Cons(x, s) \in Seq(S) /\ Cons(x, s) # <<>> /\ Head(Cons(x, s)) = x
         /\ 1 \in DOMAIN Cons(x, s) /\ Cons(x, s)[1] = x
         /\ \A i \in DOMAIN Cons(x, s) :
              i = 1 \/ (i - 1 \in DOMAIN s /\ Cons(x, s)[i] = s[i - 1])
         /\ \A i \in DOMAIN Cons(x, s) : i \in Nat
         /\ \A i \in DOMAIN s : i + 1 \in DOMAIN Cons(x, s) /\ Cons(x, s)[i + 1] = s[i]
<1> DEFINE t == Cons(x, s)
<1>1. DOMAIN s = 1..Len(s) /\ Len(s) \in Nat
  BY LenProperties
<1>2. t \in Seq(S) /\ DOMAIN t = 1..Len(s) + 1 /\ t[1] = x /\ t # <<>>
  BY ConsLemma
<1>3. \A i \in 2..Len(s) + 1 : t[i] = s[i - 1]
  BY ConsLemma
<1>4. \A i \in 1..Len(s) : t[i + 1] = s[i]
  BY ConsLemma
<1> HIDE DEF t
<1>5. ASSUME NEW i \in DOMAIN t, i # 1 PROVE i - 1 \in DOMAIN s /\ t[i] = s[i - 1]
  BY <1>1, <1>2, <1>3, <1>5
<1>6. \A i \in DOMAIN s : i + 1 \in DOMAIN t /\ t[i + 1] = s[i]
  BY <1>1, <1>2, <1>4
<1>7. Head(t) = x /\ 1 \in DOMAIN t
  BY <1>1, <1>2, HeadTailProperties
<1>8. \A i \in DOMAIN t : i \in Nat
  BY <1>1, <1>2
<1>9. \A i \in DOMAIN t : i = 1 \/ (i - 1 \in DOMAIN s /\ t[i] = s[i - 1])
  BY <1>5
<1> QED BY <1>2, <1>6, <1>7, <1>8, <1>9 DEF t

LEMMA TailElements ==
  ASSUME NEW S, NEW s \in Seq(S), s # <<>>
  PROVE  /\ Tail(s) \in Seq(S) /\ Len(Tail(s)) = Len(s) - 1 /\ DOMAIN Tail(s) = 1..Len(s) - 1
         /\ \A i \in DOMAIN Tail(s) : i \in Nat /\ i + 1 \in DOMAIN s /\ Tail(s)[i] = s[i + 1]
         /\ \A i \in DOMAIN s : i = 1 \/ (i - 1 \in DOMAIN Tail(s) /\ Tail(s)[i - 1] = s[i])
<1> DEFINE t == Tail(s)
<1>1. Len(s) \in Nat \ {0} /\ DOMAIN s = 1..Len(s)
  BY TailLemma
<1>3. \A i \in 1..Len(s) - 1 : t[i] = s[i + 1]
  BY <1>1, HeadTailProperties
<1>4. t \in Seq(S) /\ Len(t) = Len(s) - 1 /\ DOMAIN t = 1..Len(s) - 1
  BY <1>1, HeadTailProperties, LenProperties
<1> HIDE DEF t
<1>5. \A i \in DOMAIN t : i \in Nat /\ i + 1 \in DOMAIN s /\ t[i] = s[i + 1]
  BY <1>1, <1>3, <1>4
<1>6. ASSUME NEW i \in DOMAIN s, i # 1 PROVE i - 1 \in DOMAIN t /\ t[i - 1] = s[i]
  <2>1. i - 1 \in DOMAIN t /\ (i - 1) + 1 = i
    BY <1>1, <1>4, <1>6
  <2> QED BY <1>5, <2>1
<1> QED BY <1>4, <1>5, <1>6 DEF t

LEMMA NatMin ==
  ASSUME NEW T, T \subseteq Nat, T # {}
  PROVE  \E x \in T : \A y \in T : x <= y
<1>1. PICK x \in T : \A y \in T : ~(<<y, x>> \in OpToRel(<, Nat))
  BY WFMin, NatLessThanWellFounded
<1>2. \A y \in T : ~(y < x)
  BY <1>1 DEF OpToRel
<1> QED BY <1>2

(* Remainders.                                                               *)
LEMMA ModUnique ==
  ASSUME NEW c \in Nat \ {0}, NEW q \in Int, NEW r \in 0..c - 1, NEW x \in Int,
         x = c * q + r
  PROVE  x % c = r
<1>1. x % c \in 0..c - 1 /\ x \div c \in Int /\ x = (c * (x \div c)) + (x % c)
  OBVIOUS
<1> DEFINE t == q - x \div c
<1>2. c * t = (x % c) - r /\ t \in Int
  BY <1>1
<1>3. t = 0
  <2> HIDE DEF t
  <2>1. (x % c) - r < c /\ r - (x % c) < c
    BY <1>1
  <2>2. ~(t >= 1)
    <3> SUFFICES ASSUME t >= 1 PROVE FALSE
      OBVIOUS
    <3>1. c * t >= c
      BY <1>2
    <3> QED BY <1>1, <1>2, <2>1, <3>1
  <2>3. ~(t <= -1)
    <3> SUFFICES ASSUME t <= -1 PROVE FALSE
      OBVIOUS
    <3>1. c * t <= -c
      BY <1>2
    <3> QED BY <1>1, <1>2, <2>1, <3>1
  <2> QED BY <1>2, <2>2, <2>3
<1>4. c * t = 0
  BY <1>3
<1> QED BY <1>1, <1>2, <1>4

LEMMA Wrap ==
  ASSUME NEW c \in Nat \ {0}, NEW x \in Int, -c <= x, x < 2 * c
  PROVE  /\ x % c = (IF x < 0 THEN x + c ELSE IF x < c THEN x ELSE x - c)
         /\ x % c \in 0..c - 1
<1>1. CASE x < 0
  <2>1. x = c * (-1) + (x + c) /\ x + c \in 0..c - 1
    BY <1>1
  <2> QED BY <1>1, <2>1, ModUnique
<1>2. CASE x >= 0 /\ x < c
  <2>1. x = c * 0 + x /\ x \in 0..c - 1
    BY <1>2
  <2> QED BY <1>2, <2>1, ModUnique
<1>3. CASE x >= c
  <2>1. x = c * 1 + (x - c) /\ x - c \in 0..c - 1
    BY <1>3
  <2> QED BY <1>3, <2>1, ModUnique
<1> QED BY <1>1, <1>2, <1>3

(* Induction up to n, over the numbers for which a property holds.           *)
LEMMA UpTo ==
  ASSUME NEW n \in Nat, NEW G, 0 \in G, \A m \in 0..n - 1 : m \in G => m + 1 \in G
  PROVE  0..n \subseteq G
<1> DEFINE T == (0..n) \ G
<1> SUFFICES ASSUME T # {} PROVE FALSE
  OBVIOUS
<1>1. PICK m \in T : \A z \in T : m <= z
  <2>1. T \subseteq Nat
    OBVIOUS
  <2> HIDE DEF T
  <2> QED BY <2>1, NatMin
<1>2. m \in 0..n /\ m \notin G /\ m # 0
  BY <1>1
<1>3. m - 1 \in 0..n - 1 /\ m - 1 \in 0..n /\ ~(m <= m - 1) /\ (m - 1) + 1 = m
  BY <1>2
<1>4. m - 1 \in G
  BY <1>1, <1>3
<1> QED BY <1>2, <1>3, <1>4

(* A loop of n turns, as a function of the number of turns: there is one.    *)
LoopStep(F, x, k, f) == IF k = 0 THEN x ELSE F[<<k, f[k - 1]>>]
IsLoop(F, x, n, h) == h = [k \in 0..n |-> LoopStep(F, x, k, h)]
LEMMA LoopExists ==
  ASSUME NEW S, NEW x \in S, NEW n \in Nat, NEW F \in [(1..n) \X S -> S]
  PROVE  \E h \in [0..n -> S] : IsLoop(F, x, n, h)
<1> DEFINE G == {m \in Nat : m <= n => \E h \in [0..m -> S] :
                                           h = [k \in 0..m |-> LoopStep(F, x, k, h)]}
<1>1. 0 \in G
  <2> DEFINE h == [k \in 0..0 |-> x]
  <2>1. h \in [0..0 -> S] /\ h = [k \in 0..0 |-> LoopStep(F, x, k, h)]
    BY DEF LoopStep
  <2> HIDE DEF h
  <2> QED BY <2>1
<1>2. ASSUME NEW m \in 0..n - 1, m \in G PROVE m + 1 \in G
  <2>1. PICK g \in [0..m -> S] : g = [k \in 0..m |-> LoopStep(F, x, k, g)]
    BY <1>2
  <2> DEFINE y == F[<<m + 1, g[m]>>]
             h == [k \in 0..m + 1 |-> IF k = m + 1 THEN y ELSE g[k]]
  <2>2. y \in S
    <3>1. g[m] \in S /\ m + 1 \in 1..n
      BY <2>1
    <3> QED BY <3>1
  <2>3. h \in [0..m + 1 -> S]
    <3> HIDE DEF y
    <3> QED BY <2>1, <2>2
  <2>4. ASSUME NEW k \in 0..m + 1 PROVE h[k] = LoopStep(F, x, k, h)
    <3>1. CASE k = m + 1
      <4>1. h[m] = g[m] /\ h[m + 1] = y /\ m + 1 # 0 /\ (m + 1) - 1 = m
        BY <1>2
      <4> HIDE DEF h
      <4> QED BY <3>1, <4>1 DEF LoopStep
    <3>2. CASE k # m + 1
      <4>1. k \in 0..m /\ (k # 0 => k - 1 \in 0..m)
        BY <3>2
      <4>2. h[k] = g[k] /\ (k # 0 => h[k - 1] = g[k - 1])
        BY <4>1
      <4>3. g[k] = LoopStep(F, x, k, g)
        BY <2>1, <4>1
      <4> HIDE DEF h
      <4> QED BY <4>2, <4>3 DEF LoopStep
    <3> QED BY <3>1, <3>2
  <2>5. h = [k \in 0..m + 1 |-> h[k]]
    OBVIOUS
  <2> HIDE DEF h
  <2>6. h = [k \in 0..m + 1 |-> LoopStep(F, x, k, h)]
    BY <2>4, <2>5
  <2> QED BY <2>3, <2>6
<1>3. 0..n \subseteq G
  <2> HIDE DEF G
  <2> QED BY <1>1, <1>2, UpTo
<1>4. n \in 0..n
  OBVIOUS
<1> QED BY <1>3, <1>4 DEF IsLoop

CopyStep(data, to, from, k, f) ==
  IF k = 0 THEN data ELSE [f[k - 1] EXCEPT ![to[k]] = f[k - 1][from[k]]]

(* A loop of copies that reads no slot it has written moves every item.      *)
Copyable(A, n, to, from) ==
  /\ Len(to) = n /\ \A k \in 1..n : to[k] \in A /\ from[k] \in A
  /\ \A k \in 1..n : \A j \in 1..k - 1 : to[j] # to[k] /\ to[j] # from[k]
MovedTo(A, V, n, to, from, data, b) ==
  /\ b \in [A -> V] /\ \A k \in 1..n : b[to[k]] = data[from[k]]
  /\ \A s \in A : (\A k \in 1..n : to[k] # s) => b[s] = data[s]
LEMMA CopiesMove ==
  ASSUME NEW A, NEW V, NEW data \in [A -> V],
         NEW to, NEW from, NEW n \in Nat, Copyable(A, n, to, from)
  PROVE  MovedTo(A, V, n, to, from, data, Copies(data, to, from))
<1> DEFINE P(k, b) == /\ b \in [A -> V]
                      /\ \A j \in 1..k : b[to[j]] = data[from[j]]
                      /\ \A s \in A : (\A j \in 1..k : to[j] # s) => b[s] = data[s]
           S == [A -> V]
           F == [p \in (1..n) \X S |-> [p[2] EXCEPT ![to[p[1]]] = p[2][from[p[1]]]]]
           h == CHOOSE f : f = [k \in 0..n |-> CopyStep(data, to, from, k, f)]
<1>0. /\ Len(to) = n /\ \A k \in 1..n : to[k] \in A /\ from[k] \in A
      /\ \A k \in 1..n : \A j \in 1..k - 1 : to[j] # to[k] /\ to[j] # from[k]
  BY DEF Copyable
<1>1. F \in [(1..n) \X S -> S]
  <2> SUFFICES ASSUME NEW k \in 1..n, NEW b \in S
               PROVE  [b EXCEPT ![to[k]] = b[from[k]]] \in S
    OBVIOUS
  <2> QED BY <1>0
<1>2. PICK g \in [0..n -> S] : IsLoop(F, data, n, g)
  <2> HIDE DEF F
  <2>1. data \in S
    OBVIOUS
  <2> HIDE DEF S
  <2> QED BY <1>1, <2>1, LoopExists
<1>3. g = [k \in 0..n |-> CopyStep(data, to, from, k, g)]
  <2> SUFFICES ASSUME NEW k \in 0..n
               PROVE  LoopStep(F, data, k, g) = CopyStep(data, to, from, k, g)
    BY <1>2 DEF IsLoop
  <2>1. k # 0 => k \in 1..n /\ g[k - 1] \in S
    OBVIOUS
  <2> HIDE DEF S
  <2> QED BY <2>1 DEF LoopStep, CopyStep
<1> HIDE DEF S
<1>4. h = [k \in 0..n |-> CopyStep(data, to, from, k, h)]
  <2> QED BY <1>3
<1>5. Copies(data, to, from) = h[n]
  BY <1>0 DEF Copies, CopyStep
<1> HIDE DEF h
<1>6. P(0, h[0])
  <2>1. h[0] = data
    BY <1>4 DEF CopyStep
  <2> QED BY <2>1
<1>7. ASSUME NEW k \in 0..n - 1, P(k, h[k]) PROVE P(k + 1, h[k + 1])
  <2> DEFINE m == k + 1
             b == h[k]
             c == h[m]
  <2>1. c = [b EXCEPT ![to[m]] = b[from[m]]]
    <3>1. m \in 0..n /\ m # 0 /\ m - 1 = k
      BY <1>7
    <3> QED BY <1>4, <3>1 DEF CopyStep
  <2>2. /\ m \in 1..n /\ 1..m = (1..k) \cup {m} /\ 1..m - 1 = 1..k
    BY <1>7
  <2>3. /\ b \in [A -> V] /\ to[m] \in A /\ from[m] \in A
        /\ \A j \in 1..k : b[to[j]] = data[from[j]]
        /\ \A s \in A : (\A j \in 1..k : to[j] # s) => b[s] = data[s]
        /\ \A j \in 1..k : to[j] \in A /\ to[j] # to[m] /\ to[j] # from[m]
    BY <1>0, <1>7, <2>2
  <2> HIDE DEF m, b, c
  <2>4. b[from[m]] = data[from[m]]
    BY <2>3
  <2>5. c \in [A -> V] /\ c[to[m]] = data[from[m]] /\ \A s \in A : s # to[m] => c[s] = b[s]
    BY <2>1, <2>3, <2>4
  <2>6. P(m, c)
    BY <2>2, <2>3, <2>5
  <2> QED BY <2>6 DEF m, c
<1>8. P(n, h[n])
  <2> DEFINE G == {k \in Nat : k <= n => P(k, h[k])}
  <2>1. 0 \in G
    BY <1>6
  <2>2. ASSUME NEW k \in 0..n - 1, k \in G PROVE k + 1 \in G
    <3>1. P(k, h[k])
      BY <2>2
    <3> HIDE DEF P
    <3> QED BY <1>7, <3>1
  <2>3. 0..n \subseteq G
    <3> HIDE DEF G
    <3> QED BY <2>1, <2>2, UpTo
  <2>4. n \in 0..n
    OBVIOUS
  <2> HIDE DEF P
  <2> QED BY <2>3, <2>4
<1> QED BY <1>5, <1>8 DEF MovedTo

SwapStep(data, left, right, k, f) ==
  IF k = 0 THEN data ELSE [f[k - 1] EXCEPT ![left[k]] = f[k - 1][right[k]],
                                           ![right[k]] = f[k - 1][left[k]]]

(* A loop of swaps that touches no slot twice exchanges them.                *)
Swappable(A, n, left, right) ==
  /\ Len(left) = n
  /\ \A k \in 1..n : left[k] \in A /\ right[k] \in A /\ left[k] # right[k]
  /\ \A k \in 1..n : \A j \in 1..k - 1 :
       /\ left[j] # left[k] /\ left[j] # right[k]
       /\ right[j] # left[k] /\ right[j] # right[k]
Swapped(A, V, n, left, right, data, b) ==
  /\ b \in [A -> V]
  /\ \A k \in 1..n : b[left[k]] = data[right[k]] /\ b[right[k]] = data[left[k]]
  /\ \A s \in A : (\A k \in 1..n : left[k] # s /\ right[k] # s) => b[s] = data[s]
LEMMA SwapsExchange ==
  ASSUME NEW A, NEW V, NEW data \in [A -> V],
         NEW left, NEW right, NEW n \in Nat, Swappable(A, n, left, right)
  PROVE  Swapped(A, V, n, left, right, data, Swaps(data, left, right))
<1> DEFINE P(k, b) == /\ b \in [A -> V]
                      /\ \A j \in 1..k : b[left[j]] = data[right[j]] /\ b[right[j]] = data[left[j]]
                      /\ \A s \in A : (\A j \in 1..k : left[j] # s /\ right[j] # s)
                                      => b[s] = data[s]
           S == [A -> V]
           F == [p \in (1..n) \X S |-> [p[2] EXCEPT ![left[p[1]]] = p[2][right[p[1]]],
                                                   ![right[p[1]]] = p[2][left[p[1]]]]]
           h == CHOOSE f : f = [k \in 0..n |-> SwapStep(data, left, right, k, f)]
<1>0. /\ Len(left) = n
      /\ \A k \in 1..n : left[k] \in A /\ right[k] \in A /\ left[k] # right[k]
      /\ \A k \in 1..n : \A j \in 1..k - 1 :
           /\ left[j] # left[k] /\ left[j] # right[k]
           /\ right[j] # left[k] /\ right[j] # right[k]
  BY DEF Swappable
<1>1. F \in [(1..n) \X S -> S]
  <2> SUFFICES ASSUME NEW k \in 1..n, NEW b \in S
               PROVE  [b EXCEPT ![left[k]] = b[right[k]], ![right[k]] = b[left[k]]] \in S
    OBVIOUS
  <2> QED BY <1>0
<1>2. PICK g \in [0..n -> S] : IsLoop(F, data, n, g)
  <2> HIDE DEF F
  <2>1. data \in S
    OBVIOUS
  <2> HIDE DEF S
  <2> QED BY <1>1, <2>1, LoopExists
<1>3. g = [k \in 0..n |-> SwapStep(data, left, right, k, g)]
  <2> SUFFICES ASSUME NEW k \in 0..n
               PROVE  LoopStep(F, data, k, g) = SwapStep(data, left, right, k, g)
    BY <1>2 DEF IsLoop
  <2>1. k # 0 => k \in 1..n /\ g[k - 1] \in S
    OBVIOUS
  <2> HIDE DEF S
  <2> QED BY <2>1 DEF LoopStep, SwapStep
<1> HIDE DEF S
<1>4. h = [k \in 0..n |-> SwapStep(data, left, right, k, h)]
  <2> QED BY <1>3
<1>5. Swaps(data, left, right) = h[n]
  BY <1>0 DEF Swaps, SwapStep
<1> HIDE DEF h
<1>6. P(0, h[0])
  <2>1. h[0] = data
    BY <1>4 DEF SwapStep
  <2> QED BY <2>1
<1>7. ASSUME NEW k \in 0..n - 1, P(k, h[k]) PROVE P(k + 1, h[k + 1])
  <2> DEFINE m == k + 1
             b == h[k]
             c == h[m]
  <2>1. c = [b EXCEPT ![left[m]] = b[right[m]], ![right[m]] = b[left[m]]]
    <3>1. m \in 0..n /\ m # 0 /\ m - 1 = k
      BY <1>7
    <3> QED BY <1>4, <3>1 DEF SwapStep
  <2>2. /\ m \in 1..n /\ 1..m = (1..k) \cup {m} /\ 1..m - 1 = 1..k
    BY <1>7
  <2>3. /\ b \in [A -> V] /\ left[m] \in A /\ right[m] \in A /\ left[m] # right[m]
        /\ \A j \in 1..k : b[left[j]] = data[right[j]] /\ b[right[j]] = data[left[j]]
        /\ \A s \in A : (\A j \in 1..k : left[j] # s /\ right[j] # s) => b[s] = data[s]
        /\ \A j \in 1..k : /\ left[j] \in A /\ left[j] # left[m] /\ left[j] # right[m]
                           /\ right[j] \in A /\ right[j] # left[m] /\ right[j] # right[m]
    BY <1>0, <1>7, <2>2
  <2> HIDE DEF m, b, c
  <2>4. b[right[m]] = data[right[m]] /\ b[left[m]] = data[left[m]]
    BY <2>3
  <2>5. /\ c \in [A -> V] /\ c[left[m]] = data[right[m]] /\ c[right[m]] = data[left[m]]
        /\ \A s \in A : s # left[m] /\ s # right[m] => c[s] = b[s]
    BY <2>1, <2>3, <2>4
  <2>6. P(m, c)
    BY <2>2, <2>3, <2>5
  <2> QED BY <2>6 DEF m, c
<1>8. P(n, h[n])
  <2> DEFINE G == {k \in Nat : k <= n => P(k, h[k])}
  <2>1. 0 \in G
    BY <1>6
  <2>2. ASSUME NEW k \in 0..n - 1, k \in G PROVE k + 1 \in G
    <3>1. P(k, h[k])
      BY <2>2
    <3> HIDE DEF P
    <3> QED BY <1>7, <3>1
  <2>3. 0..n \subseteq G
    <3> HIDE DEF G
    <3> QED BY <2>1, <2>2, UpTo
  <2>4. n \in 0..n
    OBVIOUS
  <2> HIDE DEF P
  <2> QED BY <2>3, <2>4
<1> QED BY <1>5, <1>8 DEF Swapped

LEMMA RemoveAtIs ==
  ASSUME NEW S, NEW s \in Seq(S), NEW p \in 1..Len(s)
  PROVE  /\ RemoveAt(s, p) \in Seq(S) /\ Len(RemoveAt(s, p)) = Len(s) - 1
         /\ \A i \in 1..Len(s) - 1 : RemoveAt(s, p)[i] = IF i < p THEN s[i] ELSE s[i + 1]
<1> DEFINE n == Len(s)
           a == SubSeq(s, 1, p - 1)
           b == SubSeq(s, p + 1, n)
<1>1. n \in Nat /\ p \in Int /\ 1 <= p /\ p <= n /\ \A i \in 1..n : s[i] \in S
  BY LenProperties, ElementOfSeq
<1>2. a \in Seq(S) /\ Len(a) = p - 1 /\ \A i \in 1..p - 1 : a[i] = s[i]
  <2>1. \A i \in 1..p - 1 : s[i] \in S
    BY <1>1
  <2>2. /\ a \in Seq(S) /\ Len(a) = IF 1 <= p - 1 THEN (p - 1) - 1 + 1 ELSE 0
        /\ \A i \in 1..(p - 1) - 1 + 1 : a[i] = s[1 + i - 1]
    BY <1>1, <2>1, SubSeqProperties
  <2> HIDE DEF a
  <2> QED BY <1>1, <2>2
<1>3. b \in Seq(S) /\ Len(b) = n - p /\ \A i \in 1..n - p : b[i] = s[p + i]
  <2>1. \A i \in p + 1..n : s[i] \in S
    BY <1>1
  <2>2. /\ b \in Seq(S) /\ Len(b) = IF p + 1 <= n THEN n - (p + 1) + 1 ELSE 0
        /\ \A i \in 1..n - (p + 1) + 1 : b[i] = s[(p + 1) + i - 1]
    BY <1>1, <2>1, SubSeqProperties
  <2> HIDE DEF b
  <2> QED BY <1>1, <2>2
<1>4. RemoveAt(s, p) = a \o b
  BY DEF RemoveAt
<1> HIDE DEF a, b, n
<1>5. /\ a \o b \in Seq(S) /\ Len(a \o b) = n - 1
      /\ \A i \in 1..n - 1 : (a \o b)[i] = IF i <= p - 1 THEN a[i] ELSE b[i - (p - 1)]
  <2>1. Len(a) + Len(b) = n - 1
    BY <1>1, <1>2, <1>3
  <2>2. /\ a \o b \in Seq(S) /\ Len(a \o b) = Len(a) + Len(b)
        /\ \A i \in 1..Len(a) + Len(b) : (a \o b)[i] = IF i <= Len(a) THEN a[i] ELSE b[i - Len(a)]
    BY <1>2, <1>3, ConcatProperties
  <2> QED BY <1>2, <2>1, <2>2
<1>6. ASSUME NEW i \in 1..n - 1 PROVE (a \o b)[i] = IF i < p THEN s[i] ELSE s[i + 1]
  <2>1. CASE i < p
    BY <1>1, <1>2, <1>5, <2>1
  <2>2. CASE ~(i < p)
    <3>1. i - (p - 1) \in 1..n - p /\ p + (i - (p - 1)) = i + 1 /\ ~(i <= p - 1)
      BY <1>1, <2>2
    <3>2. (a \o b)[i] = b[i - (p - 1)]
      BY <1>5, <3>1
    <3>3. b[i - (p - 1)] = s[p + (i - (p - 1))]
      BY <1>3, <3>1
    <3> QED BY <2>2, <3>1, <3>2, <3>3
  <2> QED BY <2>1, <2>2
<1> QED BY <1>4, <1>5, <1>6 DEF n

LEMMA InsertAtIs ==
  ASSUME NEW S, NEW s \in Seq(S), NEW p \in 1..Len(s) + 1, NEW v \in S
  PROVE  /\ InsertAt(s, p, v) \in Seq(S) /\ Len(InsertAt(s, p, v)) = Len(s) + 1
         /\ \A i \in 1..Len(s) + 1 :
              InsertAt(s, p, v)[i] = IF i < p THEN s[i] ELSE IF i = p THEN v ELSE s[i - 1]
<1> DEFINE n == Len(s)
           a == SubSeq(s, 1, p - 1)
           b == SubSeq(s, p, n)
           x == a \o <<v>>
<1>1. n \in Nat /\ p \in Int /\ 1 <= p /\ p <= n + 1 /\ \A i \in 1..n : s[i] \in S
  BY LenProperties, ElementOfSeq
<1>2. a \in Seq(S) /\ Len(a) = p - 1 /\ \A i \in 1..p - 1 : a[i] = s[i]
  <2>1. \A i \in 1..p - 1 : s[i] \in S
    BY <1>1
  <2>2. /\ a \in Seq(S) /\ Len(a) = IF 1 <= p - 1 THEN (p - 1) - 1 + 1 ELSE 0
        /\ \A i \in 1..(p - 1) - 1 + 1 : a[i] = s[1 + i - 1]
    BY <1>1, <2>1, SubSeqProperties
  <2> HIDE DEF a
  <2> QED BY <1>1, <2>2
<1>3. b \in Seq(S) /\ Len(b) = n - p + 1 /\ \A i \in 1..n - p + 1 : b[i] = s[p + i - 1]
  <2>1. \A i \in p..n : s[i] \in S
    BY <1>1
  <2>2. /\ b \in Seq(S) /\ Len(b) = IF p <= n THEN n - p + 1 ELSE 0
        /\ \A i \in 1..n - p + 1 : b[i] = s[p + i - 1]
    BY <1>1, <2>1, SubSeqProperties
  <2> HIDE DEF b
  <2> QED BY <1>1, <2>2
<1>4. InsertAt(s, p, v) = x \o b
  BY DEF InsertAt
<1> HIDE DEF a, b, n
<1>5. /\ x \in Seq(S) /\ Len(x) = p /\ x[p] = v /\ \A i \in 1..p - 1 : x[i] = s[i]
  <2>1. Append(a, v) = x
    BY <1>2, AppendIsConcat
  <2> HIDE DEF x
  <2>2. /\ Append(a, v) \in Seq(S) /\ Len(Append(a, v)) = Len(a) + 1
        /\ \A i \in 1..Len(a) : Append(a, v)[i] = a[i]
        /\ Append(a, v)[Len(a) + 1] = v
    BY <1>2, AppendProperties
  <2>3. Len(a) + 1 = p
    BY <1>1, <1>2
  <2> QED BY <1>2, <2>1, <2>2, <2>3
<1> HIDE DEF x
<1>6. /\ x \o b \in Seq(S) /\ Len(x \o b) = n + 1
      /\ \A i \in 1..n + 1 : (x \o b)[i] = IF i <= p THEN x[i] ELSE b[i - p]
  <2>1. Len(x) + Len(b) = n + 1
    BY <1>1, <1>3, <1>5
  <2>2. /\ x \o b \in Seq(S) /\ Len(x \o b) = Len(x) + Len(b)
        /\ \A i \in 1..Len(x) + Len(b) : (x \o b)[i] = IF i <= Len(x) THEN x[i] ELSE b[i - Len(x)]
    BY <1>3, <1>5, ConcatProperties
  <2> QED BY <1>5, <2>1, <2>2
<1>7. ASSUME NEW i \in 1..n + 1
      PROVE  (x \o b)[i] = IF i < p THEN s[i] ELSE IF i = p THEN v ELSE s[i - 1]
  <2>1. CASE i <= p
    BY <1>1, <1>5, <1>6, <2>1
  <2>2. CASE ~(i <= p)
    <3>1. i - p \in 1..n - p + 1 /\ p + (i - p) - 1 = i - 1 /\ ~(i < p) /\ i # p
      BY <1>1, <2>2
    <3>2. (x \o b)[i] = b[i - p]
      BY <1>6, <2>2
    <3>3. b[i - p] = s[p + (i - p) - 1]
      BY <1>3, <3>1
    <3> QED BY <3>1, <3>2, <3>3
  <2> QED BY <2>1, <2>2
<1> QED BY <1>4, <1>6, <1>7 DEF n

LEMMA ReverseIs ==
  ASSUME NEW S, NEW s \in Seq(S)
  PROVE  /\ Reverse(s) \in Seq(S) /\ Len(Reverse(s)) = Len(s)
         /\ \A i \in 0..Len(s) - 1 : Reverse(s)[i + 1] = s[Len(s) - i]
<1> DEFINE n == Len(s)
           t == Reverse(s)
<1>1. n \in Nat /\ t = [i \in 1..n |-> s[(n - i) + 1]]
  BY LenProperties DEF Reverse
<1> HIDE DEF t, n
<1>2. ASSUME NEW i \in 1..n PROVE s[(n - i) + 1] \in S
  <2>1. (n - i) + 1 \in 1..Len(s)
    BY <1>1 DEF n
  <2> QED BY <2>1, ElementOfSeq
<1>3. t \in [1..n -> S]
  BY <1>1, <1>2
<1>4. t \in Seq(S) /\ Len(t) = n
  BY <1>1, <1>3, IsASeq, LenProperties
<1>5. ASSUME NEW i \in 0..n - 1 PROVE t[i + 1] = s[n - i]
  <2>1. i + 1 \in 1..n /\ (n - (i + 1)) + 1 = n - i
    BY <1>1
  <2> QED BY <1>1, <2>1
<1> QED BY <1>4, <1>5 DEF t, n

LEMMA Halves ==
  ASSUME NEW n \in Nat
  PROVE  /\ n \div 2 \in Nat /\ 2 * (n \div 2) <= n /\ n <= 2 * (n \div 2) + 1
OBVIOUS
=============================================================================
