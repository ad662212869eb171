---------------------------- MODULE DequeProofs ----------------------------
(* Theorems of Deque, for every set of values, maxlen, capacity and sequence *)
(* of calls: the ring stays whole, and each call leaves the items Python's   *)
(* leaves and answers the same.                                             *)
(*                                                                          *)
(* A call's effect is read slot by slot: the window it leaves shows a       *)
(* sequence, which is compared with Python's.                               *)
EXTENDS Deque, SeqLemmas, TLAPS

(* The ring is whole: its window is inside it, within maxlen, and shows only *)
(* values that were stored.                                                  *)
Slots(d) == 0..d.capacity - 1
RingOK(d) ==
  /\ d = [data |-> d.data, capacity |-> d.capacity, head |-> d.head, len |-> d.len,
          maxlen |-> d.maxlen]
  /\ d.capacity \in Nat \ {0} /\ d.data \in [Slots(d) -> Values \cup {Zero}]
  /\ d.head \in Slots(d) /\ d.len \in 0..d.capacity
  /\ d.maxlen \in Nat \cup {-1} /\ (d.maxlen >= 0 => d.len <= d.maxlen)
  /\ \A i \in 0..d.len - 1 : d.data[Ring(d, i)] \in Values

(* The slots of a window that begins at h in a ring of c.                    *)
Turn(c, h, i) == IF h + i < c THEN h + i ELSE h + i - c
LEMMA RingIs ==
  ASSUME NEW d, d.capacity \in Nat \ {0}, d.head \in Slots(d), NEW i \in 0..d.capacity
  PROVE  /\ Ring(d, i) = Turn(d.capacity, d.head, i)
         /\ Ring(d, i) \in Slots(d)
<1> DEFINE c == d.capacity
           x == d.head + i
<1>1. c \in Nat \ {0} /\ x \in Int /\ -c <= x /\ x < 2 * c /\ x >= 0
  BY DEF Slots
<1>2. Ring(d, i) = x % c
  BY DEF Ring
<1>3. Turn(d.capacity, d.head, i) = (IF x < c THEN x ELSE x - c) /\ Slots(d) = 0..c - 1
  BY DEF Turn, Slots
<1> HIDE DEF c, x
<1>4. x % c = (IF x < 0 THEN x + c ELSE IF x < c THEN x ELSE x - c) /\ x % c \in 0..c - 1
  BY <1>1, Wrap
<1> QED BY <1>1, <1>2, <1>3, <1>4

LEMMA ContentsAre ==
  ASSUME NEW d, RingOK(d)
  PROVE  /\ Contents(d) \in Seq(Values) /\ Len(Contents(d)) = d.len /\ d.len \in Nat
         /\ DOMAIN Contents(d) = 1..d.len
         /\ \A i \in 1..d.len : Contents(d)[i] = d.data[Ring(d, i - 1)]
<1>1. d.len \in Nat
  BY DEF RingOK, Slots
<1>2. \A i \in 1..d.len : i - 1 \in 0..d.len - 1 /\ d.data[Ring(d, i - 1)] \in Values
  BY <1>1 DEF RingOK
<1>3. Contents(d) \in [1..d.len -> Values]
  BY <1>2 DEF Contents
<1>4. Contents(d) \in Seq(Values)
  BY <1>1, <1>3, IsASeq
<1>5. Len(Contents(d)) = d.len
  BY <1>1, <1>3, <1>4, LenProperties
<1> QED BY <1>1, <1>3, <1>4, <1>5 DEF Contents

(* Rings that show the same sequence.                                        *)
LEMMA ShowsSeq ==
  ASSUME NEW d, RingOK(d), NEW s \in Seq(Values), Len(s) = d.len,
         \A i \in 1..d.len : d.data[Ring(d, i - 1)] = s[i]
  PROVE  Contents(d) = s
<1>1. /\ Contents(d) \in Seq(Values) /\ Len(Contents(d)) = Len(s)
      /\ \A i \in 1..Len(s) : Contents(d)[i] = s[i]
  BY ContentsAre
<1> QED BY <1>1, SeqEqual

LEMMA DropFirst ==
  ASSUME NEW d, RingOK(d), d.len > 0,
         NEW e, e = [d EXCEPT !.head = Ring(d, 1), !.len = @ - 1]
  PROVE  /\ RingOK(e) /\ Contents(e) = Tail(Contents(d)) /\ e.maxlen = d.maxlen
         /\ e.len = d.len - 1 /\ e.capacity = d.capacity
<1>1. /\ e = [data |-> e.data, capacity |-> e.capacity, head |-> e.head, len |-> e.len,
              maxlen |-> e.maxlen]
      /\ e.data = d.data /\ e.capacity = d.capacity /\ e.head = Ring(d, 1)
      /\ e.len = d.len - 1 /\ e.maxlen = d.maxlen
  BY DEF RingOK
<1> DEFINE c == d.capacity
<1>2. c \in Nat \ {0} /\ d.len \in 1..c /\ d.head \in 0..c - 1 /\ Slots(e) = Slots(d)
  BY <1>1 DEF RingOK, Slots
<1>3. Ring(d, 1) \in Slots(d) /\ Ring(d, 1) = Turn(c, d.head, 1)
  BY <1>2, RingIs DEF Slots
<1>4. ASSUME NEW i \in 0..e.len - 1 PROVE Ring(e, i) = Ring(d, i + 1) /\ i + 1 \in 0..d.len - 1
  <2>1. i \in 0..c /\ i + 1 \in 0..c
    BY <1>1, <1>2
  <2>2. Ring(e, i) = Turn(c, Ring(d, 1), i)
    BY <1>1, <1>2, <1>3, <2>1, RingIs
  <2>3. Ring(d, i + 1) = Turn(c, d.head, i + 1)
    BY <1>2, <2>1, RingIs DEF Slots
  <2> HIDE DEF c
  <2> QED BY <1>1, <1>2, <1>3, <2>1, <2>2, <2>3 DEF Turn
<1>5. RingOK(e)
  <2>1. \A i \in 0..e.len - 1 : e.data[Ring(e, i)] \in Values
    BY <1>1, <1>4 DEF RingOK
  <2>2. e.len \in 0..e.capacity /\ (e.maxlen >= 0 => e.len <= e.maxlen)
    BY <1>1, <1>2 DEF RingOK
  <2> QED BY <1>1, <1>2, <1>3, <2>1, <2>2 DEF RingOK
<1>6. Contents(e) = Tail(Contents(d))
  <2> DEFINE s == Contents(d)
  <2>1. s \in Seq(Values) /\ Len(s) = d.len /\ \A i \in 1..d.len : s[i] = d.data[Ring(d, i - 1)]
    BY ContentsAre
  <2>2. s # <<>>
    BY <1>2, <2>1, EmptySeq
  <2> HIDE DEF s
  <2>3. /\ Tail(s) \in Seq(Values) /\ Len(Tail(s)) = e.len
        /\ \A i \in 1..e.len : i + 1 \in 1..d.len /\ Tail(s)[i] = s[i + 1]
    BY <1>1, <1>2, <2>1, <2>2, TailElements, LenProperties
  <2>4. ASSUME NEW i \in 1..e.len PROVE e.data[Ring(e, i - 1)] = Tail(s)[i]
    <3>1. i - 1 \in 0..e.len - 1 /\ (i - 1) + 1 = i /\ (i + 1) - 1 = i /\ i + 1 \in 1..d.len
      BY <1>1, <1>2
    <3>2. Ring(e, i - 1) = Ring(d, i)
      BY <1>4, <3>1
    <3> QED BY <1>1, <2>1, <2>3, <3>1, <3>2
  <2>5. Contents(e) = Tail(s)
    BY <1>5, <2>3, <2>4, ShowsSeq
  <2> QED BY <2>5 DEF s
<1> QED BY <1>1, <1>5, <1>6

LEMMA DropLast ==
  ASSUME NEW d, RingOK(d), d.len > 0, NEW e, e = [d EXCEPT !.len = @ - 1]
  PROVE  /\ RingOK(e) /\ Contents(e) = Front(Contents(d)) /\ e.maxlen = d.maxlen
         /\ e.len = d.len - 1 /\ e.capacity = d.capacity
<1>1. /\ e = [data |-> e.data, capacity |-> e.capacity, head |-> e.head, len |-> e.len,
              maxlen |-> e.maxlen]
      /\ e.data = d.data /\ e.capacity = d.capacity /\ e.head = d.head
      /\ e.len = d.len - 1 /\ e.maxlen = d.maxlen
  BY DEF RingOK
<1>2. d.len \in Nat \ {0} /\ \A i : Ring(e, i) = Ring(d, i)
  BY <1>1 DEF Ring, RingOK
<1>3. RingOK(e)
  <2>1. \A i \in 0..e.len - 1 : e.data[Ring(e, i)] \in Values
    BY <1>1, <1>2 DEF RingOK
  <2>2. e.len \in 0..e.capacity /\ (e.maxlen >= 0 => e.len <= e.maxlen) /\ Slots(e) = Slots(d)
    BY <1>1, <1>2 DEF RingOK, Slots
  <2> QED BY <1>1, <2>1, <2>2 DEF RingOK
<1>4. Contents(e) = Front(Contents(d))
  <2> DEFINE s == Contents(d)
  <2>1. s \in Seq(Values) /\ Len(s) = d.len /\ \A i \in 1..d.len : s[i] = d.data[Ring(d, i - 1)]
    BY ContentsAre
  <2> HIDE DEF s
  <2>2. /\ Front(s) \in Seq(Values) /\ Len(Front(s)) = e.len
        /\ \A i \in 1..e.len : Front(s)[i] = s[i] /\ i \in 1..d.len
    <3>1. 1 \in 1..Len(s) + 1 /\ Len(s) - 1 \in (1 - 1)..Len(s)
      BY <1>2, <2>1
    <3>2. \A i \in 1..Len(s) - 1 : s[i] \in Values
      BY <1>2, <2>1, ElementOfSeq
    <3>3. /\ SubSeq(s, 1, Len(s) - 1) \in Seq(Values) /\ Len(SubSeq(s, 1, Len(s) - 1)) = Len(s) - 1
          /\ \A i \in 1..Len(s) - 1 : SubSeq(s, 1, Len(s) - 1)[i] = s[i]
      BY <1>2, <2>1, <3>1, <3>2, SubSeqProperties
    <3> QED BY <1>1, <1>2, <2>1, <3>3 DEF Front
  <2>3. ASSUME NEW i \in 1..e.len PROVE e.data[Ring(e, i - 1)] = Front(s)[i]
    <3>1. Ring(e, i - 1) = Ring(d, i - 1)
      BY <1>2
    <3> QED BY <1>1, <2>1, <2>2, <3>1
  <2>4. Contents(e) = Front(s)
    BY <1>3, <2>2, <2>3, ShowsSeq
  <2> QED BY <2>4 DEF s
<1> QED BY <1>1, <1>3, <1>4

LEMMA RingDistinct ==
  ASSUME NEW d, d.capacity \in Nat \ {0}, d.head \in Slots(d),
         NEW i \in Slots(d), NEW j \in Slots(d), i # j
  PROVE  Ring(d, i) # Ring(d, j)
<1> DEFINE c == d.capacity
           h == d.head
<1>1. c \in Nat \ {0} /\ h \in 0..c - 1 /\ i \in 0..c - 1 /\ j \in 0..c - 1
  BY DEF Slots
<1>2. i \in 0..c /\ j \in 0..c
  BY <1>1
<1>3. Ring(d, i) = Turn(c, h, i) /\ Ring(d, j) = Turn(c, h, j)
  BY <1>2, RingIs
<1> HIDE DEF c, h
<1> QED BY <1>1, <1>3 DEF Turn

(* What every ring is made of.                                               *)
LEMMA RingParts ==
  ASSUME NEW d, RingOK(d)
  PROVE  /\ d = [data |-> d.data, capacity |-> d.capacity, head |-> d.head, len |-> d.len,
                 maxlen |-> d.maxlen]
         /\ d.capacity \in Nat \ {0} /\ d.data \in [Slots(d) -> Values \cup {Zero}]
         /\ d.head \in Slots(d) /\ d.len \in Nat /\ d.len <= d.capacity
         /\ d.maxlen \in Nat \cup {-1} /\ (d.maxlen >= 0 => d.len <= d.maxlen)
         /\ \A i \in 0..d.len - 1 : d.data[Ring(d, i)] \in Values
BY DEF RingOK, Slots

LEMMA Grown ==
  ASSUME NEW d, RingOK(d)
  PROVE  LET e == EnsureCapacity(d)
         IN  /\ RingOK(e) /\ Contents(e) = Contents(d) /\ e.len = d.len /\ e.maxlen = d.maxlen
             /\ e.len < e.capacity
<1> DEFINE c == d.capacity
           f == [i \in 0..2 * c - 1 |-> IF i < d.len THEN d.data[Ring(d, i)] ELSE Zero]
           e == [data |-> f, capacity |-> 2 * c, head |-> 0, len |-> d.len, maxlen |-> d.maxlen]
<1>1. c \in Nat \ {0} /\ d.len \in Nat /\ d.len <= c
  BY RingParts
<1>2. CASE d.len < c
  BY <1>2 DEF EnsureCapacity
<1>3. CASE ~(d.len < c)
  <2>1. EnsureCapacity(d) = e
    BY <1>3 DEF EnsureCapacity
  <2>2. /\ e = [data |-> e.data, capacity |-> e.capacity, head |-> e.head, len |-> e.len,
                maxlen |-> e.maxlen]
        /\ e.data = f /\ e.capacity = 2 * c /\ e.head = 0 /\ e.len = d.len /\ e.maxlen = d.maxlen
    <3> HIDE DEF f
    <3> QED BY RingParts
  <2>3. \A i \in 0..d.len - 1 : d.data[Ring(d, i)] \in Values
    BY RingParts
  <2>4. /\ f \in [0..2 * c - 1 -> Values \cup {Zero}]
        /\ \A i \in 0..d.len - 1 : i \in 0..2 * c - 1 /\ f[i] = d.data[Ring(d, i)]
    BY <1>1, <2>3
  <2> HIDE DEF e, f
  <2>5. /\ e.capacity \in Nat \ {0} /\ e.head \in Slots(e) /\ e.len < e.capacity
        /\ Slots(e) = 0..2 * c - 1
    BY <1>1, <2>2 DEF Slots
  <2>6. ASSUME NEW i \in 0..d.len - 1 PROVE e.data[Ring(e, i)] = d.data[Ring(d, i)]
    <3>1. i \in 0..e.capacity /\ i < e.capacity
      BY <1>1, <2>2
    <3>2. Ring(e, i) = i
      BY <2>2, <2>5, <3>1, RingIs DEF Turn
    <3> QED BY <2>2, <2>4, <3>2
  <2>7. RingOK(e)
    <3>1. \A i \in 0..e.len - 1 : e.data[Ring(e, i)] \in Values
      BY <2>2, <2>3, <2>6
    <3>2. e.maxlen \in Nat \cup {-1} /\ (e.maxlen >= 0 => e.len <= e.maxlen)
      BY <2>2, RingParts
    <3>3. e.len \in 0..e.capacity
      BY <1>1, <2>2
    <3> QED BY <2>2, <2>4, <2>5, <3>1, <3>2, <3>3 DEF RingOK
  <2>8. Contents(e) = Contents(d)
    <3> DEFINE s == Contents(d)
    <3>1. s \in Seq(Values) /\ Len(s) = d.len /\ \A i \in 1..d.len : s[i] = d.data[Ring(d, i - 1)]
      BY ContentsAre
    <3> HIDE DEF s
    <3>2. ASSUME NEW i \in 1..e.len PROVE e.data[Ring(e, i - 1)] = s[i]
      <4>1. i - 1 \in 0..d.len - 1 /\ i \in 1..d.len
        BY <1>1, <2>2
      <4> QED BY <2>6, <3>1, <4>1
    <3>3. Contents(e) = s
      BY <2>2, <2>7, <3>1, <3>2, ShowsSeq
    <3> QED BY <3>3 DEF s
  <2> QED BY <2>1, <2>2, <2>5, <2>7, <2>8
<1> QED BY <1>1, <1>2, <1>3

(* Below its capacity and its maxlen a ring takes a value at either end.     *)
LEMMA PushBack ==
  ASSUME NEW d, RingOK(d), d.len < d.capacity, d.maxlen >= 0 => d.len < d.maxlen,
         NEW v \in Values, NEW e, e = Window(d, [d.data EXCEPT ![Ring(d, d.len)] = v], d.head, d.len + 1)
  PROVE  /\ RingOK(e) /\ Contents(e) = Append(Contents(d), v) /\ e.maxlen = d.maxlen
         /\ e.len = d.len + 1
<1> DEFINE c == d.capacity
           slot == Ring(d, d.len)
           data == [d.data EXCEPT ![slot] = v]
<1>1. c \in Nat \ {0} /\ d.len \in Nat /\ d.len < c /\ d.head \in 0..c - 1 /\ Slots(d) = 0..c - 1
  BY RingParts DEF Slots
<1>2. slot \in Slots(d)
  <2>1. d.len \in 0..c
    BY <1>1
  <2> QED BY <2>1, <1>1, RingIs
<1>3. /\ e = [data |-> e.data, capacity |-> e.capacity, head |-> e.head, len |-> e.len,
              maxlen |-> e.maxlen]
      /\ e.data = [d.data EXCEPT ![slot] = v] /\ e.capacity = c /\ e.head = d.head
      /\ e.len = d.len + 1 /\ e.maxlen = d.maxlen /\ Slots(e) = Slots(d)
  <2>1. e = Window(d, data, d.head, d.len + 1)
    OBVIOUS
  <2> HIDE DEF data
  <2>2. /\ e = [data |-> e.data, capacity |-> e.capacity, head |-> e.head, len |-> e.len,
                maxlen |-> e.maxlen]
        /\ e.data = data /\ e.capacity = c /\ e.head = d.head
        /\ e.len = d.len + 1 /\ e.maxlen = d.maxlen /\ Slots(e) = Slots(d)
    BY <2>1 DEF Window, Slots
  <2> QED BY <2>2 DEF data
<1>4. \A i : Ring(e, i) = Ring(d, i)
  BY <1>3 DEF Ring
<1>5. e.data[Ring(e, d.len)] = v /\ e.data \in [Slots(e) -> Values \cup {Zero}]
  BY <1>2, <1>3, <1>4, RingParts
<1>6. ASSUME NEW i \in 0..d.len - 1 PROVE e.data[Ring(e, i)] = d.data[Ring(d, i)]
  <2>1. i \in Slots(d) /\ d.len \in Slots(d) /\ i # d.len /\ i \in 0..c
    BY <1>1
  <2>2. Ring(d, i) # slot /\ Ring(d, i) \in Slots(d)
    BY <1>1, <2>1, RingDistinct, RingIs
  <2> HIDE DEF slot
  <2> QED BY <1>3, <1>4, <2>2, RingParts
<1> HIDE DEF slot
<1>7. RingOK(e)
  <2>1. ASSUME NEW i \in 0..e.len - 1 PROVE e.data[Ring(e, i)] \in Values
    <3>1. i = d.len \/ i \in 0..d.len - 1
      BY <1>1, <1>3
    <3> QED BY <1>5, <1>6, <3>1, RingParts
  <2>2. e.len \in 0..e.capacity /\ (e.maxlen >= 0 => e.len <= e.maxlen)
    BY <1>1, <1>3, RingParts
  <2> QED BY <1>1, <1>3, <1>5, <2>1, <2>2, RingParts DEF RingOK
<1>8. Contents(e) = Append(Contents(d), v)
  <2> DEFINE s == Contents(d)
  <2>1. s \in Seq(Values) /\ Len(s) = d.len /\ \A i \in 1..d.len : s[i] = d.data[Ring(d, i - 1)]
    BY ContentsAre
  <2> HIDE DEF s
  <2>2. /\ Append(s, v) \in Seq(Values) /\ Len(Append(s, v)) = e.len
        /\ Append(s, v)[d.len + 1] = v /\ \A i \in 1..d.len : Append(s, v)[i] = s[i]
    BY <1>3, <2>1, AppendProperties
  <2>3. ASSUME NEW i \in 1..e.len PROVE e.data[Ring(e, i - 1)] = Append(s, v)[i]
    <3>1. CASE i = d.len + 1
      <4>1. i - 1 = d.len
        BY <1>1, <3>1
      <4> QED BY <1>5, <2>2, <3>1, <4>1
    <3>2. CASE i # d.len + 1
      <4>1. i \in 1..d.len /\ i - 1 \in 0..d.len - 1
        BY <1>1, <1>3, <3>2
      <4> QED BY <1>6, <2>1, <2>2, <4>1
    <3> QED BY <3>1, <3>2
  <2>4. Contents(e) = Append(s, v)
    BY <1>7, <2>2, <2>3, ShowsSeq
  <2> QED BY <2>4 DEF s
<1> QED BY <1>3, <1>7, <1>8

(* A window over a ring of the same size, slot by slot.                      *)
Shows(d, data, head, len, s) ==
  /\ data \in [0..d.capacity - 1 -> Values \cup {Zero}] /\ head \in 0..d.capacity - 1
  /\ len \in 0..d.capacity /\ (d.maxlen >= 0 => len <= d.maxlen)
  /\ s \in Seq(Values) /\ Len(s) = len
  /\ \A i \in 0..len - 1 : data[Turn(d.capacity, head, i)] = s[i + 1]
LEMMA WindowShows ==
  ASSUME NEW d, RingOK(d), NEW data, NEW head, NEW len, NEW s, Shows(d, data, head, len, s),
         NEW e, e = Window(d, data, head, len)
  PROVE  /\ RingOK(e) /\ Contents(e) = s /\ e.maxlen = d.maxlen /\ e.len = len
         /\ e.capacity = d.capacity
<1> DEFINE c == d.capacity
<1>0. /\ data \in [0..c - 1 -> Values \cup {Zero}] /\ head \in 0..c - 1
      /\ len \in 0..c /\ (d.maxlen >= 0 => len <= d.maxlen)
      /\ s \in Seq(Values) /\ Len(s) = len
      /\ \A i \in 0..len - 1 : data[Turn(c, head, i)] = s[i + 1]
  BY DEF Shows
<1>1. /\ e = [data |-> e.data, capacity |-> e.capacity, head |-> e.head, len |-> e.len,
              maxlen |-> e.maxlen]
      /\ e.data = data /\ e.capacity = c /\ e.head = head /\ e.len = len
      /\ e.maxlen = d.maxlen /\ Slots(e) = 0..c - 1 /\ c \in Nat \ {0}
  BY RingParts DEF Window, Slots
<1> HIDE DEF c
<1>2. ASSUME NEW i \in 0..len - 1 PROVE e.data[Ring(e, i)] = s[i + 1] /\ s[i + 1] \in Values
  <2>1. i \in 0..c /\ i + 1 \in 1..Len(s)
    BY <1>0, <1>1
  <2>2. Ring(e, i) = Turn(c, head, i)
    BY <1>0, <1>1, <2>1, RingIs
  <2>3. data[Turn(c, head, i)] = s[i + 1]
    BY <1>0
  <2> QED BY <1>0, <1>1, <2>1, <2>2, <2>3, ElementOfSeq
<1>3. RingOK(e)
  <2>1. \A i \in 0..e.len - 1 : e.data[Ring(e, i)] \in Values
    BY <1>1, <1>2
  <2>2. e.maxlen \in Nat \cup {-1}
    BY <1>1, RingParts
  <2> QED BY <1>0, <1>1, <2>1, <2>2 DEF RingOK
<1>4. ASSUME NEW i \in 1..e.len PROVE e.data[Ring(e, i - 1)] = s[i]
  <2>1. i - 1 \in 0..len - 1 /\ (i - 1) + 1 = i
    BY <1>0, <1>1
  <2> QED BY <1>2, <2>1
<1>5. Contents(e) = s
  BY <1>0, <1>1, <1>3, <1>4, ShowsSeq
<1>6. e.capacity = d.capacity
  BY <1>1 DEF c
<1> QED BY <1>1, <1>3, <1>5, <1>6

(* A ring in the terms of WindowShows.                                       *)
LEMMA RingSlots ==
  ASSUME NEW d, RingOK(d), NEW c, c = d.capacity, NEW h, h = d.head
  PROVE  /\ c \in Nat \ {0} /\ h \in 0..c - 1 /\ d.len \in Nat /\ d.len <= c
         /\ d.data \in [0..c - 1 -> Values \cup {Zero}] /\ Slots(d) = 0..c - 1
         /\ Contents(d) \in Seq(Values) /\ Len(Contents(d)) = d.len
         /\ DOMAIN Contents(d) = 1..d.len
         /\ \A i \in 0..c - 1 : Ring(d, i) = Turn(c, h, i) /\ Turn(c, h, i) \in 0..c - 1
         /\ \A i \in 0..d.len - 1 : /\ d.data[Turn(c, h, i)] = Contents(d)[i + 1]
                                   /\ Contents(d)[i + 1] \in Values
<1> DEFINE s == Contents(d)
<1>1. /\ c \in Nat \ {0} /\ h \in 0..c - 1 /\ d.len \in Nat /\ d.len <= c
      /\ d.data \in [0..c - 1 -> Values \cup {Zero}] /\ Slots(d) = 0..c - 1
  BY RingParts DEF Slots
<1>2. /\ s \in Seq(Values) /\ Len(s) = d.len /\ DOMAIN s = 1..d.len
      /\ \A i \in 1..d.len : s[i] = d.data[Ring(d, i - 1)]
  BY ContentsAre
<1>3. ASSUME NEW i \in 0..c - 1 PROVE Ring(d, i) = Turn(c, h, i) /\ Turn(c, h, i) \in 0..c - 1
  <2>1. i \in 0..c
    BY <1>1
  <2> QED BY <1>1, <2>1, RingIs
<1>4. ASSUME NEW i \in 0..d.len - 1
      PROVE  d.data[Turn(c, h, i)] = s[i + 1] /\ s[i + 1] \in Values
  <2>1. i + 1 \in 1..d.len /\ (i + 1) - 1 = i /\ i \in 0..c - 1
    BY <1>1
  <2>2. s[i + 1] = d.data[Ring(d, i)]
    BY <1>2, <2>1
  <2> QED BY <1>2, <1>3, <2>1, <2>2, ElementOfSeq
<1> QED BY <1>1, <1>2, <1>3, <1>4

LEMMA PushFront ==
  ASSUME NEW d, RingOK(d), d.len < d.capacity, d.maxlen >= 0 => d.len < d.maxlen,
         NEW v \in Values, NEW front, front = IF d.head = 0 THEN d.capacity - 1 ELSE d.head - 1,
         NEW e, e = Window(d, [d.data EXCEPT ![front] = v], front, d.len + 1)
  PROVE  /\ RingOK(e) /\ Contents(e) = <<v>> \o Contents(d) /\ e.maxlen = d.maxlen
         /\ e.len = d.len + 1
<1> DEFINE c == d.capacity
           h == d.head
           n == d.len
           s == Contents(d)
           data == [d.data EXCEPT ![front] = v]
           t == <<v>> \o s
<1>1. /\ c \in Nat \ {0} /\ h \in 0..c - 1 /\ n \in Nat /\ n < c
      /\ d.data \in [0..c - 1 -> Values \cup {Zero}] /\ s \in Seq(Values) /\ Len(s) = n
      /\ \A i \in 0..n - 1 : d.data[Turn(c, h, i)] = s[i + 1]
      /\ front = IF h = 0 THEN c - 1 ELSE h - 1
  BY RingSlots
<1>2. d.maxlen >= 0 => n + 1 <= d.maxlen
  BY <1>1, RingParts
<1>3. t \in Seq(Values) /\ Len(t) = n + 1 /\ t[1] = v /\ \A i \in 1..n : t[i + 1] = s[i]
  <2> HIDE DEF s
  <2>1. <<v>> \in Seq(Values) /\ Len(<<v>>) = 1 /\ <<v>>[1] = v
    OBVIOUS
  <2>2. /\ t \in Seq(Values) /\ Len(t) = 1 + n
        /\ \A i \in 1..1 + n : t[i] = IF i <= 1 THEN <<v>>[i] ELSE s[i - 1]
    BY <1>1, <2>1, ConcatProperties
  <2> QED BY <1>1, <2>1, <2>2
<1> HIDE DEF c, h, n, s, t
<1>4. front \in 0..c - 1 /\ data \in [0..c - 1 -> Values \cup {Zero}] /\ data[front] = v
  BY <1>1
<1>5. ASSUME NEW i \in 0..n PROVE data[Turn(c, front, i)] = t[i + 1]
  <2>1. CASE i = 0
    BY <1>1, <1>3, <1>4, <2>1 DEF Turn
  <2>2. CASE i # 0
    <3>1. i - 1 \in 0..n - 1 /\ i \in 1..n /\ (i - 1) + 1 = i
      BY <1>1, <2>2
    <3>2. /\ Turn(c, front, i) = Turn(c, h, i - 1) /\ Turn(c, h, i - 1) \in 0..c - 1
          /\ Turn(c, h, i - 1) # front
      <4>1. c \in Int /\ h \in Int /\ 0 <= h /\ h < c /\ i \in Int /\ 0 < i /\ i < c
        BY <1>1, <2>2
      <4>2. CASE h = 0
        <5>1. front = c - 1
          BY <1>1, <4>2
        <5> QED BY <4>1, <4>2, <5>1 DEF Turn
      <4>3. CASE h # 0
        <5>1. front = h - 1
          BY <1>1, <4>3
        <5> QED BY <4>1, <4>3, <5>1 DEF Turn
      <4> QED BY <4>2, <4>3
    <3>3. data[Turn(c, front, i)] = d.data[Turn(c, h, i - 1)]
      BY <1>1, <3>2
    <3> QED BY <1>1, <1>3, <3>1, <3>3
  <2> QED BY <2>1, <2>2
<1> DEFINE m == n + 1
<1>6. m \in 0..c /\ (d.maxlen >= 0 => m <= d.maxlen) /\ Len(t) = m
  BY <1>1, <1>2, <1>3
<1>7. \A i \in 0..m - 1 : data[Turn(c, front, i)] = t[i + 1]
  <2>1. \A i \in 0..m - 1 : i \in 0..n
    BY <1>1
  <2> HIDE DEF m, data
  <2> QED BY <1>5, <2>1
<1>8. e = Window(d, data, front, m) /\ c = d.capacity
  BY DEF n, c
<1> HIDE DEF data, m
<1>9. Shows(d, data, front, m, t)
  BY <1>3, <1>4, <1>6, <1>7, <1>8 DEF Shows
<1>10. RingOK(e) /\ Contents(e) = t /\ e.maxlen = d.maxlen /\ e.len = m
  BY <1>8, <1>9, WindowShows
<1> QED BY <1>10 DEF t, s, n, m

LEMMA FullIs ==
  ASSUME NEW d, RingOK(d)
  PROVE  /\ AtMaxLen(d) <=> Python!Full(Contents(d), d.maxlen)
         /\ AtMaxLen(d) => d.maxlen \in Nat /\ d.len = d.maxlen
         /\ ~AtMaxLen(d) => (d.maxlen >= 0 => d.len < d.maxlen)
         /\ d.maxlen = 0 => AtMaxLen(d) /\ Contents(d) = <<>>
<1>1. /\ Contents(d) \in Seq(Values) /\ Len(Contents(d)) = d.len /\ d.len \in Nat
      /\ d.maxlen \in Nat \cup {-1} /\ (d.maxlen >= 0 => d.len <= d.maxlen)
  BY ContentsAre, RingParts
<1>2. AtMaxLen(d) <=> Python!Full(Contents(d), d.maxlen)
  BY <1>1 DEF AtMaxLen, Python!Full
<1>3. d.maxlen = 0 => d.len = 0 /\ AtMaxLen(d)
  BY <1>1 DEF AtMaxLen
<1>4. d.len = 0 => Contents(d) = <<>>
  BY <1>1, EmptySeq
<1> QED BY <1>1, <1>2, <1>3, <1>4 DEF AtMaxLen

(* append(): at the right end, dropping the first item of a full deque.      *)
LEMMA AppendedIs ==
  ASSUME NEW d, RingOK(d), NEW v \in Values
  PROVE  /\ RingOK(Appended(d, v)) /\ Appended(d, v).maxlen = d.maxlen
         /\ Contents(Appended(d, v)) = Python!AddRight(Contents(d), d.maxlen, v)
<1> DEFINE room == IF AtMaxLen(d) THEN [d EXCEPT !.head = Ring(d, 1), !.len = @ - 1] ELSE d
           e == EnsureCapacity(room)
           r == Window(e, [e.data EXCEPT ![Ring(e, e.len)] = v], e.head, e.len + 1)
           s == Contents(d)
<1>1. CASE d.maxlen = 0
  <2>1. Appended(d, v) = d /\ Contents(d) = <<>>
    BY <1>1, FullIs DEF Appended
  <2> QED BY <1>1, <2>1 DEF Python!AddRight
<1>2. CASE d.maxlen # 0
  <2>1. Appended(d, v) = r
    <3>1. (d.head + 1) % d.capacity = Ring(d, 1)
      BY DEF Ring
    <3> QED BY <1>2, <3>1 DEF Appended
  <2>2. /\ RingOK(room) /\ Contents(room) = IF AtMaxLen(d) THEN Tail(s) ELSE s
        /\ room.maxlen = d.maxlen /\ (room.maxlen >= 0 => room.len < room.maxlen)
    <3>1. CASE AtMaxLen(d)
      <4>1. d.len > 0 /\ d.maxlen \in Nat /\ d.len = d.maxlen
        BY <1>2, <3>1, FullIs
      <4>2. room = [d EXCEPT !.head = Ring(d, 1), !.len = @ - 1]
        BY <3>1
      <4> HIDE DEF room
      <4>3. /\ RingOK(room) /\ Contents(room) = Tail(s) /\ room.maxlen = d.maxlen
            /\ room.len = d.len - 1
        BY <4>1, <4>2, DropFirst
      <4> QED BY <3>1, <4>1, <4>3
    <3>2. CASE ~AtMaxLen(d)
      BY <3>2, FullIs
    <3> QED BY <3>1, <3>2
  <2> HIDE DEF room
  <2>3. /\ RingOK(e) /\ Contents(e) = Contents(room) /\ e.len = room.len /\ e.maxlen = room.maxlen
        /\ e.len < e.capacity
    BY <2>2, Grown
  <2> HIDE DEF e
  <2>4. RingOK(r) /\ Contents(r) = Append(Contents(e), v) /\ r.maxlen = e.maxlen
    <3>1. e.maxlen >= 0 => e.len < e.maxlen
      BY <2>2, <2>3
    <3> QED BY <2>3, <3>1, PushBack
  <2>5. Contents(r) = Python!AddRight(s, d.maxlen, v)
    BY <1>2, <2>2, <2>3, <2>4, FullIs DEF Python!AddRight
  <2> HIDE DEF r, s
  <2>6. r.maxlen = d.maxlen
    BY <2>2, <2>3, <2>4
  <2> QED BY <2>1, <2>4, <2>5, <2>6 DEF s
<1> QED BY <1>1, <1>2

(* appendleft(): at the left end, dropping the last item of a full deque.    *)
LEMMA AppendedLeftIs ==
  ASSUME NEW d, RingOK(d), NEW v \in Values
  PROVE  /\ RingOK(AppendedLeft(d, v)) /\ AppendedLeft(d, v).maxlen = d.maxlen
         /\ Contents(AppendedLeft(d, v)) = Python!AddLeft(Contents(d), d.maxlen, v)
<1> DEFINE room == IF AtMaxLen(d) THEN [d EXCEPT !.len = @ - 1] ELSE d
           e == EnsureCapacity(room)
           front == IF e.head = 0 THEN e.capacity - 1 ELSE e.head - 1
           r == Window(e, [e.data EXCEPT ![front] = v], front, e.len + 1)
           s == Contents(d)
<1>1. CASE d.maxlen = 0
  <2>1. AppendedLeft(d, v) = d /\ Contents(d) = <<>>
    BY <1>1, FullIs DEF AppendedLeft
  <2> QED BY <1>1, <2>1 DEF Python!AddLeft
<1>2. CASE d.maxlen # 0
  <2>1. AppendedLeft(d, v) = r
    BY <1>2 DEF AppendedLeft
  <2>2. /\ RingOK(room) /\ Contents(room) = IF AtMaxLen(d) THEN Front(s) ELSE s
        /\ room.maxlen = d.maxlen /\ (room.maxlen >= 0 => room.len < room.maxlen)
    <3>1. CASE AtMaxLen(d)
      <4>1. d.len > 0 /\ d.maxlen \in Nat /\ d.len = d.maxlen
        BY <1>2, <3>1, FullIs
      <4>2. room = [d EXCEPT !.len = @ - 1]
        BY <3>1
      <4> HIDE DEF room
      <4>3. /\ RingOK(room) /\ Contents(room) = Front(s) /\ room.maxlen = d.maxlen
            /\ room.len = d.len - 1
        BY <4>1, <4>2, DropLast
      <4> QED BY <3>1, <4>1, <4>3
    <3>2. CASE ~AtMaxLen(d)
      BY <3>2, FullIs
    <3> QED BY <3>1, <3>2
  <2> HIDE DEF room
  <2>3. /\ RingOK(e) /\ Contents(e) = Contents(room) /\ e.len = room.len /\ e.maxlen = room.maxlen
        /\ e.len < e.capacity
    BY <2>2, Grown
  <2> HIDE DEF e
  <2>4. RingOK(r) /\ Contents(r) = <<v>> \o Contents(e) /\ r.maxlen = e.maxlen
    <3>1. e.maxlen >= 0 => e.len < e.maxlen
      BY <2>2, <2>3
    <3>2. front = IF e.head = 0 THEN e.capacity - 1 ELSE e.head - 1
      OBVIOUS
    <3> HIDE DEF front
    <3> QED BY <2>3, <3>1, <3>2, PushFront
  <2>5. Contents(r) = Python!AddLeft(s, d.maxlen, v)
    <3>1. Front(s) = Python!Front(s)
      BY DEF Front, Python!Front
    <3> HIDE DEF r
    <3> QED BY <1>2, <2>2, <2>3, <2>4, <3>1, FullIs DEF Python!AddLeft
  <2> HIDE DEF r, s
  <2>6. r.maxlen = d.maxlen
    BY <2>2, <2>3, <2>4
  <2> QED BY <2>1, <2>4, <2>5, <2>6 DEF s
<1> QED BY <1>1, <1>2

(* A fresh ring.                                                             *)
LEMMA FreshIs ==
  ASSUME DequeAssumption, NEW m \in Nat \cup {-1}
  PROVE  /\ RingOK(Fresh(m)) /\ Contents(Fresh(m)) = <<>> /\ Fresh(m).maxlen = m
         /\ Fresh(m).len = 0
<1> DEFINE d == Fresh(m)
<1>1. MinCapacity \in Nat \ {0}
  BY DEF DequeAssumption
<1>2. /\ d = [data |-> d.data, capacity |-> d.capacity, head |-> d.head, len |-> d.len,
              maxlen |-> d.maxlen]
      /\ d.data = Buffer(MinCapacity) /\ d.capacity = MinCapacity /\ d.head = 0 /\ d.len = 0
      /\ d.maxlen = m
  BY DEF Fresh
<1>3. Buffer(MinCapacity) \in [0..MinCapacity - 1 -> Values \cup {Zero}]
  BY DEF Buffer
<1> HIDE DEF d
<1>4. RingOK(d)
  BY <1>1, <1>2, <1>3 DEF RingOK, Slots
<1>5. Contents(d) = <<>>
  <2>1. Len(Contents(d)) = 0 /\ Contents(d) \in Seq(Values)
    BY <1>2, <1>4, ContentsAre
  <2> QED BY <2>1, EmptySeq
<1> QED BY <1>2, <1>4, <1>5 DEF d

(* Copies between positions of the window.                                   *)
Placed(d, n, P, Q, to, from) ==
  /\ P \in [1..n -> 0..d.capacity - 1] /\ Q \in [1..n -> 0..d.capacity - 1]
  /\ \A k \in 1..n : \A j \in 1..k - 1 : P[j] # P[k] /\ P[j] # Q[k]
  /\ Len(to) = n /\ \A k \in 1..n : to[k] = Ring(d, P[k]) /\ from[k] = Ring(d, Q[k])
Shifted(d, n, P, Q, b) ==
  /\ b \in [0..d.capacity - 1 -> Values \cup {Zero}]
  /\ \A k \in 1..n : b[Turn(d.capacity, d.head, P[k])] = d.data[Turn(d.capacity, d.head, Q[k])]
  /\ \A i \in 0..d.capacity - 1 :
       (\A k \in 1..n : P[k] # i)
         => b[Turn(d.capacity, d.head, i)] = d.data[Turn(d.capacity, d.head, i)]
LEMMA WindowCopies ==
  ASSUME NEW d, RingOK(d), NEW n \in Nat, NEW P, NEW Q, NEW to, NEW from,
         Placed(d, n, P, Q, to, from)
  PROVE  Shifted(d, n, P, Q, Copies(d.data, to, from))
<1> DEFINE c == d.capacity
           h == d.head
           b == Copies(d.data, to, from)
<1>0. /\ P \in [1..n -> 0..c - 1] /\ Q \in [1..n -> 0..c - 1] /\ Len(to) = n
      /\ \A k \in 1..n : \A j \in 1..k - 1 : P[j] # P[k] /\ P[j] # Q[k]
      /\ \A k \in 1..n : to[k] = Ring(d, P[k]) /\ from[k] = Ring(d, Q[k])
  BY DEF Placed
<1> DEFINE A == 0..c - 1
           V == Values \cup {Zero}
           data == d.data
<1>1. /\ c \in Nat \ {0} /\ h \in A /\ data \in [A -> V] /\ Slots(d) = A
      /\ \A i \in A : Ring(d, i) = Turn(c, h, i) /\ Turn(c, h, i) \in A
  <2>1. /\ c \in Nat \ {0} /\ h \in A /\ data \in [A -> V] /\ Slots(d) = A
    BY RingSlots
  <2>2. ASSUME NEW i \in A PROVE Ring(d, i) = Turn(c, h, i) /\ Turn(c, h, i) \in A
    BY RingSlots
  <2> QED BY <2>1, <2>2
<1>10. b = Copies(data, to, from)
  OBVIOUS
<1> HIDE DEF c, h, b
<1>2. \A i, j \in A : i # j => Turn(c, h, i) # Turn(c, h, j)
  <2> SUFFICES ASSUME NEW i \in A, NEW j \in A, i # j PROVE Turn(c, h, i) # Turn(c, h, j)
    OBVIOUS
  <2>1. c \in Nat /\ h \in 0..c - 1
    BY <1>1
  <2> QED BY <2>1 DEF Turn
<1>3. \A k \in 1..n : P[k] \in A /\ Q[k] \in A
  BY <1>0
<1> HIDE DEF A, V, data
<1>4. \A k \in 1..n : to[k] = Turn(c, h, P[k]) /\ from[k] = Turn(c, h, Q[k])
  BY <1>0, <1>1, <1>3
<1>5. \A k \in 1..n : to[k] \in A /\ from[k] \in A
  BY <1>1, <1>3, <1>4
<1>6. ASSUME NEW k \in 1..n, NEW j \in 1..k - 1 PROVE to[j] # to[k] /\ to[j] # from[k]
  <2>1. j \in 1..n
    OBVIOUS
  <2>2. P[j] # P[k] /\ P[j] # Q[k]
    BY <1>0
  <2> QED BY <1>2, <1>3, <1>4, <2>1, <2>2
<1>7. /\ b \in [A -> V] /\ \A k \in 1..n : b[to[k]] = data[from[k]]
      /\ \A s \in A : (\A k \in 1..n : to[k] # s) => b[s] = data[s]
  <2>1. Copyable(A, n, to, from)
    BY <1>0, <1>5, <1>6 DEF Copyable
  <2>2. MovedTo(A, V, n, to, from, data, b)
    BY <1>1, <1>10, <2>1, CopiesMove
  <2> QED BY <2>2 DEF MovedTo
<1>8. ASSUME NEW i \in A, \A k \in 1..n : P[k] # i PROVE b[Turn(c, h, i)] = data[Turn(c, h, i)]
  <2>1. \A k \in 1..n : to[k] # Turn(c, h, i)
    BY <1>2, <1>3, <1>4, <1>8
  <2> QED BY <1>1, <1>7, <2>1
<1>9. ASSUME NEW k \in 1..n PROVE b[Turn(c, h, P[k])] = data[Turn(c, h, Q[k])]
  <2>1. to[k] = Turn(c, h, P[k]) /\ from[k] = Turn(c, h, Q[k])
    BY <1>4
  <2>2. b[to[k]] = data[from[k]]
    BY <1>7
  <2> QED BY <2>1, <2>2
<1> QED BY <1>7, <1>8, <1>9 DEF A, V, data, Shifted, c, h, b

(* del and remove(): the gap is closed from its shorter side.                *)
LEMMA DeletedIs ==
  ASSUME NEW d, RingOK(d), NEW idx \in 0..d.len - 1
  PROVE  /\ RingOK(Deleted(d, idx)) /\ Deleted(d, idx).maxlen = d.maxlen
         /\ Contents(Deleted(d, idx)) = RemoveAt(Contents(d), idx + 1)
<1> DEFINE c == d.capacity
           h == d.head
           n == d.len
           s == Contents(d)
           t == RemoveAt(s, idx + 1)
           after == n - 1 - idx
           m == n - 1
<1>1. /\ c \in Nat \ {0} /\ h \in 0..c - 1 /\ n \in Nat /\ n <= c /\ idx \in Nat /\ idx < n
      /\ s \in Seq(Values) /\ Len(s) = n
      /\ \A i \in 0..n - 1 : d.data[Turn(c, h, i)] = s[i + 1]
  BY RingSlots
<1>2. \A i \in 0..c - 1 : Ring(d, i) = Turn(c, h, i) /\ Turn(c, h, i) \in 0..c - 1
  BY RingSlots
<1>3. t \in Seq(Values) /\ Len(t) = m /\ \A i \in 1..m : t[i] = IF i < idx + 1 THEN s[i] ELSE s[i + 1]
  <2>1. idx + 1 \in 1..Len(s)
    BY <1>1
  <2> HIDE DEF s
  <2> QED BY <1>1, <2>1, RemoveAtIs
<1>4. m \in 0..c /\ (d.maxlen >= 0 => m <= d.maxlen) /\ c = d.capacity /\ h = d.head
  BY <1>1, RingParts
<1> HIDE DEF c, h, n, s, t
<1>5. CASE idx <= after
  <2> DEFINE P == [k \in 1..idx |-> idx + 1 - k]
             Q == [k \in 1..idx |-> idx - k]
             to == [k \in 1..idx |-> Ring(d, idx + 1 - k)]
             from == [k \in 1..idx |-> Ring(d, idx - k)]
             b == Copies(d.data, to, from)
             e == Window(d, b, Ring(d, 1), m)
  <2>1. Deleted(d, idx) = e
    BY <1>5 DEF Deleted, n
  <2>2. /\ P \in [1..idx -> 0..c - 1] /\ Q \in [1..idx -> 0..c - 1]
        /\ \A k \in 1..idx : \A j \in 1..k - 1 : P[j] # P[k] /\ P[j] # Q[k]
    <3>1. ASSUME NEW k \in 1..idx PROVE idx + 1 - k \in 0..c - 1 /\ idx - k \in 0..c - 1
      BY <1>1
    <3>2. ASSUME NEW k \in 1..idx, NEW j \in 1..k - 1 PROVE P[j] # P[k] /\ P[j] # Q[k]
      <4>1. j \in 1..idx /\ j \in Int /\ k \in Int /\ idx \in Int /\ j < k
        BY <1>1, <3>2
      <4>2. P[j] = idx + 1 - j /\ P[k] = idx + 1 - k /\ Q[k] = idx - k
        BY <4>1
      <4> QED BY <4>1, <4>2
    <3> QED BY <3>1, <3>2
  <2>3. Len(to) = idx
    BY <1>1
  <2>4. \A k \in 1..idx : to[k] = Ring(d, P[k]) /\ from[k] = Ring(d, Q[k])
    OBVIOUS
  <2>5. \A k \in 1..idx : P[k] = idx + 1 - k /\ Q[k] = idx - k
    OBVIOUS
  <2> HIDE DEF P, Q, to, from
  <2>6. /\ b \in [0..c - 1 -> Values \cup {Zero}]
        /\ \A k \in 1..idx : b[Turn(c, h, P[k])] = d.data[Turn(c, h, Q[k])]
        /\ \A i \in 0..c - 1 : (\A k \in 1..idx : P[k] # i)
                               => b[Turn(c, h, i)] = d.data[Turn(c, h, i)]
    <3>1. Placed(d, idx, P, Q, to, from)
      BY <1>4, <2>2, <2>3, <2>4 DEF Placed
    <3>2. Shifted(d, idx, P, Q, b)
      BY <1>1, <3>1, WindowCopies
    <3> QED BY <1>4, <3>2 DEF Shifted
  <2> HIDE DEF b
  <2>7. Ring(d, 1) \in 0..c - 1 /\ \A i \in 0..m - 1 : Turn(c, Ring(d, 1), i) = Turn(c, h, i + 1)
    <3>1. Ring(d, 1) = Turn(c, h, 1) /\ Ring(d, 1) \in Slots(d)
      <4>1. 1 \in 0..c
        BY <1>1
      <4> QED BY <1>1, <1>4, <4>1, RingIs DEF Slots
    <3>2. Slots(d) = 0..c - 1
      BY <1>4 DEF Slots
    <3> QED BY <1>1, <3>1, <3>2 DEF Turn
  <2>8. ASSUME NEW i \in 0..m - 1 PROVE b[Turn(c, Ring(d, 1), i)] = t[i + 1]
    <3>1. i + 1 \in 1..m /\ i + 1 \in 0..c - 1 /\ i + 1 \in 0..n - 1 /\ i \in 0..n - 1
      BY <1>1
    <3>2. CASE i < idx
      <4>1. idx - i \in 1..idx /\ P[idx - i] = i + 1 /\ Q[idx - i] = i
        BY <1>1, <2>5, <3>2
      <4>2. b[Turn(c, h, i + 1)] = d.data[Turn(c, h, i)]
        BY <2>6, <4>1
      <4>3. t[i + 1] = s[i + 1]
        BY <1>1, <1>3, <3>1, <3>2
      <4> QED BY <1>1, <2>7, <3>1, <4>2, <4>3
    <3>3. CASE ~(i < idx)
      <4>1. \A k \in 1..idx : P[k] # i + 1
        BY <1>1, <2>5, <3>3
      <4>2. b[Turn(c, h, i + 1)] = d.data[Turn(c, h, i + 1)]
        BY <2>6, <3>1, <4>1
      <4>3. t[i + 1] = s[i + 2]
        <5>1. ~(i + 1 < idx + 1) /\ (i + 1) + 1 = i + 2
          BY <1>1, <3>3
        <5> QED BY <1>3, <3>1, <5>1
      <4>4. d.data[Turn(c, h, i + 1)] = s[i + 2]
        <5>1. (i + 1) + 1 = i + 2
          OBVIOUS
        <5> QED BY <1>1, <3>1, <5>1
      <4> QED BY <2>7, <4>2, <4>3, <4>4
    <3> QED BY <3>2, <3>3
  <2>9. Shows(d, b, Ring(d, 1), m, t)
    <3> HIDE DEF m
    <3> QED BY <1>3, <1>4, <2>6, <2>7, <2>8 DEF Shows
  <2>10. RingOK(e) /\ Contents(e) = t /\ e.maxlen = d.maxlen
    <3> HIDE DEF m
    <3> QED BY <2>9, WindowShows
  <2> QED BY <2>1, <2>10 DEF t, s
<1>6. CASE ~(idx <= after)
  <2> DEFINE P == [k \in 1..after |-> idx + k - 1]
             Q == [k \in 1..after |-> idx + k]
             to == [k \in 1..after |-> Ring(d, idx + k - 1)]
             from == [k \in 1..after |-> Ring(d, idx + k)]
             b == Copies(d.data, to, from)
             e == Window(d, b, h, m)
  <2>1. Deleted(d, idx) = e
    BY <1>6 DEF Deleted, n, h
  <2>2. /\ P \in [1..after -> 0..c - 1] /\ Q \in [1..after -> 0..c - 1] /\ after \in Nat
        /\ \A k \in 1..after : \A j \in 1..k - 1 : P[j] # P[k] /\ P[j] # Q[k]
    <3>1. ASSUME NEW k \in 1..after PROVE idx + k - 1 \in 0..c - 1 /\ idx + k \in 0..c - 1
      BY <1>1
    <3>2. ASSUME NEW k \in 1..after, NEW j \in 1..k - 1 PROVE P[j] # P[k] /\ P[j] # Q[k]
      <4>1. j \in 1..after /\ j \in Int /\ k \in Int /\ idx \in Int /\ n \in Int /\ j < k
        BY <1>1, <3>2
      <4>2. P[j] = idx + j - 1 /\ P[k] = idx + k - 1 /\ Q[k] = idx + k
        BY <4>1
      <4> QED BY <4>1, <4>2
    <3> QED BY <1>1, <3>1, <3>2
  <2>3. Len(to) = after
    BY <1>1
  <2>4. \A k \in 1..after : to[k] = Ring(d, P[k]) /\ from[k] = Ring(d, Q[k])
    OBVIOUS
  <2>5. \A k \in 1..after : P[k] = idx + k - 1 /\ Q[k] = idx + k
    OBVIOUS
  <2> HIDE DEF P, Q, to, from
  <2>6. /\ b \in [0..c - 1 -> Values \cup {Zero}]
        /\ \A k \in 1..after : b[Turn(c, h, P[k])] = d.data[Turn(c, h, Q[k])]
        /\ \A i \in 0..c - 1 : (\A k \in 1..after : P[k] # i)
                               => b[Turn(c, h, i)] = d.data[Turn(c, h, i)]
    <3> HIDE DEF after
    <3>1. Placed(d, after, P, Q, to, from)
      BY <1>4, <2>2, <2>3, <2>4 DEF Placed
    <3>2. Shifted(d, after, P, Q, b)
      BY <2>2, <3>1, WindowCopies
    <3> QED BY <1>4, <3>2 DEF Shifted
  <2> HIDE DEF b
  <2>8. ASSUME NEW i \in 0..m - 1 PROVE b[Turn(c, h, i)] = t[i + 1]
    <3>1. i + 1 \in 1..m /\ i \in 0..c - 1 /\ i + 1 \in 0..n - 1 /\ i \in 0..n - 1
      BY <1>1
    <3>2. CASE i >= idx
      <4>1. i - idx + 1 \in 1..after /\ P[i - idx + 1] = i /\ Q[i - idx + 1] = i + 1
        <5>1. i - idx + 1 \in 1..after
          BY <1>1, <3>2
        <5>2. idx + (i - idx + 1) - 1 = i /\ idx + (i - idx + 1) = i + 1
          BY <1>1
        <5> QED BY <2>5, <5>1, <5>2
      <4>2. b[Turn(c, h, i)] = d.data[Turn(c, h, i + 1)]
        BY <2>6, <4>1
      <4>3. t[i + 1] = s[(i + 1) + 1]
        <5>1. ~(i + 1 < idx + 1)
          BY <1>1, <3>2
        <5> QED BY <1>3, <3>1, <5>1
      <4>4. d.data[Turn(c, h, i + 1)] = s[(i + 1) + 1]
        BY <1>1, <3>1
      <4> QED BY <4>2, <4>3, <4>4
    <3>3. CASE ~(i >= idx)
      <4>1. ASSUME NEW k \in 1..after PROVE P[k] # i
        <5>1. idx \in Int /\ k \in Int /\ 1 <= k /\ i \in Int /\ i < idx
          BY <1>1, <3>3
        <5> HIDE DEF after
        <5>2. P[k] = idx + k - 1
          BY <2>5
        <5> QED BY <5>1, <5>2
      <4>2. b[Turn(c, h, i)] = d.data[Turn(c, h, i)]
        BY <2>6, <3>1, <4>1
      <4>3. t[i + 1] = s[i + 1]
        BY <1>1, <1>3, <3>1, <3>3
      <4> QED BY <1>1, <3>1, <4>2, <4>3
    <3> QED BY <3>2, <3>3
  <2>9. Shows(d, b, h, m, t)
    <3> HIDE DEF m
    <3> QED BY <1>1, <1>3, <1>4, <2>6, <2>8 DEF Shows
  <2>10. RingOK(e) /\ Contents(e) = t /\ e.maxlen = d.maxlen
    <3> HIDE DEF m
    <3> QED BY <2>9, WindowShows
  <2> QED BY <2>1, <2>10 DEF t, s
<1> QED BY <1>5, <1>6

(* insert(): a slot is opened from its shorter side.                         *)
LEMMA InsertedIs ==
  ASSUME NEW d, RingOK(d), ~AtMaxLen(d), NEW idx \in 0..d.len, NEW v \in Values
  PROVE  /\ RingOK(Inserted(d, idx, v)) /\ Inserted(d, idx, v).maxlen = d.maxlen
         /\ Contents(Inserted(d, idx, v)) = InsertAt(Contents(d), idx + 1, v)
<1> DEFINE e == EnsureCapacity(d)
           f == [e EXCEPT !.head = Ring(e, e.capacity - 1)]
           c == e.capacity
           h == e.head
           n == e.len
           s == Contents(e)
           t == InsertAt(s, idx + 1, v)
           after == n - idx
           m == n + 1
<1>0. /\ RingOK(e) /\ s = Contents(d) /\ n = d.len /\ e.maxlen = d.maxlen /\ n < c
  BY Grown
<1> HIDE DEF e
<1>1. /\ c \in Nat \ {0} /\ h \in 0..c - 1 /\ n \in Nat /\ n < c /\ idx \in Nat /\ idx <= n
      /\ s \in Seq(Values) /\ Len(s) = n
      /\ \A i \in 0..n - 1 : e.data[Turn(c, h, i)] = s[i + 1]
  BY <1>0, RingSlots
<1>2. \A i \in 0..c - 1 : Ring(e, i) = Turn(c, h, i) /\ Turn(c, h, i) \in 0..c - 1
  BY <1>0, RingSlots
<1>3. /\ t \in Seq(Values) /\ Len(t) = m
      /\ \A i \in 1..m : t[i] = IF i < idx + 1 THEN s[i] ELSE IF i = idx + 1 THEN v ELSE s[i - 1]
  <2> DEFINE p == idx + 1
  <2>1. p \in 1..Len(s) + 1
    BY <1>1
  <2> HIDE DEF s, p
  <2>2. /\ InsertAt(s, p, v) \in Seq(Values) /\ Len(InsertAt(s, p, v)) = Len(s) + 1
        /\ \A i \in 1..Len(s) + 1 :
             InsertAt(s, p, v)[i] = IF i < p THEN s[i] ELSE IF i = p THEN v ELSE s[i - 1]
    <3>1. s \in Seq(Values) /\ v \in Values
      BY <1>1
    <3> HIDE DEF t
    <3> QED BY <2>1, <3>1, InsertAtIs
  <2>3. Len(s) + 1 = m /\ InsertAt(s, p, v) = t
    BY <1>1 DEF p
  <2> HIDE DEF t, m
  <2> QED BY <2>2, <2>3 DEF p
<1>4. m \in 0..c /\ (e.maxlen >= 0 => m <= e.maxlen) /\ c = e.capacity /\ h = e.head
  <2>1. e.maxlen >= 0 => n < e.maxlen
    BY <1>0, FullIs
  <2>2. e.maxlen \in Int
    BY <1>0, RingParts
  <2> QED BY <1>1, <2>1, <2>2
<1>5. /\ f.capacity = c /\ f.maxlen = e.maxlen /\ f.len = n /\ f.head = Ring(e, c - 1)
  BY <1>0, RingParts
<1> HIDE DEF f, c, h, n, s, t
<1>6. CASE idx <= after
  <2> DEFINE front == f.head
             P == [k \in 1..idx |-> IF k = 1 THEN c - 1 ELSE k - 2]
             Q == [k \in 1..idx |-> k - 1]
             to == [k \in 1..idx |-> Ring(f, k - 1)]
             from == [k \in 1..idx |-> Ring(e, k - 1)]
             b == Copies(e.data, to, from)
             slot == Ring(f, idx)
             filled == [b EXCEPT ![slot] = v]
             r == Window(e, filled, front, m)
  <2>1. Inserted(d, idx, v) = r
    <3>1. Inserted(d, idx, v) = Window(f, filled, front, f.len + 1)
      BY <1>6 DEF Inserted, e, f, n
    <3> HIDE DEF filled, front
    <3> QED BY <1>4, <1>5, <3>1 DEF Window
  <2>2. /\ front \in 0..c - 1 /\ Turn(c, h, c - 1) = front /\ Turn(c, front, 0) = front
        /\ \A i \in 1..c - 1 : Turn(c, front, i) = Turn(c, h, i - 1)
    <3>1. front = Turn(c, h, c - 1) /\ c - 1 \in 0..c - 1
      BY <1>1, <1>2, <1>5
    <3> HIDE DEF front
    <3>2. front = IF h = 0 THEN c - 1 ELSE h - 1
      BY <1>1, <3>1 DEF Turn
    <3>3. CASE h = 0
      <4>1. front = c - 1
        BY <3>2, <3>3
      <4> QED BY <1>1, <3>1, <3>3, <4>1 DEF Turn
    <3>4. CASE h # 0
      <4>1. front = h - 1
        BY <3>2, <3>4
      <4> QED BY <1>1, <3>1, <3>4, <4>1 DEF Turn
    <3> QED BY <3>3, <3>4
  <2>3. \A i \in 0..c - 1 : Ring(f, i) = Turn(c, front, i) /\ Turn(c, front, i) \in 0..c - 1
    <3> SUFFICES ASSUME NEW i \in 0..c - 1
                 PROVE  Ring(f, i) = Turn(c, front, i) /\ Turn(c, front, i) \in 0..c - 1
      OBVIOUS
    <3>1. f.capacity \in Nat \ {0} /\ f.head \in Slots(f) /\ i \in 0..f.capacity /\ Slots(f) = 0..c - 1
      BY <1>1, <1>5, <2>2 DEF Slots
    <3>2. Ring(f, i) = Turn(f.capacity, f.head, i) /\ Ring(f, i) \in Slots(f)
      BY <3>1, RingIs
    <3> QED BY <1>5, <3>1, <3>2
  <2>4. /\ P \in [1..idx -> 0..c - 1] /\ Q \in [1..idx -> 0..c - 1]
        /\ \A k \in 1..idx : \A j \in 1..k - 1 : P[j] # P[k] /\ P[j] # Q[k]
    <3>1. ASSUME NEW k \in 1..idx
          PROVE  (IF k = 1 THEN c - 1 ELSE k - 2) \in 0..c - 1 /\ k - 1 \in 0..c - 1
      BY <1>1
    <3>2. ASSUME NEW k \in 1..idx, NEW j \in 1..k - 1 PROVE P[j] # P[k] /\ P[j] # Q[k]
      <4>1. /\ j \in 1..idx /\ j \in Int /\ k \in Int /\ j < k /\ k # 1 /\ c \in Int
            /\ 1 <= j /\ k < c
        BY <1>1, <3>2
      <4>2. P[j] = (IF j = 1 THEN c - 1 ELSE j - 2) /\ P[k] = k - 2 /\ Q[k] = k - 1
        BY <4>1
      <4> QED BY <4>1, <4>2
    <3> QED BY <3>1, <3>2
  <2>5. Len(to) = idx
    BY <1>1
  <2>6. \A k \in 1..idx : P[k] = (IF k = 1 THEN c - 1 ELSE k - 2) /\ Q[k] = k - 1
    OBVIOUS
  <2>7. ASSUME NEW k \in 1..idx
        PROVE  /\ to[k] = Ring(e, P[k]) /\ from[k] = Ring(e, Q[k])
               /\ Turn(c, front, k - 1) = Turn(c, h, P[k])
    <3>1. k - 1 \in 0..c - 1 /\ k \in Int /\ (k # 1 => k - 1 \in 1..c - 1 /\ (k - 1) - 1 = k - 2)
          /\ (k # 1 => k - 2 \in 0..c - 1) /\ c - 1 \in 0..c - 1
      BY <1>1
    <3>2. Turn(c, front, k - 1) = Turn(c, h, P[k])
      <4> HIDE DEF front, P
      <4>1. CASE k = 1
        BY <2>2, <2>6, <4>1
      <4>2. CASE k # 1
        BY <2>2, <2>6, <3>1, <4>2
      <4> QED BY <4>1, <4>2
    <3>3. Turn(c, h, P[k]) = Ring(e, P[k])
      <4>1. P[k] \in 0..c - 1
        BY <2>4
      <4> HIDE DEF P
      <4> QED BY <1>2, <4>1
    <3>4. to[k] = Ring(f, k - 1) /\ from[k] = Ring(e, Q[k])
      OBVIOUS
    <3> HIDE DEF P, Q, to, from, front
    <3> QED BY <2>3, <3>1, <3>2, <3>3, <3>4
  <2> HIDE DEF P, Q, to, from, front
  <2>8. /\ b \in [0..c - 1 -> Values \cup {Zero}]
        /\ \A k \in 1..idx : b[Turn(c, h, P[k])] = e.data[Turn(c, h, Q[k])]
        /\ \A i \in 0..c - 1 : (\A k \in 1..idx : P[k] # i)
                               => b[Turn(c, h, i)] = e.data[Turn(c, h, i)]
    <3>1. Placed(e, idx, P, Q, to, from)
      BY <1>4, <2>4, <2>5, <2>7 DEF Placed
    <3>2. Shifted(e, idx, P, Q, b)
      BY <1>0, <1>1, <3>1, WindowCopies
    <3> QED BY <1>4, <3>2 DEF Shifted
  <2> HIDE DEF b
  <2>9. /\ slot = Turn(c, front, idx) /\ slot \in 0..c - 1
        /\ \A i \in 0..n : i # idx => Turn(c, front, i) # slot /\ Turn(c, front, i) \in 0..c - 1
    <3>1. idx \in 0..c - 1 /\ \A i \in 0..n : i \in 0..c - 1
      BY <1>1
    <3>2. slot = Turn(c, front, idx) /\ slot \in 0..c - 1
      BY <2>3, <3>1
    <3>3. ASSUME NEW i \in 0..n, i # idx PROVE Turn(c, front, i) # Turn(c, front, idx)
      <4>1. /\ c \in Int /\ front \in Int /\ 0 <= front /\ front < c
            /\ i \in Int /\ 0 <= i /\ i < c /\ idx \in Int /\ 0 <= idx /\ idx < c
        BY <1>1, <2>2
      <4> QED BY <3>3, <4>1 DEF Turn
    <3> QED BY <2>3, <3>1, <3>2, <3>3
  <2> HIDE DEF slot
  <2>10. /\ filled \in [0..c - 1 -> Values \cup {Zero}] /\ filled[slot] = v
         /\ \A j \in 0..c - 1 : j # slot => filled[j] = b[j]
    BY <2>8, <2>9
  <2> HIDE DEF filled
  <2>11. ASSUME NEW i \in 0..n PROVE filled[Turn(c, front, i)] = t[i + 1]
    <3>1. i + 1 \in 1..m /\ i \in 0..c - 1
      BY <1>1
    <3>2. CASE i = idx
      <4>1. t[i + 1] = v
        BY <1>3, <3>1, <3>2
      <4> QED BY <2>9, <2>10, <3>2, <4>1
    <3>3. CASE i < idx
      <4>1. i + 1 \in 1..idx /\ (i + 1) - 1 = i /\ i # idx /\ i \in 0..n - 1 /\ Q[i + 1] = i
        BY <1>1, <2>6, <3>3
      <4>2. Turn(c, front, i) = Turn(c, h, P[i + 1])
        BY <2>7, <4>1
      <4>3. b[Turn(c, front, i)] = e.data[Turn(c, h, i)]
        BY <2>8, <4>1, <4>2
      <4>4. t[i + 1] = s[i + 1]
        <5>1. i + 1 < idx + 1
          BY <1>1, <3>3
        <5> QED BY <1>3, <3>1, <5>1
      <4> QED BY <1>1, <2>9, <2>10, <4>1, <4>3, <4>4
    <3>4. CASE i > idx
      <4>1. i # idx /\ i \in 1..c - 1 /\ i - 1 \in 0..n - 1 /\ i - 1 \in 0..c - 1 /\ (i - 1) + 1 = i
        BY <1>1, <3>4
      <4>2. \A k \in 1..idx : P[k] # i - 1
        BY <1>1, <2>6, <3>4
      <4>3. b[Turn(c, h, i - 1)] = e.data[Turn(c, h, i - 1)]
        BY <2>8, <4>1, <4>2
      <4>4. e.data[Turn(c, h, i - 1)] = s[i]
        BY <1>1, <4>1
      <4>5. t[i + 1] = s[i]
        <5>1. ~(i + 1 < idx + 1) /\ i + 1 # idx + 1 /\ (i + 1) - 1 = i
          BY <1>1, <3>4
        <5> QED BY <1>3, <3>1, <5>1
      <4> QED BY <2>2, <2>9, <2>10, <4>1, <4>3, <4>4, <4>5
    <3> QED BY <1>1, <3>2, <3>3, <3>4
  <2>12. Shows(e, filled, front, m, t)
    <3>1. \A i \in 0..m - 1 : i \in 0..n
      BY <1>1
    <3> HIDE DEF m
    <3> QED BY <1>3, <1>4, <2>2, <2>10, <2>11, <3>1 DEF Shows
  <2>13. RingOK(r) /\ Contents(r) = t /\ r.maxlen = e.maxlen
    <3> HIDE DEF m
    <3> QED BY <1>0, <2>12, WindowShows
  <2> QED BY <1>0, <2>1, <2>13 DEF t
<1>7. CASE ~(idx <= after)
  <2> DEFINE P == [k \in 1..after |-> n + 1 - k]
             Q == [k \in 1..after |-> n - k]
             to == [k \in 1..after |-> Ring(e, n + 1 - k)]
             from == [k \in 1..after |-> Ring(e, n - k)]
             b == Copies(e.data, to, from)
             slot == Ring(e, idx)
             filled == [b EXCEPT ![slot] = v]
             r == Window(e, filled, h, m)
  <2>1. Inserted(d, idx, v) = r
    BY <1>7 DEF Inserted, e, f, n, h
  <2>4. /\ P \in [1..after -> 0..c - 1] /\ Q \in [1..after -> 0..c - 1] /\ after \in Nat
        /\ \A k \in 1..after : \A j \in 1..k - 1 : P[j] # P[k] /\ P[j] # Q[k]
    <3>1. ASSUME NEW k \in 1..after PROVE n + 1 - k \in 0..c - 1 /\ n - k \in 0..c - 1
      BY <1>1
    <3>2. ASSUME NEW k \in 1..after, NEW j \in 1..k - 1 PROVE P[j] # P[k] /\ P[j] # Q[k]
      <4>1. j \in 1..after /\ j \in Int /\ k \in Int /\ idx \in Int /\ n \in Int /\ j < k
        BY <1>1, <3>2
      <4>2. P[j] = n + 1 - j /\ P[k] = n + 1 - k /\ Q[k] = n - k
        BY <4>1
      <4> QED BY <4>1, <4>2
    <3> QED BY <1>1, <3>1, <3>2
  <2>5. Len(to) = after
    BY <1>1
  <2>6. \A k \in 1..after : P[k] = n + 1 - k /\ Q[k] = n - k
    OBVIOUS
  <2>7. \A k \in 1..after : to[k] = Ring(e, P[k]) /\ from[k] = Ring(e, Q[k])
    OBVIOUS
  <2> HIDE DEF P, Q, to, from
  <2>8. /\ b \in [0..c - 1 -> Values \cup {Zero}]
        /\ \A k \in 1..after : b[Turn(c, h, P[k])] = e.data[Turn(c, h, Q[k])]
        /\ \A i \in 0..c - 1 : (\A k \in 1..after : P[k] # i)
                               => b[Turn(c, h, i)] = e.data[Turn(c, h, i)]
    <3> HIDE DEF after
    <3>1. Placed(e, after, P, Q, to, from)
      BY <1>4, <2>4, <2>5, <2>7 DEF Placed
    <3>2. Shifted(e, after, P, Q, b)
      BY <1>0, <2>4, <3>1, WindowCopies
    <3> QED BY <1>4, <3>2 DEF Shifted
  <2> HIDE DEF b
  <2>9. /\ slot = Turn(c, h, idx) /\ slot \in 0..c - 1
        /\ \A i \in 0..n : i # idx => Turn(c, h, i) # slot /\ Turn(c, h, i) \in 0..c - 1
    <3>1. idx \in 0..c - 1 /\ \A i \in 0..n : i \in 0..c - 1
      BY <1>1
    <3>2. slot = Turn(c, h, idx) /\ slot \in 0..c - 1
      BY <1>2, <3>1
    <3>3. ASSUME NEW i \in 0..n, i # idx PROVE Turn(c, h, i) # Turn(c, h, idx)
      <4>1. /\ c \in Int /\ h \in Int /\ 0 <= h /\ h < c
            /\ i \in Int /\ 0 <= i /\ i < c /\ idx \in Int /\ 0 <= idx /\ idx < c
        BY <1>1
      <4> QED BY <3>3, <4>1 DEF Turn
    <3> QED BY <1>2, <3>1, <3>2, <3>3
  <2> HIDE DEF slot
  <2>10. /\ filled \in [0..c - 1 -> Values \cup {Zero}] /\ filled[slot] = v
         /\ \A j \in 0..c - 1 : j # slot => filled[j] = b[j]
    BY <2>8, <2>9
  <2> HIDE DEF filled
  <2>11. ASSUME NEW i \in 0..n PROVE filled[Turn(c, h, i)] = t[i + 1]
    <3>1. i + 1 \in 1..m /\ i \in 0..c - 1
      BY <1>1
    <3>2. CASE i = idx
      <4>1. t[i + 1] = v
        BY <1>3, <3>1, <3>2
      <4> QED BY <2>9, <2>10, <3>2, <4>1
    <3>3. CASE i < idx
      <4>1. i # idx /\ i \in 0..n - 1
        BY <1>1, <3>3
      <4>2. \A k \in 1..after : P[k] # i
        BY <1>1, <2>6, <3>3
      <4>3. b[Turn(c, h, i)] = e.data[Turn(c, h, i)]
        BY <2>8, <3>1, <4>2
      <4>4. t[i + 1] = s[i + 1]
        <5>1. i + 1 < idx + 1
          BY <1>1, <3>3
        <5> QED BY <1>3, <3>1, <5>1
      <4> QED BY <1>1, <2>9, <2>10, <4>1, <4>3, <4>4
    <3>4. CASE i > idx
      <4>1. i # idx /\ i - 1 \in 0..n - 1 /\ (i - 1) + 1 = i
        BY <1>1, <3>4
      <4>2. n + 1 - i \in 1..after /\ P[n + 1 - i] = i /\ Q[n + 1 - i] = i - 1
        <5>1. n + 1 - i \in 1..after
          BY <1>1, <3>4
        <5>2. n + 1 - (n + 1 - i) = i /\ n - (n + 1 - i) = i - 1
          BY <1>1
        <5> QED BY <2>6, <5>1, <5>2
      <4>3. b[Turn(c, h, i)] = e.data[Turn(c, h, i - 1)]
        BY <2>8, <4>2
      <4>4. e.data[Turn(c, h, i - 1)] = s[i]
        BY <1>1, <4>1
      <4>5. t[i + 1] = s[i]
        <5>1. ~(i + 1 < idx + 1) /\ i + 1 # idx + 1 /\ (i + 1) - 1 = i
          BY <1>1, <3>4
        <5> QED BY <1>3, <3>1, <5>1
      <4> QED BY <2>9, <2>10, <4>1, <4>3, <4>4, <4>5
    <3> QED BY <1>1, <3>2, <3>3, <3>4
  <2>12. Shows(e, filled, h, m, t)
    <3>1. \A i \in 0..m - 1 : i \in 0..n
      BY <1>1
    <3> HIDE DEF m
    <3> QED BY <1>1, <1>3, <1>4, <2>10, <2>11, <3>1 DEF Shows
  <2>13. RingOK(r) /\ Contents(r) = t /\ r.maxlen = e.maxlen
    <3> HIDE DEF m
    <3> QED BY <1>0, <2>12, WindowShows
  <2> QED BY <1>0, <2>1, <2>13 DEF t
<1> QED BY <1>6, <1>7

(* A ring with other data, or another head.                                  *)
LEMMA Rebuilt ==
  ASSUME NEW d, RingOK(d), NEW x
  PROVE  /\ [d EXCEPT !.data = x] = Window(d, x, d.head, d.len)
         /\ [d EXCEPT !.head = x] = Window(d, d.data, x, d.len)
BY RingParts DEF Window

(* Where the item at i of n comes from when a window turns by k.             *)
Back(n, k, i) == IF i >= k THEN i - k ELSE i - k + n
LEMMA TurnsBack ==
  ASSUME NEW n \in Nat \ {0}, NEW k \in Int, NEW i \in 0..n - 1
  PROVE  /\ k % n \in 0..n - 1
         /\ (i - k) % n = Back(n, k % n, i) /\ Back(n, k % n, i) \in 0..n - 1
         /\ ((i + n) - (k % n)) % n = Back(n, k % n, i)
<1> DEFINE r == k % n
           q == k \div n
<1>1. r \in 0..n - 1 /\ q \in Int /\ k = (n * q) + r
  OBVIOUS
<1> HIDE DEF r, q
<1>2. Back(n, r, i) \in 0..n - 1
  BY <1>1 DEF Back
<1>3. (i - k) % n = Back(n, r, i)
  <2> DEFINE x == i - k
  <2>1. CASE i >= r
    <3>1. x = n * (-q) + (i - r)
      <4>1. n * (-q) = -(n * q)
        BY <1>1
      <4> QED BY <1>1, <4>1
    <3>2. i - r \in 0..n - 1 /\ x \in Int /\ -q \in Int
      BY <1>1, <2>1
    <3>3. x % n = i - r
      <4> DEFINE m == -q
                 y == i - r
      <4>1. x = n * m + y /\ y \in 0..n - 1 /\ x \in Int /\ m \in Int
        BY <3>1, <3>2
      <4> HIDE DEF x, m, y
      <4>2. x % n = y
        BY <4>1, ModUnique
      <4> QED BY <4>2 DEF y
    <3> QED BY <2>1, <3>3 DEF Back, x
  <2>2. CASE ~(i >= r)
    <3>1. x = n * (-q - 1) + (i - r + n)
      <4>1. n * (-q - 1) = -(n * q) - n
        BY <1>1
      <4> QED BY <1>1, <4>1
    <3>2. i - r + n \in 0..n - 1 /\ x \in Int /\ -q - 1 \in Int
      BY <1>1, <2>2
    <3>3. x % n = i - r + n
      <4> DEFINE m == -q - 1
                 y == i - r + n
      <4>1. x = n * m + y /\ y \in 0..n - 1 /\ x \in Int /\ m \in Int
        BY <3>1, <3>2
      <4> HIDE DEF x, m, y
      <4>2. x % n = y
        BY <4>1, ModUnique
      <4> QED BY <4>2 DEF y
    <3> QED BY <2>2, <3>3 DEF Back, x
  <2> QED BY <2>1, <2>2
<1>4. ((i + n) - r) % n = Back(n, r, i)
  <2> DEFINE x == (i + n) - r
  <2>1. x \in Int /\ -n <= x /\ x < 2 * n /\ x >= 0
    BY <1>1
  <2>2. Back(n, r, i) = IF x < n THEN x ELSE x - n
    BY <1>1 DEF Back
  <2> HIDE DEF x
  <2>3. x % n = IF x < 0 THEN x + n ELSE IF x < n THEN x ELSE x - n
    BY <2>1, Wrap
  <2> QED BY <2>1, <2>2, <2>3 DEF x
<1> QED BY <1>1, <1>2, <1>3, <1>4 DEF r

LEMMA TurnedSeq ==
  ASSUME NEW s \in Seq(Values), NEW n \in Nat \ {0}, Len(s) = n, NEW k \in Int
  PROVE  /\ Python!Rotated(s, k) \in Seq(Values) /\ Len(Python!Rotated(s, k)) = n
         /\ \A i \in 0..n - 1 : Python!Rotated(s, k)[i + 1] = s[Back(n, k % n, i) + 1]
<1> DEFINE t == Python!Rotated(s, k)
<1>1. DOMAIN s = 1..n
  BY LenProperties
<1>2. t = [p \in 1..n |-> s[((p - 1 - k) % n) + 1]]
  BY <1>1 DEF Python!Rotated
<1> HIDE DEF t
<1>3. ASSUME NEW i \in 0..n - 1
      PROVE  /\ t[i + 1] = s[Back(n, k % n, i) + 1] /\ s[Back(n, k % n, i) + 1] \in Values
  <2>1. i + 1 \in 1..n /\ (i + 1) - 1 - k = i - k
    OBVIOUS
  <2>2. t[i + 1] = s[((i - k) % n) + 1]
    BY <1>2, <2>1
  <2>3. (i - k) % n = Back(n, k % n, i) /\ Back(n, k % n, i) \in 0..n - 1
    BY TurnsBack
  <2> DEFINE b == Back(n, k % n, i)
  <2> HIDE DEF b
  <2>4. b + 1 \in 1..n /\ (i - k) % n = b
    BY <2>3 DEF b
  <2>5. s[b + 1] \in Values
    BY <2>4, ElementOfSeq
  <2> QED BY <2>2, <2>4, <2>5 DEF b
<1>4. t \in [1..n -> Values]
  <2>1. ASSUME NEW p \in 1..n PROVE t[p] \in Values
    <3>1. p - 1 \in 0..n - 1 /\ (p - 1) + 1 = p
      OBVIOUS
    <3> QED BY <1>3, <3>1
  <2> QED BY <1>2, <2>1
<1>5. t \in Seq(Values) /\ Len(t) = n
  BY <1>4, IsASeq, LenProperties
<1> QED BY <1>3, <1>5 DEF t

(* rotate(): a full ring turns by its head, another permutes its window.     *)
LEMMA RotatedIs ==
  ASSUME NEW d, RingOK(d), NEW k \in Int
  PROVE  LET r == Rotate(d, k).deque
         IN  /\ RingOK(r) /\ Contents(r) = Python!Rotated(Contents(d), k) /\ r.maxlen = d.maxlen
<1> DEFINE c == d.capacity
           h == d.head
           n == d.len
           s == Contents(d)
           t == Python!Rotated(s, k)
           m == k % n
           r == Rotate(d, k).deque
<1>1. /\ c \in Nat \ {0} /\ h \in 0..c - 1 /\ n \in Nat /\ n <= c
      /\ d.data \in [0..c - 1 -> Values \cup {Zero}]
      /\ s \in Seq(Values) /\ Len(s) = n /\ DOMAIN s = 1..n
      /\ \A i \in 0..n - 1 : d.data[Turn(c, h, i)] = s[i + 1]
  BY RingSlots
<1>2. \A i \in 0..c - 1 : Ring(d, i) = Turn(c, h, i) /\ Turn(c, h, i) \in 0..c - 1
  BY RingSlots
<1>3. r = IF n <= 1 \/ m = 0 THEN d ELSE Rotated(d, k)
  BY DEF Rotate, Done, Rotated
<1>4. d.maxlen >= 0 => n <= d.maxlen
  BY RingParts
<1>5. CASE n = 0
  <2>1. r = d
    BY <1>3, <1>5
  <2>2. t = s
    <3>1. DOMAIN s = {} /\ s = [p \in DOMAIN s |-> s[p]]
      BY <1>1, <1>5
    <3> HIDE DEF s
    <3> QED BY <3>1 DEF Python!Rotated
  <2> QED BY <2>1, <2>2
<1>6. CASE n # 0
  <2>1. n \in Nat \ {0}
    BY <1>1, <1>6
  <2>2. /\ t \in Seq(Values) /\ Len(t) = n
        /\ \A i \in 0..n - 1 : t[i + 1] = s[Back(n, m, i) + 1]
    <3> HIDE DEF s, n
    <3> QED BY <1>1, <2>1, TurnedSeq
  <2>3. m \in 0..n - 1 /\ \A i \in 0..n - 1 : /\ Back(n, m, i) \in 0..n - 1
                                              /\ ((i + n) - m) % n = Back(n, m, i)
    <3> HIDE DEF n
    <3>1. 0 \in 0..n - 1
      BY <2>1
    <3>2. m \in 0..n - 1
      BY <2>1, <3>1, TurnsBack
    <3>3. ASSUME NEW i \in 0..n - 1
          PROVE  Back(n, m, i) \in 0..n - 1 /\ ((i + n) - m) % n = Back(n, m, i)
      BY <2>1, TurnsBack
    <3> QED BY <3>2, <3>3
  <2>4. CASE n <= 1 \/ m = 0
    <3> HIDE DEF c, h, n, s, t, m, r
    <3>1. m = 0 /\ r = d
      <4>1. m \in 0..n - 1
        BY <2>3
      <4> QED BY <1>3, <2>1, <2>4, <4>1
    <3>2. ASSUME NEW i \in 1..n PROVE d.data[Ring(d, i - 1)] = t[i]
      <4>1. i - 1 \in 0..n - 1 /\ (i - 1) + 1 = i /\ i - 1 \in 0..c - 1
        BY <1>1
      <4>2. Back(n, m, i - 1) = i - 1
        BY <2>1, <3>1 DEF Back
      <4> QED BY <1>1, <1>2, <2>2, <4>1, <4>2
    <3>3. Contents(d) = t
      BY <2>2, <3>2, ShowsSeq DEF n
    <3> QED BY <3>1, <3>3 DEF t, s, r
  <2>5. CASE ~(n <= 1 \/ m = 0) /\ n = c
    <3> DEFINE front == (h + c - m) % c
               x == h + c - m
    <3>1. r = Window(d, d.data, front, n)
      <4>1. Rotated(d, k) = [d EXCEPT !.head = front]
        BY <2>5 DEF Rotated
      <4> HIDE DEF front
      <4>2. [d EXCEPT !.head = front] = Window(d, d.data, front, n)
        BY Rebuilt
      <4> QED BY <1>3, <2>5, <4>1, <4>2
    <3> HIDE DEF c, h, n, s, t, m
    <3>2. front = (IF x < c THEN x ELSE x - c) /\ front \in 0..c - 1
      <4>1. x \in Int /\ -c <= x /\ x < 2 * c /\ x >= 0
        <5>1. m \in Int /\ 0 <= m /\ m < c
          <6>1. m \in 0..n - 1
            BY <2>3
          <6> QED BY <1>1, <2>5, <6>1
        <5> QED BY <1>1, <5>1
      <4>2. front = x % c
        OBVIOUS
      <4> HIDE DEF x, front
      <4>3. x % c = (IF x < 0 THEN x + c ELSE IF x < c THEN x ELSE x - c) /\ x % c \in 0..c - 1
        BY <1>1, <4>1, Wrap
      <4> QED BY <4>1, <4>2, <4>3
    <3>3. ASSUME NEW i \in 0..n - 1 PROVE d.data[Turn(c, front, i)] = t[i + 1]
      <4>1. Turn(c, front, i) = Turn(c, h, Back(n, m, i))
        <5> HIDE DEF front
        <5>1. c \in Int /\ h \in Int /\ 0 <= h /\ h < c /\ m \in Int /\ 0 < m /\ m < c /\ n = c
              /\ i \in Int /\ 0 <= i /\ i < c /\ front = (IF h < m THEN h + c - m ELSE h - m)
          BY <1>1, <2>3, <2>5, <3>2
        <5>2. CASE h < m /\ i >= m
          <6>1. front = h + c - m /\ Back(n, m, i) = i - m
            BY <5>1, <5>2 DEF Back
          <6> QED BY <5>1, <5>2, <6>1 DEF Turn
        <5>3. CASE h < m /\ ~(i >= m)
          <6>1. front = h + c - m /\ Back(n, m, i) = i - m + c
            BY <5>1, <5>3 DEF Back
          <6> QED BY <5>1, <5>3, <6>1 DEF Turn
        <5>4. CASE ~(h < m) /\ i >= m
          <6>1. front = h - m /\ Back(n, m, i) = i - m
            BY <5>1, <5>4 DEF Back
          <6> QED BY <5>1, <5>4, <6>1 DEF Turn
        <5>5. CASE ~(h < m) /\ ~(i >= m)
          <6>1. front = h - m /\ Back(n, m, i) = i - m + c
            BY <5>1, <5>5 DEF Back
          <6> QED BY <5>1, <5>5, <6>1 DEF Turn
        <5> QED BY <5>2, <5>3, <5>4, <5>5
      <4>2. Back(n, m, i) \in 0..n - 1
        BY <2>3
      <4> QED BY <1>1, <2>2, <4>1, <4>2
    <3> HIDE DEF front
    <3>4. Shows(d, d.data, front, n, t)
      BY <1>1, <1>4, <2>2, <3>2, <3>3 DEF Shows, c, n
    <3>5. RingOK(r) /\ Contents(r) = t /\ r.maxlen = d.maxlen
      BY <3>1, <3>4, WindowShows
    <3> QED BY <3>5 DEF t, s
  <2>6. CASE ~(n <= 1 \/ m = 0) /\ n # c
    <3> DEFINE x == [u \in 0..c - 1 |->
                       LET i == (u + c - h) % c
                       IN  IF i < n THEN d.data[Ring(d, (i + n - m) % n)] ELSE d.data[u]]
    <3>1. r = Window(d, x, h, n)
      <4>1. DOMAIN d.data = 0..c - 1
        BY <1>1
      <4>2. Rotated(d, k) = [d EXCEPT !.data = x]
        BY <2>6, <4>1 DEF Rotated
      <4> HIDE DEF x
      <4>3. [d EXCEPT !.data = x] = Window(d, x, h, n)
        BY Rebuilt
      <4> QED BY <1>3, <2>6, <4>2, <4>3
    <3> HIDE DEF c, h, n, s, t, m
    <3>2. ASSUME NEW u \in 0..c - 1, NEW i, i = (u + c - h) % c
          PROVE  /\ i \in 0..c - 1 /\ i = (IF u >= h THEN u - h ELSE u - h + c)
                 /\ i < n => /\ d.data[Ring(d, (i + n - m) % n)] = t[i + 1]
                             /\ t[i + 1] \in Values
      <4> DEFINE y == u + c - h
      <4>1. y \in Int /\ -c <= y /\ y < 2 * c /\ y >= 0
        BY <1>1
      <4>2. i = y % c
        BY <3>2
      <4>3. (IF u >= h THEN u - h ELSE u - h + c) = (IF y < c THEN y ELSE y - c)
        BY <1>1
      <4> HIDE DEF y
      <4>4. y % c = (IF y < 0 THEN y + c ELSE IF y < c THEN y ELSE y - c) /\ y % c \in 0..c - 1
        BY <1>1, <4>1, Wrap
      <4>5. i \in 0..c - 1 /\ i = (IF u >= h THEN u - h ELSE u - h + c)
        BY <4>1, <4>2, <4>3, <4>4
      <4>6. ASSUME i < n
            PROVE  d.data[Ring(d, (i + n - m) % n)] = t[i + 1] /\ t[i + 1] \in Values
        <5> DEFINE b == Back(n, m, i)
        <5>1. i \in 0..n - 1
          BY <1>1, <4>5, <4>6
        <5>2. b \in 0..n - 1 /\ (i + n - m) % n = b
          <6> HIDE DEF b
          <6>1. Back(n, m, i) \in 0..n - 1 /\ ((i + n) - m) % n = Back(n, m, i)
            BY <2>3, <5>1
          <6>2. (i + n) - m = i + n - m
            <7>1. m \in 0..n - 1
              BY <2>3
            <7>2. i \in Int /\ n \in Int /\ m \in Int
              BY <1>1, <5>1, <7>1
            <7> QED BY <7>2
          <6> QED BY <6>1, <6>2 DEF b
        <5>3. t[i + 1] = s[b + 1]
          BY <2>2, <5>1
        <5> HIDE DEF b
        <5>4. b \in 0..c - 1 /\ b + 1 \in 1..Len(s)
          BY <1>1, <5>2
        <5>5. d.data[Ring(d, b)] = s[b + 1] /\ s[b + 1] \in Values
          BY <1>1, <1>2, <5>2, <5>4, ElementOfSeq
        <5> QED BY <5>2, <5>3, <5>5
      <4> QED BY <4>5, <4>6
    <3>3. x \in [0..c - 1 -> Values \cup {Zero}]
      <4> SUFFICES ASSUME NEW u \in 0..c - 1 PROVE x[u] \in Values \cup {Zero}
        OBVIOUS
      <4> DEFINE i == (u + c - h) % c
      <4>1. x[u] = IF i < n THEN d.data[Ring(d, (i + n - m) % n)] ELSE d.data[u]
        OBVIOUS
      <4>2. i < n => d.data[Ring(d, (i + n - m) % n)] = t[i + 1] /\ t[i + 1] \in Values
        BY <3>2
      <4> HIDE DEF x, i
      <4> QED BY <1>1, <4>1, <4>2
    <3>4. ASSUME NEW j \in 0..n - 1 PROVE x[Turn(c, h, j)] = t[j + 1]
      <4> DEFINE u == Turn(c, h, j)
                 i == (u + c - h) % c
      <4>1. j \in 0..c - 1 /\ j < n
        BY <1>1
      <4>2. u \in 0..c - 1
        BY <1>2, <4>1
      <4>3. (IF u >= h THEN u - h ELSE u - h + c) = j
        BY <1>1, <4>1 DEF Turn
      <4>4. x[u] = IF i < n THEN d.data[Ring(d, (i + n - m) % n)] ELSE d.data[u]
        BY <4>2
      <4> HIDE DEF u, x
      <4>5. /\ i = (IF u >= h THEN u - h ELSE u - h + c)
            /\ i < n => d.data[Ring(d, (i + n - m) % n)] = t[i + 1]
        BY <3>2, <4>2
      <4> HIDE DEF i
      <4>6. i = j
        BY <4>3, <4>5
      <4> QED BY <4>1, <4>4, <4>5, <4>6 DEF u
    <3> HIDE DEF x
    <3>5. Shows(d, x, h, n, t)
      BY <1>1, <1>4, <2>2, <3>3, <3>4 DEF Shows, c, n
    <3>6. RingOK(r) /\ Contents(r) = t /\ r.maxlen = d.maxlen
      BY <3>1, <3>5, WindowShows
    <3> QED BY <3>6 DEF t, s
  <2> QED BY <2>4, <2>5, <2>6
<1> QED BY <1>5, <1>6

(* reverse(): the ends are swapped, inwards.                                 *)
LEMMA ReversedIs ==
  ASSUME NEW d, RingOK(d)
  PROVE  /\ RingOK(Reversed(d)) /\ Contents(Reversed(d)) = Reverse(Contents(d))
         /\ Reversed(d).maxlen = d.maxlen
<1> DEFINE c == d.capacity
           h == d.head
           n == d.len
           s == Contents(d)
           t == Reverse(s)
           half == n \div 2
           left == [k \in 1..half |-> Ring(d, k - 1)]
           right == [k \in 1..half |-> Ring(d, n - k)]
           b == Swaps(d.data, left, right)
           A == 0..c - 1
           V == Values \cup {Zero}
           r == Window(d, b, h, n)
<1>1. /\ c \in Nat \ {0} /\ h \in 0..c - 1 /\ n \in Nat /\ n <= c
      /\ d.data \in [A -> V]
      /\ s \in Seq(Values) /\ Len(s) = n
      /\ \A i \in 0..n - 1 : d.data[Turn(c, h, i)] = s[i + 1]
  BY RingSlots
<1>2. \A i \in 0..c - 1 : Ring(d, i) = Turn(c, h, i) /\ Turn(c, h, i) \in A
  BY RingSlots
<1>3. d.maxlen >= 0 => n <= d.maxlen
  BY RingParts
<1>4. half \in Nat /\ 2 * half <= n /\ n <= 2 * half + 1
  <2> HIDE DEF n
  <2> QED BY <1>1, Halves
<1>5. Reversed(d) = r
  <2>1. Reversed(d) = [d EXCEPT !.data = b]
    BY DEF Reversed
  <2> HIDE DEF b
  <2> QED BY <2>1, Rebuilt
<1> HIDE DEF c, h, n, s, half, r, A, V
<1>6. t \in Seq(Values) /\ Len(t) = n /\ \A i \in 0..n - 1 : t[i + 1] = s[n - i]
  BY <1>1, ReverseIs
<1> HIDE DEF t
<1>7. ASSUME NEW k \in 1..half
      PROVE  /\ k - 1 \in 0..c - 1 /\ n - k \in 0..c - 1 /\ k - 1 \in 0..n - 1 /\ n - k \in 0..n - 1
             /\ left[k] = Turn(c, h, k - 1) /\ right[k] = Turn(c, h, n - k)
             /\ left[k] \in A /\ right[k] \in A
             /\ d.data[left[k]] = s[k] /\ d.data[right[k]] = s[n - k + 1]
  <2>1. k - 1 \in 0..c - 1 /\ n - k \in 0..c - 1 /\ k - 1 \in 0..n - 1 /\ n - k \in 0..n - 1
        /\ (k - 1) + 1 = k
    BY <1>1, <1>4
  <2>2. left[k] = Ring(d, k - 1) /\ right[k] = Ring(d, n - k)
    OBVIOUS
  <2> HIDE DEF left, right
  <2> QED BY <1>1, <1>2, <2>1, <2>2
<1>8. \A i, j \in 0..c - 1 : i # j => Turn(c, h, i) # Turn(c, h, j)
  BY <1>1 DEF Turn
<1>9. Len(left) = half
  BY <1>4
<1> HIDE DEF left, right
<1>10. Swappable(A, half, left, right)
  <2>1. \A k \in 1..half : left[k] # right[k]
    <3> SUFFICES ASSUME NEW k \in 1..half PROVE left[k] # right[k]
      OBVIOUS
    <3>1. k - 1 # n - k
      BY <1>1, <1>4
    <3> QED BY <1>7, <1>8, <3>1
  <2>2. ASSUME NEW k \in 1..half, NEW j \in 1..k - 1
        PROVE  /\ left[j] # left[k] /\ left[j] # right[k]
               /\ right[j] # left[k] /\ right[j] # right[k]
    <3>1. /\ j \in 1..half /\ j - 1 # k - 1 /\ j - 1 # n - k /\ n - j # k - 1 /\ n - j # n - k
      BY <1>1, <1>4
    <3>2. /\ left[j] = Turn(c, h, j - 1) /\ right[j] = Turn(c, h, n - j)
          /\ j - 1 \in 0..c - 1 /\ n - j \in 0..c - 1
      BY <1>7, <3>1
    <3>3. /\ left[k] = Turn(c, h, k - 1) /\ right[k] = Turn(c, h, n - k)
          /\ k - 1 \in 0..c - 1 /\ n - k \in 0..c - 1
      BY <1>7
    <3> QED BY <1>8, <3>1, <3>2, <3>3
  <2> QED BY <1>7, <1>9, <2>1, <2>2 DEF Swappable
<1>11. Swapped(A, V, half, left, right, d.data, b)
  BY <1>1, <1>4, <1>10, SwapsExchange
<1>12. /\ b \in [A -> V]
       /\ \A k \in 1..half : b[left[k]] = d.data[right[k]] /\ b[right[k]] = d.data[left[k]]
       /\ \A u \in A : (\A k \in 1..half : left[k] # u /\ right[k] # u) => b[u] = d.data[u]
  BY <1>11 DEF Swapped
<1> HIDE DEF b
<1>13. ASSUME NEW i \in 0..n - 1 PROVE b[Turn(c, h, i)] = t[i + 1]
  <2>0. t[i + 1] = s[n - i] /\ i \in 0..c - 1
    BY <1>1, <1>6
  <2>1. CASE i < half
    <3> DEFINE k == i + 1
    <3>1. k \in 1..half /\ k - 1 = i /\ n - k + 1 = n - i
      BY <1>1, <1>4, <2>1
    <3> HIDE DEF k
    <3>2. left[k] = Turn(c, h, i) /\ d.data[right[k]] = s[n - i]
      BY <1>7, <3>1
    <3> QED BY <1>12, <2>0, <3>1, <3>2
  <2>2. CASE n - i <= half
    <3> DEFINE k == n - i
    <3>1. k \in 1..half /\ n - k = i
      <4>1. n \in Int /\ half \in Int /\ i \in Int /\ i < n
        BY <1>1, <1>4
      <4> QED BY <2>2, <4>1
    <3> HIDE DEF k
    <3>2. right[k] = Turn(c, h, i) /\ d.data[left[k]] = s[k]
      BY <1>7, <3>1
    <3> QED BY <1>12, <2>0, <3>1, <3>2 DEF k
  <2>3. CASE ~(i < half) /\ ~(n - i <= half)
    <3>1. i + 1 = n - i
      BY <1>1, <1>4, <2>3
    <3>2. ASSUME NEW k \in 1..half PROVE left[k] # Turn(c, h, i) /\ right[k] # Turn(c, h, i)
      <4>1. k - 1 # i /\ n - k # i
        BY <1>1, <1>4, <2>3
      <4> QED BY <1>7, <1>8, <2>0, <4>1
    <3>3. b[Turn(c, h, i)] = d.data[Turn(c, h, i)]
      BY <1>2, <1>12, <2>0, <3>2
    <3> QED BY <1>1, <2>0, <3>1, <3>3
  <2> QED BY <2>1, <2>2, <2>3
<1>14. Shows(d, b, h, n, t)
  BY <1>1, <1>3, <1>6, <1>12, <1>13 DEF Shows, c, n, A, V
<1>15. RingOK(r) /\ Contents(r) = t /\ r.maxlen = d.maxlen
  BY <1>14, WindowShows DEF r
<1> QED BY <1>5, <1>15 DEF t, s

(* copy(): the items appended one by one to a fresh deque of the same maxlen. *)
Rings == UNION {[data : [0..c - 1 -> Values \cup {Zero}], capacity : {c}, head : Nat,
                 len : Nat, maxlen : Int] : c \in Nat \ {0}}
CopyingStep(d, k, f) ==
  IF k = 0 THEN Fresh(d.maxlen) ELSE Appended(f[k - 1], d.data[Ring(d, k - 1)])
LEMMA InRings ==
  ASSUME NEW d, RingOK(d) PROVE d \in Rings
<1> DEFINE c == d.capacity
<1>1. /\ d = [data |-> d.data, capacity |-> d.capacity, head |-> d.head, len |-> d.len,
              maxlen |-> d.maxlen]
      /\ c \in Nat \ {0} /\ d.data \in [0..c - 1 -> Values \cup {Zero}] /\ d.head \in Nat
      /\ d.len \in Nat /\ d.maxlen \in Int
  BY RingParts DEF Slots
<1>2. d \in [data : [0..c - 1 -> Values \cup {Zero}], capacity : {c}, head : Nat,
             len : Nat, maxlen : Int]
  BY <1>1
<1> HIDE DEF c
<1> QED BY <1>1, <1>2 DEF Rings

LEMMA CopiedIs ==
  ASSUME DequeAssumption, NEW d, RingOK(d)
  PROVE  /\ RingOK(Copied(d)) /\ Copied(d).maxlen = d.maxlen
         /\ Contents(Copied(d)) = Contents(d)
<1> DEFINE n == d.len
           m == d.maxlen
           s == Contents(d)
           v(k) == d.data[Ring(d, k - 1)]
           S == {r \in Rings : RingOK(r)}
           F == [p \in (1..n) \X S |-> Appended(p[2], v(p[1]))]
           h == CHOOSE f : f = [k \in 0..n |-> CopyingStep(d, k, f)]
           Is(k, r) == /\ RingOK(r) /\ r.maxlen = m /\ Len(Contents(r)) = k
                       /\ \A i \in 1..k : Contents(r)[i] = s[i]
<1>1. /\ n \in Nat /\ m \in Nat \cup {-1} /\ (m >= 0 => n <= m) /\ s \in Seq(Values) /\ Len(s) = n
      /\ \A i \in 1..n : s[i] = v(i)
  BY RingParts, ContentsAre
<1>2. \A k \in 1..n : v(k) \in Values
  <2> SUFFICES ASSUME NEW k \in 1..n PROVE v(k) \in Values
    OBVIOUS
  <2>1. k - 1 \in 0..n - 1
    BY <1>1
  <2> QED BY <2>1, RingParts
<1>3. Copied(d) = h[n]
  BY DEF Copied, CopyingStep
<1> HIDE DEF m, n, s, v
<1>4. RingOK(Fresh(m)) /\ Contents(Fresh(m)) = <<>> /\ Fresh(m).maxlen = m
  BY <1>1, FreshIs
<1>5. F \in [(1..n) \X S -> S]
  <2> SUFFICES ASSUME NEW k \in 1..n, NEW r \in S PROVE Appended(r, v(k)) \in S
    OBVIOUS
  <2>1. RingOK(Appended(r, v(k)))
    BY <1>2, AppendedIs
  <2> QED BY <2>1, InRings
<1>6. PICK g \in [0..n -> S] : IsLoop(F, Fresh(m), n, g)
  <2> HIDE DEF F
  <2>1. Fresh(m) \in S
    BY <1>4, InRings
  <2> HIDE DEF S
  <2> QED BY <1>1, <1>5, <2>1, LoopExists
<1>7. g = [k \in 0..n |-> CopyingStep(d, k, g)]
  <2> SUFFICES ASSUME NEW k \in 0..n
               PROVE  LoopStep(F, Fresh(m), k, g) = CopyingStep(d, k, g)
    BY <1>6 DEF IsLoop
  <2>1. k # 0 => k \in 1..n /\ g[k - 1] \in S
    BY <1>1
  <2> HIDE DEF S
  <2> QED BY <2>1 DEF LoopStep, CopyingStep, v, m
<1>8. h = [k \in 0..n |-> CopyingStep(d, k, h)]
  BY <1>7
<1> HIDE DEF h, F, S
<1>9. Is(0, h[0])
  <2>1. h[0] = Fresh(m)
    BY <1>1, <1>8 DEF CopyingStep, m
  <2> QED BY <1>4, <2>1, EmptySeq
<1>10. ASSUME NEW k \in 0..n - 1, Is(k, h[k]) PROVE Is(k + 1, h[k + 1])
  <2> DEFINE r == h[k]
             q == h[k + 1]
             t == Contents(r)
  <2>1. q = Appended(r, v(k + 1)) /\ k + 1 \in 1..n
    <3>1. k + 1 \in 0..n /\ k + 1 # 0 /\ (k + 1) - 1 = k /\ k + 1 \in 1..n
      BY <1>1
    <3> QED BY <1>8, <3>1 DEF CopyingStep, v
  <2> HIDE DEF q
  <2>2. RingOK(r) /\ r.maxlen = m /\ Len(t) = k /\ t \in Seq(Values)
        /\ \A i \in 1..k : t[i] = s[i]
    BY <1>10, ContentsAre
  <2> HIDE DEF r
  <2>3. /\ RingOK(q) /\ q.maxlen = m
        /\ Contents(q) = Python!AddRight(t, m, v(k + 1))
    BY <1>2, <2>1, <2>2, AppendedIs
  <2>4. Contents(q) = Append(t, v(k + 1))
    <3>1. m # 0 /\ ~Python!Full(t, m)
      BY <1>1, <2>2 DEF Python!Full
    <3> QED BY <2>3, <3>1 DEF Python!AddRight
  <2> HIDE DEF t
  <2> DEFINE x == v(k + 1)
  <2>5. x \in Values /\ x = s[k + 1]
    BY <1>1, <1>2, <2>1
  <2> HIDE DEF x
  <2>6. Contents(q) = Append(t, x)
    BY <2>4 DEF x
  <2>7. /\ Len(Append(t, x)) = k + 1 /\ Append(t, x)[k + 1] = x
        /\ \A i \in 1..k : Append(t, x)[i] = t[i]
    BY <2>2, <2>5, AppendProperties
  <2>8. \A i \in 1..k + 1 : i = k + 1 \/ i \in 1..k
    BY <1>1
  <2> QED BY <2>2, <2>3, <2>5, <2>6, <2>7, <2>8 DEF q
<1>11. Is(n, h[n])
  <2> DEFINE G == {k \in Nat : k <= n => Is(k, h[k])}
  <2>1. 0 \in G
    BY <1>9
  <2>2. ASSUME NEW k \in 0..n - 1, k \in G PROVE k + 1 \in G
    <3>1. Is(k, h[k])
      BY <1>1, <2>2
    <3> HIDE DEF Is
    <3> QED BY <1>1, <1>10, <3>1
  <2>3. 0..n \subseteq G
    <3> HIDE DEF G
    <3> QED BY <1>1, <2>1, <2>2, UpTo
  <2>4. n \in 0..n
    BY <1>1
  <2> HIDE DEF Is
  <2> QED BY <2>3, <2>4
<1>12. Contents(h[n]) = s
  <2>1. Contents(h[n]) \in Seq(Values)
    BY <1>11, ContentsAre
  <2> QED BY <1>1, <1>11, <2>1, SeqEqual
<1> QED BY <1>3, <1>11, <1>12 DEF s, m

LEMMA CardSame == ASSUME NEW S PROVE Python!Cardinality(S) = Cardinality(S)
BY DEF Cardinality, Python!Cardinality

LEMMA MinIs ==
  ASSUME NEW S, NEW x \in S, S \subseteq Int, \A y \in S : x <= y
  PROVE  Min(S) = x /\ Python!Min(S) = x
<1>1. \A z \in S : (\A y \in S : z <= y) => z = x
  OBVIOUS
<1> QED BY <1>1 DEF Min, Python!Min

LEMMA MinMaxOf ==
  ASSUME NEW a \in Int, NEW b \in Int
  PROVE  /\ Min({a, b}) = (IF a <= b THEN a ELSE b)
         /\ Python!Min({a, b}) = (IF a <= b THEN a ELSE b)
         /\ Max({a, b}) = (IF a >= b THEN a ELSE b)
         /\ Python!Max({a, b}) = (IF a >= b THEN a ELSE b)
<1>1. /\ Min({a, b}) = (IF a <= b THEN a ELSE b)
      /\ Python!Min({a, b}) = (IF a <= b THEN a ELSE b)
  <2>1. CASE a <= b
    BY <2>1 DEF Min, Python!Min
  <2>2. CASE ~(a <= b)
    BY <2>2 DEF Min, Python!Min
  <2> QED BY <2>1, <2>2
<1>2. /\ Max({a, b}) = (IF a >= b THEN a ELSE b)
      /\ Python!Max({a, b}) = (IF a >= b THEN a ELSE b)
  <2>1. CASE a >= b
    BY <2>1 DEF Max, Python!Max
  <2>2. CASE ~(a >= b)
    BY <2>2 DEF Max, Python!Max
  <2> QED BY <2>1, <2>2
<1> QED BY <1>1, <1>2

(* Positions: an index, where an insertion goes, the first of a value.       *)
LEMMA ActualIs ==
  ASSUME NEW d, RingOK(d), NEW i \in Int
  PROVE  LET s == Contents(d)
         IN  /\ Actual(d, i) = -1 => Python!Position(s, i) = 0
             /\ Actual(d, i) # -1 => /\ Actual(d, i) \in 0..d.len - 1
                                     /\ Python!Position(s, i) = Actual(d, i) + 1
             /\ Python!Position(s, i) \in 0..d.len
<1> DEFINE n == d.len
           s == Contents(d)
<1>1. n \in Nat /\ Len(s) = n
  BY ContentsAre
<1>2. Actual(d, i) = IF (IF i < 0 THEN n + i ELSE i) < 0 \/ (IF i < 0 THEN n + i ELSE i) >= n
                     THEN -1 ELSE (IF i < 0 THEN n + i ELSE i)
  BY DEF Actual
<1>3. Python!Position(s, i) = IF i < -n \/ i >= n THEN 0 ELSE IF i < 0 THEN n + i + 1 ELSE i + 1
  BY <1>1 DEF Python!Position
<1> HIDE DEF s
<1> QED BY <1>1, <1>2, <1>3 DEF s

LEMMA ClampedIs ==
  ASSUME NEW d, RingOK(d), NEW i \in Int
  PROVE  /\ Clamped(d, i) \in 0..d.len
         /\ Python!Pinned(Contents(d), i) = Clamped(d, i) + 1
<1> DEFINE n == d.len
           s == Contents(d)
           at == IF i < 0 THEN Max({n + i, 0}) ELSE i
           to == IF i < 0 THEN n + i ELSE i
<1>1. n \in Nat /\ Len(s) = n /\ n + i \in Int /\ to \in Int
  BY ContentsAre
<1>2. Max({n + i, 0}) = IF n + i >= 0 THEN n + i ELSE 0
  <2> DEFINE x == n + i
             z == 0
  <2>1. x \in Int /\ z \in Int
    BY <1>1
  <2> HIDE DEF x, z
  <2>2. Max({x, z}) = IF x >= z THEN x ELSE z
    BY <2>1, MinMaxOf
  <2> QED BY <2>2 DEF x, z
<1>3. at \in Nat /\ at = IF i >= 0 THEN i ELSE IF n + i >= 0 THEN n + i ELSE 0
  BY <1>1, <1>2
<1> HIDE DEF at
<1>4. Clamped(d, i) = Min({at, n}) /\ Min({at, n}) = IF at <= n THEN at ELSE n
  <2>1. Min({at, n}) = IF at <= n THEN at ELSE n
    BY <1>1, <1>3, MinMaxOf
  <2> QED BY <2>1 DEF Clamped, at
<1> DEFINE low == IF to <= n THEN to ELSE n
<1>5. Python!Min({to, n}) = low
  <2>1. to \in Int /\ n \in Int
    BY <1>1
  <2> HIDE DEF to, n
  <2>2. Python!Min({to, n}) = IF to <= n THEN to ELSE n
    BY <2>1, MinMaxOf
  <2> QED BY <2>2
<1>6. Python!Max({0, low}) = IF 0 >= low THEN 0 ELSE low
  <2> DEFINE z == 0
  <2>1. low \in Int /\ z \in Int
    BY <1>1
  <2> HIDE DEF low, z
  <2>2. Python!Max({z, low}) = IF z >= low THEN z ELSE low
    BY <2>1, MinMaxOf
  <2> QED BY <2>2 DEF z
<1>7. Python!Pinned(s, i) = Python!Max({0, low}) + 1
  <2> HIDE DEF low
  <2> QED BY <1>1, <1>5 DEF Python!Pinned
<1> HIDE DEF s
<1> QED BY <1>1, <1>3, <1>4, <1>6, <1>7 DEF s

LEMMA FindIs ==
  ASSUME NEW d, RingOK(d), NEW v
  PROVE  LET s == Contents(d)
         IN  /\ Find(d, v) = d.len => Python!At(s, v) = {}
             /\ Find(d, v) # d.len => /\ Find(d, v) \in 0..d.len - 1 /\ Python!At(s, v) # {}
                                      /\ Python!Min(Python!At(s, v)) = Find(d, v) + 1
<1> DEFINE n == d.len
           s == Contents(d)
           T == {i \in 0..n - 1 : d.data[Ring(d, i)] = v}
           U == T \cup {n}
           A == Python!At(s, v)
<1>1. n \in Nat /\ DOMAIN s = 1..n /\ \A i \in 1..n : s[i] = d.data[Ring(d, i - 1)]
  BY ContentsAre
<1>2. Find(d, v) = Min(U)
  BY DEF Find
<1>3. ASSUME NEW i \in Int PROVE i \in T <=> i + 1 \in A
  <2>1. i \in 0..n - 1 <=> i + 1 \in 1..n
    BY <1>1
  <2>2. i \in 0..n - 1 => s[i + 1] = d.data[Ring(d, i)]
    <3>1. (i + 1) - 1 = i
      OBVIOUS
    <3> QED BY <1>1, <2>1, <3>1
  <2>3. A = {p \in 1..n : s[p] = v}
    BY <1>1 DEF Python!At
  <2> HIDE DEF A, s, n
  <2> QED BY <2>1, <2>2, <2>3
<1>4. A \subseteq 1..n /\ T \subseteq 0..n - 1
  BY <1>1 DEF Python!At
<1> HIDE DEF A, T, s, n
<1>5. CASE T = {}
  <2>1. Min(U) = n
    <3>1. n \in U /\ U \subseteq Int /\ \A y \in U : n <= y
      BY <1>1, <1>5
    <3> HIDE DEF U
    <3> QED BY <3>1, MinIs
  <2>2. A = {}
    <3> SUFFICES ASSUME NEW p \in A PROVE FALSE
      OBVIOUS
    <3>1. p - 1 \in Int /\ (p - 1) + 1 = p
      BY <1>1, <1>4
    <3> QED BY <1>3, <1>5, <3>1
  <2> QED BY <1>2, <2>1, <2>2 DEF A, s, n
<1>6. CASE T # {}
  <2>1. PICK x \in T : \A y \in T : x <= y
    <3>1. T \subseteq Nat
      BY <1>1, <1>4
    <3> QED BY <1>6, <3>1, NatMin
  <2>2. x \in 0..n - 1 /\ x \in U /\ U \subseteq Int /\ \A y \in U : x <= y
    BY <1>1, <1>4, <2>1
  <2>3. Min(U) = x /\ x # n
    <3> HIDE DEF U
    <3>1. Min(U) = x
      BY <2>2, MinIs
    <3> QED BY <1>1, <2>2, <3>1
  <2>4. x + 1 \in A /\ A \subseteq Int /\ \A p \in A : x + 1 <= p
    <3>1. ASSUME NEW p \in A PROVE x + 1 <= p
      <4>1. p - 1 \in Int /\ (p - 1) + 1 = p /\ p \in Int
        BY <1>1, <1>4
      <4>2. x <= p - 1
        BY <1>3, <2>1, <4>1
      <4> QED BY <2>2, <4>1, <4>2
    <3>2. x \in Int
      BY <2>2
    <3> QED BY <1>1, <1>3, <1>4, <2>1, <3>1, <3>2
  <2>5. Python!Min(A) = x + 1
    BY <2>4, MinIs
  <2> QED BY <1>2, <2>2, <2>3, <2>4, <2>5 DEF A, s, n
<1> QED BY <1>5, <1>6

(* The call leaves a whole ring of the same maxlen, the items Python leaves   *)
(* and its answer.                                                           *)
Agrees(d, r, p) ==
  /\ RingOK(r.deque) /\ r.deque.maxlen = d.maxlen
  /\ Contents(r.deque) = p.items /\ r.answer = p.answer

LEMMA DoneAgrees ==
  ASSUME NEW d, NEW e, RingOK(e), e.maxlen = d.maxlen, NEW s, Contents(e) = s
  PROVE  Agrees(d, Done(e), Python!Does(s))
BY DEF Agrees, Done, Python!Does

LEMMA AnswersAgree ==
  ASSUME NEW d, NEW e, RingOK(e), e.maxlen = d.maxlen, NEW s, Contents(e) = s, NEW a
  PROVE  Agrees(d, Answers(e, a), Python!Answers(s, a))
BY DEF Agrees, Answers, Python!Answers

LEMMA AnswerAgrees ==
  ASSUME NEW d, RingOK(d), NEW a
  PROVE  Agrees(d, Answers(d, a), Python!Answers(Contents(d), a))
BY AnswersAgree

LEMMA SameSequences ==
  ASSUME NEW s, NEW p, NEW v
  PROVE  /\ Python!Front(s) = Front(s) /\ Python!Last(s) = Last(s) /\ Python!Reverse(s) = Reverse(s)
         /\ Python!RemoveAt(s, p) = RemoveAt(s, p) /\ Python!InsertAt(s, p, v) = InsertAt(s, p, v)
BY DEF Front, Python!Front, Last, Python!Last, Reverse, Python!Reverse, RemoveAt,
       Python!RemoveAt, InsertAt, Python!InsertAt

LEMMA AppendCall ==
  ASSUME NEW d, RingOK(d), NEW v \in Values, NEW c, c = <<"append", v>>
  PROVE  Agrees(d, Result(d, c), Python!Result(Contents(d), d.maxlen, c))
<1>1. /\ Result(d, c) = Done(Appended(d, v))
      /\ Python!Result(Contents(d), d.maxlen, c) = Python!Does(Python!AddRight(Contents(d), d.maxlen, v))
  BY DEF Result, Python!Result
<1> QED BY <1>1, AppendedIs, DoneAgrees

LEMMA AppendLeftCall ==
  ASSUME NEW d, RingOK(d), NEW v \in Values, NEW c, c = <<"appendleft", v>>
  PROVE  Agrees(d, Result(d, c), Python!Result(Contents(d), d.maxlen, c))
<1>1. /\ Result(d, c) = Done(AppendedLeft(d, v))
      /\ Python!Result(Contents(d), d.maxlen, c) = Python!Does(Python!AddLeft(Contents(d), d.maxlen, v))
  BY DEF Result, Python!Result
<1> QED BY <1>1, AppendedLeftIs, DoneAgrees

LEMMA Ends ==
  ASSUME NEW d, RingOK(d)
  PROVE  /\ d.len = 0 <=> Contents(d) = <<>>
         /\ d.len > 0 => /\ d.data[Ring(d, d.len - 1)] = Last(Contents(d))
                         /\ d.data[d.head] = Head(Contents(d))
<1> DEFINE s == Contents(d)
           n == d.len
<1>1. /\ s \in Seq(Values) /\ Len(s) = n /\ n \in Nat
      /\ \A i \in 1..n : s[i] = d.data[Ring(d, i - 1)]
  BY ContentsAre
<1>2. n = 0 <=> s = <<>>
  <2> HIDE DEF s, n
  <2> QED BY <1>1, EmptySeq
<1>3. ASSUME n > 0 PROVE d.data[Ring(d, n - 1)] = Last(s) /\ d.data[d.head] = Head(s)
  <2>1. Ring(d, 0) = d.head
    <3>1. 0 \in 0..d.capacity /\ d.head \in Slots(d) /\ d.capacity \in Nat \ {0}
      BY RingParts
    <3> QED BY <3>1, RingIs DEF Turn, Slots
  <2>2. n \in 1..n /\ 1 \in 1..n /\ 1 - 1 = 0
    BY <1>1, <1>3
  <2>3. s[n] = d.data[Ring(d, n - 1)]
    BY <1>1, <2>2
  <2>4. s[1] = d.data[Ring(d, 1 - 1)]
    BY <1>1, <2>2
  <2>5. Head(s) = s[1] /\ Last(s) = s[n]
    <3>1. s # <<>>
      BY <1>2, <1>3
    <3> HIDE DEF s
    <3> QED BY <1>1, <3>1, HeadTailProperties DEF Last
  <2> QED BY <2>1, <2>2, <2>3, <2>4, <2>5
<1> QED BY <1>1, <1>2, <1>3

LEMMA PopCall ==
  ASSUME NEW d, RingOK(d), NEW c, c = <<"pop">>
  PROVE  Agrees(d, Result(d, c), Python!Result(Contents(d), d.maxlen, c))
<1> DEFINE s == Contents(d)
           e == [d EXCEPT !.len = @ - 1]
           x == d.data[Ring(d, d.len - 1)]
<1>1. Result(d, c) = IF d.len = 0 THEN Answers(d, IndexError) ELSE Answers(e, x)
  BY DEF Result, Pop
<1>2. Python!Result(s, d.maxlen, c) = IF s = <<>> THEN Python!Answers(s, IndexError)
                                      ELSE Python!Answers(Front(s), Last(s))
  BY SameSequences DEF Python!Result
<1>3. CASE d.len = 0
  <2>1. s = <<>>
    BY <1>3, Ends
  <2> QED BY <1>1, <1>2, <1>3, <2>1, AnswerAgrees
<1>4. CASE d.len # 0
  <2>1. d.len > 0
    BY <1>4, RingParts
  <2>2. s # <<>> /\ x = Last(s)
    BY <1>4, <2>1, Ends
  <2> HIDE DEF x
  <2>3. e = [d EXCEPT !.len = @ - 1]
    OBVIOUS
  <2> HIDE DEF e
  <2>4. RingOK(e) /\ Contents(e) = Front(s) /\ e.maxlen = d.maxlen
    BY <2>1, <2>3, DropLast
  <2> HIDE DEF s
  <2>5. Agrees(d, Answers(e, x), Python!Answers(Front(s), x))
    BY <2>4, AnswersAgree
  <2>6. Result(d, c) = Answers(e, x) /\ Python!Result(s, d.maxlen, c) = Python!Answers(Front(s), x)
    BY <1>1, <1>2, <1>4, <2>2
  <2> QED BY <2>5, <2>6 DEF s
<1> QED BY <1>3, <1>4

LEMMA PopLeftCall ==
  ASSUME NEW d, RingOK(d), NEW c, c = <<"popleft">>
  PROVE  Agrees(d, Result(d, c), Python!Result(Contents(d), d.maxlen, c))
<1> DEFINE s == Contents(d)
           e == [d EXCEPT !.head = Ring(d, 1), !.len = @ - 1]
           x == d.data[d.head]
<1>1. Result(d, c) = IF d.len = 0 THEN Answers(d, IndexError) ELSE Answers(e, x)
  BY DEF Result, PopLeft
<1>2. Python!Result(s, d.maxlen, c) = IF s = <<>> THEN Python!Answers(s, IndexError)
                                      ELSE Python!Answers(Tail(s), Head(s))
  BY DEF Python!Result
<1>3. CASE d.len = 0
  <2>1. s = <<>>
    BY <1>3, Ends
  <2> QED BY <1>1, <1>2, <1>3, <2>1, AnswerAgrees
<1>4. CASE d.len # 0
  <2>1. d.len > 0
    BY <1>4, RingParts
  <2>2. s # <<>> /\ x = Head(s)
    BY <1>4, <2>1, Ends
  <2> HIDE DEF x
  <2>3. e = [d EXCEPT !.head = Ring(d, 1), !.len = @ - 1]
    OBVIOUS
  <2> HIDE DEF e
  <2>4. RingOK(e) /\ Contents(e) = Tail(s) /\ e.maxlen = d.maxlen
    BY <2>1, <2>3, DropFirst
  <2> HIDE DEF s
  <2>5. Agrees(d, Answers(e, x), Python!Answers(Tail(s), x))
    BY <2>4, AnswersAgree
  <2>6. Result(d, c) = Answers(e, x) /\ Python!Result(s, d.maxlen, c) = Python!Answers(Tail(s), x)
    BY <1>1, <1>2, <1>4, <2>2
  <2> QED BY <2>5, <2>6 DEF s
<1> QED BY <1>3, <1>4

LEMMA RotateCall ==
  ASSUME NEW d, RingOK(d), NEW i \in Int, NEW c, c = <<"rotate", i>>
  PROVE  Agrees(d, Result(d, c), Python!Result(Contents(d), d.maxlen, c))
<1> DEFINE e == Rotate(d, i).deque
<1>1. Result(d, c) = Done(e)
  BY DEF Result, Rotate, Done
<1>2. Python!Result(Contents(d), d.maxlen, c) = Python!Does(Python!Rotated(Contents(d), i))
  BY DEF Python!Result
<1>3. RingOK(e) /\ Contents(e) = Python!Rotated(Contents(d), i) /\ e.maxlen = d.maxlen
  BY RotatedIs
<1> HIDE DEF e
<1> QED BY <1>1, <1>2, <1>3, DoneAgrees

(* What a position of an index is in the ring.                               *)
LEMMA SlotIs ==
  ASSUME NEW d, RingOK(d), NEW a \in 0..d.len - 1
  PROVE  a + 1 \in 1..Len(Contents(d)) /\ d.data[Ring(d, a)] = Contents(d)[a + 1]
<1>1. a + 1 \in 1..d.len /\ (a + 1) - 1 = a
  BY ContentsAre
<1> QED BY <1>1, ContentsAre

LEMMA GetCall ==
  ASSUME NEW d, RingOK(d), NEW i \in Int, NEW c, c = <<"get", i>>
  PROVE  Agrees(d, Result(d, c), Python!Result(Contents(d), d.maxlen, c))
<1> DEFINE s == Contents(d)
           a == Actual(d, i)
           p == Python!Position(s, i)
           x == IF a = -1 THEN IndexError ELSE d.data[Ring(d, a)]
           y == IF p = 0 THEN IndexError ELSE s[p]
<1>1. Result(d, c) = Answers(d, x)
  BY DEF Result, Get
<1>2. Python!Result(s, d.maxlen, c) = Python!Answers(s, y)
  BY DEF Python!Result
<1>3. (a = -1 => p = 0) /\ (a # -1 => a \in 0..d.len - 1 /\ p = a + 1)
  BY ActualIs
<1> HIDE DEF a, p
<1>4. x = y
  <2>1. CASE a = -1
    BY <1>3, <2>1
  <2>2. CASE a # -1
    <3>1. a \in 0..d.len - 1 /\ p = a + 1 /\ p # 0
      BY <1>3, <2>2
    <3> QED BY <2>2, <3>1, SlotIs
  <2> QED BY <2>1, <2>2
<1> HIDE DEF x, y
<1> QED BY <1>1, <1>2, <1>4, AnswerAgrees

LEMMA SetCall ==
  ASSUME NEW d, RingOK(d), NEW i \in Int, NEW v \in Values, NEW c, c = <<"set", i, v>>
  PROVE  Agrees(d, Result(d, c), Python!Result(Contents(d), d.maxlen, c))
<1> DEFINE s == Contents(d)
           a == Actual(d, i)
           p == Python!Position(s, i)
           data == [d.data EXCEPT ![Ring(d, a)] = v]
           e == Window(d, data, d.head, d.len)
           t == [s EXCEPT ![p] = v]
<1>1. Result(d, c) = IF a = -1 THEN Answers(d, IndexError) ELSE Done(e)
  BY DEF Result, Set
<1>2. Python!Result(s, d.maxlen, c) = IF p = 0 THEN Python!Answers(s, IndexError)
                                      ELSE Python!Does(t)
  BY DEF Python!Result
<1>3. (a = -1 => p = 0) /\ (a # -1 => a \in 0..d.len - 1 /\ p = a + 1)
  BY ActualIs
<1> HIDE DEF a, p
<1>4. CASE a = -1
  BY <1>1, <1>2, <1>3, <1>4, AnswerAgrees
<1>5. CASE a # -1
  <2> DEFINE k == d.capacity
             h == d.head
             n == d.len
  <2>1. a \in 0..n - 1 /\ p = a + 1 /\ p # 0
    BY <1>3, <1>5
  <2>2. /\ k \in Nat \ {0} /\ h \in 0..k - 1 /\ n \in Nat /\ n <= k
        /\ d.data \in [0..k - 1 -> Values \cup {Zero}] /\ s \in Seq(Values) /\ Len(s) = n
        /\ \A j \in 0..n - 1 : d.data[Turn(k, h, j)] = s[j + 1]
        /\ \A j \in 0..k - 1 : Ring(d, j) = Turn(k, h, j) /\ Turn(k, h, j) \in 0..k - 1
    BY RingSlots
  <2>3. d.maxlen >= 0 => n <= d.maxlen
    BY RingParts
  <2> HIDE DEF k, h, n, s
  <2>4. t \in Seq(Values) /\ Len(t) = n /\ \A j \in 1..n : t[j] = IF j = p THEN v ELSE s[j]
    <3>1. p \in 1..n
      BY <2>1, <2>2
    <3>2. s \in [1..n -> Values]
      BY <2>2, LenProperties, SeqDef
    <3>3. t \in [1..n -> Values] /\ \A j \in 1..n : t[j] = IF j = p THEN v ELSE s[j]
      BY <3>1, <3>2
    <3> HIDE DEF t
    <3> QED BY <2>2, <3>3, IsASeq, LenProperties
  <2>5. Ring(d, a) = Turn(k, h, a) /\ Turn(k, h, a) \in 0..k - 1
    <3>1. a \in 0..k - 1
      BY <2>1, <2>2
    <3> QED BY <2>2, <3>1
  <2>6. /\ data \in [0..k - 1 -> Values \cup {Zero}] /\ data[Turn(k, h, a)] = v
        /\ \A u \in 0..k - 1 : u # Turn(k, h, a) => data[u] = d.data[u]
    BY <2>2, <2>5
  <2> HIDE DEF data, t
  <2>7. ASSUME NEW j \in 0..n - 1 PROVE data[Turn(k, h, j)] = t[j + 1]
    <3>1. j + 1 \in 1..n /\ (j + 1 = p <=> j = a) /\ j \in 0..k - 1
      <4>1. n \in Int /\ k \in Int /\ n <= k /\ a \in Int /\ p = a + 1
        BY <2>1, <2>2
      <4> QED BY <4>1
    <3>2. CASE j = a
      BY <2>4, <2>6, <3>1, <3>2
    <3>3. CASE j # a
      <4>1. Turn(k, h, j) # Turn(k, h, a)
        BY <2>1, <2>2, <3>3 DEF Turn
      <4> QED BY <2>2, <2>4, <2>6, <3>1, <3>3, <4>1
    <3> QED BY <3>2, <3>3
  <2>8. Shows(d, data, h, n, t)
    BY <2>2, <2>3, <2>4, <2>6, <2>7 DEF Shows, k, n
  <2>9. RingOK(e) /\ Contents(e) = t /\ e.maxlen = d.maxlen
    BY <2>8, WindowShows DEF h, n
  <2> HIDE DEF e
  <2> QED BY <1>1, <1>2, <1>5, <2>1, <2>9, DoneAgrees DEF s
<1> QED BY <1>4, <1>5

LEMMA DeleteCall ==
  ASSUME NEW d, RingOK(d), NEW i \in Int, NEW c, c = <<"del", i>>
  PROVE  Agrees(d, Result(d, c), Python!Result(Contents(d), d.maxlen, c))
<1> DEFINE s == Contents(d)
           a == Actual(d, i)
           p == Python!Position(s, i)
<1>1. Result(d, c) = IF a = -1 THEN Answers(d, IndexError) ELSE Done(Deleted(d, a))
  BY DEF Result, Delete
<1>2. Python!Result(s, d.maxlen, c) = IF p = 0 THEN Python!Answers(s, IndexError)
                                      ELSE Python!Does(RemoveAt(s, p))
  BY SameSequences DEF Python!Result
<1>3. (a = -1 => p = 0) /\ (a # -1 => a \in 0..d.len - 1 /\ p = a + 1)
  BY ActualIs
<1> HIDE DEF a, p
<1>4. CASE a = -1
  BY <1>1, <1>2, <1>3, <1>4, AnswerAgrees
<1>5. CASE a # -1
  <2>1. a \in 0..d.len - 1 /\ p = a + 1 /\ p # 0
    BY <1>3, <1>5
  <2>2. /\ RingOK(Deleted(d, a)) /\ Contents(Deleted(d, a)) = RemoveAt(s, p)
        /\ Deleted(d, a).maxlen = d.maxlen
    BY <2>1, DeletedIs
  <2> QED BY <1>1, <1>2, <1>5, <2>1, <2>2, DoneAgrees
<1> QED BY <1>4, <1>5

LEMMA InsertCall ==
  ASSUME NEW d, RingOK(d), NEW i \in Int, NEW v \in Values, NEW c, c = <<"insert", i, v>>
  PROVE  Agrees(d, Result(d, c), Python!Result(Contents(d), d.maxlen, c))
<1> DEFINE s == Contents(d)
           a == Clamped(d, i)
           p == Python!Pinned(s, i)
<1>1. Result(d, c) = IF AtMaxLen(d) THEN Answers(d, IndexError) ELSE Done(Inserted(d, a, v))
  BY DEF Result, Insert
<1>2. Python!Result(s, d.maxlen, c) = IF Python!Full(s, d.maxlen) THEN Python!Answers(s, IndexError)
                                      ELSE Python!Does(InsertAt(s, p, v))
  BY SameSequences DEF Python!Result
<1>3. a \in 0..d.len /\ p = a + 1 /\ (AtMaxLen(d) <=> Python!Full(s, d.maxlen))
  BY ClampedIs, FullIs
<1> HIDE DEF a, p
<1>4. CASE AtMaxLen(d)
  BY <1>1, <1>2, <1>3, <1>4, AnswerAgrees
<1>5. CASE ~AtMaxLen(d)
  <2>1. /\ RingOK(Inserted(d, a, v)) /\ Contents(Inserted(d, a, v)) = InsertAt(s, p, v)
        /\ Inserted(d, a, v).maxlen = d.maxlen
    BY <1>3, <1>5, InsertedIs
  <2> QED BY <1>1, <1>2, <1>3, <1>5, <2>1, DoneAgrees
<1> QED BY <1>4, <1>5

LEMMA RemoveCall ==
  ASSUME NEW d, RingOK(d), NEW v \in Values, NEW c, c = <<"remove", v>>
  PROVE  Agrees(d, Result(d, c), Python!Result(Contents(d), d.maxlen, c))
<1> DEFINE s == Contents(d)
           a == Find(d, v)
           at == Python!At(s, v)
           p == Python!Min(at)
<1>1. Result(d, c) = IF a = d.len THEN Answers(d, ValueError) ELSE Done(Deleted(d, a))
  BY DEF Result, Discard
<1>2. Python!Result(s, d.maxlen, c) = IF at = {} THEN Python!Answers(s, ValueError)
                                      ELSE Python!Does(RemoveAt(s, p))
  BY SameSequences DEF Python!Result
<1>3. (a = d.len => at = {}) /\ (a # d.len => a \in 0..d.len - 1 /\ at # {} /\ p = a + 1)
  BY FindIs
<1> HIDE DEF a, p, at
<1>4. CASE a = d.len
  BY <1>1, <1>2, <1>3, <1>4, AnswerAgrees
<1>5. CASE a # d.len
  <2>1. a \in 0..d.len - 1 /\ p = a + 1 /\ at # {}
    BY <1>3, <1>5
  <2>2. /\ RingOK(Deleted(d, a)) /\ Contents(Deleted(d, a)) = RemoveAt(s, p)
        /\ Deleted(d, a).maxlen = d.maxlen
    BY <2>1, DeletedIs
  <2> QED BY <1>1, <1>2, <1>5, <2>1, <2>2, DoneAgrees
<1> QED BY <1>4, <1>5

LEMMA IndexCall ==
  ASSUME NEW d, RingOK(d), NEW v \in Values, NEW c, c = <<"index", v>>
  PROVE  Agrees(d, Result(d, c), Python!Result(Contents(d), d.maxlen, c))
<1> DEFINE s == Contents(d)
           a == Find(d, v)
           at == Python!At(s, v)
           p == Python!Min(at)
           x == IF a = d.len THEN ValueError ELSE a
           y == IF at = {} THEN ValueError ELSE p - 1
<1>1. Result(d, c) = Answers(d, x)
  BY DEF Result, Index
<1>2. Python!Result(s, d.maxlen, c) = Python!Answers(s, y)
  BY DEF Python!Result
<1>3. (a = d.len => at = {}) /\ (a # d.len => a \in 0..d.len - 1 /\ at # {} /\ p = a + 1)
  BY FindIs
<1> HIDE DEF a, p, at
<1>4. x = y
  <2>1. a # d.len => (a + 1) - 1 = a
    BY <1>3
  <2> QED BY <1>3, <2>1
<1> HIDE DEF x, y
<1> QED BY <1>1, <1>2, <1>4, AnswerAgrees

LEMMA CountCall ==
  ASSUME NEW d, RingOK(d), NEW v \in Values, NEW c, c = <<"count", v>>
  PROVE  Agrees(d, Result(d, c), Python!Result(Contents(d), d.maxlen, c))
<1> DEFINE s == Contents(d)
           at == Python!At(s, v)
<1>1. Result(d, c) = Answers(d, Cardinality(at))
  BY DEF Result, Count, Python!At
<1>2. Python!Result(s, d.maxlen, c) = Python!Answers(s, Python!Cardinality(at))
  BY DEF Python!Result
<1>3. Python!Cardinality(at) = Cardinality(at)
  BY CardSame
<1> HIDE DEF at
<1> QED BY <1>1, <1>2, <1>3, AnswerAgrees

LEMMA ReverseCall ==
  ASSUME NEW d, RingOK(d), NEW c, c = <<"reverse">>
  PROVE  Agrees(d, Result(d, c), Python!Result(Contents(d), d.maxlen, c))
<1> DEFINE s == Contents(d)
           n == d.len
           t == Reverse(s)
<1>1. Result(d, c) = Done(IF n <= 1 THEN d ELSE Reversed(d))
  BY DEF Result, Flip
<1>2. Python!Result(s, d.maxlen, c) = Python!Does(t)
  BY SameSequences DEF Python!Result
<1>3. CASE n <= 1
  <2>1. s \in Seq(Values) /\ Len(s) = n /\ n \in Nat
    BY ContentsAre
  <2> HIDE DEF s, n
  <2>2. t \in Seq(Values) /\ Len(t) = n /\ \A i \in 0..n - 1 : t[i + 1] = s[n - i]
    BY <2>1, ReverseIs
  <2> HIDE DEF t
  <2>3. ASSUME NEW i \in 1..n PROVE t[i] = s[i]
    <3>1. n = 1 /\ i = 1 /\ 0 \in 0..n - 1 /\ n - 0 = 1 /\ 0 + 1 = 1
      BY <1>3, <2>1
    <3>2. t[0 + 1] = s[n - 0]
      BY <2>2, <3>1
    <3> QED BY <3>1, <3>2
  <2>4. s = t
    BY <2>1, <2>2, <2>3, SeqEqual
  <2> QED BY <1>1, <1>2, <1>3, <2>4, DoneAgrees DEF s
<1>4. CASE ~(n <= 1)
  BY <1>1, <1>2, <1>4, ReversedIs, DoneAgrees
<1> QED BY <1>3, <1>4

LEMMA ClearCall ==
  ASSUME NEW d, RingOK(d), NEW c, c = <<"clear">>
  PROVE  Agrees(d, Result(d, c), Python!Result(Contents(d), d.maxlen, c))
<1> DEFINE e == Window(d, d.data, 0, 0)
<1>1. Result(d, c) = Done(e)
  BY DEF Result, Clear
<1>2. Python!Result(Contents(d), d.maxlen, c) = Python!Does(<<>>)
  BY DEF Python!Result
<1>3. Shows(d, d.data, 0, 0, <<>>)
  <2>1. /\ d.capacity \in Nat \ {0} /\ d.data \in [0..d.capacity - 1 -> Values \cup {Zero}]
        /\ d.maxlen \in Nat \cup {-1}
    BY RingParts DEF Slots
  <2>2. <<>> \in Seq(Values) /\ Len(<<>>) = 0
    BY EmptySeq
  <2> QED BY <2>1, <2>2 DEF Shows
<1>4. RingOK(e) /\ Contents(e) = <<>> /\ e.maxlen = d.maxlen
  BY <1>3, WindowShows
<1> HIDE DEF e
<1> QED BY <1>1, <1>2, <1>4, DoneAgrees

LEMMA CopyCall ==
  ASSUME DequeAssumption, NEW d, RingOK(d), NEW c, c = <<"copy">>
  PROVE  Agrees(d, Result(d, c), Python!Result(Contents(d), d.maxlen, c))
<1>1. /\ Result(d, c) = Done(Copied(d))
      /\ Python!Result(Contents(d), d.maxlen, c) = Python!Does(Contents(d))
  BY DEF Result, Python!Result
<1> QED BY <1>1, CopiedIs, DoneAgrees

LEMMA CallAgrees ==
  ASSUME DequeAssumption, NEW d, RingOK(d), NEW c \in Calls
  PROVE  Agrees(d, Result(d, c), Python!Result(Contents(d), d.maxlen, c))
<1>0. Indices \subseteq Int
  BY DEF DequeAssumption
<1>1. \/ \E v \in Values : \/ c = <<"append", v>> \/ c = <<"appendleft", v>>
                           \/ c = <<"remove", v>> \/ c = <<"index", v>> \/ c = <<"count", v>>
      \/ \E i \in Indices : c = <<"rotate", i>> \/ c = <<"get", i>> \/ c = <<"del", i>>
      \/ \E i \in Indices, v \in Values : c = <<"set", i, v>> \/ c = <<"insert", i, v>>
      \/ c = <<"pop">> \/ c = <<"popleft">> \/ c = <<"reverse">> \/ c = <<"clear">>
      \/ c = <<"copy">>
  BY DEF Calls
<1>2. ASSUME NEW v \in Values,
             \/ c = <<"append", v>> \/ c = <<"appendleft", v>>
             \/ c = <<"remove", v>> \/ c = <<"index", v>> \/ c = <<"count", v>>
      PROVE  Agrees(d, Result(d, c), Python!Result(Contents(d), d.maxlen, c))
  BY <1>2, AppendCall, AppendLeftCall, RemoveCall, IndexCall, CountCall
<1>3. ASSUME NEW i \in Indices, c = <<"rotate", i>> \/ c = <<"get", i>> \/ c = <<"del", i>>
      PROVE  Agrees(d, Result(d, c), Python!Result(Contents(d), d.maxlen, c))
  BY <1>0, <1>3, RotateCall, GetCall, DeleteCall
<1>4. ASSUME NEW i \in Indices, NEW v \in Values, c = <<"set", i, v>> \/ c = <<"insert", i, v>>
      PROVE  Agrees(d, Result(d, c), Python!Result(Contents(d), d.maxlen, c))
  BY <1>0, <1>4, SetCall, InsertCall
<1> QED BY <1>1, <1>2, <1>3, <1>4, PopCall, PopLeftCall, ReverseCall, ClearCall, CopyCall

LEMMA InitRing ==
  ASSUME DequeAssumption, Init PROVE RingOK(deque)
<1>1. PICK m \in MaxLens : deque = Fresh(m)
  BY DEF Init
<1>2. m \in Nat \cup {-1}
  BY DEF DequeAssumption
<1> QED BY <1>1, <1>2, FreshIs

LEMMA NextRing ==
  ASSUME DequeAssumption, RingOK(deque), Next PROVE RingOK(deque')
<1>1. PICK c \in Calls : deque' = Result(deque, c).deque
  BY DEF Next
<1> QED BY <1>1, CallAgrees DEF Agrees

LEMMA RingTyped ==
  ASSUME RingOK(deque) PROVE TypeOK
<1>1. /\ deque.capacity \in Nat \ {0} /\ deque.data \in [Slots(deque) -> Values \cup {Zero}]
      /\ deque.head \in Slots(deque) /\ deque.len \in Nat /\ deque.len <= deque.capacity
      /\ (deque.maxlen >= 0 => deque.len <= deque.maxlen)
  BY RingParts
<1>2. Range(Contents(deque)) \subseteq Values
  <2>1. Contents(deque) \in Seq(Values)
    BY ContentsAre
  <2> QED BY <2>1, LenProperties, ElementOfSeq DEF Range
<1> QED BY <1>1, <1>2 DEF TypeOK, Slots

LEMMA RingIsPython ==
  ASSUME DequeAssumption, RingOK(deque) PROVE DequeIsPython
BY CallAgrees DEF DequeIsPython, Agrees

(* The window stays inside the ring and within maxlen, and shows only values  *)
(* that were stored.                                                         *)
THEOREM RingIsWhole == ASSUME DequeAssumption PROVE Spec => []TypeOK
<1> DEFINE Inv == RingOK(deque)
<1>1. Init => Inv
  BY InitRing
<1>2. Inv /\ [Next]_deque => Inv'
  BY NextRing
<1>3. Inv => TypeOK
  BY RingTyped
<1> QED BY <1>1, <1>2, <1>3, PTL DEF Spec

(* Growth, eviction at maxlen, a wrapped head, the shorter side of a deletion *)
(* or an insertion, a rotation through the head or through the window: each   *)
(* call leaves in the ring the items Python's bounded sequence leaves, and    *)
(* answers the same.                                                         *)
THEOREM RingAsPython == ASSUME DequeAssumption PROVE Spec => []DequeIsPython
<1> DEFINE Inv == RingOK(deque)
<1>1. Init => Inv
  BY InitRing
<1>2. Inv /\ [Next]_deque => Inv'
  BY NextRing
<1>3. Inv => DequeIsPython
  BY RingIsPython
<1> QED BY <1>1, <1>2, <1>3, PTL DEF Spec
=============================================================================
