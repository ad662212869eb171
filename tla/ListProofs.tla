---------------------------- MODULE ListProofs ----------------------------
(* Theorems of List, for every set of values, index, slice and sequence of   *)
(* calls: the buffer stays whole, and each call that checks its arguments    *)
(* leaves the items Python's leaves and answers the same.                    *)
(*                                                                           *)
(* What a call does to the buffer is read slot by slot, and compared with    *)
(* Python's sequence.  A slice is compared by what enumerates it: a set of   *)
(* positions has one enumeration in the direction of a step, and the code's  *)
(* loop and slice.indices() both enumerate the same set.                     *)
(*                                                                           *)
(* And of Timsort: every sort leaves its elements in order, the equal ones   *)
(* in the order they had.                                                    *)
EXTENDS List, SeqLemmas, FiniteSetTheorems, TLAPS

\* The list being sorted: its buffer, the runs found so far and where the next
\* one starts, and the merge under way.
CONSTANTS SortInputs, MinRuns
VARIABLES buffer, reverse, minRun, runs, following, merge, phase

Sort == INSTANCE Timsort WITH data <- buffer, start <- following

(* A slot may be cleared, or as the allocator left it.                       *)
Slot == Values \cup {Zero, Junk}
(* The live elements are values, and fit the buffer.                         *)
BufferOK(l) ==
  /\ l = [data |-> l.data, len |-> l.len] /\ l.data \in Seq(Slot)
  /\ l.len \in 0..Len(l.data) /\ \A p \in 1..l.len : l.data[p] \in Values
Shows(data, n, s) ==
  /\ data \in Seq(Slot) /\ n \in 0..Len(data) /\ s \in Seq(Values) /\ Len(s) = n
  /\ \A p \in 1..n : data[p] = s[p]

LEMMA ContentsAre ==
  ASSUME NEW l, BufferOK(l)
  PROVE  /\ l.data \in Seq(Slot) /\ l.len \in Nat /\ l.len <= Len(l.data) /\ Len(l.data) \in Nat
         /\ Contents(l) \in Seq(Values) /\ Len(Contents(l)) = l.len
         /\ \A p \in 1..l.len : Contents(l)[p] = l.data[p]
         /\ l = Window(l.data, l.len)
<1>1. /\ l.data \in Seq(Slot) /\ l.len \in 0..Len(l.data) /\ Len(l.data) \in Nat
      /\ \A p \in 1..l.len : l.data[p] \in Values
  BY DEF BufferOK
<1>2. /\ Contents(l) \in Seq(Values) /\ Len(Contents(l)) = IF 1 <= l.len THEN l.len - 1 + 1 ELSE 0
      /\ \A p \in 1..l.len - 1 + 1 : Contents(l)[p] = l.data[1 + p - 1]
  <2>1. 1 \in Int /\ l.len \in Int
    BY <1>1
  <2> QED BY <1>1, <2>1, SubSeqProperties DEF Contents
<1>3. l = Window(l.data, l.len)
  BY DEF BufferOK, Window
<1>4. l.len \in Nat /\ l.len - 1 + 1 = l.len /\ \A p \in 1..l.len : 1 + p - 1 = p
  BY <1>1
<1>5. \A p \in 1..l.len : Contents(l)[p] = l.data[p]
  BY <1>2, <1>4
<1> QED BY <1>1, <1>2, <1>3, <1>4, <1>5

LEMMA WindowShows ==
  ASSUME NEW data, NEW n, NEW s, Shows(data, n, s)
  PROVE  BufferOK(Window(data, n)) /\ Contents(Window(data, n)) = s
<1> DEFINE l == Window(data, n)
<1>1. l.data = data /\ l.len = n /\ l = [data |-> l.data, len |-> l.len]
  BY DEF Window
<1>2. /\ data \in Seq(Slot) /\ n \in 0..Len(data) /\ s \in Seq(Values) /\ Len(s) = n
      /\ \A p \in 1..n : data[p] = s[p]
  BY DEF Shows
<1>3. \A p \in 1..n : data[p] \in Values
  BY <1>2, ElementOfSeq
<1> HIDE DEF l
<1>4. BufferOK(l)
  BY <1>1, <1>2, <1>3 DEF BufferOK
<1>5. Contents(l) = s
  <2>1. /\ Contents(l) \in Seq(Values) /\ Len(Contents(l)) = n
        /\ \A p \in 1..n : Contents(l)[p] = data[p]
    BY <1>1, <1>4, ContentsAre
  <2> QED BY <1>2, <2>1, SeqEqual
<1> QED BY <1>4, <1>5 DEF l

LEMMA ListShows ==
  ASSUME NEW l, BufferOK(l)
  PROVE  Shows(l.data, l.len, Contents(l))
BY ContentsAre DEF Shows

LEMMA FreshIs ==
  ASSUME NEW s \in Seq(Values)
  PROVE  BufferOK(Fresh(s)) /\ Contents(Fresh(s)) = s
<1>1. s \in Seq(Slot)
  BY SeqMonotonic DEF Slot
<1>2. Len(s) \in Nat /\ Len(s) \in 0..Len(s)
  BY LenProperties
<1>3. Shows(s, Len(s), s)
  BY <1>1, <1>2 DEF Shows
<1>4. Fresh(s) = Window(s, Len(s))
  BY DEF Fresh, Window
<1> QED BY <1>3, <1>4, WindowShows

LEMMA FunSeq ==
  ASSUME NEW S, NEW m \in Nat, NEW b \in [1..m -> S]
  PROVE  b \in Seq(S) /\ Len(b) = m
<1>1. b \in Seq(S)
  BY SeqDef
<1>2. DOMAIN b = 1..Len(b) /\ Len(b) \in Nat /\ DOMAIN b = 1..m
  BY <1>1, LenProperties
<1> QED BY <1>1, <1>2

(* Growing.                                                                  *)
CapStep(cap, n, k, f) ==
  IF k = 0 THEN cap ELSE IF f[k - 1] < n THEN Grow(f[k - 1]) ELSE f[k - 1]
LEMMA GrowIs == ASSUME NEW c \in Nat PROVE Grow(c) \in Nat /\ Grow(c) > c
<1>1. c \div 8 \in Nat
  OBVIOUS
<1>2. c = 0 \/ c \in 1..8 \/ (c # 0 /\ ~(c \in 1..8))
  OBVIOUS
<1>3. CASE c = 0
  BY <1>3 DEF Grow
<1>4. CASE c \in 1..8
  BY <1>4 DEF Grow
<1>5. CASE c # 0 /\ ~(c \in 1..8)
  <2>1. Grow(c) = c + c \div 8 + 6
    BY <1>5 DEF Grow
  <2> QED BY <1>1, <2>1
<1> QED BY <1>2, <1>3, <1>4, <1>5

LEMMA CapacityIs ==
  ASSUME NEW cap \in Nat, NEW n \in Nat
  PROVE  CapacityFor(cap, n) \in Nat /\ CapacityFor(cap, n) >= cap /\ CapacityFor(cap, n) >= n
<1> DEFINE F == [p \in (1..n) \X Nat |-> IF p[2] < n THEN Grow(p[2]) ELSE p[2]]
           h == CHOOSE f : f = [k \in 0..n |-> CapStep(cap, n, k, f)]
           Is(k, c) == c \in Nat /\ c >= cap /\ c >= k
<1>1. CapacityFor(cap, n) = h[n]
  BY DEF CapacityFor, CapStep
<1>2. F \in [(1..n) \X Nat -> Nat]
  BY GrowIs
<1>3. PICK g \in [0..n -> Nat] : IsLoop(F, cap, n, g)
  <2> HIDE DEF F
  <2> QED BY <1>2, LoopExists
<1>4. g = [k \in 0..n |-> CapStep(cap, n, k, g)]
  <2> SUFFICES ASSUME NEW k \in 0..n PROVE LoopStep(F, cap, k, g) = CapStep(cap, n, k, g)
    BY <1>3 DEF IsLoop
  <2>1. k # 0 => k \in 1..n /\ g[k - 1] \in Nat
    OBVIOUS
  <2> QED BY <2>1 DEF LoopStep, CapStep
<1>5. h = [k \in 0..n |-> CapStep(cap, n, k, h)]
  BY <1>4
<1> HIDE DEF h, F
<1>6. Is(0, h[0])
  BY <1>5 DEF CapStep
<1>7. ASSUME NEW k \in 0..n - 1, Is(k, h[k]) PROVE Is(k + 1, h[k + 1])
  <2> DEFINE c == h[k]
  <2>1. h[k + 1] = IF c < n THEN Grow(c) ELSE c
    <3>1. k + 1 \in 0..n /\ k + 1 # 0 /\ (k + 1) - 1 = k
      OBVIOUS
    <3> QED BY <1>5, <3>1 DEF CapStep
  <2>2. c \in Nat /\ c >= cap /\ c >= k
    BY <1>7
  <2> HIDE DEF c
  <2>3. Grow(c) \in Nat /\ Grow(c) > c
    BY <2>2, GrowIs
  <2> QED BY <2>1, <2>2, <2>3
<1>8. Is(n, h[n])
  <2> DEFINE G == {k \in Nat : k <= n => Is(k, h[k])}
  <2>1. 0 \in G
    BY <1>6
  <2>2. ASSUME NEW k \in 0..n - 1, k \in G PROVE k + 1 \in G
    <3>1. Is(k, h[k])
      BY <2>2
    <3> HIDE DEF Is
    <3> QED BY <1>7, <3>1
  <2>3. 0..n \subseteq G
    <3> HIDE DEF G
    <3> QED BY <2>1, <2>2, UpTo
  <2>4. n \in 0..n
    OBVIOUS
  <2> HIDE DEF Is
  <2> QED BY <2>3, <2>4
<1> QED BY <1>1, <1>8

LEMMA RoomIs ==
  ASSUME NEW data \in Seq(Slot), NEW n \in Nat, NEW blank \in Slot
  PROVE  LET room == WithRoom(data, n, blank)
         IN  /\ room \in Seq(Slot) /\ Len(room) \in Nat /\ Len(room) >= n /\ Len(room) >= Len(data)
             /\ \A p \in 1..Len(data) : room[p] = data[p]
             /\ DOMAIN room = 1..Len(room) /\ room \in [1..Len(room) -> Slot]
<1> DEFINE c == Len(data)
           m == CapacityFor(c, n) - c
           new == [k \in 1..m |-> blank]
           room == data \o new
<1>1. c \in Nat /\ CapacityFor(c, n) \in Nat /\ CapacityFor(c, n) >= c /\ CapacityFor(c, n) >= n
  <2>1. c \in Nat
    BY LenProperties
  <2> HIDE DEF c
  <2> QED BY <2>1, CapacityIs
<1>2. m \in Nat /\ c + m >= n /\ c + m >= c /\ c + m \in Nat
  BY <1>1
<1>3. WithRoom(data, n, blank) = room
  BY DEF WithRoom
<1> HIDE DEF m
<1>4. new \in Seq(Slot) /\ Len(new) = m
  BY <1>2
<1> HIDE DEF new
<1>5. /\ room \in Seq(Slot) /\ Len(room) = c + m
      /\ \A p \in 1..c + m : room[p] = IF p <= c THEN data[p] ELSE new[p - c]
  BY <1>4, ConcatProperties
<1> HIDE DEF c, room
<1>6. \A p \in 1..c : room[p] = data[p]
  BY <1>1, <1>2, <1>5
<1>7. DOMAIN room = 1..Len(room) /\ room \in [1..Len(room) -> Slot]
  BY <1>5, LenProperties
<1> QED BY <1>1, <1>2, <1>3, <1>5, <1>6, <1>7 DEF c

(* The call leaves a sound buffer, the items Python leaves and its answer.    *)
Agrees(r, p) == BufferOK(r.list) /\ Contents(r.list) = p.items /\ r.answer = p.answer

LEMMA DoneAgrees ==
  ASSUME NEW e, BufferOK(e), NEW s, Contents(e) = s
  PROVE  Agrees(Done(e), Python!Does(s))
BY DEF Agrees, Done, Python!Does

LEMMA AnswersAgree ==
  ASSUME NEW e, BufferOK(e), NEW s, Contents(e) = s, NEW a
  PROVE  Agrees(Answers(e, a), Python!Answers(s, a))
BY DEF Agrees, Answers, Python!Answers

LEMMA SameSequences ==
  ASSUME NEW s, NEW p, NEW v
  PROVE  /\ Python!Reverse(s) = Reverse(s) /\ Python!Range(s) = Range(s)
         /\ Python!RemoveAt(s, p) = RemoveAt(s, p) /\ Python!InsertAt(s, p, v) = InsertAt(s, p, v)
BY DEF Reverse, Python!Reverse, RemoveAt, Python!RemoveAt, InsertAt, Python!InsertAt,
       Range, Python!Range


(* What one call does to the buffer.                                         *)
LEMMA ElementIs ==
  ASSUME NEW l, BufferOK(l), NEW p \in 1..l.len
  PROVE  Contents(l)[p] = l.data[p] /\ l.data[p] \in Values
BY ContentsAre, ElementOfSeq

LEMMA PushedIs ==
  ASSUME NEW l, BufferOK(l), NEW v \in Values
  PROVE  BufferOK(Pushed(l, v)) /\ Contents(Pushed(l, v)) = Append(Contents(l), v)
<1> DEFINE n == l.len
           s == Contents(l)
           t == Append(s, v)
           room == WithRoom(l.data, n + 1, Zero)
           filled == [room EXCEPT ![n + 1] = v]
<1>1. /\ l.data \in Seq(Slot) /\ n \in Nat /\ n <= Len(l.data) /\ Len(l.data) \in Nat
      /\ s \in Seq(Values) /\ Len(s) = n /\ \A p \in 1..n : s[p] = l.data[p]
  BY ContentsAre
<1>2. Pushed(l, v) = Window(filled, n + 1)
  BY DEF Pushed
<1> HIDE DEF n, s
<1>3. /\ room \in [1..Len(room) -> Slot] /\ Len(room) \in Nat /\ Len(room) >= n + 1
      /\ \A p \in 1..Len(l.data) : room[p] = l.data[p]
  <2>1. n + 1 \in Nat /\ Zero \in Slot
    BY <1>1 DEF Slot
  <2> QED BY <1>1, <2>1, RoomIs
<1> HIDE DEF room
<1> DEFINE m == Len(room)
<1>4. filled \in [1..m -> Slot] /\ filled[n + 1] = v /\ \A p \in 1..n : filled[p] = room[p]
  <2>1. n + 1 \in 1..m /\ v \in Slot
    BY <1>1, <1>3 DEF Slot
  <2>2. \A p \in 1..n : p \in 1..m /\ p # n + 1
    BY <1>1, <1>3
  <2> HIDE DEF m
  <2> QED BY <1>3, <2>1, <2>2 DEF m
<1> HIDE DEF filled
<1>5. filled \in Seq(Slot) /\ Len(filled) = m
  BY <1>3, <1>4, FunSeq
<1>6. t \in Seq(Values) /\ Len(t) = n + 1 /\ t[n + 1] = v /\ \A p \in 1..n : t[p] = s[p]
  BY <1>1, AppendProperties
<1> HIDE DEF t
<1>7. \A p \in 1..n + 1 : filled[p] = t[p]
  <2>1. \A p \in 1..n + 1 : p = n + 1 \/ (p \in 1..n /\ p \in 1..Len(l.data))
    BY <1>1
  <2> QED BY <1>1, <1>3, <1>4, <1>6, <2>1
<1>8. n + 1 \in 0..m
  BY <1>1, <1>3
<1>9. Shows(filled, n + 1, t)
  BY <1>5, <1>6, <1>7, <1>8 DEF Shows
<1> QED BY <1>2, <1>9, WindowShows DEF t, s

LEMMA Inserting ==
  ASSUME NEW s \in Seq(Values), NEW idx \in 0..Len(s), NEW v \in Values
  PROVE  LET t == InsertAt(s, idx + 1, v)
         IN  /\ t \in Seq(Values) /\ Len(t) = Len(s) + 1
             /\ \A p \in 1..Len(s) + 1 :
                  t[p] = IF p < idx + 1 THEN s[p] ELSE IF p = idx + 1 THEN v ELSE s[p - 1]
<1> DEFINE q == idx + 1
<1>1. q \in 1..Len(s) + 1
  BY LenProperties
<1> HIDE DEF q
<1>2. /\ InsertAt(s, q, v) \in Seq(Values) /\ Len(InsertAt(s, q, v)) = Len(s) + 1
      /\ \A i \in 1..Len(s) + 1 :
           InsertAt(s, q, v)[i] = IF i < q THEN s[i] ELSE IF i = q THEN v ELSE s[i - 1]
  BY <1>1, InsertAtIs
<1> QED BY <1>2 DEF q

LEMMA InsertedIs ==
  ASSUME NEW l, BufferOK(l), NEW idx \in 0..l.len, NEW v \in Values
  PROVE  /\ BufferOK(Inserted(l, idx, v))
         /\ Contents(Inserted(l, idx, v)) = InsertAt(Contents(l), idx + 1, v)
<1> DEFINE n == l.len
           s == Contents(l)
           t == InsertAt(s, idx + 1, v)
           room == WithRoom(l.data, n + 1, Zero)
           after == n - idx
           to == [k \in 1..after |-> n + 2 - k]
           from == [k \in 1..after |-> n + 1 - k]
           b == Copies(room, to, from)
           filled == [b EXCEPT ![idx + 1] = v]
<1>1. /\ l.data \in Seq(Slot) /\ n \in Nat /\ n <= Len(l.data) /\ Len(l.data) \in Nat
      /\ s \in Seq(Values) /\ Len(s) = n /\ \A p \in 1..n : s[p] = l.data[p]
  BY ContentsAre
<1>2. Inserted(l, idx, v) = Window(filled, n + 1)
  BY DEF Inserted
<1>3. idx \in 0..n
  OBVIOUS
<1> HIDE DEF n, s
<1>4. /\ room \in [1..Len(room) -> Slot] /\ Len(room) \in Nat /\ Len(room) >= n + 1
      /\ \A p \in 1..Len(l.data) : room[p] = l.data[p]
  <2>1. n + 1 \in Nat /\ Zero \in Slot
    BY <1>1 DEF Slot
  <2> QED BY <1>1, <2>1, RoomIs
<1> HIDE DEF room
<1> DEFINE m == Len(room)
<1>5. after \in Nat /\ Len(to) = after /\ idx \in Int
  BY <1>1, <1>3
<1>6. \A k \in 1..after : to[k] = n + 2 - k /\ from[k] = n + 1 - k
  OBVIOUS
<1> HIDE DEF to, from
<1>7. Copyable(1..m, after, to, from)
  <2>1. ASSUME NEW k \in 1..after PROVE to[k] \in 1..m /\ from[k] \in 1..m
    <3>1. n + 2 - k \in 1..m /\ n + 1 - k \in 1..m
      BY <1>1, <1>3, <1>4
    <3> QED BY <1>6, <3>1
  <2>2. ASSUME NEW k \in 1..after, NEW j \in 1..k - 1 PROVE to[j] # to[k] /\ to[j] # from[k]
    <3>1. j \in 1..after /\ n \in Int /\ k \in Int /\ j \in Int /\ j < k
      BY <1>1, <1>5
    <3> QED BY <1>6, <3>1
  <2> QED BY <1>5, <2>1, <2>2 DEF Copyable
<1>8. MovedTo(1..m, Slot, after, to, from, room, b)
  BY <1>4, <1>5, <1>7, CopiesMove
<1>9. /\ b \in [1..m -> Slot] /\ \A k \in 1..after : b[to[k]] = room[from[k]]
      /\ \A p \in 1..m : (\A k \in 1..after : to[k] # p) => b[p] = room[p]
  BY <1>8 DEF MovedTo
<1> HIDE DEF b, after
<1>10. ASSUME NEW p \in 1..idx PROVE b[p] = s[p]
  <2>1. p \in 1..m /\ p \in 1..n /\ p \in 1..Len(l.data)
    BY <1>1, <1>3, <1>4
  <2>2. ASSUME NEW k \in 1..after PROVE to[k] # p
    <3>1. n + 2 - k # p
      BY <1>1, <1>3 DEF after
    <3> QED BY <1>6, <3>1
  <2> QED BY <1>1, <1>4, <1>9, <2>1, <2>2
<1>11. ASSUME NEW p \in idx + 2..n + 1 PROVE b[p] = s[p - 1]
  <2> DEFINE k == n + 2 - p
  <2>1. k \in 1..after /\ n + 2 - k = p /\ n + 1 - k = p - 1 /\ p - 1 \in 1..n /\ p - 1 \in 1..Len(l.data)
    BY <1>1, <1>3 DEF after
  <2> HIDE DEF k
  <2>2. to[k] = p /\ from[k] = p - 1
    BY <1>6, <2>1
  <2>3. room[p - 1] = l.data[p - 1] /\ s[p - 1] = l.data[p - 1]
    BY <1>1, <1>4, <2>1
  <2>4. b[to[k]] = room[from[k]]
    BY <1>9, <2>1
  <2> QED BY <2>2, <2>3, <2>4
<1>12. /\ filled \in [1..m -> Slot] /\ filled[idx + 1] = v
       /\ \A p \in 1..n + 1 : p # idx + 1 => filled[p] = b[p]
  <2>1. idx + 1 \in 1..m /\ v \in Slot
    BY <1>1, <1>3, <1>4 DEF Slot
  <2>2. \A p \in 1..n + 1 : p \in 1..m
    BY <1>1, <1>4
  <2> HIDE DEF m
  <2> QED BY <1>9, <2>1, <2>2
<1> HIDE DEF filled
<1>13. filled \in Seq(Slot) /\ Len(filled) = m
  BY <1>4, <1>12, FunSeq
<1>14. /\ t \in Seq(Values) /\ Len(t) = n + 1
       /\ \A p \in 1..n + 1 : t[p] = IF p < idx + 1 THEN s[p] ELSE IF p = idx + 1 THEN v ELSE s[p - 1]
  <2>1. idx \in 0..Len(s)
    BY <1>1, <1>3
  <2> HIDE DEF t
  <2>2. t = InsertAt(s, idx + 1, v)
    BY DEF t
  <2> QED BY <1>1, <2>1, <2>2, Inserting
<1> HIDE DEF t
<1>15. ASSUME NEW p \in 1..n + 1 PROVE filled[p] = t[p]
  <2>1. p \in 1..idx \/ p = idx + 1 \/ p \in idx + 2..n + 1
    BY <1>1, <1>3
  <2>2. CASE p \in 1..idx
    <3>1. p < idx + 1 /\ p # idx + 1
      BY <1>5, <2>2
    <3> QED BY <1>10, <1>12, <1>14, <2>2, <3>1
  <2>3. CASE p = idx + 1
    <3>1. ~(p < idx + 1)
      BY <1>5, <2>3
    <3> QED BY <1>12, <1>14, <2>3, <3>1
  <2>4. CASE p \in idx + 2..n + 1
    <3>1. ~(p < idx + 1) /\ p # idx + 1
      BY <1>5, <2>4
    <3> QED BY <1>11, <1>12, <1>14, <2>4, <3>1
  <2> QED BY <2>1, <2>2, <2>3, <2>4
<1>16. n + 1 \in 0..m
  BY <1>1, <1>4
<1>17. Shows(filled, n + 1, t)
  BY <1>13, <1>14, <1>15, <1>16 DEF Shows
<1> QED BY <1>2, <1>17, WindowShows DEF t, s

LEMMA RemovedIs ==
  ASSUME NEW l, BufferOK(l), NEW idx \in 0..l.len - 1
  PROVE  /\ BufferOK(Removed(l, idx))
         /\ Contents(Removed(l, idx)) = RemoveAt(Contents(l), idx + 1)
<1> DEFINE n == l.len
           s == Contents(l)
           t == RemoveAt(s, idx + 1)
           m == Len(l.data)
           after == n - 1 - idx
           to == [k \in 1..after |-> idx + k]
           from == [k \in 1..after |-> idx + k + 1]
           b == Copies(l.data, to, from)
           cleared == [b EXCEPT ![n] = Zero]
<1>1. /\ l.data \in Seq(Slot) /\ n \in Nat /\ n <= m /\ m \in Nat
      /\ s \in Seq(Values) /\ Len(s) = n /\ \A p \in 1..n : s[p] = l.data[p]
  BY ContentsAre
<1>2. Removed(l, idx) = Window(cleared, n - 1)
  BY DEF Removed
<1>3. idx \in 0..n - 1
  OBVIOUS
<1>4. l.data \in [1..m -> Slot]
  BY <1>1, LenProperties
<1> HIDE DEF n, s, m
<1>5. after \in Nat /\ Len(to) = after /\ idx \in Int
  BY <1>1, <1>3
<1>6. \A k \in 1..after : to[k] = idx + k /\ from[k] = idx + k + 1
  OBVIOUS
<1> HIDE DEF to, from
<1>7. Copyable(1..m, after, to, from)
  <2>1. ASSUME NEW k \in 1..after PROVE to[k] \in 1..m /\ from[k] \in 1..m
    <3>1. idx + k \in 1..m /\ idx + k + 1 \in 1..m
      BY <1>1, <1>3
    <3> QED BY <1>6, <3>1
  <2>2. ASSUME NEW k \in 1..after, NEW j \in 1..k - 1 PROVE to[j] # to[k] /\ to[j] # from[k]
    <3>1. j \in 1..after /\ idx \in Int /\ k \in Int /\ j \in Int /\ j < k
      BY <1>1, <1>5
    <3> QED BY <1>6, <3>1
  <2> QED BY <1>5, <2>1, <2>2 DEF Copyable
<1>8. MovedTo(1..m, Slot, after, to, from, l.data, b)
  BY <1>4, <1>5, <1>7, CopiesMove
<1>9. /\ b \in [1..m -> Slot] /\ \A k \in 1..after : b[to[k]] = l.data[from[k]]
      /\ \A p \in 1..m : (\A k \in 1..after : to[k] # p) => b[p] = l.data[p]
  BY <1>8 DEF MovedTo
<1> HIDE DEF b, after
<1>10. ASSUME NEW p \in 1..idx PROVE b[p] = s[p]
  <2>1. p \in 1..m /\ p \in 1..n
    BY <1>1, <1>3
  <2>2. ASSUME NEW k \in 1..after PROVE to[k] # p
    <3>1. idx + k # p
      BY <1>1, <1>3 DEF after
    <3> QED BY <1>6, <3>1
  <2> QED BY <1>1, <1>9, <2>1, <2>2
<1>11. ASSUME NEW p \in idx + 1..n - 1 PROVE b[p] = s[p + 1]
  <2> DEFINE k == p - idx
  <2>1. k \in 1..after /\ idx + k = p /\ idx + k + 1 = p + 1 /\ p + 1 \in 1..n
    BY <1>1, <1>3 DEF after
  <2> HIDE DEF k
  <2>2. to[k] = p /\ from[k] = p + 1
    BY <1>6, <2>1
  <2>3. s[p + 1] = l.data[p + 1]
    BY <1>1, <2>1
  <2>4. b[to[k]] = l.data[from[k]]
    BY <1>9, <2>1
  <2> QED BY <2>2, <2>3, <2>4
<1>12. /\ cleared \in [1..m -> Slot] /\ \A p \in 1..n - 1 : cleared[p] = b[p]
  <2>1. n \in 1..m /\ Zero \in Slot
    BY <1>1, <1>3 DEF Slot
  <2>2. \A p \in 1..n - 1 : p \in 1..m /\ p # n
    BY <1>1
  <2> QED BY <1>9, <2>1, <2>2
<1> HIDE DEF cleared
<1>13. cleared \in Seq(Slot) /\ Len(cleared) = m
  BY <1>1, <1>12, FunSeq
<1>14. /\ t \in Seq(Values) /\ Len(t) = n - 1
       /\ \A p \in 1..n - 1 : t[p] = IF p < idx + 1 THEN s[p] ELSE s[p + 1]
  <2> DEFINE q == idx + 1
  <2>1. q \in 1..Len(s)
    BY <1>1, <1>3
  <2> HIDE DEF q
  <2>2. /\ RemoveAt(s, q) \in Seq(Values) /\ Len(RemoveAt(s, q)) = Len(s) - 1
        /\ \A p \in 1..Len(s) - 1 : RemoveAt(s, q)[p] = IF p < q THEN s[p] ELSE s[p + 1]
    BY <1>1, <2>1, RemoveAtIs
  <2> QED BY <1>1, <2>2 DEF q
<1> HIDE DEF t
<1>15. ASSUME NEW p \in 1..n - 1 PROVE cleared[p] = t[p]
  <2>1. p \in 1..idx \/ p \in idx + 1..n - 1
    BY <1>1, <1>3
  <2>2. CASE p \in 1..idx
    <3>1. p < idx + 1
      BY <1>5, <2>2
    <3> QED BY <1>10, <1>12, <1>14, <2>2, <3>1
  <2>3. CASE p \in idx + 1..n - 1
    <3>1. ~(p < idx + 1)
      BY <1>5, <2>3
    <3> QED BY <1>11, <1>12, <1>14, <2>3, <3>1
  <2> QED BY <2>1, <2>2, <2>3
<1>16. n - 1 \in 0..m
  BY <1>1, <1>3
<1>17. Shows(cleared, n - 1, t)
  BY <1>13, <1>14, <1>15, <1>16 DEF Shows
<1> QED BY <1>2, <1>17, WindowShows DEF t, s

LEMMA ReversedIs ==
  ASSUME NEW l, BufferOK(l)
  PROVE  BufferOK(Reversed(l)) /\ Contents(Reversed(l)) = Reverse(Contents(l))
<1> DEFINE n == l.len
           s == Contents(l)
           t == Reverse(s)
           m == Len(l.data)
           half == n \div 2
           left == [k \in 1..half |-> k]
           right == [k \in 1..half |-> n + 1 - k]
           b == Swaps(l.data, left, right)
<1>1. /\ l.data \in Seq(Slot) /\ n \in Nat /\ n <= m /\ m \in Nat
      /\ s \in Seq(Values) /\ Len(s) = n /\ \A p \in 1..n : s[p] = l.data[p]
  BY ContentsAre
<1>2. Reversed(l) = Window(b, n)
  BY DEF Reversed
<1>3. l.data \in [1..m -> Slot]
  BY <1>1, LenProperties
<1> HIDE DEF n, s, m
<1>4. half \in Nat /\ 2 * half <= n /\ n <= 2 * half + 1
  BY <1>1, Halves
<1> HIDE DEF half
<1>5. t \in Seq(Values) /\ Len(t) = n /\ \A i \in 0..n - 1 : t[i + 1] = s[n - i]
  BY <1>1, ReverseIs
<1>6. Len(left) = half /\ \A k \in 1..half : left[k] = k /\ right[k] = n + 1 - k
  BY <1>4
<1> HIDE DEF t, left, right
<1>7. Swappable(1..m, half, left, right)
  <2>1. ASSUME NEW k \in 1..half PROVE left[k] \in 1..m /\ right[k] \in 1..m /\ left[k] # right[k]
    <3>1. k \in 1..m /\ n + 1 - k \in 1..m /\ k # n + 1 - k
      BY <1>1, <1>4
    <3> QED BY <1>6, <3>1
  <2>2. ASSUME NEW k \in 1..half, NEW j \in 1..k - 1
        PROVE  /\ left[j] # left[k] /\ left[j] # right[k]
               /\ right[j] # left[k] /\ right[j] # right[k]
    <3>1. /\ j \in 1..half /\ j # k /\ j # n + 1 - k /\ n + 1 - j # k /\ n + 1 - j # n + 1 - k
      BY <1>1, <1>4
    <3> QED BY <1>6, <3>1
  <2> QED BY <1>6, <2>1, <2>2 DEF Swappable
<1>8. Swapped(1..m, Slot, half, left, right, l.data, b)
  BY <1>3, <1>4, <1>7, SwapsExchange
<1>9. /\ b \in [1..m -> Slot]
      /\ \A k \in 1..half : b[left[k]] = l.data[right[k]] /\ b[right[k]] = l.data[left[k]]
      /\ \A u \in 1..m : (\A k \in 1..half : left[k] # u /\ right[k] # u) => b[u] = l.data[u]
  BY <1>8 DEF Swapped
<1> HIDE DEF b
<1>10. ASSUME NEW p \in 1..n PROVE b[p] = t[p]
  <2> DEFINE q == n + 1 - p
  <2>1. /\ q \in 1..n /\ p \in 1..m /\ p - 1 \in 0..n - 1 /\ (p - 1) + 1 = p /\ n - (p - 1) = q
        /\ n + 1 - q = p
    BY <1>1
  <2> HIDE DEF q
  <2>2. t[p] = s[q] /\ s[q] = l.data[q]
    <3>1. t[(p - 1) + 1] = s[n - (p - 1)]
      BY <1>5, <2>1
    <3> QED BY <1>1, <2>1, <3>1
  <2>3. CASE p <= half
    <3>1. p \in 1..half
      BY <2>3, <1>4
    <3> QED BY <1>6, <1>9, <2>2, <3>1 DEF q
  <2>4. CASE q <= half
    <3>1. q \in 1..half
      BY <2>1, <2>4, <1>4
    <3>2. left[q] = q /\ right[q] = p /\ b[right[q]] = l.data[left[q]]
      BY <1>6, <1>9, <2>1, <3>1
    <3> QED BY <2>2, <3>2
  <2>5. CASE ~(p <= half) /\ ~(q <= half)
    <3>1. p = q
      BY <1>1, <1>4, <2>5 DEF q
    <3>2. ASSUME NEW k \in 1..half PROVE left[k] # p /\ right[k] # p
      <4>1. k # p /\ n + 1 - k # p
        BY <1>1, <1>4, <2>5 DEF q
      <4> QED BY <1>6, <4>1
    <3>3. b[p] = l.data[p]
      BY <1>9, <2>1, <3>2
    <3> QED BY <2>2, <3>1, <3>3
  <2> QED BY <2>3, <2>4, <2>5
<1>11. b \in Seq(Slot) /\ Len(b) = m
  BY <1>1, <1>9, FunSeq
<1>12. n \in 0..m
  BY <1>1
<1>13. Shows(b, n, t)
  BY <1>5, <1>10, <1>11, <1>12 DEF Shows
<1> QED BY <1>2, <1>13, WindowShows DEF t, s

LEMMA ExtendedIs ==
  ASSUME NEW l, BufferOK(l), NEW other \in Seq(Values)
  PROVE  BufferOK(Extended(l, other)) /\ Contents(Extended(l, other)) = Contents(l) \o other
<1> DEFINE n == l.len
           k == Len(other)
           s == Contents(l)
           t == s \o other
           blank == IF l.data = <<>> THEN Zero ELSE Junk
           room == WithRoom(l.data, n + k, blank)
           filled == [p \in DOMAIN room |-> IF p \in n + 1..n + k THEN other[p - n] ELSE room[p]]
<1>1. /\ l.data \in Seq(Slot) /\ n \in Nat /\ n <= Len(l.data) /\ Len(l.data) \in Nat
      /\ s \in Seq(Values) /\ Len(s) = n /\ \A p \in 1..n : s[p] = l.data[p]
  BY ContentsAre
<1>2. Extended(l, other) = IF other = <<>> THEN l ELSE Window(filled, n + k)
  BY DEF Extended
<1>3. k \in Nat
  BY LenProperties
<1>4. /\ t \in Seq(Values) /\ Len(t) = n + k
      /\ \A p \in 1..n + k : t[p] = IF p <= n THEN s[p] ELSE other[p - n]
  <2>1. s \in Seq(Values) /\ Len(s) = n
    BY <1>1
  <2> HIDE DEF s, n, blank, room, filled
  <2> QED BY <2>1, ConcatProperties
<1>5. CASE other = <<>>
  BY <1>1, <1>2, <1>5, ConcatEmptySeq
<1>6. CASE other # <<>>
  <2>1. blank \in Slot
    BY DEF Slot
  <2> HIDE DEF n, k, s, t, blank
  <2>2. n + k \in Nat
    BY <1>1, <1>3
  <2>3. /\ room \in [1..Len(room) -> Slot] /\ Len(room) \in Nat /\ Len(room) >= n + k
        /\ \A p \in 1..Len(l.data) : room[p] = l.data[p]
    BY <1>1, <2>1, <2>2, RoomIs
  <2> HIDE DEF room
  <2> DEFINE m == Len(room)
  <2>4. ASSUME NEW p \in n + 1..n + k PROVE other[p - n] \in Slot
    <3>1. p - n \in 1..Len(other)
      BY <1>1, <1>3 DEF k
    <3> QED BY <3>1, ElementOfSeq DEF Slot
  <2>5. filled \in [1..m -> Slot]
    BY <2>3, <2>4
  <2>6. filled \in Seq(Slot) /\ Len(filled) = m
    <3> HIDE DEF filled
    <3> QED BY <2>3, <2>5, FunSeq
  <2>7. ASSUME NEW p \in 1..n + k PROVE filled[p] = t[p]
    <3>1. p \in 1..m /\ (p <= n => p \in 1..n /\ p \in 1..Len(l.data)) /\ (p <= n <=> ~(p \in n + 1..n + k))
      BY <1>1, <1>3, <2>3
    <3>2. filled[p] = IF p \in n + 1..n + k THEN other[p - n] ELSE room[p]
      BY <2>3, <3>1
    <3> HIDE DEF filled
    <3> QED BY <1>1, <1>4, <2>3, <3>1, <3>2
  <2> HIDE DEF filled
  <2>8. n + k \in 0..m
    BY <2>2, <2>3
  <2>9. Shows(filled, n + k, t)
    BY <1>4, <2>6, <2>7, <2>8 DEF Shows
  <2> QED BY <1>2, <1>6, <2>9, WindowShows DEF t, s, k
<1> QED BY <1>5, <1>6

LEMMA ClearedIs ==
  ASSUME NEW l, BufferOK(l)
  PROVE  BufferOK(Clear(l).list) /\ Contents(Clear(l).list) = <<>> /\ Clear(l).answer = None
<1> DEFINE b == [p \in DOMAIN l.data |-> IF p <= l.len THEN Zero ELSE l.data[p]]
           m == Len(l.data)
<1>1. l.data \in [1..m -> Slot] /\ m \in Nat /\ DOMAIN l.data = 1..m
  BY ContentsAre, LenProperties
<1>2. b \in [1..m -> Slot]
  BY <1>1 DEF Slot
<1>3. Clear(l) = Done(Window(b, 0))
  BY DEF Clear
<1> HIDE DEF b, m
<1>4. b \in Seq(Slot) /\ Len(b) = m
  BY <1>1, <1>2, FunSeq
<1>5. <<>> \in Seq(Values) /\ Len(<<>>) = 0
  BY EmptySeq
<1>6. Shows(b, 0, <<>>)
  BY <1>1, <1>4, <1>5 DEF Shows
<1> QED BY <1>3, <1>6, WindowShows DEF Done

LEMMA SetIs ==
  ASSUME NEW l, BufferOK(l), NEW p \in 1..l.len, NEW v \in Values
  PROVE  LET e == Window([l.data EXCEPT ![p] = v], l.len)
         IN  BufferOK(e) /\ Contents(e) = [Contents(l) EXCEPT ![p] = v]
<1> DEFINE n == l.len
           m == Len(l.data)
           s == Contents(l)
           t == [s EXCEPT ![p] = v]
           b == [l.data EXCEPT ![p] = v]
<1>1. /\ l.data \in [1..m -> Slot] /\ m \in Nat /\ n \in Nat /\ n <= m
      /\ s \in [1..n -> Values] /\ \A i \in 1..n : s[i] = l.data[i]
  BY ContentsAre, LenProperties
<1> HIDE DEF n, m, s
<1>2. p \in 1..n /\ p \in 1..m /\ v \in Slot
  BY <1>1 DEF n, Slot
<1>3. b \in [1..m -> Slot] /\ \A i \in 1..m : b[i] = IF i = p THEN v ELSE l.data[i]
  BY <1>1, <1>2
<1>4. t \in [1..n -> Values] /\ \A i \in 1..n : t[i] = IF i = p THEN v ELSE s[i]
  BY <1>1, <1>2
<1> HIDE DEF b, t
<1>5. b \in Seq(Slot) /\ Len(b) = m /\ t \in Seq(Values) /\ Len(t) = n
  BY <1>1, <1>3, <1>4, FunSeq
<1>6. \A i \in 1..n : b[i] = t[i]
  <2>1. \A i \in 1..n : i \in 1..m
    BY <1>1
  <2> QED BY <1>1, <1>3, <1>4, <2>1
<1>7. n \in 0..m
  BY <1>1
<1>8. Shows(b, n, t)
  BY <1>5, <1>6, <1>7 DEF Shows
<1> QED BY <1>8, WindowShows DEF b, t, s, n

(* repeat: the items over and over, as n concatenations leave them.          *)
TimesStep(s, k, f) == IF k = 0 THEN <<>> ELSE f[k - 1] \o s
LEMMA TimesIs ==
  ASSUME NEW s \in Seq(Values), NEW n \in Nat \ {0}
  PROVE  /\ Python!Times(s, n) \in Seq(Values) /\ Len(Python!Times(s, n)) = n * Len(s)
         /\ \A p \in 1..n * Len(s) : Python!Times(s, n)[p] = s[((p - 1) % Len(s)) + 1]
<1> DEFINE c == Len(s)
           S == Seq(Values)
           F == [p \in (1..n) \X S |-> p[2] \o s]
           h == CHOOSE f : f = [k \in 0..n |-> TimesStep(s, k, f)]
           P(k, f) == /\ f \in Seq(Values) /\ Len(f) = k * c
                      /\ \A p \in 1..k * c : f[p] = s[((p - 1) % c) + 1]
<1>0. c \in Nat
  BY LenProperties
<1>1. Python!Times(s, n) = h[n]
  <2>1. ~(n <= 0)
    OBVIOUS
  <2> QED BY <2>1 DEF Python!Times, TimesStep
<1> HIDE DEF c
<1>2. F \in [(1..n) \X S -> S]
  BY ConcatProperties
<1>3. PICK g \in [0..n -> S] : IsLoop(F, <<>>, n, g)
  <2> HIDE DEF F
  <2>1. <<>> \in S /\ n \in Nat
    BY EmptySeq
  <2> HIDE DEF S
  <2> QED BY <1>2, <2>1, LoopExists
<1>4. g = [k \in 0..n |-> TimesStep(s, k, g)]
  <2> SUFFICES ASSUME NEW k \in 0..n PROVE LoopStep(F, <<>>, k, g) = TimesStep(s, k, g)
    BY <1>3 DEF IsLoop
  <2>1. k # 0 => k \in 1..n /\ g[k - 1] \in S
    OBVIOUS
  <2> HIDE DEF S
  <2> QED BY <2>1 DEF LoopStep, TimesStep
<1> HIDE DEF S
<1>5. h = [k \in 0..n |-> TimesStep(s, k, h)]
  BY <1>4
<1> HIDE DEF h, F
<1>6. P(0, h[0])
  <2>1. h[0] = <<>>
    BY <1>5 DEF TimesStep
  <2>2. 0 * c = 0
    BY <1>0
  <2> QED BY <2>1, <2>2, EmptySeq
<1>7. ASSUME NEW k \in 0..n - 1, P(k, h[k]) PROVE P(k + 1, h[k + 1])
  <2> DEFINE f == h[k]
             e == h[k + 1]
             w == k * c
  <2>1. e = f \o s
    <3>1. k + 1 \in 0..n /\ k + 1 # 0 /\ (k + 1) - 1 = k
      OBVIOUS
    <3> QED BY <1>5, <3>1 DEF TimesStep
  <2>2. w \in Nat /\ (k + 1) * c = w + c /\ w = c * k
    BY <1>0
  <2>3. f \in Seq(Values) /\ Len(f) = w /\ \A p \in 1..w : f[p] = s[((p - 1) % c) + 1]
    BY <1>7
  <2> HIDE DEF f, e
  <2>4. e \in Seq(Values) /\ Len(e) = w + c /\ \A p \in 1..w + c : e[p] = IF p <= w THEN f[p] ELSE s[p - w]
    <3> HIDE DEF w
    <3> QED BY <2>1, <2>3, ConcatProperties DEF c
  <2>5. ASSUME NEW p \in 1..w + c PROVE e[p] = s[((p - 1) % c) + 1]
    <3>1. CASE p <= w
      <4>1. p \in 1..w
        BY <2>2, <3>1
      <4> QED BY <2>3, <2>4, <3>1, <4>1
    <3>2. CASE ~(p <= w)
      <4> DEFINE r == p - 1 - w
                 x == p - 1
      <4>1. c \in Nat \ {0} /\ r \in 0..c - 1 /\ x \in Int /\ k \in Int
        <5> HIDE DEF w
        <5> QED BY <1>0, <2>2, <3>2
      <4>2. x = c * k + r
        <5>1. x = w + r
          <6> HIDE DEF w
          <6> QED BY <2>2
        <5> QED BY <2>2, <5>1
      <4> HIDE DEF r, x
      <4>3. x % c = r
        BY <4>1, <4>2, ModUnique
      <4>4. r + 1 = p - w
        <5> HIDE DEF w
        <5> QED BY <2>2 DEF r
      <4> QED BY <2>4, <3>2, <4>3, <4>4 DEF x
    <3> QED BY <3>1, <3>2
  <2> HIDE DEF w
  <2>6. Len(e) = (k + 1) * c /\ \A p \in 1..(k + 1) * c : e[p] = s[((p - 1) % c) + 1]
    BY <2>2, <2>4, <2>5
  <2> QED BY <2>4, <2>6 DEF e
<1>8. P(n, h[n])
  <2> DEFINE G == {k \in Nat : k <= n => P(k, h[k])}
  <2>1. 0 \in G
    <3> HIDE DEF P
    <3> QED BY <1>6
  <2>2. ASSUME NEW k \in 0..n - 1, k \in G PROVE k + 1 \in G
    <3>1. P(k, h[k])
      <4> HIDE DEF P
      <4> QED BY <2>2
    <3> HIDE DEF P
    <3> QED BY <1>7, <3>1
  <2>3. 0..n \subseteq G
    <3> HIDE DEF G
    <3> QED BY <2>1, <2>2, UpTo
  <2>4. n \in 0..n
    OBVIOUS
  <2> HIDE DEF P
  <2> QED BY <2>3, <2>4
<1> QED BY <1>1, <1>8 DEF c

LEMMA RepeatedIs ==
  ASSUME NEW l, BufferOK(l), NEW n \in Int
  PROVE  /\ BufferOK(Repeated(l, n))
         /\ Contents(Repeated(l, n)) = Python!Times(Contents(l), n)
<1> DEFINE s == Contents(l)
           c == l.len
           t == Python!Times(s, n)
           r == [p \in 1..n * c |-> l.data[((p - 1) % c) + 1]]
<1>1. c \in Nat /\ s \in Seq(Values) /\ Len(s) = c /\ \A p \in 1..c : s[p] = l.data[p]
  BY ContentsAre
<1>2. Repeated(l, n) = Fresh(IF n <= 0 THEN <<>> ELSE r)
  BY DEF Repeated
<1>3. CASE n <= 0
  <2>1. t = <<>>
    BY <1>3 DEF Python!Times
  <2>2. <<>> \in Seq(Values)
    BY EmptySeq
  <2> QED BY <1>2, <1>3, <2>1, <2>2, FreshIs
<1>4. CASE ~(n <= 0)
  <2> HIDE DEF s
  <2> DEFINE w == n * c
  <2>1. n \in Nat \ {0} /\ w \in Nat
    BY <1>1, <1>4
  <2>2. t \in Seq(Values) /\ Len(t) = w /\ \A p \in 1..w : t[p] = s[((p - 1) % c) + 1]
    <3>1. Len(s) = c /\ s \in Seq(Values)
      BY <1>1
    <3> HIDE DEF r, c, w
    <3>2. t \in Seq(Values) /\ Len(t) = n * Len(s)
          /\ \A p \in 1..n * Len(s) : t[p] = s[((p - 1) % Len(s)) + 1]
      BY <2>1, <3>1, TimesIs
    <3> QED BY <3>1, <3>2, Zenon DEF w
  <2>3. ASSUME NEW p \in 1..w PROVE l.data[((p - 1) % c) + 1] = t[p] /\ t[p] \in Values
    <3>1. c # 0
      <4> SUFFICES ASSUME c = 0 PROVE FALSE
        OBVIOUS
      <4>1. w = 0
        BY <2>1
      <4> QED BY <4>1
    <3>2. ((p - 1) % c) + 1 \in 1..c
      <4> HIDE DEF w, c
      <4>1. p - 1 \in Int /\ c \in Nat \ {0}
        BY <1>1, <2>1, <3>1
      <4>2. (p - 1) % c \in 0..c - 1
        BY <4>1
      <4> QED BY <1>1, <4>2
    <3> HIDE DEF w, c, t
    <3>3. t[p] = s[((p - 1) % c) + 1] /\ t[p] \in Values
      BY <2>2, ElementOfSeq
    <3> QED BY <1>1, <3>2, <3>3
  <2> HIDE DEF t
  <2>4. r = [p \in 1..w |-> l.data[((p - 1) % c) + 1]]
    OBVIOUS
  <2> HIDE DEF w, r
  <2>5. r \in [1..w -> Values] /\ \A p \in 1..w : r[p] = t[p]
    BY <2>3, <2>4
  <2>6. r \in Seq(Values) /\ Len(r) = w
    BY <2>1, <2>5, FunSeq
  <2>7. r = t
    BY <2>2, <2>5, <2>6, SeqEqual
  <2> QED BY <1>2, <1>4, <2>2, <2>7, FreshIs DEF t, s
<1> QED BY <1>3, <1>4

(* Positions: an index, where an insertion goes, the first of a value.       *)
LEMMA CardSame == ASSUME NEW S PROVE Python!Cardinality(S) = Cardinality(S)
BY DEF Cardinality, Python!Cardinality

LEMMA MinIs ==
  ASSUME NEW S, NEW x \in S, S \subseteq Int, \A y \in S : x <= y
  PROVE  Min(S) = x /\ Python!Min(S) = x
<1>1. \A z \in S : (\A y \in S : z <= y) => z = x
  OBVIOUS
<1> QED BY <1>1 DEF Min, Python!Min

LEMMA MinMaxOf ==
  ASSUME NEW a \in Int, NEW b \in Int
  PROVE  /\ Min({a, b}) = (IF a <= b THEN a ELSE b)
         /\ Python!Min({a, b}) = (IF a <= b THEN a ELSE b)
         /\ Max({a, b}) = (IF a >= b THEN a ELSE b)
         /\ Python!Max({a, b}) = (IF a >= b THEN a ELSE b)
<1>1. /\ Min({a, b}) = (IF a <= b THEN a ELSE b)
      /\ Python!Min({a, b}) = (IF a <= b THEN a ELSE b)
  <2>1. CASE a <= b
    BY <2>1 DEF Min, Python!Min
  <2>2. CASE ~(a <= b)
    BY <2>2 DEF Min, Python!Min
  <2> QED BY <2>1, <2>2
<1>2. /\ Max({a, b}) = (IF a >= b THEN a ELSE b)
      /\ Python!Max({a, b}) = (IF a >= b THEN a ELSE b)
  <2>1. CASE a >= b
    BY <2>1 DEF Max, Python!Max
  <2>2. CASE ~(a >= b)
    BY <2>2 DEF Max, Python!Max
  <2> QED BY <2>1, <2>2
<1> QED BY <1>1, <1>2

LEMMA ActualIs ==
  ASSUME NEW l, BufferOK(l), NEW i \in Int
  PROVE  LET s == Contents(l)
         IN  /\ Actual(l, i) = -1 => Python!Position(s, i) = 0
             /\ Actual(l, i) # -1 => /\ Actual(l, i) \in 0..l.len - 1
                                     /\ Python!Position(s, i) = Actual(l, i) + 1
<1> DEFINE n == l.len
           s == Contents(l)
           at == IF i < 0 THEN n + i ELSE i
<1>1. n \in Nat /\ Len(s) = n
  BY ContentsAre
<1>2. Actual(l, i) = IF at < 0 \/ at >= n THEN -1 ELSE at
  BY DEF Actual
<1>3. Python!Position(s, i) = IF i < -n \/ i >= n THEN 0 ELSE (i % n) + 1
  BY <1>1 DEF Python!Position
<1> HIDE DEF s, n
<1>4. at \in Int /\ (at < 0 \/ at >= n <=> i < -n \/ i >= n)
  BY <1>1
<1>5. ASSUME ~(i < -n \/ i >= n) PROVE i % n = at /\ at \in 0..n - 1
  <2>1. n \in Nat \ {0} /\ -n <= i /\ i < 2 * n
    BY <1>1, <1>5
  <2>2. i % n = IF i < 0 THEN i + n ELSE IF i < n THEN i ELSE i - n
    BY <2>1, Wrap
  <2> QED BY <1>1, <1>5, <2>2
<1> HIDE DEF at
<1> QED BY <1>1, <1>2, <1>3, <1>4, <1>5 DEF s, n

LEMMA FindIs ==
  ASSUME NEW l, BufferOK(l), NEW v
  PROVE  LET s == Contents(l)
         IN  /\ Find(l, v) = l.len => Python!At(s, v) = {}
             /\ Find(l, v) # l.len => /\ Find(l, v) \in 0..l.len - 1 /\ Python!At(s, v) # {}
                                      /\ Python!Min(Python!At(s, v)) = Find(l, v) + 1
<1> DEFINE n == l.len
           s == Contents(l)
           T == {i \in 0..n - 1 : l.data[i + 1] = v}
           U == T \cup {n}
           A == Python!At(s, v)
<1>1. n \in Nat /\ DOMAIN s = 1..n /\ \A i \in 1..n : s[i] = l.data[i]
  BY ContentsAre, LenProperties
<1>2. Find(l, v) = Min(U)
  BY DEF Find
<1>3. ASSUME NEW i \in Int PROVE i \in T <=> i + 1 \in A
  <2>1. i \in 0..n - 1 <=> i + 1 \in 1..n
    BY <1>1
  <2>2. A = {p \in 1..n : s[p] = v}
    BY <1>1 DEF Python!At
  <2> HIDE DEF A, s, n
  <2> QED BY <1>1, <2>1, <2>2
<1>4. A \subseteq 1..n /\ T \subseteq 0..n - 1
  BY <1>1 DEF Python!At
<1> HIDE DEF A, T, s, n
<1>5. CASE T = {}
  <2>1. Min(U) = n
    <3>1. n \in U /\ U \subseteq Int /\ \A y \in U : n <= y
      BY <1>1, <1>5
    <3> HIDE DEF U
    <3> QED BY <3>1, MinIs
  <2>2. A = {}
    <3> SUFFICES ASSUME NEW p \in A PROVE FALSE
      OBVIOUS
    <3>1. p - 1 \in Int /\ (p - 1) + 1 = p
      BY <1>1, <1>4
    <3> QED BY <1>3, <1>5, <3>1
  <2> QED BY <1>2, <2>1, <2>2 DEF A, s, n
<1>6. CASE T # {}
  <2>1. PICK x \in T : \A y \in T : x <= y
    <3>1. T \subseteq Nat
      BY <1>1, <1>4
    <3> QED BY <1>6, <3>1, NatMin
  <2>2. x \in 0..n - 1 /\ x \in U /\ U \subseteq Int /\ \A y \in U : x <= y
    BY <1>1, <1>4, <2>1
  <2>3. Min(U) = x /\ x # n
    <3> HIDE DEF U
    <3>1. Min(U) = x
      BY <2>2, MinIs
    <3> QED BY <1>1, <2>2, <3>1
  <2>4. x + 1 \in A /\ A \subseteq Int /\ \A p \in A : x + 1 <= p
    <3>1. ASSUME NEW p \in A PROVE x + 1 <= p
      <4>1. p - 1 \in Int /\ (p - 1) + 1 = p /\ p \in Int
        BY <1>1, <1>4
      <4>2. x <= p - 1
        BY <1>3, <2>1, <4>1
      <4> QED BY <2>2, <4>1, <4>2
    <3>2. x \in Int
      BY <2>2
    <3> QED BY <1>1, <1>3, <1>4, <2>1, <3>1, <3>2
  <2>5. Python!Min(A) = x + 1
    BY <2>4, MinIs
  <2> QED BY <1>2, <2>2, <2>3, <2>4, <2>5 DEF A, s, n
<1> QED BY <1>5, <1>6

(* Slices.  A set of positions has one enumeration in the direction of a step. *)
Before(step, a, b) == IF step > 0 THEN a < b ELSE b < a
Enumerates(q, m, at, step) ==
  /\ q \in [1..m -> at] /\ \A x \in at : \E k \in 1..m : q[k] = x
  /\ \A i, j \in 1..m : i < j => Before(step, q[i], q[j])

LEMMA SameUpTo ==
  ASSUME NEW at, at \subseteq Int, NEW m \in Nat, NEW step \in Int, NEW q, NEW r,
         Enumerates(q, m, at, step), Enumerates(r, m, at, step),
         NEW i \in 1..m, \A j \in 1..i - 1 : q[j] = r[j]
  PROVE  ~Before(step, q[i], r[i])
<1> SUFFICES ASSUME Before(step, q[i], r[i]) PROVE FALSE
  OBVIOUS
<1>1. /\ q \in [1..m -> at] /\ r \in [1..m -> at]
      /\ \A k, j \in 1..m : k < j => Before(step, q[k], q[j]) /\ Before(step, r[k], r[j])
      /\ \A x \in at : \E k \in 1..m : r[k] = x
  BY DEF Enumerates
<1>2. q[i] \in at /\ r[i] \in at /\ q[i] \in Int /\ r[i] \in Int
  BY <1>1
<1>3. PICK j \in 1..m : r[j] = q[i]
  BY <1>1, <1>2
<1>4. j < i \/ j = i \/ i < j
  OBVIOUS
<1>5. CASE j < i
  <2>1. q[j] = r[j] /\ Before(step, q[j], q[i])
    BY <1>1, <1>5
  <2> QED BY <1>2, <1>3, <2>1 DEF Before
<1>6. CASE j = i
  BY <1>2, <1>3, <1>6 DEF Before
<1>7. CASE i < j
  <2>1. Before(step, r[i], r[j])
    BY <1>1, <1>7
  <2> QED BY <1>2, <1>3, <2>1 DEF Before
<1> QED BY <1>4, <1>5, <1>6, <1>7

LEMMA OneEnumeration ==
  ASSUME NEW at, at \subseteq Int, NEW m \in Nat, NEW step \in Int, NEW q, NEW r,
         Enumerates(q, m, at, step), Enumerates(r, m, at, step)
  PROVE  q = r
<1>1. q \in [1..m -> at] /\ r \in [1..m -> at]
  BY DEF Enumerates
<1> DEFINE T == {i \in 1..m : q[i] # r[i]}
<1>2. T = {}
  <2> SUFFICES ASSUME T # {} PROVE FALSE
    OBVIOUS
  <2>1. PICK i \in T : \A y \in T : i <= y
    <3>1. T \subseteq Nat
      OBVIOUS
    <3> HIDE DEF T
    <3> QED BY <3>1, NatMin
  <2>2. \A j \in 1..i - 1 : q[j] = r[j] /\ r[j] = q[j]
    <3> SUFFICES ASSUME NEW j \in 1..i - 1 PROVE q[j] = r[j]
      OBVIOUS
    <3>1. j \in 1..m /\ ~(i <= j)
      BY <2>1
    <3> QED BY <2>1, <3>1
  <2>3. i \in 1..m /\ q[i] # r[i]
    BY <2>1
  <2>4. ~Before(step, q[i], r[i]) /\ ~Before(step, r[i], q[i])
    <3>1. ~Before(step, q[i], r[i])
      BY <2>2, <2>3, SameUpTo
    <3>2. ~Before(step, r[i], q[i])
      BY <2>2, <2>3, SameUpTo
    <3> QED BY <3>1, <3>2
  <2>5. q[i] \in Int /\ r[i] \in Int
    BY <1>1, <2>3
  <2> QED BY <2>3, <2>4, <2>5 DEF Before
<1> QED BY <1>1, <1>2

LEMMA OrderedIs ==
  ASSUME NEW at, at \subseteq Int, NEW m \in Nat, NEW step \in Int, NEW q,
         Enumerates(q, m, at, step)
  PROVE  Python!Ordered(at, step) = q
<1>1. /\ q \in [1..m -> at] /\ \A x \in at : \E k \in 1..m : q[k] = x
      /\ \A i, j \in 1..m : i < j => Before(step, q[i], q[j])
  BY DEF Enumerates
<1>2. Python!Cardinality(at) = m
  <2>1. q \in Injection(1..m, at)
    <3>1. ASSUME NEW i \in 1..m, NEW j \in 1..m, q[i] = q[j] PROVE i = j
      <4>1. q[i] \in Int /\ q[j] \in Int
        BY <1>1
      <4>2. ~(i < j) /\ ~(j < i)
        BY <1>1, <3>1, <4>1 DEF Before
      <4> QED BY <4>2
    <3> QED BY <1>1, <3>1 DEF Injection, IsInjective
  <2>2. q \in Surjection(1..m, at)
    BY <1>1 DEF Surjection
  <2>3. ExistsBijection(1..m, at)
    BY <2>1, <2>2 DEF ExistsBijection, Bijection
  <2> QED BY <2>3, FS_CountingElements, CardSame
<1> DEFINE Is(r) == /\ Python!Range(r) = at
                    /\ \A i, j \in DOMAIN r : i < j => IF step > 0 THEN r[i] < r[j] ELSE r[j] < r[i]
<1>3. Python!Ordered(at, step) = CHOOSE r \in [1..m -> at] : Is(r)
  BY <1>2 DEF Python!Ordered
<1>4. Is(q)
  <2>1. Python!Range(q) = at
    BY <1>1 DEF Python!Range
  <2> QED BY <1>1, <2>1 DEF Before
<1>5. ASSUME NEW r \in [1..m -> at], Is(r) PROVE r = q
  <2>1. \A x \in at : \E k \in 1..m : r[k] = x
    BY <1>5 DEF Python!Range
  <2>2. \A i, j \in 1..m : i < j => Before(step, r[i], r[j])
    BY <1>5 DEF Before
  <2>3. Enumerates(r, m, at, step)
    BY <2>1, <2>2 DEF Enumerates
  <2> QED BY <2>3, OneEnumeration
<1> HIDE DEF Is
<1> QED BY <1>1, <1>3, <1>4, <1>5

LEMMA ClampIs ==
  ASSUME NEW n \in Nat, NEW s, Len(s) = n, NEW x \in Int, NEW step \in Int
  PROVE  LET lo == IF step > 0 THEN 0 ELSE -1
             hi == IF step > 0 THEN n ELSE n - 1
             y == IF x < 0 THEN x + n ELSE x
         IN  Python!Clamped(s, x, step) = IF y < lo THEN lo ELSE IF y > hi THEN hi ELSE y
<1> DEFINE lo == IF step > 0 THEN 0 ELSE -1
           hi == IF step > 0 THEN n ELSE n - 1
           y == IF x < 0 THEN x + n ELSE x
           a == Python!Min({hi, y})
<1>1. Python!Low(step) = lo /\ Python!High(s, step) = hi
  BY DEF Python!Low, Python!High
<1>2. Python!Clamped(s, x, step) = Python!Max({lo, a})
  BY <1>1 DEF Python!Clamped
<1>3. lo \in Int /\ hi \in Int /\ y \in Int /\ lo <= hi
  OBVIOUS
<1> HIDE DEF lo, hi, y, a
<1>4. a = IF hi <= y THEN hi ELSE y
  BY <1>3, MinMaxOf DEF a
<1>5. Python!Max({lo, a}) = IF lo >= a THEN lo ELSE a
  <2>1. a \in Int
    BY <1>3, <1>4
  <2> QED BY <1>3, <2>1, MinMaxOf
<1>6. Python!Clamped(s, x, step) = IF y < lo THEN lo ELSE IF y > hi THEN hi ELSE y
  BY <1>2, <1>3, <1>4, <1>5
<1> QED BY <1>6 DEF lo, hi, y

LEMMA CodeClamps ==
  ASSUME NEW n \in Nat, NEW x \in Int, NEW default, NEW last \in Int
  PROVE  /\ x # Omitted => PositiveBound(x, n, default) =
              IF x < 0 THEN IF n + x >= 0 THEN n + x ELSE 0 ELSE IF x <= n THEN x ELSE n
         /\ x # Omitted => NegativeBound(x, n, default, last) =
              IF x < 0 THEN IF n + x >= -1 THEN n + x ELSE -1 ELSE IF x <= last THEN x ELSE last
<1> DEFINE y == n + x
           z == 0
           m == -1
<1>1. y \in Int /\ z \in Int /\ m \in Int
  OBVIOUS
<1>2. /\ x # Omitted => PositiveBound(x, n, default) = IF x < 0 THEN Max({y, z}) ELSE Min({x, n})
      /\ x # Omitted => NegativeBound(x, n, default, last) = IF x < 0 THEN Max({y, m}) ELSE Min({x, last})
  BY DEF PositiveBound, NegativeBound
<1> HIDE DEF y, z, m
<1>3. /\ Max({y, z}) = (IF y >= z THEN y ELSE z) /\ Max({y, m}) = (IF y >= m THEN y ELSE m)
      /\ Min({x, n}) = (IF x <= n THEN x ELSE n) /\ Min({x, last}) = (IF x <= last THEN x ELSE last)
  <2>1. Max({y, z}) = (IF y >= z THEN y ELSE z) /\ Max({y, m}) = (IF y >= m THEN y ELSE m)
    BY <1>1, MinMaxOf
  <2>2. Min({x, n}) = (IF x <= n THEN x ELSE n) /\ Min({x, last}) = (IF x <= last THEN x ELSE last)
    BY MinMaxOf
  <2> QED BY <2>1, <2>2
<1> QED BY <1>2, <1>3 DEF y, z, m

(* The slice bounds of the code are those of slice.indices(), but for a stop  *)
(* past the end of a slice that goes backwards: both then select nothing.    *)
IsBound(x) == x # Omitted => x \in Int
SameBounds(b, f, e, n, step) ==
  /\ b[1] = f /\ b[2] \in Int
  /\ step > 0 => b[2] = e /\ f \in 0..n /\ e \in 0..n
  /\ ~(step > 0) => /\ f \in -1..n - 1 /\ e \in -1..n - 1
                    /\ b[2] = e \/ (b[2] = n /\ e = n - 1)
LEMMA BoundsAre ==
  ASSUME NEW n \in Nat, NEW s, Len(s) = n, NEW start, IsBound(start), NEW stop, IsBound(stop),
         NEW step \in Int
  PROVE  SameBounds(NormalizeSlice(start, stop, n, step), Python!First(s, start, step),
                    Python!Past(s, stop, step), n, step)
<1> DEFINE b == NormalizeSlice(start, stop, n, step)
           f == Python!First(s, start, step)
           e == Python!Past(s, stop, step)
<1>1. ASSUME NEW x \in Int, x # Omitted, step > 0
      PROVE  /\ Python!Clamped(s, x, step) = PositiveBound(x, n, 0)
             /\ Python!Clamped(s, x, step) = PositiveBound(x, n, n)
             /\ Python!Clamped(s, x, step) \in 0..n
  <2> DEFINE y == IF x < 0 THEN x + n ELSE x
             c == IF y < 0 THEN 0 ELSE IF y > n THEN n ELSE y
             d == IF x < 0 THEN IF n + x >= 0 THEN n + x ELSE 0 ELSE IF x <= n THEN x ELSE n
  <2>1. Python!Clamped(s, x, step) = c
    BY <1>1, ClampIs
  <2>2. PositiveBound(x, n, 0) = d
    BY <1>1, CodeClamps
  <2>3. PositiveBound(x, n, n) = d
    BY <1>1, CodeClamps
  <2>4. c = d /\ c \in 0..n
    OBVIOUS
  <2> QED BY <2>1, <2>2, <2>3, <2>4
<1>2. ASSUME NEW x \in Int, x # Omitted, ~(step > 0)
      PROVE  /\ Python!Clamped(s, x, step) = NegativeBound(x, n, n - 1, n - 1)
             /\ Python!Clamped(s, x, step) \in -1..n - 1
             /\ LET w == NegativeBound(x, n, -1, n) IN
                w = Python!Clamped(s, x, step) \/ (w = n /\ Python!Clamped(s, x, step) = n - 1)
  <2> DEFINE y == IF x < 0 THEN x + n ELSE x
             c == IF y < -1 THEN -1 ELSE IF y > n - 1 THEN n - 1 ELSE y
             d(last) == IF x < 0 THEN IF n + x >= -1 THEN n + x ELSE -1
                        ELSE IF x <= last THEN x ELSE last
  <2>1. Python!Clamped(s, x, step) = c
    BY <1>2, ClampIs
  <2>2. NegativeBound(x, n, n - 1, n - 1) = d(n - 1)
    BY <1>2, CodeClamps
  <2>3. NegativeBound(x, n, -1, n) = d(n)
    BY <1>2, CodeClamps
  <2>4. c = d(n - 1) /\ c \in -1..n - 1
    OBVIOUS
  <2>5. d(n) = c \/ (d(n) = n /\ c = n - 1)
    OBVIOUS
  <2> HIDE DEF c, d
  <2> QED BY <2>1, <2>2, <2>3, <2>4, <2>5
<1>3. CASE step > 0
  <2>1. b = <<PositiveBound(start, n, 0), PositiveBound(stop, n, n)>>
    BY <1>3 DEF NormalizeSlice
  <2>2. b[1] = PositiveBound(start, n, 0) /\ b[2] = PositiveBound(stop, n, n)
    BY <2>1
  <2>3. /\ f = IF start # Omitted THEN Python!Clamped(s, start, step) ELSE 0
        /\ e = IF stop # Omitted THEN Python!Clamped(s, stop, step) ELSE n
    BY <1>3 DEF Python!First, Python!Past, Python!Low, Python!High
  <2> HIDE DEF b, f, e
  <2>4. f = PositiveBound(start, n, 0) /\ f \in 0..n
    <3>1. CASE start = Omitted
      BY <2>3, <3>1 DEF PositiveBound
    <3>2. CASE start # Omitted
      BY <1>1, <1>3, <2>3, <3>2 DEF IsBound
    <3> QED BY <3>1, <3>2
  <2>5. e = PositiveBound(stop, n, n) /\ e \in 0..n
    <3>1. CASE stop = Omitted
      BY <2>3, <3>1 DEF PositiveBound
    <3>2. CASE stop # Omitted
      BY <1>1, <1>3, <2>3, <3>2 DEF IsBound
    <3> QED BY <3>1, <3>2
  <2> QED BY <1>3, <2>2, <2>4, <2>5 DEF b, f, e, SameBounds
<1>4. CASE ~(step > 0)
  <2>1. b = <<NegativeBound(start, n, n - 1, n - 1), NegativeBound(stop, n, -1, n)>>
    BY <1>4 DEF NormalizeSlice
  <2>2. b[1] = NegativeBound(start, n, n - 1, n - 1) /\ b[2] = NegativeBound(stop, n, -1, n)
    BY <2>1
  <2>3. /\ f = IF start # Omitted THEN Python!Clamped(s, start, step) ELSE n - 1
        /\ e = IF stop # Omitted THEN Python!Clamped(s, stop, step) ELSE -1
    BY <1>4 DEF Python!First, Python!Past, Python!Low, Python!High
  <2> HIDE DEF b, f, e
  <2>4. f = NegativeBound(start, n, n - 1, n - 1) /\ f \in -1..n - 1
    <3>1. CASE start = Omitted
      BY <2>3, <3>1 DEF NegativeBound
    <3>2. CASE start # Omitted
      BY <1>2, <1>4, <2>3, <3>2 DEF IsBound
    <3> QED BY <3>1, <3>2
  <2>5. LET w == NegativeBound(stop, n, -1, n) IN
        e \in -1..n - 1 /\ (w = e \/ (w = n /\ e = n - 1))
    <3>1. CASE stop = Omitted
      BY <2>3, <3>1 DEF NegativeBound
    <3>2. CASE stop # Omitted
      BY <1>2, <1>4, <2>3, <3>2 DEF IsBound
    <3> QED BY <3>1, <3>2
  <2>6. b[2] \in Int
    BY <2>2, <2>5
  <2> QED BY <1>4, <2>2, <2>4, <2>5, <2>6 DEF b, f, e, SameBounds
<1> QED BY <1>3, <1>4

(* The turns of a slice: as many as there are multiples of its step below the *)
(* distance between its bounds.                                              *)
LEMMA Quotient ==
  ASSUME NEW by \in Nat \ {0}, NEW away \in Nat \ {0}
  PROVE  LET c == (away + by - 1) \div by
         IN  c \in Nat /\ away <= c * by /\ (c - 1) * by < away
<1> DEFINE x == away + by - 1
           c == x \div by
           r == x % by
           w == c * by
<1>1. x \in Nat /\ c \in Int /\ r \in 0..by - 1 /\ x = by * c + r
  OBVIOUS
<1>2. w \in Int /\ w = by * c /\ (c - 1) * by = w - by
  BY <1>1
<1>3. x = w + r
  BY <1>1, <1>2
<1> HIDE DEF c, r, w
<1>4. away <= w /\ w - by < away
  BY <1>1, <1>2, <1>3
<1>5. c \in Nat
  <2> SUFFICES ASSUME c <= -1 PROVE FALSE
    BY <1>1
  <2>1. by * c <= 0
    BY <1>1
  <2> QED BY <1>2, <1>4, <2>1
<1> QED BY <1>2, <1>4, <1>5 DEF c, w, x

Size(step) == IF step > 0 THEN step ELSE -step
Away(f, e, step) == IF step > 0 THEN e - f ELSE f - e
LEMMA TurnsAre ==
  ASSUME NEW f \in Int, NEW e \in Int, NEW step \in Int, step # 0
  PROVE  LET q == StepIndices(f, e, step)
         IN  /\ Len(q) \in Nat /\ q = [k \in 1..Len(q) |-> f + (k - 1) * step]
             /\ \A m \in Nat : m \in 0..Len(q) - 1 <=> m * Size(step) < Away(f, e, step)
<1> DEFINE away == Away(f, e, step)
           by == Size(step)
           c == (away + by - 1) \div by
           q == StepIndices(f, e, step)
           g(n) == [k \in 1..n |-> f + (k - 1) * step]
<1>1. away \in Int /\ by \in Nat \ {0}
  BY DEF Away, Size
<1>2. q = IF away <= 0 THEN <<>> ELSE g(c)
  BY DEF StepIndices, Away, Size
<1> HIDE DEF q, away, by
<1>3. CASE away <= 0
  <2>1. q = <<>> /\ Len(q) = 0
    BY <1>2, <1>3, EmptySeq
  <2>2. g(0) = <<>>
    OBVIOUS
  <2>3. ASSUME NEW m \in Nat PROVE ~(m * by < away)
    <3>1. m * by >= 0
      BY <1>1
    <3>2. m * by \in Int
      BY <1>1
    <3> QED BY <1>1, <1>3, <3>1, <3>2
  <2>4. 0..0 - 1 = {}
    OBVIOUS
  <2> QED BY <2>1, <2>2, <2>3, <2>4 DEF q, away, by
<1>4. CASE ~(away <= 0)
  <2>1. c \in Nat /\ away <= c * by /\ (c - 1) * by < away
    <3>1. away \in Nat \ {0}
      BY <1>1, <1>4
    <3> QED BY <1>1, <3>1, Quotient
  <2> HIDE DEF c
  <2>2. q = g(c)
    BY <1>2, <1>4
  <2>3. Len(q) = c
    <3>1. g(c) \in [1..c -> Int]
      OBVIOUS
    <3> HIDE DEF g
    <3> QED BY <2>1, <2>2, <3>1, FunSeq
  <2>4. ASSUME NEW m \in Nat PROVE m \in 0..c - 1 <=> m * by < away
    <3>1. CASE m <= c - 1
      <4> DEFINE d == (c - 1) - m
      <4>1. d \in Nat /\ (c - 1) * by = m * by + d * by /\ d * by >= 0 /\ m * by \in Int /\ d * by \in Int
        BY <1>1, <2>1, <3>1
      <4>2. m * by < away
        BY <1>1, <2>1, <4>1
      <4> QED BY <2>1, <3>1, <4>2
    <3>2. CASE ~(m <= c - 1)
      <4> DEFINE d == m - c
      <4>1. d \in Nat /\ m * by = c * by + d * by /\ d * by >= 0 /\ c * by \in Int /\ d * by \in Int
        BY <1>1, <2>1, <3>2
      <4>2. ~(m * by < away)
        BY <1>1, <2>1, <4>1
      <4> QED BY <2>1, <3>2, <4>2
    <3> QED BY <3>1, <3>2
  <2> QED BY <2>1, <2>2, <2>3, <2>4 DEF q, away, by
<1> QED BY <1>3, <1>4

Positions(n, f, e, step) ==
  {p \in 1..n : /\ (p - (f + 1)) % Size(step) = 0
                /\ IF step > 0 THEN p \in f + 1..(e + 1) - 1 ELSE p \in (e + 1) + 1..f + 1}
InBounds(n, f, e, step) ==
  /\ step > 0 => f \in 0..n /\ e \in 0..n
  /\ ~(step > 0) => f \in -1..n - 1 /\ e \in -1..n - 1
\* The position m turns from where the slice starts.
Turned(f, step, m) == (f + m * step) + 1

LEMMA TurnIs ==
  ASSUME NEW n \in Nat, NEW f \in Int, NEW e \in Int, NEW step \in Int, step # 0,
         InBounds(n, f, e, step), NEW m \in Nat, m * Size(step) < Away(f, e, step)
  PROVE  Turned(f, step, m) \in Positions(n, f, e, step)
<1> DEFINE by == Size(step)
           d == m * by
           p == Turned(f, step, m)
           x == p - (f + 1)
<1>1. /\ by \in Nat \ {0} /\ d \in Nat /\ d = by * m
      /\ step > 0 => m * step = d /\ d < e - f /\ f \in 0..n /\ e \in 0..n
      /\ ~(step > 0) => m * step = -d /\ d < f - e /\ f \in -1..n - 1 /\ e \in -1..n - 1
  BY DEF Size, Away, InBounds
<1>2. by * (-m) = -d
  BY <1>1
<1>3. p = (f + m * step) + 1
  BY DEF Turned
<1>4. Positions(n, f, e, step) =
        {y \in 1..n : /\ (y - (f + 1)) % by = 0
                      /\ IF step > 0 THEN y \in f + 1..(e + 1) - 1 ELSE y \in (e + 1) + 1..f + 1}
  BY DEF Positions
<1> HIDE DEF by, d, p
<1>5. CASE step > 0
  <2>1. p \in 1..n /\ p \in f + 1..(e + 1) - 1 /\ x = d
    BY <1>1, <1>3, <1>5
  <2>2. x = by * m + 0 /\ x \in Int /\ 0 \in 0..by - 1 /\ m \in Int
    BY <1>1, <2>1
  <2> HIDE DEF x
  <2>3. x % by = 0
    BY <1>1, <2>2, ModUnique
  <2> QED BY <1>4, <1>5, <2>1, <2>3 DEF x, p
<1>6. CASE ~(step > 0)
  <2>1. p \in 1..n /\ p \in (e + 1) + 1..f + 1 /\ x = -d
    BY <1>1, <1>3, <1>6
  <2> DEFINE j == -m
  <2>2. x = by * j + 0 /\ x \in Int /\ 0 \in 0..by - 1 /\ j \in Int
    BY <1>1, <1>2, <2>1
  <2> HIDE DEF x, j
  <2>3. x % by = 0
    BY <1>1, <2>2, ModUnique
  <2> QED BY <1>4, <1>6, <2>1, <2>3 DEF x, p
<1> QED BY <1>5, <1>6

LEMMA PositionIs ==
  ASSUME NEW n \in Nat, NEW f \in Int, NEW e \in Int, NEW step \in Int, step # 0,
         NEW p \in Positions(n, f, e, step)
  PROVE  \E m \in Nat : m * Size(step) < Away(f, e, step) /\ p = Turned(f, step, m)
<1> DEFINE by == Size(step)
           x == p - (f + 1)
           j == x \div by
           w == by * j
<1>1. /\ p \in Int /\ x % by = 0 /\ by \in Nat \ {0} /\ x \in Int
      /\ step > 0 => by = step /\ p \in f + 1..(e + 1) - 1 /\ Away(f, e, step) = e - f
      /\ ~(step > 0) => by = -step /\ p \in (e + 1) + 1..f + 1 /\ Away(f, e, step) = f - e
  BY DEF Positions, Size, Away
<1>2. j \in Int /\ x = w /\ w \in Int
  <2> HIDE DEF by, x
  <2>1. j \in Int /\ x = by * j + (x % by)
    BY <1>1
  <2>2. w \in Int
    BY <1>1, <2>1
  <2> QED BY <1>1, <2>1, <2>2
<1>3. p = (f + x) + 1
  BY <1>1
<1> HIDE DEF by, j, w
<1>4. CASE step > 0
  <2>1. w >= 0 /\ w < Away(f, e, step)
    BY <1>1, <1>2, <1>4
  <2> HIDE DEF x
  <2>2. j >= 0
    <3> SUFFICES ASSUME j <= -1 PROVE FALSE
      BY <1>2
    <3>1. by * j <= -by
      BY <1>1, <1>2
    <3> QED BY <1>1, <1>2, <2>1, <3>1 DEF w
  <2>3. j * by = w /\ j * step = w /\ j \in Nat
    BY <1>1, <1>2, <1>4, <2>2 DEF w
  <2> QED BY <1>2, <1>3, <2>1, <2>3 DEF Turned, by
<1>5. CASE ~(step > 0)
  <2> DEFINE m == -j
  <2>1. w <= 0 /\ -w < Away(f, e, step)
    BY <1>1, <1>2, <1>5
  <2> HIDE DEF x
  <2>2. j <= 0
    <3> SUFFICES ASSUME j >= 1 PROVE FALSE
      BY <1>2
    <3>1. by * j >= by
      BY <1>1, <1>2
    <3> QED BY <1>1, <1>2, <2>1, <3>1 DEF w
  <2>3. m * by = -w /\ m * step = w /\ m \in Nat
    BY <1>1, <1>2, <1>5, <2>2 DEF w
  <2> HIDE DEF m
  <2> QED BY <1>2, <1>3, <2>1, <2>3 DEF Turned, by
<1> QED BY <1>4, <1>5

LEMMA TurnsEnumerate ==
  ASSUME NEW n \in Nat, NEW f \in Int, NEW e \in Int, NEW step \in Int, step # 0,
         InBounds(n, f, e, step)
  PROVE  LET q == StepIndices(f, e, step)
         IN  Enumerates([k \in 1..Len(q) |-> q[k] + 1], Len(q), Positions(n, f, e, step), step)
<1> DEFINE q == StepIndices(f, e, step)
           c == Len(q)
           r == [k \in 1..c |-> q[k] + 1]
           at == Positions(n, f, e, step)
           near(m) == m * Size(step) < Away(f, e, step)
<1>1. /\ c \in Nat /\ q = [k \in 1..c |-> f + (k - 1) * step]
      /\ \A m \in Nat : m \in 0..c - 1 <=> near(m)
  BY TurnsAre
<1> HIDE DEF q, c, at, near
<1>2. ASSUME NEW k \in 1..c PROVE k - 1 \in Nat /\ near(k - 1) /\ r[k] = Turned(f, step, k - 1)
  <2>1. k - 1 \in Nat /\ k - 1 \in 0..c - 1
    BY <1>1
  <2>2. r[k] = (f + (k - 1) * step) + 1
    BY <1>1
  <2> QED BY <1>1, <2>1, <2>2 DEF Turned
<1> HIDE DEF r
<1>3. ASSUME NEW k \in 1..c PROVE r[k] \in at
  <2> DEFINE m == k - 1
  <2>1. m \in Nat /\ near(m) /\ r[k] = Turned(f, step, m)
    BY <1>2
  <2> HIDE DEF m
  <2> QED BY <2>1, TurnIs DEF near, at
<1>4. r \in [1..c -> at]
  <2>1. r = [k \in 1..c |-> r[k]]
    BY DEF r
  <2> QED BY <1>3, <2>1
<1>5. ASSUME NEW x \in at PROVE \E k \in 1..c : r[k] = x
  <2>1. PICK m \in Nat : near(m) /\ x = Turned(f, step, m)
    BY PositionIs DEF near, at
  <2>2. m \in 0..c - 1
    BY <1>1, <2>1
  <2>3. m + 1 \in 1..c /\ (m + 1) - 1 = m
    BY <1>1, <2>2
  <2>4. r[m + 1] = Turned(f, step, (m + 1) - 1)
    BY <1>2, <2>3
  <2> QED BY <2>1, <2>3, <2>4
<1>6. ASSUME NEW i \in 1..c, NEW j \in 1..c, i < j PROVE Before(step, r[i], r[j])
  <2> DEFINE a == i - 1
             d == j - i
             u == a * step
             v == d * step
  <2>1. /\ a \in Int /\ d \in Nat \ {0} /\ (j - 1) * step = u + v /\ u \in Int /\ v \in Int
        /\ step > 0 => v > 0
        /\ ~(step > 0) => v < 0
    <3>1. a \in Int /\ d \in Nat \ {0} /\ j - 1 = a + d
      BY <1>1, <1>6
    <3> HIDE DEF a, d
    <3>2. (a + d) * step = u + v /\ u \in Int /\ v \in Int
      BY <3>1
    <3>3. step > 0 => v > 0
      BY <3>1
    <3>4. ~(step > 0) => v < 0
      BY <3>1
    <3> QED BY <3>1, <3>2, <3>3, <3>4
  <2>2. r[i] = (f + u) + 1 /\ r[j] = (f + (u + v)) + 1
    BY <1>2, <2>1 DEF Turned
  <2> HIDE DEF u, v, a, d
  <2> QED BY <2>1, <2>2 DEF Before
<1>7. Enumerates(r, c, at, step)
  BY <1>4, <1>5, <1>6 DEF Enumerates
<1> QED BY <1>7 DEF r, c, q, at

(* The positions the code selects are those Python selects, in their order.  *)
Selects(l, at, sel) ==
  /\ Len(at) \in Nat /\ DOMAIN at = 1..Len(at)
  /\ sel \in [1..Len(at) -> 1..l.len]
  /\ \A k \in 1..Len(at) : sel[k] = at[k] + 1
  /\ \A i, j \in 1..Len(at) : i # j => sel[i] # sel[j]
LEMMA SelectionIs ==
  ASSUME NEW l, BufferOK(l), NEW start, IsBound(start), NEW stop, IsBound(stop),
         NEW step \in Int, step # 0
  PROVE  Selects(l, Selected(l, start, stop, step),
                 Python!Selection(Contents(l), start, stop, step))
<1> DEFINE n == l.len
           s == Contents(l)
           b == NormalizeSlice(start, stop, n, step)
           f == Python!First(s, start, step)
           e == Python!Past(s, stop, step)
           at == Selected(l, start, stop, step)
           q == StepIndices(f, e, step)
           sel == Python!Selection(s, start, stop, step)
           r == [k \in 1..Len(q) |-> q[k] + 1]
           A == Positions(n, f, e, step)
<1>1. n \in Nat /\ s \in Seq(Values) /\ Len(s) = n /\ DOMAIN s = 1..n
  BY ContentsAre, LenProperties
<1>2. at = StepIndices(b[1], b[2], step)
  BY DEF Selected
<1>3. sel = Python!Ordered(A, step)
  BY <1>1 DEF Python!Selection, Positions, Size
<1> HIDE DEF n, s
<1>4. /\ b[1] = f /\ b[2] \in Int
      /\ step > 0 => b[2] = e /\ f \in 0..n /\ e \in 0..n
      /\ ~(step > 0) => /\ f \in -1..n - 1 /\ e \in -1..n - 1
                        /\ b[2] = e \/ (b[2] = n /\ e = n - 1)
  <2> HIDE DEF at, q, sel, r, A
  <2>1. n \in Nat /\ Len(s) = n
    BY <1>1
  <2>2. SameBounds(b, f, e, n, step)
    BY <2>1, BoundsAre
  <2> QED BY <2>2 DEF SameBounds
<1> HIDE DEF b, f, e, at, sel
<1>5. f \in Int /\ e \in Int /\ InBounds(n, f, e, step)
  BY <1>1, <1>4 DEF InBounds
<1>6. at = q
  <2>1. CASE b[2] = e
    BY <1>2, <1>4, <2>1
  <2>2. CASE b[2] # e
    <3>1. ~(step > 0) /\ b[2] = n /\ e = n - 1 /\ f <= n - 1 /\ n \in Int /\ f \in Int
      BY <1>1, <1>4, <2>2
    <3>2. f - n <= 0 /\ f - e <= 0
      BY <3>1
    <3>3. StepIndices(f, n, step) = <<>> /\ q = <<>>
      BY <3>1, <3>2 DEF StepIndices
    <3> QED BY <1>2, <1>4, <3>1, <3>3
  <2> QED BY <2>1, <2>2
<1>7. Len(q) \in Nat /\ q = [k \in 1..Len(q) |-> f + (k - 1) * step]
  BY <1>5, TurnsAre
<1>8. Enumerates(r, Len(q), A, step)
  BY <1>1, <1>5, TurnsEnumerate
<1> DEFINE m == Len(q)
<1> HIDE DEF q, r, A, m
<1>9. A \subseteq 1..n /\ A \subseteq Int
  BY <1>1 DEF A, Positions
<1>10. sel = r
  BY <1>3, <1>7, <1>8, <1>9, OrderedIs
<1>11. r \in [1..m -> A] /\ \A i, j \in 1..m : i < j => Before(step, r[i], r[j])
  BY <1>8 DEF Enumerates, m
<1>12. r \in [1..m -> 1..n]
  BY <1>9, <1>11
<1>13. ASSUME NEW i \in 1..m, NEW j \in 1..m, i # j PROVE r[i] # r[j]
  <2>1. i < j \/ j < i
    BY <1>7, <1>13 DEF m
  <2>2. r[i] \in Int /\ r[j] \in Int
    BY <1>12
  <2> QED BY <1>11, <2>1, <2>2 DEF Before
<1>14. \A k \in 1..m : r[k] = q[k] + 1
  BY DEF r, m
<1>15. DOMAIN q = 1..m
  BY <1>7 DEF m
<1>16. Selects(l, q, r)
  BY <1>7, <1>12, <1>13, <1>14, <1>15 DEF Selects, m, n
<1> QED BY <1>6, <1>10, <1>16 DEF at, sel, s

LEMMA SlicedIs ==
  ASSUME NEW l, BufferOK(l), NEW at, NEW sel, Selects(l, at, sel)
  PROVE  LET t == [k \in DOMAIN at |-> l.data[at[k] + 1]]
         IN  t = Python!Pick(Contents(l), sel) /\ t \in Seq(Values)
<1> DEFINE m == Len(at)
           t == [k \in DOMAIN at |-> l.data[at[k] + 1]]
           s == Contents(l)
<1>1. \A p \in 1..l.len : s[p] = l.data[p] /\ l.data[p] \in Values
  BY ElementIs
<1>2. /\ m \in Nat /\ DOMAIN at = 1..m /\ sel \in [1..m -> 1..l.len]
      /\ \A k \in 1..m : sel[k] = at[k] + 1
  BY DEF Selects
<1>3. DOMAIN sel = 1..m
  BY <1>2
<1> HIDE DEF m, s
<1>4. t = [k \in 1..m |-> s[sel[k]]]
  <2>1. ASSUME NEW k \in 1..m PROVE l.data[at[k] + 1] = s[sel[k]]
    BY <1>1, <1>2
  <2> QED BY <1>2, <2>1
<1>5. t = Python!Pick(s, sel)
  BY <1>3, <1>4 DEF Python!Pick
<1>6. t \in [1..m -> Values]
  <2>1. ASSUME NEW k \in 1..m PROVE s[sel[k]] \in Values
    BY <1>1, <1>2
  <2> HIDE DEF t
  <2> QED BY <1>4, <2>1
<1> QED BY <1>2, <1>5, <1>6, FunSeq DEF s

(* Deleting a slice keeps the other positions, in order.                     *)
KeptStep(at, p, f) ==
  IF p = 0 THEN <<>>
  ELSE IF \E k \in DOMAIN at : at[k] + 1 = p THEN f[p - 1] ELSE Append(f[p - 1], p)
Unselected(n, at) == {p \in 1..n : ~ \E k \in DOMAIN at : at[k] + 1 = p}
LEMMA KeptIs ==
  ASSUME NEW l, BufferOK(l), NEW at
  PROVE  LET r == Kept(l, at)
         IN  /\ Len(r) \in Nat /\ Len(r) <= l.len
             /\ Enumerates(r, Len(r), Unselected(l.len, at), 1)
<1> DEFINE n == l.len
           B == Unselected(n, at)
           S == Seq(Int)
           dropped(p) == \E k \in DOMAIN at : at[k] + 1 = p
           F == [x \in (1..n) \X S |-> IF dropped(x[1]) THEN x[2] ELSE Append(x[2], x[1])]
           h == CHOOSE f : f = [p \in 0..n |-> KeptStep(at, p, f)]
           P(p, f) == /\ f \in S /\ Len(f) <= p
                      /\ \A k \in 1..Len(f) : f[k] \in B /\ f[k] <= p
                      /\ \A x \in B : x <= p => \E k \in 1..Len(f) : f[k] = x
                      /\ \A i, j \in 1..Len(f) : i < j => f[i] < f[j]
<1>0. n \in Nat
  BY ContentsAre
<1>1. Kept(l, at) = h[n]
  BY DEF Kept, KeptStep
<1> HIDE DEF n
<1>2. F \in [(1..n) \X S -> S]
  <2> SUFFICES ASSUME NEW p \in 1..n, NEW f \in S PROVE Append(f, p) \in S
    OBVIOUS
  <2> QED BY AppendProperties
<1>3. PICK g \in [0..n -> S] : IsLoop(F, <<>>, n, g)
  <2> HIDE DEF F
  <2>1. <<>> \in S
    BY EmptySeq
  <2> HIDE DEF S
  <2> QED BY <1>0, <1>2, <2>1, LoopExists
<1>4. g = [p \in 0..n |-> KeptStep(at, p, g)]
  <2> SUFFICES ASSUME NEW p \in 0..n PROVE LoopStep(F, <<>>, p, g) = KeptStep(at, p, g)
    BY <1>3 DEF IsLoop
  <2>1. p # 0 => p \in 1..n /\ g[p - 1] \in S
    BY <1>0
  <2> HIDE DEF S
  <2>2. p # 0 => F[<<p, g[p - 1]>>] = IF dropped(p) THEN g[p - 1] ELSE Append(g[p - 1], p)
    BY <2>1
  <2> HIDE DEF F
  <2> QED BY <2>2 DEF LoopStep, KeptStep
<1>5. h = [p \in 0..n |-> KeptStep(at, p, h)]
  BY <1>4
<1> HIDE DEF h, F
<1>6. P(0, h[0])
  <2>1. h[0] = <<>>
    BY <1>0, <1>5 DEF KeptStep
  <2>2. \A x \in B : ~(x <= 0)
    BY DEF Unselected
  <2> QED BY <2>1, <2>2, EmptySeq
<1>7. ASSUME NEW p \in 0..n - 1, P(p, h[p]) PROVE P(p + 1, h[p + 1])
  <2> DEFINE f == h[p]
             e == h[p + 1]
             w == p + 1
             c == Len(f)
  <2>1. e = IF dropped(w) THEN f ELSE Append(f, w)
    <3>1. p + 1 \in 0..n /\ p + 1 # 0 /\ (p + 1) - 1 = p
      BY <1>0
    <3> QED BY <1>5, <3>1 DEF KeptStep
  <2>2. w \in B <=> ~dropped(w)
    <3>1. w \in 1..n
      BY <1>0
    <3> QED BY <3>1 DEF Unselected
  <2>3. /\ f \in S /\ c <= p /\ \A k \in 1..c : f[k] \in B /\ f[k] <= p
        /\ \A x \in B : x <= p => \E k \in 1..c : f[k] = x
        /\ \A i, j \in 1..c : i < j => f[i] < f[j]
    BY <1>7
  <2>4. B \subseteq Int
    BY DEF Unselected
  <2>5. c \in Nat
    BY <2>3, LenProperties
  <2>6. p \in Nat
    BY <1>0
  <2> HIDE DEF e, f, B, dropped
  <2>7. CASE dropped(w)
    <3>1. e = f /\ Len(e) = c
      BY <2>1, <2>7
    <3> HIDE DEF S, c
    <3>2. \A k \in 1..c : f[k] \in B /\ f[k] <= w
      <4> SUFFICES ASSUME NEW k \in 1..c PROVE f[k] \in B /\ f[k] <= w
        OBVIOUS
      <4>1. f[k] \in B /\ f[k] <= p /\ f[k] \in Int
        BY <2>3, <2>4
      <4> QED BY <2>6, <4>1
    <3>3. \A x \in B : x <= w => \E k \in 1..c : f[k] = x
      <4> SUFFICES ASSUME NEW x \in B, x <= w PROVE \E k \in 1..c : f[k] = x
        OBVIOUS
      <4>1. x # w /\ x \in Int
        BY <2>2, <2>4, <2>7
      <4>2. x <= p
        BY <2>6, <4>1
      <4> QED BY <2>3, <4>2
    <3>4. c <= w
      BY <2>3, <2>5, <2>6
    <3>5. P(w, e)
      BY <2>3, <3>1, <3>2, <3>3, <3>4
    <3> QED BY <3>5 DEF e
  <2>8. CASE ~dropped(w)
    <3>1. e = Append(f, w) /\ w \in Int /\ w \in B
      BY <2>1, <2>2, <2>6, <2>8
    <3>2. e \in S /\ Len(e) = c + 1 /\ e[c + 1] = w /\ \A k \in 1..c : e[k] = f[k]
      <4> HIDE DEF w
      <4> QED BY <2>3, <3>1, AppendProperties
    <3> HIDE DEF S, c
    <3>3. ASSUME NEW k \in 1..c + 1 PROVE (k \in 1..c /\ e[k] = f[k]) \/ (k = c + 1 /\ e[k] = w)
      BY <2>5, <3>2
    <3>4. ASSUME NEW k \in 1..c + 1 PROVE e[k] \in B /\ e[k] <= w
      <4>1. CASE k \in 1..c
        <5>1. e[k] = f[k] /\ f[k] \in B /\ f[k] <= p /\ f[k] \in Int
          BY <2>3, <2>4, <3>2, <4>1
        <5> QED BY <2>6, <5>1
      <4>2. CASE k = c + 1
        BY <2>6, <3>1, <3>2, <4>2
      <4> QED BY <3>3, <4>1, <4>2
    <3>5. ASSUME NEW x \in B, x <= w PROVE \E k \in 1..c + 1 : e[k] = x
      <4>1. CASE x = w
        <5>1. c + 1 \in 1..c + 1
          BY <2>5
        <5> QED BY <3>2, <4>1, <5>1
      <4>2. CASE x # w
        <5>1. x <= p
          BY <2>4, <2>6, <3>5, <4>2
        <5>2. PICK k \in 1..c : f[k] = x
          BY <2>3, <5>1
        <5>3. k \in 1..c + 1
          BY <2>5
        <5> QED BY <3>2, <5>2, <5>3
      <4> QED BY <4>1, <4>2
    <3>6. ASSUME NEW i \in 1..c + 1, NEW j \in 1..c + 1, i < j PROVE e[i] < e[j]
      <4>1. i \in 1..c
        BY <2>5, <3>6
      <4>2. CASE j \in 1..c
        BY <2>3, <3>2, <3>6, <4>1, <4>2
      <4>3. CASE j = c + 1
        <5>1. e[i] = f[i] /\ f[i] \in Int /\ f[i] <= p /\ e[j] = w
          BY <2>3, <2>4, <3>2, <4>1, <4>3
        <5> QED BY <2>6, <5>1
      <4> QED BY <3>3, <4>2, <4>3
    <3>7. c + 1 <= w
      BY <2>3, <2>5, <2>6
    <3>8. P(w, e)
      BY <3>2, <3>4, <3>5, <3>6, <3>7
    <3> QED BY <3>8 DEF e
  <2> QED BY <2>7, <2>8
<1>8. P(n, h[n])
  <2> DEFINE G == {p \in Nat : p <= n => P(p, h[p])}
  <2>1. 0 \in G
    <3> HIDE DEF P
    <3> QED BY <1>6
  <2>2. ASSUME NEW p \in 0..n - 1, p \in G PROVE p + 1 \in G
    <3>1. P(p, h[p])
      <4> HIDE DEF P
      <4> QED BY <1>0, <2>2
    <3> HIDE DEF P
    <3> QED BY <1>7, <3>1
  <2>3. 0..n \subseteq G
    <3> HIDE DEF G
    <3> QED BY <1>0, <2>1, <2>2, UpTo
  <2>4. n \in 0..n
    BY <1>0
  <2> HIDE DEF P
  <2> QED BY <1>0, <2>3, <2>4
<1> DEFINE r == h[n]
           c == Len(r)
<1>9. /\ r \in S /\ c <= n /\ \A k \in 1..c : r[k] \in B
      /\ \A x \in B : x <= n => \E k \in 1..c : r[k] = x
      /\ \A i, j \in 1..c : i < j => r[i] < r[j]
  BY <1>8
<1>10. c \in Nat /\ DOMAIN r = 1..c /\ r \in [1..c -> Int]
  BY <1>9, LenProperties
<1>11. \A x \in B : x <= n
  BY <1>0 DEF Unselected
<1> HIDE DEF r, c, B
<1>12. r \in [1..c -> B]
  BY <1>9, <1>10
<1>13. Enumerates(r, c, B, 1)
  BY <1>9, <1>11, <1>12 DEF Enumerates, Before
<1> QED BY <1>1, <1>9, <1>10, <1>13 DEF r, c, B, n

LEMMA SelectedOut ==
  ASSUME NEW l, BufferOK(l), NEW at, NEW sel, Selects(l, at, sel)
  PROVE  DOMAIN Contents(l) \ Python!Range(sel) = Unselected(l.len, at)
<1>1. DOMAIN Contents(l) = 1..l.len
  BY ContentsAre, LenProperties
<1>2. /\ DOMAIN at = 1..Len(at) /\ DOMAIN sel = 1..Len(at)
      /\ \A k \in 1..Len(at) : sel[k] = at[k] + 1
  BY DEF Selects
<1>3. Python!Range(sel) = {sel[k] : k \in 1..Len(at)}
  BY <1>2 DEF Python!Range
<1> QED BY <1>1, <1>2, <1>3 DEF Unselected

LEMMA AscendingIs ==
  ASSUME NEW at, at \subseteq Int, NEW m \in Nat, NEW q, Enumerates(q, m, at, 1)
  PROVE  Python!Ordered(at, 1) = q
<1> DEFINE one == 1
<1>1. one \in Int /\ Enumerates(q, m, at, one)
  OBVIOUS
<1> HIDE DEF one
<1>2. Python!Ordered(at, one) = q
  BY <1>1, OrderedIs
<1> QED BY <1>2 DEF one

LEMMA SliceDeletedIs ==
  ASSUME NEW l, BufferOK(l), NEW at, NEW sel, Selects(l, at, sel)
  PROVE  LET s == Contents(l)
         IN  /\ BufferOK(SliceDeleted(l, at))
             /\ Contents(SliceDeleted(l, at)) = Python!Pick(s, Python!Rest(s, sel))
<1> DEFINE n == l.len
           s == Contents(l)
           m == Len(l.data)
           rest == Kept(l, at)
           c == Len(rest)
           B == Unselected(n, at)
           b == [p \in DOMAIN l.data |-> IF p <= c THEN l.data[rest[p]]
                                         ELSE IF p <= n THEN Zero ELSE l.data[p]]
           order == Python!Rest(s, sel)
           t == Python!Pick(s, order)
<1>1. /\ l.data \in [1..m -> Slot] /\ DOMAIN l.data = 1..m /\ m \in Nat /\ n \in Nat /\ n <= m
      /\ s \in [1..n -> Values] /\ s \in Seq(Values) /\ Len(s) = n
      /\ \A p \in 1..n : s[p] = l.data[p]
  BY ContentsAre, LenProperties
<1>2. SliceDeleted(l, at) = IF at = <<>> THEN l ELSE Window(b, c)
  BY DEF SliceDeleted
<1>3. c \in Nat /\ c <= n /\ Enumerates(rest, c, B, 1)
  BY KeptIs
<1>4. order = Python!Ordered(B, 1)
  BY SelectedOut DEF Python!Rest
<1>5. B \subseteq 1..n /\ B \subseteq Int
  BY <1>1 DEF Unselected
<1>6. CASE at = <<>>
  <2> DEFINE same == [k \in 1..n |-> k]
  <2>1. Len(at) = 0 /\ DOMAIN at = 1..Len(at)
    BY <1>6, EmptySeq DEF Selects
  <2>2. B = 1..n
    BY <2>1 DEF Unselected
  <2>3. Enumerates(same, n, B, 1)
    BY <1>1, <2>2 DEF Enumerates, Before
  <2> HIDE DEF same, n, B, s
  <2>4. order = same
    <3> HIDE DEF m, rest, c, b, order, t
    <3> QED BY <1>1, <1>4, <1>5, <2>3, AscendingIs
  <2>5. t = [k \in 1..n |-> s[k]]
    BY <2>4 DEF same, Python!Pick
  <2>6. t = s
    BY <1>1, <2>5
  <2> QED BY <1>2, <1>6, <2>6 DEF s
<1>7. CASE at # <<>>
  <2> HIDE DEF n, m, s, rest, c, B, order
  <2>1. order = rest
    <3> HIDE DEF b, t
    <3> QED BY <1>3, <1>4, <1>5, AscendingIs
  <2>2. rest \in [1..c -> 1..n]
    BY <1>3, <1>5 DEF Enumerates
  <2>3. t = [k \in 1..c |-> s[rest[k]]]
    BY <2>1, <2>2 DEF Python!Pick
  <2> HIDE DEF t
  <2>4. ASSUME NEW p \in 1..m
        PROVE  /\ b[p] \in Slot
               /\ p \in 1..c => b[p] = t[p] /\ t[p] \in Values
    <3>1. b[p] = IF p <= c THEN l.data[rest[p]] ELSE IF p <= n THEN Zero ELSE l.data[p]
      BY <1>1
    <3> HIDE DEF b
    <3>2. CASE p \in 1..c
      <4>1. rest[p] \in 1..n /\ p <= c
        BY <1>3, <2>2, <3>2
      <4>2. s[rest[p]] = l.data[rest[p]] /\ s[rest[p]] \in Values /\ t[p] = s[rest[p]]
        BY <1>1, <2>3, <3>2, <4>1
      <4> QED BY <3>1, <4>1, <4>2 DEF Slot
    <3>3. CASE ~(p \in 1..c)
      <4>1. ~(p <= c)
        BY <1>3, <3>3
      <4> QED BY <1>1, <3>1, <3>3, <4>1 DEF Slot
    <3> QED BY <3>2, <3>3
  <2>5. b \in [1..m -> Slot]
    <3>1. b = [p \in 1..m |-> b[p]]
      BY <1>1
    <3> HIDE DEF b
    <3> QED BY <2>4, <3>1
  <2> HIDE DEF b
  <2>6. b \in Seq(Slot) /\ Len(b) = m
    BY <1>1, <2>5, FunSeq
  <2>7. \A p \in 1..c : b[p] = t[p] /\ t[p] \in Values
    <3>1. \A p \in 1..c : p \in 1..m
      BY <1>1, <1>3
    <3> QED BY <2>4, <3>1
  <2>8. t \in [1..c -> Values]
    <3>1. t = [k \in 1..c |-> t[k]]
      BY <2>3
    <3> QED BY <2>7, <3>1
  <2>9. t \in Seq(Values) /\ Len(t) = c
    BY <1>3, <2>8, FunSeq
  <2>10. c \in 0..m
    BY <1>1, <1>3
  <2>11. Shows(b, c, t)
    BY <2>6, <2>7, <2>9, <2>10 DEF Shows
  <2>12. SliceDeleted(l, at) = Window(b, c)
    BY <1>2, <1>7
  <2> QED BY <2>11, <2>12, WindowShows DEF t, s, order
<1> QED BY <1>6, <1>7

(* Assigning to an extended slice, position by position.                     *)
AssignStep(l, at, values, k, f) ==
  IF k = 0 THEN l.data ELSE [f[k - 1] EXCEPT ![at[k] + 1] = values[k]]
Overwrites(l, at, sel, values, e) ==
  LET b == e.data IN
  /\ e = Window(b, l.len) /\ b \in [1..Len(l.data) -> Slot]
  /\ \A k \in 1..Len(at) : b[sel[k]] = values[k]
  /\ \A p \in 1..Len(l.data) : (\A k \in 1..Len(at) : sel[k] # p) => b[p] = l.data[p]
LEMMA AssignedAre ==
  ASSUME NEW l, BufferOK(l), NEW at, NEW sel, Selects(l, at, sel), NEW values \in Seq(Values),
         Len(values) = Len(at)
  PROVE  Overwrites(l, at, sel, values, StepAssigned(l, at, values))
<1> DEFINE c == Len(at)
           m == Len(l.data)
           S == [1..m -> Slot]
           F == [x \in (1..c) \X S |-> [x[2] EXCEPT ![sel[x[1]]] = values[x[1]]]]
           h == CHOOSE f : f = [k \in 0..c |-> AssignStep(l, at, values, k, f)]
           P(k, b) == /\ b \in S /\ \A j \in 1..k : b[sel[j]] = values[j]
                      /\ \A p \in 1..m : (\A j \in 1..k : sel[j] # p) => b[p] = l.data[p]
<1>0. /\ c \in Nat /\ \A k \in 1..c : sel[k] = at[k] + 1 /\ sel[k] \in 1..m /\ values[k] \in Slot
      /\ \A i, j \in 1..c : i # j => sel[i] # sel[j]
      /\ l.data \in S
  <2>1. l.data \in S /\ l.len \in Nat /\ l.len <= m /\ m \in Nat
    BY ContentsAre, LenProperties
  <2>2. \A k \in 1..c : values[k] \in Slot
    BY ElementOfSeq DEF Slot
  <2>3. \A k \in 1..c : sel[k] \in 1..m
    <3> SUFFICES ASSUME NEW k \in 1..c PROVE sel[k] \in 1..m
      OBVIOUS
    <3>1. sel[k] \in 1..l.len
      BY DEF Selects
    <3> QED BY <2>1, <3>1
  <2> QED BY <2>1, <2>2, <2>3 DEF Selects
<1>1. StepAssigned(l, at, values) = Window(h[c], l.len)
  BY DEF StepAssigned, AssignStep
<1> HIDE DEF c, m
<1>2. F \in [(1..c) \X S -> S]
  <2> SUFFICES ASSUME NEW k \in 1..c, NEW b \in S
               PROVE  [b EXCEPT ![sel[k]] = values[k]] \in S
    OBVIOUS
  <2> QED BY <1>0
<1>3. PICK g \in [0..c -> S] : IsLoop(F, l.data, c, g)
  <2> HIDE DEF F, S
  <2> QED BY <1>0, <1>2, LoopExists
<1>4. g = [k \in 0..c |-> AssignStep(l, at, values, k, g)]
  <2> SUFFICES ASSUME NEW k \in 0..c PROVE LoopStep(F, l.data, k, g) = AssignStep(l, at, values, k, g)
    BY <1>3 DEF IsLoop
  <2>1. k # 0 => k \in 1..c /\ g[k - 1] \in S
    BY <1>0
  <2> HIDE DEF S
  <2> QED BY <1>0, <2>1 DEF LoopStep, AssignStep
<1> HIDE DEF S
<1>5. h = [k \in 0..c |-> AssignStep(l, at, values, k, h)]
  BY <1>4
<1> HIDE DEF h, F
<1>6. P(0, h[0])
  <2>1. h[0] = l.data
    BY <1>0, <1>5 DEF AssignStep
  <2> QED BY <1>0, <2>1
<1>7. ASSUME NEW k \in 0..c - 1, P(k, h[k]) PROVE P(k + 1, h[k + 1])
  <2> DEFINE i == k + 1
             b == h[k]
             e == h[i]
  <2>1. e = [b EXCEPT ![sel[i]] = values[i]]
    <3>1. i \in 0..c /\ i \in 1..c /\ i # 0 /\ i - 1 = k
      BY <1>0
    <3> QED BY <1>0, <1>5, <3>1 DEF AssignStep
  <2>2. i \in 1..c /\ 1..i = (1..k) \cup {i} /\ \A j \in 1..k : j \in 1..c /\ j # i
    BY <1>0
  <2>3. /\ b \in [1..m -> Slot] /\ sel[i] \in 1..m /\ values[i] \in Slot
        /\ \A j \in 1..k : b[sel[j]] = values[j] /\ sel[j] # sel[i] /\ sel[j] \in 1..m
        /\ \A p \in 1..m : (\A j \in 1..k : sel[j] # p) => b[p] = l.data[p]
    BY <1>0, <1>7, <2>2 DEF S
  <2> HIDE DEF i, b, e
  <2>4. e \in S /\ e[sel[i]] = values[i] /\ \A p \in 1..m : p # sel[i] => e[p] = b[p]
    BY <2>1, <2>3 DEF S
  <2>5. P(i, e)
    BY <2>2, <2>3, <2>4
  <2> QED BY <2>5 DEF i, e
<1>8. P(c, h[c])
  <2> DEFINE G == {k \in Nat : k <= c => P(k, h[k])}
  <2>1. 0 \in G
    <3> HIDE DEF P
    <3> QED BY <1>6
  <2>2. ASSUME NEW k \in 0..c - 1, k \in G PROVE k + 1 \in G
    <3>1. P(k, h[k])
      <4> HIDE DEF P
      <4> QED BY <1>0, <2>2
    <3> HIDE DEF P
    <3> QED BY <1>7, <3>1
  <2>3. 0..c \subseteq G
    <3> HIDE DEF G
    <3> QED BY <1>0, <2>1, <2>2, UpTo
  <2>4. c \in 0..c
    BY <1>0
  <2> HIDE DEF P
  <2> QED BY <1>0, <2>3, <2>4
<1>9. StepAssigned(l, at, values).data = h[c]
  BY <1>1 DEF Window
<1> QED BY <1>1, <1>8, <1>9 DEF S, c, m, Overwrites

OverwrittenBy(l, at, sel, values) ==
  LET e == StepAssigned(l, at, values)
      s == Contents(l)
  IN  /\ BufferOK(e)
      /\ Contents(e) = [p \in DOMAIN s |->
           IF p \in Python!Range(sel) THEN values[CHOOSE k \in DOMAIN sel : sel[k] = p]
           ELSE s[p]]

LEMMA StepAssignedIs ==
  ASSUME NEW l, BufferOK(l), NEW at, NEW sel, Selects(l, at, sel), NEW values \in Seq(Values),
         Len(values) = Len(at)
  PROVE  OverwrittenBy(l, at, sel, values)
<1> DEFINE n == l.len
           m == Len(l.data)
           s == Contents(l)
           c == Len(at)
           b == StepAssigned(l, at, values).data
           t == [p \in DOMAIN s |->
                  IF p \in Python!Range(sel) THEN values[CHOOSE k \in DOMAIN sel : sel[k] = p]
                  ELSE s[p]]
<1>1. /\ m \in Nat /\ n \in Nat /\ n <= m /\ s \in [1..n -> Values] /\ DOMAIN s = 1..n
      /\ \A p \in 1..n : s[p] = l.data[p]
  BY ContentsAre, LenProperties
<1>2. /\ StepAssigned(l, at, values) = Window(b, n) /\ b \in [1..m -> Slot]
      /\ \A k \in 1..c : b[sel[k]] = values[k]
      /\ \A p \in 1..m : (\A k \in 1..c : sel[k] # p) => b[p] = l.data[p]
  <2>1. Overwrites(l, at, sel, values, StepAssigned(l, at, values))
    BY AssignedAre
  <2> HIDE DEF t
  <2> QED BY <2>1 DEF Overwrites
<1>3. /\ DOMAIN sel = 1..c /\ \A i, j \in 1..c : i # j => sel[i] # sel[j]
  BY DEF Selects
<1>4. \A k \in 1..c : values[k] \in Values
  BY ElementOfSeq
<1>5. Python!Range(sel) = {sel[k] : k \in 1..c}
  BY <1>3 DEF Python!Range
<1> HIDE DEF n, m, s, c, b
<1>6. ASSUME NEW p \in 1..n PROVE b[p] = t[p] /\ t[p] \in Values
  <2>1. t[p] = IF p \in Python!Range(sel) THEN values[CHOOSE k \in DOMAIN sel : sel[k] = p] ELSE s[p]
    BY <1>1
  <2> HIDE DEF t
  <2>2. CASE p \in Python!Range(sel)
    <3> DEFINE k == CHOOSE k \in DOMAIN sel : sel[k] = p
    <3>1. k \in 1..c /\ sel[k] = p
      BY <1>3, <1>5, <2>2
    <3> HIDE DEF k
    <3>2. t[p] = values[k]
      BY <2>1, <2>2 DEF k
    <3> QED BY <1>2, <1>4, <3>1, <3>2
  <2>3. CASE p \notin Python!Range(sel)
    <3>1. \A k \in 1..c : sel[k] # p
      BY <1>5, <2>3
    <3>2. p \in 1..m
      BY <1>1
    <3> QED BY <1>1, <1>2, <2>1, <2>3, <3>1, <3>2
  <2> QED BY <2>2, <2>3
<1>7. t \in [1..n -> Values]
  <2>1. t = [p \in 1..n |-> t[p]]
    BY <1>1
  <2> HIDE DEF t
  <2> QED BY <1>6, <2>1
<1> HIDE DEF t
<1>8. t \in Seq(Values) /\ Len(t) = n
  BY <1>1, <1>7, FunSeq
<1>9. b \in Seq(Slot) /\ Len(b) = m
  BY <1>1, <1>2, FunSeq
<1>10. n \in 0..m
  BY <1>1
<1>11. Shows(b, n, t)
  BY <1>6, <1>8, <1>9, <1>10 DEF Shows
<1>12. BufferOK(StepAssigned(l, at, values)) /\ Contents(StepAssigned(l, at, values)) = t
  BY <1>2, <1>11, WindowShows
<1> QED BY <1>12 DEF OverwrittenBy, t, s

(* Assigning to a contiguous slice: what follows it moves, either way.       *)
Splice(s, f, to, v) == SubSeq(s, 1, f) \o v \o SubSeq(s, to + 1, Len(s))
IsSplice(s, f, to, v, n, t) ==
  /\ n \in Nat /\ t \in Seq(Values) /\ Len(t) = n
  /\ \A p \in 1..n : t[p] = IF p <= f THEN s[p] ELSE IF p <= f + Len(v) THEN v[p - f]
                            ELSE s[(p - Len(v)) + (to - f)]
LEMMA Spliced ==
  ASSUME NEW s \in Seq(Values), NEW f \in 0..Len(s), NEW to \in f..Len(s), NEW v \in Seq(Values)
  PROVE  IsSplice(s, f, to, v, (Len(s) - (to - f)) + Len(v), Splice(s, f, to, v))
<1> DEFINE m == Len(s)
           k == Len(v)
           n == (m - (to - f)) + k
           a == SubSeq(s, 1, f)
           z == SubSeq(s, to + 1, m)
           x == a \o v
           t == x \o z
<1>1. /\ m \in Nat /\ k \in Nat /\ f \in Nat /\ to \in Nat /\ f <= to /\ to <= m /\ n \in Nat
      /\ \A i \in 1..m : s[i] \in Values
  BY LenProperties, ElementOfSeq
<1>2. a \in Seq(Values) /\ Len(a) = f /\ \A i \in 1..f : a[i] = s[i]
  <2>1. \A i \in 1..f : s[i] \in Values
    BY <1>1
  <2>2. /\ a \in Seq(Values) /\ Len(a) = IF 1 <= f THEN f - 1 + 1 ELSE 0
        /\ \A i \in 1..f - 1 + 1 : a[i] = s[1 + i - 1]
    BY <1>1, <2>1, SubSeqProperties
  <2> HIDE DEF a
  <2> QED BY <1>1, <2>2
<1>3. z \in Seq(Values) /\ Len(z) = m - to /\ \A i \in 1..m - to : z[i] = s[to + i]
  <2>1. \A i \in to + 1..m : s[i] \in Values
    BY <1>1
  <2>2. /\ z \in Seq(Values) /\ Len(z) = IF to + 1 <= m THEN m - (to + 1) + 1 ELSE 0
        /\ \A i \in 1..m - (to + 1) + 1 : z[i] = s[(to + 1) + i - 1]
    BY <1>1, <2>1, SubSeqProperties
  <2> HIDE DEF z
  <2> QED BY <1>1, <2>2
<1>4. Splice(s, f, to, v) = t
  BY DEF Splice
<1> HIDE DEF a, z, m
<1>5. x \in Seq(Values) /\ Len(x) = f + k /\ \A i \in 1..f + k : x[i] = IF i <= f THEN a[i] ELSE v[i - f]
  BY <1>2, ConcatProperties
<1> HIDE DEF x, k
<1>6. /\ t \in Seq(Values) /\ Len(t) = (f + k) + (m - to)
      /\ \A i \in 1..(f + k) + (m - to) : t[i] = IF i <= f + k THEN x[i] ELSE z[i - (f + k)]
  <2> DEFINE u == f + k
             w == m - to
  <2>1. x \in Seq(Values) /\ Len(x) = u /\ z \in Seq(Values) /\ Len(z) = w
    BY <1>3, <1>5
  <2> HIDE DEF u, w, n
  <2>2. /\ t \in Seq(Values) /\ Len(t) = u + w
        /\ \A i \in 1..u + w : t[i] = IF i <= u THEN x[i] ELSE z[i - u]
    BY <2>1, ConcatProperties
  <2> QED BY <2>2 DEF u, w
<1>7. (f + k) + (m - to) = n
  BY <1>1
<1> HIDE DEF t, n
<1>8. ASSUME NEW p \in 1..n
      PROVE  t[p] = IF p <= f THEN s[p] ELSE IF p <= f + k THEN v[p - f] ELSE s[(p - k) + (to - f)]
  <2>1. t[p] = IF p <= f + k THEN x[p] ELSE z[p - (f + k)]
    BY <1>6, <1>7
  <2>2. CASE p <= f + k
    <3>1. p \in 1..f + k /\ (p <= f => p \in 1..f)
      BY <1>1, <2>2
    <3> QED BY <1>2, <1>5, <2>1, <2>2, <3>1
  <2>3. CASE ~(p <= f + k)
    <3> DEFINE i == p - (f + k)
    <3>1. i \in 1..m - to /\ to + i = (p - k) + (to - f) /\ ~(p <= f)
      BY <1>1, <1>7, <2>3
    <3> HIDE DEF i
    <3>2. z[i] = s[to + i]
      BY <1>3, <3>1
    <3> QED BY <2>1, <2>3, <3>1, <3>2 DEF i
  <2> QED BY <2>2, <2>3
<1> QED BY <1>1, <1>4, <1>6, <1>7, <1>8 DEF n, m, k, IsSplice

LEMMA SliceAssignedIs ==
  ASSUME NEW l, BufferOK(l), NEW start, IsBound(start), NEW stop, IsBound(stop),
         NEW values \in Seq(Values)
  PROVE  LET s == Contents(l)
             f == Python!First(s, start, 1)
             to == Python!Max({f, Python!Past(s, stop, 1)})
             r == SliceAssigned(l, start, stop, values)
         IN  BufferOK(r) /\ Contents(r) = Splice(s, f, to, values)
<1> DEFINE m == l.len
           s == Contents(l)
           f == Python!First(s, start, 1)
           e == Python!Past(s, stop, 1)
           to == Python!Max({f, e})
           b == NormalizeSlice(start, stop, m, 1)
           cut == Max({b[2] - b[1], 0})
           k == Len(values)
           n == m - cut + k
           t == Splice(s, f, to, values)
           room == IF n <= Len(l.data) THEN l.data ELSE
                   [p \in 1..CapacityFor(Len(l.data), n) |-> IF p <= m THEN l.data[p] ELSE Zero]
           shifted == [p \in DOMAIN room |->
                         IF p \in b[1] + 1..b[1] + k THEN values[p - b[1]]
                         ELSE IF p \in b[1] + k + 1..n THEN room[p - k + cut]
                         ELSE room[p]]
<1>1. /\ l.data \in Seq(Slot) /\ m \in Nat /\ m <= Len(l.data) /\ Len(l.data) \in Nat
      /\ s \in Seq(Values) /\ Len(s) = m /\ \A p \in 1..m : s[p] = l.data[p]
  BY ContentsAre
<1>2. SliceAssigned(l, start, stop, values) = Window(shifted, n)
  BY DEF SliceAssigned
<1>3. k \in Nat /\ \A i \in 1..k : values[i] \in Slot
  BY LenProperties, ElementOfSeq DEF Slot
<1>4. b[1] = f /\ b[2] = e /\ f \in 0..m /\ e \in 0..m
  <2> DEFINE one == 1
  <2>1. one \in Int /\ one > 0
    OBVIOUS
  <2>2. SameBounds(NormalizeSlice(start, stop, m, one), Python!First(s, start, one),
                   Python!Past(s, stop, one), m, one)
    <3> HIDE DEF one, m, s, e, f, to, b, cut, k, n, t, room, shifted
    <3> QED BY <1>1, <2>1, BoundsAre
  <2> HIDE DEF m, s
  <2> QED BY <2>1, <2>2 DEF SameBounds
<1> HIDE DEF m, s, k
<1>5. to \in f..m /\ cut = to - f
  <2> DEFINE z == 0
             d == b[2] - b[1]
  <2>1. d \in Int /\ z \in Int /\ f \in Int /\ e \in Int
    BY <1>4
  <2> HIDE DEF f, e, d, z, b
  <2>2. to = (IF f >= e THEN f ELSE e)
    BY <2>1, MinMaxOf
  <2>3. Max({d, z}) = IF d >= z THEN d ELSE z
    BY <2>1, MinMaxOf
  <2>4. cut = IF d >= 0 THEN d ELSE 0
    BY <2>3 DEF d, z
  <2> HIDE DEF to, cut
  <2> QED BY <1>1, <1>4, <2>1, <2>2, <2>4 DEF d
<1> HIDE DEF b, e, f, to, cut
<1>6. /\ n \in Nat /\ t \in Seq(Values) /\ Len(t) = n
      /\ \A p \in 1..n : t[p] = IF p <= f THEN s[p] ELSE IF p <= f + k THEN values[p - f]
                                ELSE s[(p - k) + (to - f)]
  <2>1. f \in 0..Len(s) /\ to \in f..Len(s) /\ n = (Len(s) - (to - f)) + k
    BY <1>1, <1>3, <1>4, <1>5
  <2> HIDE DEF t, n, room, shifted
  <2>2. IsSplice(s, f, to, values, (Len(s) - (to - f)) + k, t)
    BY <1>1, <2>1, Spliced DEF t, k
  <2> QED BY <2>1, <2>2 DEF IsSplice, k
<1> HIDE DEF n, t
<1>7. /\ DOMAIN room = 1..Len(room) /\ room \in [1..Len(room) -> Slot] /\ Len(room) \in Nat
      /\ n <= Len(room) /\ m <= Len(room) /\ \A p \in 1..m : room[p] = l.data[p]
  <2>1. CASE n <= Len(l.data)
    BY <1>1, <2>1, LenProperties
  <2>2. CASE ~(n <= Len(l.data))
    <3> DEFINE c == CapacityFor(Len(l.data), n)
               new == [p \in 1..c |-> IF p <= m THEN l.data[p] ELSE Zero]
    <3>1. room = new
      BY <2>2
    <3>2. c \in Nat /\ c >= n /\ c >= Len(l.data)
      BY <1>1, <1>6, CapacityIs
    <3> HIDE DEF c, room
    <3>3. new \in [1..c -> Slot]
      <4> SUFFICES ASSUME NEW p \in 1..c PROVE (IF p <= m THEN l.data[p] ELSE Zero) \in Slot
        OBVIOUS
      <4>1. p <= m => p \in 1..Len(l.data)
        BY <1>1, <3>2
      <4> QED BY <1>1, <4>1, ElementOfSeq DEF Slot
    <3>4. \A p \in 1..m : new[p] = l.data[p]
      BY <1>1, <3>2
    <3> HIDE DEF new
    <3>5. Len(new) = c /\ DOMAIN new = 1..c
      BY <3>2, <3>3, FunSeq
    <3> QED BY <1>1, <3>1, <3>2, <3>3, <3>4, <3>5
  <2> QED BY <2>1, <2>2
<1> DEFINE c == Len(room)
<1> HIDE DEF room
<1>8. ASSUME NEW p \in 1..c
      PROVE  shifted[p] \in Slot /\ (p <= n => shifted[p] = t[p])
  <2>1. shifted[p] = IF p \in f + 1..f + k THEN values[p - f]
                     ELSE IF p \in f + k + 1..n THEN room[p - k + cut] ELSE room[p]
    BY <1>4, <1>7
  <2> HIDE DEF shifted
  <2>2. /\ m \in Nat /\ k \in Nat /\ f \in Nat /\ to \in Nat /\ f <= to /\ to <= m
        /\ n = (m - (to - f)) + k
    BY <1>1, <1>3, <1>4, <1>5 DEF n
  <2>3. CASE p \in f + 1..f + k
    <3>1. p - f \in 1..k /\ ~(p <= f) /\ p <= f + k
      BY <2>2, <2>3
    <3> QED BY <1>3, <1>6, <2>1, <2>3, <3>1
  <2>4. CASE p \in f + k + 1..n
    <3> DEFINE i == (p - k) + (to - f)
    <3>1. i \in 1..m /\ i \in 1..c /\ p - k + cut = i /\ ~(p <= f) /\ ~(p <= f + k)
          /\ ~(p \in f + 1..f + k)
      <4>1. c \in Nat /\ m <= c /\ cut = to - f
        BY <1>5, <1>7
      <4> HIDE DEF c
      <4> QED BY <2>2, <2>4, <4>1
    <3> HIDE DEF i
    <3>2. room[i] = s[i] /\ room[i] \in Slot
      BY <1>1, <1>7, <3>1
    <3>3. shifted[p] = room[i]
      BY <2>1, <2>4, <3>1
    <3>4. p <= n => t[p] = s[i]
      BY <1>6, <3>1 DEF i
    <3> QED BY <3>2, <3>3, <3>4
  <2>5. CASE ~(p \in f + 1..f + k) /\ ~(p \in f + k + 1..n)
    <3>1. p <= n => p <= f /\ p \in 1..m /\ p \in 1..n
      BY <2>2, <2>5
    <3>2. shifted[p] = room[p] /\ room[p] \in Slot
      BY <1>7, <2>1, <2>5
    <3> QED BY <1>1, <1>6, <1>7, <3>1, <3>2
  <2> QED BY <2>3, <2>4, <2>5
<1>9. shifted \in [1..c -> Slot]
  <2>1. shifted = [p \in 1..c |-> shifted[p]]
    BY <1>7
  <2> HIDE DEF shifted
  <2> QED BY <1>8, <2>1
<1> HIDE DEF shifted
<1>10. shifted \in Seq(Slot) /\ Len(shifted) = c
  BY <1>7, <1>9, FunSeq
<1>11. \A p \in 1..n : shifted[p] = t[p]
  <2>1. \A p \in 1..n : p \in 1..c /\ p <= n
    BY <1>6, <1>7
  <2> QED BY <1>8, <2>1
<1>12. n \in 0..c
  BY <1>6, <1>7
<1>13. Shows(shifted, n, t)
  BY <1>6, <1>10, <1>11, <1>12 DEF Shows
<1> QED BY <1>2, <1>13, WindowShows DEF t, s, f, to, e

(* Each call: what the code leaves and answers is what Python does.          *)
Fits(l, c) == Agrees(Result(l, c), Python!Result(Contents(l), c))

LEMMA SameItems ==
  ASSUME NEW l, BufferOK(l), NEW a
  PROVE  Agrees(Answers(l, a), Python!Answers(Contents(l), a))
BY AnswersAgree

LEMMA AppendCall ==
  ASSUME NEW l, BufferOK(l), NEW v \in Values, NEW c, c = <<"append", v>>
  PROVE  Fits(l, c)
<1>1. /\ Result(l, c) = Done(Pushed(l, v))
      /\ Python!Result(Contents(l), c) = Python!Does(Append(Contents(l), v))
  BY DEF Result, Python!Result
<1> QED BY <1>1, PushedIs, DoneAgrees DEF Fits

LEMMA GetCall ==
  ASSUME NEW l, BufferOK(l), NEW i \in Int, NEW c, c = <<"get", i>>
  PROVE  Fits(l, c)
<1> DEFINE s == Contents(l)
           a == Actual(l, i)
           p == Python!Position(s, i)
           x == IF a = -1 THEN IndexError ELSE l.data[a + 1]
           y == IF p = 0 THEN IndexError ELSE s[p]
<1>1. Result(l, c) = Answers(l, x)
  BY DEF Result, Get
<1>2. Python!Result(s, c) = Python!Answers(s, y)
  BY DEF Python!Result
<1>3. (a = -1 => p = 0) /\ (a # -1 => a \in 0..l.len - 1 /\ p = a + 1)
  BY ActualIs
<1>4. \A q \in 1..l.len : s[q] = l.data[q]
  BY ElementIs
<1>5. l.len \in Nat
  BY ContentsAre
<1> HIDE DEF a, p, s
<1>6. x = y
  <2>1. CASE a = -1
    BY <1>3, <2>1
  <2>2. CASE a # -1
    <3>1. a + 1 \in 1..l.len /\ p = a + 1 /\ p # 0
      BY <1>3, <1>5, <2>2
    <3> QED BY <1>4, <2>2, <3>1
  <2> QED BY <2>1, <2>2
<1> HIDE DEF x, y
<1> QED BY <1>1, <1>2, <1>6, SameItems DEF Fits, s

LEMMA DeleteCall ==
  ASSUME NEW l, BufferOK(l), NEW i \in Int, NEW c, c = <<"del", i>>
  PROVE  Fits(l, c)
<1> DEFINE s == Contents(l)
           a == Actual(l, i)
           p == Python!Position(s, i)
<1>1. Result(l, c) = IF a = -1 THEN Answers(l, IndexError) ELSE Done(Removed(l, a))
  BY DEF Result, Delete
<1>2. Python!Result(s, c) = IF p = 0 THEN Python!Answers(s, IndexError)
                            ELSE Python!Does(RemoveAt(s, p))
  BY SameSequences DEF Python!Result
<1>3. (a = -1 => p = 0) /\ (a # -1 => a \in 0..l.len - 1 /\ p = a + 1)
  BY ActualIs
<1> HIDE DEF a, p
<1>4. CASE a = -1
  BY <1>1, <1>2, <1>3, <1>4, SameItems DEF Fits
<1>5. CASE a # -1
  <2>1. a \in 0..l.len - 1 /\ p = a + 1 /\ p # 0
    BY <1>3, <1>5
  <2>2. BufferOK(Removed(l, a)) /\ Contents(Removed(l, a)) = RemoveAt(s, p)
    BY <2>1, RemovedIs
  <2> QED BY <1>1, <1>2, <1>5, <2>1, <2>2, DoneAgrees DEF Fits
<1> QED BY <1>4, <1>5

LEMMA InsertCall ==
  ASSUME NEW l, BufferOK(l), NEW i \in Int, NEW v \in Values, NEW c, c = <<"insert", i, v>>
  PROVE  Fits(l, c)
<1> DEFINE n == l.len
           s == Contents(l)
           a == IF i < 0 THEN Max({n + i, 0}) ELSE Min({i, n})
           p == Python!Clamped(s, i, 1)
<1>1. Result(l, c) = Done(Inserted(l, a, v))
  BY DEF Result, Insert
<1>2. Python!Result(s, c) = Python!Does(InsertAt(s, p + 1, v))
  BY SameSequences DEF Python!Result
<1>3. n \in Nat /\ Len(s) = n
  BY ContentsAre
<1>4. p = IF (IF i < 0 THEN i + n ELSE i) < 0 THEN 0
          ELSE IF (IF i < 0 THEN i + n ELSE i) > n THEN n ELSE IF i < 0 THEN i + n ELSE i
  <2> DEFINE one == 1
             y == IF i < 0 THEN i + n ELSE i
             lo == IF one > 0 THEN 0 ELSE -1
             hi == IF one > 0 THEN n ELSE n - 1
  <2>1. one \in Int /\ lo = 0 /\ hi = n
    OBVIOUS
  <2>2. Python!Clamped(s, i, one) = IF y < lo THEN lo ELSE IF y > hi THEN hi ELSE y
    <3> HIDE DEF one, n, s, a, p
    <3> QED BY <1>3, <2>1, ClampIs
  <2> HIDE DEF lo, hi, n, s
  <2> QED BY <2>1, <2>2
<1>5. a = IF i < 0 THEN IF n + i >= 0 THEN n + i ELSE 0 ELSE IF i <= n THEN i ELSE n
  <2> DEFINE y == n + i
             z == 0
  <2>1. y \in Int /\ z \in Int /\ n \in Int
    BY <1>3
  <2> HIDE DEF n, y, z
  <2>2. Max({y, z}) = IF y >= z THEN y ELSE z
    BY <2>1, MinMaxOf
  <2>3. Min({i, n}) = IF i <= n THEN i ELSE n
    BY <2>1, MinMaxOf
  <2> QED BY <2>2, <2>3 DEF y, z
<1> HIDE DEF a, p, s, n
<1>6. a = p /\ a \in 0..n
  BY <1>3, <1>4, <1>5
<1>7. BufferOK(Inserted(l, a, v)) /\ Contents(Inserted(l, a, v)) = InsertAt(s, a + 1, v)
  BY <1>6, InsertedIs DEF s, n
<1> QED BY <1>1, <1>2, <1>6, <1>7, DoneAgrees DEF Fits, s

LEMMA RemoveCall ==
  ASSUME NEW l, BufferOK(l), NEW v \in Values, NEW c, c = <<"remove", v>>
  PROVE  Fits(l, c)
<1> DEFINE s == Contents(l)
           a == Find(l, v)
           at == Python!At(s, v)
           p == Python!Min(at)
<1>1. Result(l, c) = IF a = l.len THEN Answers(l, ValueError) ELSE Done(Removed(l, a))
  BY DEF Result, Discard
<1>2. Python!Result(s, c) = IF at = {} THEN Python!Answers(s, ValueError)
                            ELSE Python!Does(RemoveAt(s, p))
  BY SameSequences DEF Python!Result
<1>3. (a = l.len => at = {}) /\ (a # l.len => a \in 0..l.len - 1 /\ at # {} /\ p = a + 1)
  BY FindIs
<1> HIDE DEF a, p, at
<1>4. CASE a = l.len
  BY <1>1, <1>2, <1>3, <1>4, SameItems DEF Fits
<1>5. CASE a # l.len
  <2>1. a \in 0..l.len - 1 /\ p = a + 1 /\ at # {}
    BY <1>3, <1>5
  <2>2. BufferOK(Removed(l, a)) /\ Contents(Removed(l, a)) = RemoveAt(s, p)
    BY <2>1, RemovedIs
  <2> QED BY <1>1, <1>2, <1>5, <2>1, <2>2, DoneAgrees DEF Fits
<1> QED BY <1>4, <1>5

LEMMA IndexCall ==
  ASSUME NEW l, BufferOK(l), NEW v \in Values, NEW c, c = <<"index", v>>
  PROVE  Fits(l, c)
<1> DEFINE s == Contents(l)
           a == Find(l, v)
           at == Python!At(s, v)
           p == Python!Min(at)
           x == IF a = l.len THEN ValueError ELSE a
           y == IF at = {} THEN ValueError ELSE p - 1
<1>1. Result(l, c) = Answers(l, x)
  BY DEF Result, Index
<1>2. Python!Result(s, c) = Python!Answers(s, y)
  BY DEF Python!Result
<1>3. (a = l.len => at = {}) /\ (a # l.len => a \in 0..l.len - 1 /\ at # {} /\ p = a + 1)
  BY FindIs
<1> HIDE DEF a, p, at
<1>4. x = y
  <2>1. a # l.len => (a + 1) - 1 = a
    BY <1>3
  <2> QED BY <1>3, <2>1
<1> HIDE DEF x, y
<1> QED BY <1>1, <1>2, <1>4, SameItems DEF Fits

LEMMA CountCall ==
  ASSUME NEW l, BufferOK(l), NEW v \in Values, NEW c, c = <<"count", v>>
  PROVE  Fits(l, c)
<1> DEFINE s == Contents(l)
           at == {p \in 1..l.len : l.data[p] = v}
<1>1. Result(l, c) = Answers(l, Cardinality(at))
  BY DEF Result, Count
<1>2. Python!Result(s, c) = Python!Answers(s, Python!Cardinality(Python!At(s, v)))
  BY DEF Python!Result
<1>3. Python!At(s, v) = at
  <2>1. DOMAIN s = 1..l.len /\ \A p \in 1..l.len : s[p] = l.data[p]
    BY ContentsAre, LenProperties
  <2> HIDE DEF s
  <2> QED BY <2>1 DEF Python!At
<1>4. Python!Cardinality(at) = Cardinality(at)
  BY CardSame
<1> HIDE DEF at
<1> QED BY <1>1, <1>2, <1>3, <1>4, SameItems DEF Fits

LEMMA ReverseCall ==
  ASSUME NEW l, BufferOK(l), NEW c, c = <<"reverse">>
  PROVE  Fits(l, c)
<1>1. Result(l, c) = Done(Reversed(l))
  BY DEF Result
<1>2. Python!Result(Contents(l), c) = Python!Does(Reverse(Contents(l)))
  BY SameSequences DEF Python!Result
<1> QED BY <1>1, <1>2, ReversedIs, DoneAgrees DEF Fits

LEMMA ClearCall ==
  ASSUME NEW l, BufferOK(l), NEW c, c = <<"clear">>
  PROVE  Fits(l, c)
<1>1. Result(l, c) = Clear(l) /\ Python!Result(Contents(l), c) = Python!Does(<<>>)
  BY DEF Result, Python!Result
<1> QED BY <1>1, ClearedIs DEF Fits, Agrees, Python!Does

LEMMA CopyCall ==
  ASSUME NEW l, BufferOK(l), NEW c, c = <<"copy">>
  PROVE  Fits(l, c)
<1>1. /\ Result(l, c) = Done(Fresh(Contents(l)))
      /\ Python!Result(Contents(l), c) = Python!Does(Contents(l))
  BY DEF Result, Python!Result
<1>2. Contents(l) \in Seq(Values)
  BY ContentsAre
<1> QED BY <1>1, <1>2, FreshIs, DoneAgrees DEF Fits

LEMMA OperandIs ==
  ASSUME ListAssumption, NEW l, BufferOK(l), NEW o \in Others \cup {Self}
  PROVE  Operand(l, o) \in Seq(Values)
<1>1. Contents(l) \in Seq(Values) /\ Others \subseteq Seq(Values)
  BY ContentsAre DEF ListAssumption
<1> QED BY <1>1 DEF Operand

LEMMA ExtendCall ==
  ASSUME ListAssumption, NEW l, BufferOK(l), NEW o \in Others \cup {Self}, NEW c, c = <<"extend", o>>
  PROVE  Fits(l, c)
<1>1. /\ Result(l, c) = Done(Extended(l, Operand(l, o)))
      /\ Python!Result(Contents(l), c) = Python!Does(Contents(l) \o Operand(l, o))
  BY DEF Result, Python!Result, Operand
<1> QED BY <1>1, OperandIs, ExtendedIs, DoneAgrees DEF Fits

LEMMA ConcatCall ==
  ASSUME ListAssumption, NEW l, BufferOK(l), NEW o \in Others \cup {Self}, NEW c, c = <<"concat", o>>
  PROVE  Fits(l, c)
<1> DEFINE t == Contents(l) \o Operand(l, o)
<1>1. Result(l, c) = Done(Fresh(t)) /\ Python!Result(Contents(l), c) = Python!Does(t)
  BY DEF Result, Python!Result, Operand
<1>2. t \in Seq(Values)
  BY ContentsAre, OperandIs, ConcatProperties
<1> QED BY <1>1, <1>2, FreshIs, DoneAgrees DEF Fits

LEMMA RepeatCall ==
  ASSUME NEW l, BufferOK(l), NEW n \in Int, NEW c, c = <<"repeat", n>>
  PROVE  Fits(l, c)
<1>1. /\ Result(l, c) = Done(Repeated(l, n))
      /\ Python!Result(Contents(l), c) = Python!Does(Python!Times(Contents(l), n))
  BY DEF Result, Python!Result
<1> QED BY <1>1, RepeatedIs, DoneAgrees DEF Fits

LEMMA SliceCall ==
  ASSUME NEW l, BufferOK(l), NEW start, IsBound(start), NEW stop, IsBound(stop), NEW step \in Int,
         NEW c, c = <<"slice", start, stop, step>>
  PROVE  Fits(l, c)
<1> DEFINE s == Contents(l)
           at == Selected(l, start, stop, step)
           sel == Python!Selection(s, start, stop, step)
           t == [k \in DOMAIN at |-> l.data[at[k] + 1]]
<1>1. Result(l, c) = IF step = 0 THEN Answers(l, ValueError) ELSE Done(Fresh(t))
  BY DEF Result, Slice
<1>2. Python!Result(s, c) = IF step = 0 THEN Python!Answers(s, ValueError)
                            ELSE Python!Does(Python!Pick(s, sel))
  BY DEF Python!Result
<1>3. CASE step = 0
  BY <1>1, <1>2, <1>3, SameItems DEF Fits
<1>4. CASE step # 0
  <2>1. Selects(l, at, sel)
    BY <1>4, SelectionIs
  <2> HIDE DEF at, sel
  <2>2. t = Python!Pick(s, sel) /\ t \in Seq(Values)
    BY <2>1, SlicedIs
  <2> QED BY <1>1, <1>2, <1>4, <2>2, FreshIs, DoneAgrees DEF Fits
<1> QED BY <1>3, <1>4

(* The calls of which the code leaves an argument unchecked.                 *)
Settles(l, c) == BufferOK(Result(l, c).list) /\ (Unchecked(l, c) \/ Fits(l, c))

LEMMA FitsSettles ==
  ASSUME NEW l, NEW c, Fits(l, c) PROVE Settles(l, c)
BY DEF Settles, Fits, Agrees

LEMMA PopCall ==
  ASSUME NEW l, BufferOK(l), NEW i \in Int, NEW c, c = <<"pop", i>>
  PROVE  Settles(l, c)
<1> DEFINE s == Contents(l)
           a == Actual(l, i)
           p == Python!Position(s, i)
           x == l.data[a + 1]
<1>1. Result(l, c) = IF a = -1 THEN Answers(l, Zero) ELSE Answers(Removed(l, a), x)
  BY DEF Result, Pop
<1>2. Python!Result(s, c) = IF p = 0 THEN Python!Answers(s, IndexError)
                            ELSE Python!Answers(RemoveAt(s, p), s[p])
  BY SameSequences DEF Python!Result
<1>3. (a = -1 => p = 0) /\ (a # -1 => a \in 0..l.len - 1 /\ p = a + 1)
  BY ActualIs
<1>4. a = -1 => Unchecked(l, c)
  BY DEF Unchecked
<1>5. \A q \in 1..l.len : s[q] = l.data[q]
  BY ElementIs
<1>6. l.len \in Nat
  BY ContentsAre
<1> HIDE DEF a, p
<1>7. CASE a = -1
  BY <1>1, <1>4, <1>7 DEF Settles, Answers
<1>8. CASE a # -1
  <2>1. a \in 0..l.len - 1 /\ p = a + 1 /\ p # 0 /\ a + 1 \in 1..l.len
    BY <1>3, <1>6, <1>8
  <2>2. BufferOK(Removed(l, a)) /\ Contents(Removed(l, a)) = RemoveAt(s, p)
    BY <2>1, RemovedIs
  <2>3. x = s[p]
    BY <1>5, <2>1
  <2> HIDE DEF x
  <2> QED BY <1>1, <1>2, <1>8, <2>1, <2>2, <2>3, AnswersAgree, FitsSettles DEF Fits
<1> QED BY <1>7, <1>8

LEMMA SetCall ==
  ASSUME NEW l, BufferOK(l), NEW i \in Int, NEW v \in Values, NEW c, c = <<"set", i, v>>
  PROVE  Settles(l, c)
<1> DEFINE s == Contents(l)
           a == Actual(l, i)
           p == Python!Position(s, i)
           e == Window([l.data EXCEPT ![a + 1] = v], l.len)
           t == [s EXCEPT ![p] = v]
<1>1. Result(l, c) = Done(IF a = -1 THEN l ELSE e)
  BY DEF Result, Set
<1>2. Python!Result(s, c) = IF p = 0 THEN Python!Answers(s, IndexError) ELSE Python!Does(t)
  BY DEF Python!Result
<1>3. (a = -1 => p = 0) /\ (a # -1 => a \in 0..l.len - 1 /\ p = a + 1)
  BY ActualIs
<1>4. a = -1 => Unchecked(l, c)
  BY DEF Unchecked
<1>5. l.len \in Nat
  BY ContentsAre
<1> HIDE DEF a, p
<1>6. CASE a = -1
  BY <1>1, <1>4, <1>6 DEF Settles, Done
<1>7. CASE a # -1
  <2>1. p = a + 1 /\ p # 0 /\ p \in 1..l.len
    BY <1>3, <1>5, <1>7
  <2>2. BufferOK(e) /\ Contents(e) = t
    BY <2>1, SetIs
  <2> HIDE DEF e, t
  <2> QED BY <1>1, <1>2, <1>7, <2>1, <2>2, DoneAgrees, FitsSettles DEF Fits
<1> QED BY <1>6, <1>7

\* A step of 0 that comes back selects nothing.
LEMMA StandsStill ==
  ASSUME NEW l, BufferOK(l), NEW start, IsBound(start), NEW stop, IsBound(stop),
         Returns(l, start, stop, 0)
  PROVE  Selected(l, start, stop, 0) = <<>>
<1> DEFINE b == NormalizeSlice(start, stop, l.len, 0)
           s == Contents(l)
<1>1. l.len \in Nat /\ Len(s) = l.len
  BY ContentsAre
<1>2. b[1] <= b[2]
  BY DEF Returns
<1>3. b[1] \in Int /\ b[2] \in Int
  <2> DEFINE z == 0
  <2>1. z \in Int /\ ~(z > 0)
    OBVIOUS
  <2>2. SameBounds(NormalizeSlice(start, stop, l.len, z), Python!First(s, start, z),
                   Python!Past(s, stop, z), l.len, z)
    <3> HIDE DEF z, b, s
    <3> QED BY <1>1, <2>1, BoundsAre
  <2> QED BY <2>1, <2>2 DEF SameBounds
<1>4. Selected(l, start, stop, 0) = StepIndices(b[1], b[2], 0)
  BY DEF Selected
<1> HIDE DEF b
<1> QED BY <1>2, <1>3, <1>4 DEF StepIndices

LEMMA DelSliceCall ==
  ASSUME NEW l, BufferOK(l), NEW start, IsBound(start), NEW stop, IsBound(stop), NEW step \in Int,
         Returns(l, start, stop, step), NEW c, c = <<"delslice", start, stop, step>>
  PROVE  Settles(l, c)
<1> DEFINE s == Contents(l)
           at == Selected(l, start, stop, step)
           sel == Python!Selection(s, start, stop, step)
           t == Python!Pick(s, Python!Rest(s, sel))
<1>1. Result(l, c) = Done(SliceDeleted(l, at))
  BY DEF Result, DelSlice
<1>2. Python!Result(s, c) = IF step = 0 THEN Python!Answers(s, ValueError) ELSE Python!Does(t)
  BY DEF Python!Result
<1>3. CASE step = 0
  <2>1. at = <<>>
    BY <1>3, StandsStill
  <2>2. SliceDeleted(l, at) = l
    BY <2>1 DEF SliceDeleted
  <2>3. Unchecked(l, c)
    BY <1>3 DEF Unchecked
  <2> QED BY <1>1, <2>2, <2>3 DEF Settles, Done
<1>4. CASE step # 0
  <2>1. Selects(l, at, sel)
    BY <1>4, SelectionIs
  <2> HIDE DEF at, sel
  <2>2. BufferOK(SliceDeleted(l, at)) /\ Contents(SliceDeleted(l, at)) = t
    BY <2>1, SliceDeletedIs
  <2> HIDE DEF t
  <2> QED BY <1>1, <1>2, <1>4, <2>2, DoneAgrees, FitsSettles DEF Fits
<1> QED BY <1>3, <1>4

LEMMA SetSliceCall ==
  ASSUME ListAssumption, NEW l, BufferOK(l), NEW start, IsBound(start), NEW stop, IsBound(stop),
         NEW step \in Int, NEW o \in Others \cup {Self}, Returns(l, start, stop, step),
         NEW c, c = <<"setslice", start, stop, step, o>>
  PROVE  Settles(l, c)
<1> DEFINE s == Contents(l)
           at == Selected(l, start, stop, step)
           sel == Python!Selection(s, start, stop, step)
           v == Operand(l, o)
           r == SetSlice(l, start, stop, step, v)
           w == Python!SliceSet(s, start, stop, step, v)
<1>0. v \in Seq(Values)
  BY OperandIs
<1>1. Result(l, c) = r
  BY DEF Result
<1>2. Python!Result(s, c) = IF step = 0 THEN Python!Answers(s, ValueError) ELSE w
  BY DEF Python!Result, Operand
<1> HIDE DEF v
<1>3. CASE step = 0
  <2>1. at = <<>> /\ Len(at) = 0
    BY <1>3, StandsStill, EmptySeq
  <2>2. r = IF Len(at) # Len(v) THEN Answers(l, ValueError) ELSE Done(StepAssigned(l, at, v))
    BY <1>3 DEF SetSlice
  <2>3. Unchecked(l, c)
    BY <1>3 DEF Unchecked
  <2>4. BufferOK(StepAssigned(l, <<>>, v))
    <3> DEFINE h == CHOOSE f : f = [k \in 0..0 |-> AssignStep(l, <<>>, v, k, f)]
               g == [k \in 0..0 |-> l.data]
    <3>1. StepAssigned(l, <<>>, v) = Window(h[0], l.len)
      BY EmptySeq DEF StepAssigned, AssignStep
    <3>2. g = [k \in 0..0 |-> AssignStep(l, <<>>, v, k, g)]
      BY DEF AssignStep
    <3> HIDE DEF g
    <3>3. h = [k \in 0..0 |-> AssignStep(l, <<>>, v, k, h)]
      BY <3>2
    <3> HIDE DEF h
    <3>4. h[0] = l.data
      BY <3>3 DEF AssignStep
    <3> QED BY <3>1, <3>4, ContentsAre
  <2> HIDE DEF at, r
  <2> QED BY <1>1, <2>1, <2>2, <2>3, <2>4 DEF Settles, Done, Answers
<1>4. CASE step = 1
  <2> DEFINE e == SliceAssigned(l, start, stop, v)
             f == Python!First(s, start, 1)
             to == Python!Max({f, Python!Past(s, stop, 1)})
             t == Splice(s, f, to, v)
  <2>1. r = Done(e)
    BY <1>4 DEF SetSlice
  <2>2. w = Python!Does(t)
    BY <1>4 DEF Python!SliceSet, Splice
  <2>3. BufferOK(e) /\ Contents(e) = t
    BY <1>0, SliceAssignedIs
  <2> HIDE DEF e, t, r, w
  <2>4. Fits(l, c)
    BY <1>1, <1>2, <1>4, <2>1, <2>2, <2>3, DoneAgrees DEF Fits
  <2> QED BY <2>4, FitsSettles
<1>5. CASE step # 0 /\ step # 1
  <2> DEFINE e == StepAssigned(l, at, v)
             t == [p \in DOMAIN s |->
                    IF p \in Python!Range(sel) THEN v[CHOOSE k \in DOMAIN sel : sel[k] = p]
                    ELSE s[p]]
  <2>1. r = IF Len(at) # Len(v) THEN Answers(l, ValueError) ELSE Done(e)
    BY <1>5 DEF SetSlice
  <2>2. w = IF Len(sel) # Len(v) THEN Python!Answers(s, ValueError) ELSE Python!Does(t)
    BY <1>5 DEF Python!SliceSet
  <2>3. Selects(l, at, sel)
    BY <1>5, SelectionIs
  <2> HIDE DEF at, sel, r, w
  <2>4. Len(sel) = Len(at)
    BY <2>3, FunSeq DEF Selects
  <2>5. CASE Len(at) # Len(v)
    <3>1. Fits(l, c)
      BY <1>1, <1>2, <1>5, <2>1, <2>2, <2>4, <2>5, SameItems DEF Fits
    <3> QED BY <3>1, FitsSettles
  <2>6. CASE Len(at) = Len(v)
    <3>1. BufferOK(e) /\ Contents(e) = t
      <4>1. OverwrittenBy(l, at, sel, v)
        BY <1>0, <2>3, <2>6, StepAssignedIs
      <4> QED BY <4>1 DEF OverwrittenBy
    <3> HIDE DEF e, t
    <3>2. Fits(l, c)
      BY <1>1, <1>2, <1>5, <2>1, <2>2, <2>4, <2>6, <3>1, DoneAgrees DEF Fits
    <3> QED BY <3>2, FitsSettles
  <2> QED BY <2>5, <2>6
<1> QED BY <1>3, <1>4, <1>5

LEMMA CallSettles ==
  ASSUME ListAssumption, NEW l, BufferOK(l), NEW c \in Returning(l)
  PROVE  Settles(l, c)
<1>0. /\ Indices \subseteq Int /\ Counts \subseteq Int /\ Steps \subseteq Int
      /\ \A x \in Bounds : IsBound(x)
  BY DEF ListAssumption, IsBound
<1>1. c \in Calls /\ (c[1] \in {"setslice", "delslice"} => Returns(l, c[2], c[3], c[4]))
  BY DEF Returning
<1>2. \/ \E v \in Values : \/ c = <<"append", v>> \/ c = <<"remove", v>>
                           \/ c = <<"index", v>> \/ c = <<"count", v>>
      \/ \E i \in Indices : c = <<"get", i>> \/ c = <<"pop", i>> \/ c = <<"del", i>>
      \/ \E i \in Indices, v \in Values : c = <<"set", i, v>> \/ c = <<"insert", i, v>>
      \/ \E o \in Others \cup {Self} : c = <<"extend", o>> \/ c = <<"concat", o>>
      \/ \E n \in Counts : c = <<"repeat", n>>
      \/ \E x, y \in Bounds, k \in Steps : c = <<"slice", x, y, k>>
      \/ \E x, y \in Bounds, k \in Steps : c = <<"delslice", x, y, k>>
      \/ \E x, y \in Bounds, k \in Steps, o \in Others \cup {Self} :
            c = <<"setslice", x, y, k, o>>
      \/ c = <<"reverse">> \/ c = <<"clear">> \/ c = <<"copy">>
  BY <1>1 DEF Calls
<1>3. ASSUME Fits(l, c) PROVE Settles(l, c)
  BY <1>3, FitsSettles
<1>4. ASSUME NEW v \in Values,
             \/ c = <<"append", v>> \/ c = <<"remove", v>>
             \/ c = <<"index", v>> \/ c = <<"count", v>>
      PROVE  Settles(l, c)
  BY <1>3, <1>4, AppendCall, RemoveCall, IndexCall, CountCall
<1>5. ASSUME NEW i \in Indices, c = <<"get", i>> \/ c = <<"pop", i>> \/ c = <<"del", i>>
      PROVE  Settles(l, c)
  BY <1>0, <1>3, <1>5, GetCall, PopCall, DeleteCall
<1>6. ASSUME NEW i \in Indices, NEW v \in Values, c = <<"set", i, v>> \/ c = <<"insert", i, v>>
      PROVE  Settles(l, c)
  BY <1>0, <1>3, <1>6, SetCall, InsertCall
<1>7. ASSUME NEW o \in Others \cup {Self}, c = <<"extend", o>> \/ c = <<"concat", o>>
      PROVE  Settles(l, c)
  BY <1>3, <1>7, ExtendCall, ConcatCall
<1>8. ASSUME NEW n \in Counts, c = <<"repeat", n>> PROVE Settles(l, c)
  BY <1>0, <1>3, <1>8, RepeatCall
<1>9. ASSUME NEW x \in Bounds, NEW y \in Bounds, NEW k \in Steps, c = <<"slice", x, y, k>>
      PROVE  Settles(l, c)
  BY <1>0, <1>3, <1>9, SliceCall
<1>10. ASSUME NEW x \in Bounds, NEW y \in Bounds, NEW k \in Steps, c = <<"delslice", x, y, k>>
       PROVE  Settles(l, c)
  <2>1. Returns(l, x, y, k)
    BY <1>1, <1>10
  <2> QED BY <1>0, <1>10, <2>1, DelSliceCall
<1>11. ASSUME NEW x \in Bounds, NEW y \in Bounds, NEW k \in Steps, NEW o \in Others \cup {Self},
              c = <<"setslice", x, y, k, o>>
       PROVE  Settles(l, c)
  <2>1. Returns(l, x, y, k)
    BY <1>1, <1>11
  <2> QED BY <1>0, <1>11, <2>1, SetSliceCall
<1>12. ASSUME c = <<"reverse">> \/ c = <<"clear">> \/ c = <<"copy">> PROVE Settles(l, c)
  BY <1>3, <1>12, ReverseCall, ClearCall, CopyCall
<1> QED BY <1>2, <1>4, <1>5, <1>6, <1>7, <1>8, <1>9, <1>10, <1>11, <1>12

LEMMA InitBuffer ==
  ASSUME Init PROVE BufferOK(list)
<1>1. <<>> \in Seq(Values)
  BY EmptySeq
<1> QED BY <1>1, FreshIs DEF Init

LEMMA NextBuffer ==
  ASSUME ListAssumption, BufferOK(list), Next PROVE BufferOK(list')
<1>1. PICK c \in Returning(list) : list' = Result(list, c).list
  BY DEF Next
<1> QED BY <1>1, CallSettles DEF Settles

LEMMA BufferTyped ==
  ASSUME BufferOK(list) PROVE TypeOK
<1>1. Range(Contents(list)) \subseteq Values
  BY ContentsAre, LenProperties, ElementOfSeq DEF Range
<1>2. list.len \in 0..Len(list.data)
  BY DEF BufferOK
<1> QED BY <1>1, <1>2 DEF TypeOK

LEMMA BufferIsPython ==
  ASSUME ListAssumption, BufferOK(list) PROVE ListIsPython
BY CallSettles DEF ListIsPython, Settles, Fits, Agrees

(* Only values that were stored show: never a slot cleared by a removal or    *)
(* left as the allocator gave it, whatever grew or moved.                    *)
THEOREM BufferIsWhole == ASSUME ListAssumption PROVE Spec => []TypeOK
<1> DEFINE Inv == BufferOK(list)
<1>1. Init => Inv
  BY InitBuffer
<1>2. Inv /\ [Next]_list => Inv'
  BY NextBuffer
<1>3. Inv => TypeOK
  BY BufferTyped
<1> QED BY <1>1, <1>2, <1>3, PTL DEF Spec

(* The over-allocated buffer, its shifted tail, the clamping of an index and  *)
(* of the bounds of a slice of any step: each call that checks its arguments  *)
(* leaves the items Python leaves and answers the same.                      *)
THEOREM BufferAsPython == ASSUME ListAssumption PROVE Spec => []ListIsPython
<1> DEFINE Inv == BufferOK(list)
<1>1. Init => Inv
  BY InitBuffer
<1>2. Inv /\ [Next]_list => Inv'
  BY NextBuffer
<1>3. Inv => ListIsPython
  BY BufferIsPython
<1> QED BY <1>1, <1>2, <1>3, PTL DEF Spec
----------------------------------------------------------------------------
(* The sort.  Every slot of a run, found, forced or merged, holds one of the   *)
(* elements that were in those slots at first, and the run is in strict order  *)
(* once ties are broken by the first position: a stable sort is the only       *)
(* permutation of that kind.                                                  *)
LEMMA SortInsertIs ==
  ASSUME NEW S, NEW s \in Seq(S), NEW p \in 1..Len(s) + 1, NEW v \in S
  PROVE  /\ Sort!InsertAt(s, p, v) \in Seq(S) /\ Len(Sort!InsertAt(s, p, v)) = Len(s) + 1
         /\ \A i \in 1..Len(s) + 1 :
              Sort!InsertAt(s, p, v)[i] = IF i < p THEN s[i] ELSE IF i = p THEN v ELSE s[i - 1]
<1>1. Sort!InsertAt(s, p, v) = InsertAt(s, p, v)
  BY DEF InsertAt, Sort!InsertAt
<1>2. InsertAt(s, p, v) \in Seq(S) /\ Len(InsertAt(s, p, v)) = Len(s) + 1
  BY InsertAtIs
<1>3. ASSUME NEW i \in 1..Len(s) + 1
      PROVE  InsertAt(s, p, v)[i] = IF i < p THEN s[i] ELSE IF i = p THEN v ELSE s[i - 1]
  BY InsertAtIs, SMTT(30)
<1> QED BY <1>1, <1>2, <1>3

LEMMA SortRemoveIs ==
  ASSUME NEW S, NEW s \in Seq(S), NEW p \in 1..Len(s)
  PROVE  /\ Sort!RemoveAt(s, p) \in Seq(S) /\ Len(Sort!RemoveAt(s, p)) = Len(s) - 1
         /\ \A i \in 1..Len(s) - 1 : Sort!RemoveAt(s, p)[i] = IF i < p THEN s[i] ELSE s[i + 1]
BY RemoveAtIs DEF RemoveAt, Sort!RemoveAt

(* The order of the sort, ties broken by the first position.                 *)
Element == [key : Int, id : Nat]
Under(r, a, b) == IF r THEN b.key < a.key ELSE a.key < b.key
SortsBefore(r, a, b) == Under(r, a, b) \/ (a.key = b.key /\ a.id < b.id)
Sorted(r, d, lo, hi) == \A p, q \in lo..hi : p < q => SortsBefore(r, d[p], d[q])
Elements(d, lo, hi) == {d[p] : p \in lo..hi}
(* Slots lo to hi are in order and hold the elements that were in them first. *)
Good(r, d, lo, hi) == Sorted(r, d, lo, hi) /\ {d[p].id : p \in lo..hi} = lo..hi
Untouched(d, lo, hi) == \A p \in lo..hi : d[p].id = p
Same(d, e, lo, hi) ==
  /\ e \in Seq(Element) /\ Len(e) = Len(d)
  /\ \A p \in 1..Len(d) : p \notin lo..hi => e[p] = d[p]

LEMMA LessIs == \A a, b : Sort!Less(a, b) <=> Under(reverse, a, b)
BY DEF Sort!Less, Under

LEMMA BeforeTransitive ==
  ASSUME NEW r, NEW a \in Element, NEW b \in Element, NEW c \in Element
  PROVE  /\ SortsBefore(r, a, b) /\ SortsBefore(r, b, c) => SortsBefore(r, a, c)
         /\ Under(r, a, b) /\ SortsBefore(r, b, c) => Under(r, a, c)
         /\ SortsBefore(r, a, b) /\ Under(r, b, c) => Under(r, a, c)
         /\ SortsBefore(r, a, b) => ~Under(r, b, a)
         /\ ~Under(r, b, a) /\ (a.key = b.key => a.id < b.id) => SortsBefore(r, a, b)
         /\ ~Under(r, c, b) /\ SortsBefore(r, a, b) => ~Under(r, c, a)
<1>1. /\ a.key \in Int /\ b.key \in Int /\ c.key \in Int
      /\ a.id \in Nat /\ b.id \in Nat /\ c.id \in Nat
  BY DEF Element
<1> QED BY <1>1 DEF SortsBefore, Under

LEMMA LeastIs ==
  ASSUME NEW S, S \subseteq Nat, S # {}
  PROVE  Sort!Min(S) \in S /\ Sort!Min(S) \in Nat /\ \A y \in S : Sort!Min(S) <= y
<1>1. \E x \in S : \A y \in S : x <= y
  BY NatMin
<1> QED BY <1>1 DEF Sort!Min

LEMMA MaxIs ==
  ASSUME NEW n \in Nat, NEW S \in SUBSET (0..n), S # {}
  PROVE  Sort!Max(S) \in S /\ \A y \in S : y <= Sort!Max(S)
<1> DEFINE R == {n - x : x \in S}
<1>1. \A x \in S : x \in Nat /\ x <= n /\ n - x \in Nat
  OBVIOUS
<1>2. PICK m \in R : \A y \in R : m <= y
  <2>1. PICK x \in S : TRUE
    OBVIOUS
  <2>2. R \subseteq Nat /\ n - x \in R
    BY <1>1, <2>1
  <2> HIDE DEF R
  <2> QED BY <2>2, NatMin
<1>3. PICK x \in S : m = n - x
  BY <1>2
<1>4. ASSUME NEW y \in S PROVE y <= x
  <2>1. n - y \in R
    OBVIOUS
  <2>2. n - x <= n - y
    BY <1>2, <1>3, <2>1
  <2> QED BY <1>1, <2>2
<1>5. \E z \in S : \A y \in S : z >= y
  BY <1>4
<1>6. Sort!Max(S) \in S /\ \A y \in S : Sort!Max(S) >= y
  BY <1>5 DEF Sort!Max
<1> QED BY <1>6

LEMMA AdjacentSorted ==
  ASSUME NEW r, NEW d \in Seq(Element), NEW lo \in 1..Len(d), NEW hi \in lo..Len(d),
         \A q \in lo + 1..hi : SortsBefore(r, d[q - 1], d[q])
  PROVE  Sorted(r, d, lo, hi)
<1>0. Len(d) \in Nat /\ lo \in Nat /\ hi \in Nat /\ \A q \in lo..hi : d[q] \in Element
  BY LenProperties, ElementOfSeq
<1>1. ASSUME NEW p \in lo..hi, NEW q \in lo..hi, p < q PROVE SortsBefore(r, d[p], d[q])
  <2> DEFINE G == {m \in Nat : p + m + 1 <= hi => SortsBefore(r, d[p], d[p + m + 1])}
  <2>1. 0 \in G
    <3>1. p + 1 <= hi => p + 1 \in lo + 1..hi /\ (p + 1) - 1 = p
      BY <1>0
    <3>2. p + 1 <= hi => SortsBefore(r, d[p], d[p + 1])
      BY <3>1
    <3>3. p + 0 + 1 = p + 1
      BY <1>0
    <3> QED BY <3>2, <3>3
  <2>2. ASSUME NEW m \in 0..q - p - 2, m \in G PROVE m + 1 \in G
    <3>1. m \in Nat /\ p + (m + 1) + 1 = p + m + 2
      BY <1>0
    <3>2. CASE p + m + 2 <= hi
      <4>1. /\ p + m + 2 \in lo + 1..hi /\ p + m + 2 \in lo..hi /\ (p + m + 2) - 1 = p + m + 1
            /\ p + m + 1 \in lo..hi /\ p + m + 1 <= hi
        BY <1>0, <3>1, <3>2
      <4>2. SortsBefore(r, d[p + m + 1], d[p + m + 2]) /\ SortsBefore(r, d[p], d[p + m + 1])
        BY <2>2, <4>1
      <4>3. SortsBefore(r, d[p], d[p + m + 2])
        BY <1>0, <4>1, <4>2, BeforeTransitive
      <4> QED BY <3>1, <4>3
    <3> QED BY <3>1, <3>2
  <2>3. q - p - 1 \in Nat /\ p + (q - p - 1) + 1 = q /\ q <= hi /\ q - p - 1 \in 0..q - p - 1
        /\ (q - p - 1) - 1 = q - p - 2
    BY <1>0, <1>1
  <2> HIDE DEF G
  <2>4. 0..q - p - 1 \subseteq G
    BY <2>1, <2>2, <2>3, UpTo
  <2> QED BY <2>3, <2>4 DEF G
<1> QED BY <1>1 DEF Sorted

(* The insertion sort of timsort.rs.                                         *)
SunkAt(d, e, from, i, p) ==
  \A m \in 1..Len(d) : e[m] = IF m < p \/ m > i THEN d[m] ELSE IF m = p THEN d[i] ELSE d[m - 1]

LEMMA InsertingAt ==
  ASSUME NEW f \in Seq(Element), NEW p \in 1..Len(f) + 1, NEW v \in Element
  PROVE  /\ Sort!InsertAt(f, p, v) \in Seq(Element) /\ Len(Sort!InsertAt(f, p, v)) = Len(f) + 1
         /\ \A m \in 1..Len(f) + 1 :
              Sort!InsertAt(f, p, v)[m] = IF m < p THEN f[m] ELSE IF m = p THEN v ELSE f[m - 1]
<1>1. Sort!InsertAt(f, p, v) \in Seq(Element) /\ Len(Sort!InsertAt(f, p, v)) = Len(f) + 1
  BY SortInsertIs
<1>2. ASSUME NEW m \in 1..Len(f) + 1
      PROVE  Sort!InsertAt(f, p, v)[m] = IF m < p THEN f[m] ELSE IF m = p THEN v ELSE f[m - 1]
  BY SortInsertIs, SMTT(30)
<1> QED BY <1>1, <1>2

LEMMA SunkShape ==
  ASSUME NEW d \in Seq(Element), NEW from \in 1..Len(d), NEW i \in from..Len(d)
  PROVE  \E p \in from..i :
           /\ Sort!Sunk(d, from, i) \in Seq(Element) /\ Len(Sort!Sunk(d, from, i)) = Len(d)
           /\ SunkAt(d, Sort!Sunk(d, from, i), from, i, p)
           /\ \A q \in p..i - 1 : Sort!Less(d[i], d[q])
           /\ p > from => ~Sort!Less(d[i], d[p - 1])
<1> DEFINE R == {q \in from..i : \A s \in q..i - 1 : Sort!Less(d[i], d[s])}
           p == Sort!Min(R)
           f == Sort!RemoveAt(d, i)
           e == Sort!InsertAt(f, p, d[i])
<1>1. Len(d) \in Nat /\ from \in Nat /\ i \in 1..Len(d) /\ i \in Nat /\ from <= i
  BY LenProperties
<1>2. i \in R /\ R \subseteq Nat
  BY <1>1
<1>3. p \in R /\ \A q \in R : p <= q
  <2> HIDE DEF R
  <2> QED BY <1>2, LeastIs
<1>4. p \in from..i /\ \A q \in p..i - 1 : Sort!Less(d[i], d[q])
  BY <1>3
<1>5. ASSUME p > from, Sort!Less(d[i], d[p - 1]) PROVE FALSE
  <2>0. p \in Int /\ p - 1 \in from..i
    BY <1>1, <1>4, <1>5
  <2>1. \A s \in p - 1..i - 1 : s = p - 1 \/ s \in p..i - 1
    BY <1>1, <1>4, <2>0
  <2>2. \A s \in p - 1..i - 1 : Sort!Less(d[i], d[s])
    BY <1>4, <1>5, <2>1
  <2>3. p - 1 \in R
    BY <2>0, <2>2
  <2>4. p <= p - 1
    BY <1>3, <2>3
  <2> QED BY <2>0, <2>4
<1> HIDE DEF R, p
<1>6. /\ f \in Seq(Element) /\ Len(f) = Len(d) - 1
      /\ \A m \in 1..Len(d) - 1 : f[m] = IF m < i THEN d[m] ELSE d[m + 1]
  BY <1>1, SortRemoveIs
<1> HIDE DEF f
<1>7. p \in 1..Len(f) + 1 /\ d[i] \in Element /\ Len(f) + 1 = Len(d)
  BY <1>1, <1>4, <1>6, ElementOfSeq
<1>8. /\ e \in Seq(Element) /\ Len(e) = Len(d)
      /\ \A m \in 1..Len(d) : e[m] = IF m < p THEN f[m] ELSE IF m = p THEN d[i] ELSE f[m - 1]
  <2>1. /\ Sort!InsertAt(f, p, d[i]) \in Seq(Element) /\ Len(Sort!InsertAt(f, p, d[i])) = Len(f) + 1
        /\ \A m \in 1..Len(f) + 1 : Sort!InsertAt(f, p, d[i])[m]
               = IF m < p THEN f[m] ELSE IF m = p THEN d[i] ELSE f[m - 1]
    <3> HIDE DEF e
    <3>1. f \in Seq(Element) /\ p \in 1..Len(f) + 1 /\ d[i] \in Element
      BY <1>6, <1>7
    <3> QED BY <3>1, InsertingAt
  <2> QED BY <1>7, <2>1
<1>9. SunkAt(d, e, from, i, p)
  <2> SUFFICES ASSUME NEW m \in 1..Len(d)
               PROVE  e[m] = IF m < p \/ m > i THEN d[m] ELSE IF m = p THEN d[i] ELSE d[m - 1]
    BY DEF SunkAt
  <2>0. p \in Int /\ p <= i /\ 1 <= p /\ m \in Int
    BY <1>1, <1>4
  <2>1. CASE m < p
    <3>1. m \in 1..Len(d) - 1 /\ m < i
      BY <1>1, <2>0, <2>1
    <3> QED BY <1>6, <1>8, <2>1, <3>1
  <2>2. CASE m = p
    BY <1>1, <1>8, <2>0, <2>2
  <2>3. CASE m > p
    <3>1. m - 1 \in 1..Len(d) - 1 /\ (m - 1 < i <=> m <= i) /\ (m - 1) + 1 = m
      BY <1>1, <2>0, <2>3
    <3>2. f[m - 1] = IF m - 1 < i THEN d[m - 1] ELSE d[m]
      BY <1>6, <3>1
    <3>3. e[m] = f[m - 1]
      BY <1>8, <2>0, <2>3
    <3>4. m > i <=> ~(m <= i)
      BY <1>1, <2>0
    <3>5. ~(m < p) /\ m # p
      BY <2>0, <2>3
    <3> QED BY <3>1, <3>2, <3>3, <3>4, <3>5
  <2> QED BY <2>0, <2>1, <2>2, <2>3
<1>10. e = Sort!Sunk(d, from, i)
  BY DEF e, f, p, R, Sort!Sunk
<1> HIDE DEF e
<1> QED BY <1>4, <1>5, <1>8, <1>9, <1>10

LEMMA SunkIs ==
  ASSUME NEW d \in Seq(Element), NEW from \in 1..Len(d), NEW i \in from..Len(d),
         Sorted(reverse, d, from, i - 1),
         \A q \in from..i - 1 : d[q].key = d[i].key => d[q].id < d[i].id
  PROVE  /\ Sorted(reverse, Sort!Sunk(d, from, i), from, i)
         /\ Same(d, Sort!Sunk(d, from, i), from, i)
         /\ Elements(Sort!Sunk(d, from, i), from, i) = Elements(d, from, i)
<1> DEFINE e == Sort!Sunk(d, from, i)
<1>1. PICK p \in from..i :
        /\ e \in Seq(Element) /\ Len(e) = Len(d)
        /\ SunkAt(d, e, from, i, p)
        /\ \A q \in p..i - 1 : Sort!Less(d[i], d[q])
        /\ p > from => ~Sort!Less(d[i], d[p - 1])
  BY SunkShape
<1> HIDE DEF e
<1>0. /\ Len(d) \in Nat /\ from \in Nat /\ i \in Nat /\ p \in Nat /\ from <= p /\ p <= i
      /\ i <= Len(d) /\ 1 <= from /\ d[i] \in Element
      /\ \A q \in from..i : q \in 1..Len(d) /\ d[q] \in Element
  BY <1>1, LenProperties, ElementOfSeq
<1>2. /\ \A m \in from..p - 1 : e[m] = d[m]
      /\ e[p] = d[i]
      /\ \A m \in p + 1..i : e[m] = d[m - 1] /\ m - 1 \in p..i - 1
      /\ \A m \in 1..Len(d) : m \notin from..i => e[m] = d[m]
  <2>1. ASSUME NEW m \in from..p - 1 PROVE e[m] = d[m]
    BY <1>0, <1>1, <2>1 DEF SunkAt
  <2>2. e[p] = d[i]
    BY <1>0, <1>1 DEF SunkAt
  <2>3. ASSUME NEW m \in p + 1..i PROVE e[m] = d[m - 1] /\ m - 1 \in p..i - 1
    <3>1. m \in 1..Len(d) /\ ~(m < p) /\ ~(m > i) /\ m # p /\ m - 1 \in p..i - 1
      BY <1>0
    <3> QED BY <1>1, <3>1 DEF SunkAt
  <2>4. ASSUME NEW m \in 1..Len(d), m \notin from..i PROVE e[m] = d[m]
    <3>1. m < p \/ m > i
      BY <1>0, <2>4
    <3> QED BY <1>1, <3>1 DEF SunkAt
  <2> QED BY <2>1, <2>2, <2>3, <2>4
<1>3. \A a, b \in from..i - 1 : a < b => SortsBefore(reverse, d[a], d[b])
  BY DEF Sorted
<1>4. \A a \in p..i - 1 : SortsBefore(reverse, d[i], d[a])
  BY <1>1, LessIs DEF SortsBefore
<1>5. \A a \in from..p - 1 : SortsBefore(reverse, d[a], d[i])
  <2> SUFFICES ASSUME NEW a \in from..p - 1 PROVE SortsBefore(reverse, d[a], d[i])
    OBVIOUS
  <2>1. p > from /\ p - 1 \in from..i - 1 /\ a \in from..i - 1 /\ (a = p - 1 \/ a < p - 1)
        /\ p - 1 \in from..i /\ a \in from..i
    BY <1>0
  <2>2. ~Under(reverse, d[i], d[p - 1]) /\ (d[p - 1].key = d[i].key => d[p - 1].id < d[i].id)
    BY <1>1, <2>1, LessIs
  <2>3. SortsBefore(reverse, d[p - 1], d[i])
    BY <1>0, <2>1, <2>2, BeforeTransitive
  <2>4. a < p - 1 => SortsBefore(reverse, d[a], d[p - 1])
    BY <1>3, <2>1
  <2> QED BY <1>0, <2>1, <2>3, <2>4, BeforeTransitive
<1>6. ASSUME NEW a \in from..i, NEW b \in from..i, a < b PROVE SortsBefore(reverse, e[a], e[b])
  <2>1. CASE b < p
    <3>1. a \in from..p - 1 /\ b \in from..p - 1 /\ a \in from..i - 1 /\ b \in from..i - 1
      BY <1>0, <1>6, <2>1
    <3> QED BY <1>2, <1>3, <1>6, <3>1
  <2>2. CASE b = p
    <3>1. a \in from..p - 1
      BY <1>0, <1>6, <2>2
    <3> QED BY <1>2, <1>5, <2>2, <3>1
  <2>3. CASE b > p /\ a = p
    <3>1. b \in p + 1..i
      BY <1>0, <2>3
    <3> QED BY <1>2, <1>4, <2>3, <3>1
  <2>4. CASE b > p /\ a < p
    <3>1. b \in p + 1..i /\ a \in from..p - 1 /\ a \in from..i - 1 /\ b - 1 \in from..i - 1
          /\ a < b - 1
      BY <1>0, <2>4
    <3> QED BY <1>2, <1>3, <3>1
  <2>5. CASE b > p /\ a > p
    <3>1. b \in p + 1..i /\ a \in p + 1..i /\ a - 1 \in from..i - 1 /\ b - 1 \in from..i - 1
          /\ a - 1 < b - 1
      BY <1>0, <1>6, <2>5
    <3> QED BY <1>2, <1>3, <3>1
  <2> QED BY <1>0, <2>1, <2>2, <2>3, <2>4, <2>5
<1>7. Elements(e, from, i) = Elements(d, from, i)
  <2>1. ASSUME NEW m \in from..i PROVE \E q \in from..i : e[m] = d[q]
    <3>1. CASE m < p
      <4>1. m \in from..p - 1
        BY <1>0, <3>1
      <4> QED BY <1>2, <4>1
    <3>2. CASE m = p
      <4>1. i \in from..i
        BY <1>0
      <4> QED BY <1>2, <3>2, <4>1
    <3>3. CASE m > p
      <4>1. m \in p + 1..i /\ m - 1 \in from..i
        BY <1>0, <3>3
      <4> QED BY <1>2, <4>1
    <3> QED BY <1>0, <3>1, <3>2, <3>3
  <2>2. ASSUME NEW m \in from..i PROVE \E q \in from..i : d[m] = e[q]
    <3>1. CASE m < p
      <4>1. m \in from..p - 1
        BY <1>0, <3>1
      <4> QED BY <1>2, <4>1
    <3>2. CASE m = i
      BY <1>0, <1>2, <3>2
    <3>3. CASE m >= p /\ m < i
      <4>1. m + 1 \in p + 1..i /\ m + 1 \in from..i /\ (m + 1) - 1 = m
        BY <1>0, <3>3
      <4> QED BY <1>2, <4>1
    <3> QED BY <1>0, <3>1, <3>2, <3>3
  <2>3. Elements(e, from, i) \subseteq Elements(d, from, i)
    <3> SUFFICES ASSUME NEW m \in from..i PROVE e[m] \in Elements(d, from, i)
      BY DEF Elements
    <3> QED BY <2>1 DEF Elements
  <2>4. Elements(d, from, i) \subseteq Elements(e, from, i)
    <3> SUFFICES ASSUME NEW m \in from..i PROVE d[m] \in Elements(e, from, i)
      BY DEF Elements
    <3> QED BY <2>2 DEF Elements
  <2> QED BY <2>3, <2>4
<1>8. Sorted(reverse, e, from, i)
  BY <1>6 DEF Sorted
<1>9. Same(d, e, from, i)
  BY <1>1, <1>2 DEF Same
<1> QED BY <1>7, <1>8, <1>9 DEF e

SunkStep(d, from, k, f) == IF k = 0 THEN d ELSE Sort!Sunk(f[k - 1], from, from + k)
(* What is as far in order as the first k turns of the insertion sort make it. *)
Insorted(d, from, k, e) ==
  /\ Sorted(reverse, e, from, from + k)
  /\ Same(d, e, from, from + k)
  /\ Elements(e, from, from + k) = Elements(d, from, from + k)
(* Equal elements are where they were first. *)
Tied(d, lo, hi) == \A p, q \in lo..hi : p < q /\ d[p].key = d[q].key => d[p].id < d[q].id

LEMMA SunkTurn ==
  ASSUME NEW d \in Seq(Element), NEW from \in 1..Len(d), NEW to \in from..Len(d),
         Tied(d, from, to), NEW k \in 1..to - from, NEW b, Insorted(d, from, k - 1, b)
  PROVE  Insorted(d, from, k, Sort!Sunk(b, from, from + k))
<1> DEFINE i == from + k
           e == Sort!Sunk(b, from, i)
<1>0. /\ Len(d) \in Nat /\ from \in Nat /\ to \in Nat /\ k \in Nat /\ 1 <= from /\ to <= Len(d)
      /\ i \in from..to /\ i \in 1..Len(d) /\ from + (k - 1) = i - 1 /\ i - 1 \in Nat
      /\ i \notin from..i - 1 /\ from..i = (from..i - 1) \cup {i}
  BY LenProperties
<1> HIDE DEF i
<1>1. /\ Sorted(reverse, b, from, i - 1) /\ b \in Seq(Element) /\ Len(b) = Len(d)
      /\ \A p \in 1..Len(d) : p \notin from..i - 1 => b[p] = d[p]
      /\ Elements(b, from, i - 1) = Elements(d, from, i - 1)
  BY <1>0 DEF Insorted, Same
<1>2. b[i] = d[i]
  BY <1>0, <1>1
<1>3. ASSUME NEW q \in from..i - 1, b[q].key = b[i].key PROVE b[q].id < b[i].id
  <2>1. b[q] \in Elements(b, from, i - 1)
    BY DEF Elements
  <2>2. b[q] \in Elements(d, from, i - 1)
    BY <1>1, <2>1
  <2>3. PICK s \in from..i - 1 : b[q] = d[s]
    BY <2>2 DEF Elements
  <2>4. s \in from..to /\ i \in from..to /\ s < i
    BY <1>0
  <2>5. d[s].key = d[i].key
    BY <1>2, <1>3, <2>3
  <2>6. d[s].id < d[i].id
    BY <2>4, <2>5 DEF Tied
  <2> QED BY <1>2, <2>3, <2>6
<1>4. /\ Sorted(reverse, e, from, i) /\ Same(b, e, from, i)
      /\ Elements(e, from, i) = Elements(b, from, i)
  <2>1. from \in 1..Len(b) /\ i \in from..Len(b)
    BY <1>0, <1>1
  <2> QED BY <1>1, <1>3, <2>1, SunkIs
<1>5. Elements(b, from, i) = Elements(d, from, i)
  <2>1. Elements(b, from, i) = Elements(b, from, i - 1) \cup {b[i]}
    BY <1>0 DEF Elements
  <2>2. Elements(d, from, i) = Elements(d, from, i - 1) \cup {d[i]}
    BY <1>0 DEF Elements
  <2> QED BY <1>1, <1>2, <2>1, <2>2
<1>6. Same(d, e, from, i)
  <2>1. e \in Seq(Element) /\ Len(e) = Len(d)
        /\ \A p \in 1..Len(d) : p \notin from..i => e[p] = b[p]
    BY <1>1, <1>4 DEF Same
  <2>2. \A p \in 1..Len(d) : p \notin from..i => b[p] = d[p]
    BY <1>0, <1>1
  <2> HIDE DEF e
  <2> QED BY <2>1, <2>2 DEF Same
<1> HIDE DEF e
<1>7. Insorted(d, from, k, e)
  BY <1>4, <1>5, <1>6 DEF Insorted, i
<1> QED BY <1>7 DEF e, i

LEMMA InsertionSortIs ==
  ASSUME NEW d \in Seq(Element), NEW from \in 1..Len(d), NEW to \in from..Len(d),
         Tied(d, from, to)
  PROVE  Insorted(d, from, to - from, Sort!InsertionSort(d, from, to))
<1> DEFINE n == to - from
           S == Seq(Element)
           Fit(k, b) == IF Insorted(d, from, k - 1, b) THEN Sort!Sunk(b, from, from + k) ELSE d
           F == [p \in (1..n) \X S |-> Fit(p[1], p[2])]
           h == CHOOSE f : f = [k \in 0..n |-> SunkStep(d, from, k, f)]
<1>0. n \in Nat /\ Len(d) \in Nat /\ from \in Nat /\ to \in Nat /\ from <= to
  BY LenProperties
<1>1. \A k \in 1..n : \A b \in S : Fit(k, b) \in S
  <2> SUFFICES ASSUME NEW k \in 1..n, NEW b \in S, Insorted(d, from, k - 1, b)
               PROVE  Sort!Sunk(b, from, from + k) \in S
    OBVIOUS
  <2>1. Insorted(d, from, k, Sort!Sunk(b, from, from + k))
    BY SunkTurn
  <2> QED BY <2>1 DEF Insorted, Same
<1>2. F \in [(1..n) \X S -> S]
  <2> HIDE DEF Fit, S
  <2> QED BY <1>1
<1>3. PICK g \in [0..n -> S] : IsLoop(F, d, n, g)
  <2> HIDE DEF F
  <2>1. d \in S
    OBVIOUS
  <2> HIDE DEF S, n
  <2> QED BY <1>0, <1>2, <2>1, LoopExists
<1>4. /\ g = [k \in 0..n |-> LoopStep(F, d, k, g)]
      /\ \A k \in 1..n : F[<<k, g[k - 1]>>] = Fit(k, g[k - 1])
  <2>1. \A k \in 1..n : k - 1 \in 0..n
    BY <1>0
  <2>2. \A k \in 1..n : g[k - 1] \in S
    BY <2>1
  <2> HIDE DEF Fit, S, n
  <2> QED BY <1>3, <2>2 DEF IsLoop
<1> HIDE DEF F, S
<1>5. 0..n \subseteq {k \in 0..n : Insorted(d, from, k, g[k])}
  <2> DEFINE G == {k \in 0..n : Insorted(d, from, k, g[k])}
  <2>1. 0 \in G
    <3>1. 0 \in 0..n /\ from + 0 = from
      BY <1>0
    <3>2. g[0] = d
      BY <1>4, <3>1 DEF LoopStep
    <3>3. Sorted(reverse, d, from, from)
      BY <1>0 DEF Sorted
    <3>4. Same(d, d, from, from)
      BY DEF Same
    <3> QED BY <3>1, <3>2, <3>3, <3>4 DEF Insorted
  <2>2. ASSUME NEW m \in 0..n - 1, m \in G PROVE m + 1 \in G
    <3>1. m + 1 \in 1..n /\ m + 1 \in 0..n /\ m + 1 # 0 /\ (m + 1) - 1 = m
      BY <1>0
    <3>2. g[m + 1] = F[<<m + 1, g[m]>>]
      BY <1>4, <3>1 DEF LoopStep
    <3>3. g[m + 1] = Fit(m + 1, g[m])
      BY <1>4, <3>1, <3>2
    <3>4. Insorted(d, from, (m + 1) - 1, g[m])
      BY <2>2, <3>1
    <3>5. g[m + 1] = Sort!Sunk(g[m], from, from + (m + 1))
      BY <3>3, <3>4
    <3>6. Insorted(d, from, m + 1, Sort!Sunk(g[m], from, from + (m + 1)))
      <4> HIDE DEF Fit, G, h
      <4> QED BY <3>1, <3>4, SunkTurn
    <3> QED BY <3>1, <3>5, <3>6
  <2> HIDE DEF G
  <2>3. 0..n \subseteq G
    BY <1>0, <2>1, <2>2, UpTo
  <2> QED BY <2>3 DEF G
<1>6. g = [k \in 0..n |-> SunkStep(d, from, k, g)]
  <2> SUFFICES ASSUME NEW k \in 0..n
               PROVE  LoopStep(F, d, k, g) = SunkStep(d, from, k, g)
    BY <1>4
  <2>1. CASE k = 0
    BY <2>1 DEF LoopStep, SunkStep
  <2>2. CASE k # 0
    <3>1. k \in 1..n /\ k - 1 \in 0..n
      BY <1>0, <2>2
    <3>2. Insorted(d, from, k - 1, g[k - 1])
      BY <1>5, <3>1
    <3>3. F[<<k, g[k - 1]>>] = Sort!Sunk(g[k - 1], from, from + k)
      BY <1>4, <3>1, <3>2
    <3> QED BY <2>2, <3>3 DEF LoopStep, SunkStep
  <2> QED BY <2>1, <2>2
<1>7. h = [k \in 0..n |-> SunkStep(d, from, k, h)]
  BY <1>6
<1>8. Sort!InsertionSort(d, from, to) = h[n]
  BY DEF Sort!InsertionSort, SunkStep
<1> HIDE DEF h
<1>9. 0..n \subseteq {k \in 0..n : h[k] = g[k]}
  <2> DEFINE G == {k \in 0..n : h[k] = g[k]}
  <2>1. 0 \in G
    BY <1>0, <1>6, <1>7 DEF SunkStep
  <2>2. ASSUME NEW m \in 0..n - 1, m \in G PROVE m + 1 \in G
    <3>1. m + 1 \in 0..n /\ m + 1 # 0 /\ (m + 1) - 1 = m
      BY <1>0
    <3>2. h[m + 1] = Sort!Sunk(h[m], from, from + (m + 1))
      BY <1>7, <3>1 DEF SunkStep
    <3>3. g[m + 1] = Sort!Sunk(g[m], from, from + (m + 1))
      BY <1>6, <3>1 DEF SunkStep
    <3> QED BY <2>2, <3>1, <3>2, <3>3
  <2> HIDE DEF G
  <2>3. 0..n \subseteq G
    BY <1>0, <2>1, <2>2, UpTo
  <2> QED BY <2>3 DEF G
<1>10. n \in 0..n
  BY <1>0
<1>11. h[n] = g[n] /\ Insorted(d, from, n, g[n])
  BY <1>5, <1>9, <1>10
<1> QED BY <1>8, <1>11

LEMMA TiedAfter ==
  ASSUME NEW r, NEW d \in Seq(Element), NEW lo \in 1..Len(d), NEW hi \in lo..Len(d),
         NEW end \in lo..hi, Good(r, d, lo, end), Untouched(d, end + 1, hi)
  PROVE  Tied(d, lo, hi)
<1>0. /\ Len(d) \in Nat /\ lo \in Nat /\ hi \in Nat /\ end \in Nat
      /\ \A p \in lo..hi : d[p] \in Element
  BY LenProperties, ElementOfSeq
<1>1. ASSUME NEW p \in lo..hi, NEW q \in lo..hi, p < q, d[p].key = d[q].key
      PROVE  d[p].id < d[q].id
  <2>1. CASE q <= end
    <3>1. p \in lo..end /\ q \in lo..end
      BY <1>0, <1>1, <2>1
    <3>2. SortsBefore(r, d[p], d[q])
      BY <1>1, <3>1 DEF Good, Sorted
    <3>3. d[p].key \in Int /\ d[q].key \in Int
      BY <1>0 DEF Element
    <3> QED BY <1>1, <3>2, <3>3 DEF SortsBefore, Under
  <2>2. CASE p <= end /\ q > end
    <3>1. p \in lo..end /\ q \in end + 1..hi
      BY <1>0, <1>1, <2>2
    <3>2. d[p].id \in lo..end /\ d[q].id = q
      BY <3>1 DEF Good, Untouched
    <3> QED BY <1>0, <2>2, <3>2
  <2>3. CASE p > end
    <3>1. p \in end + 1..hi /\ q \in end + 1..hi
      BY <1>0, <1>1, <2>3
    <3> QED BY <1>1, <3>1 DEF Untouched
  <2> QED BY <1>0, <2>1, <2>2, <2>3
<1> QED BY <1>1 DEF Tied

(* What the turns of the sort leave is good when what they began with was untouched
   or in order. *)
LEMMA SortedGood ==
  ASSUME NEW d \in Seq(Element), NEW lo \in 1..Len(d), NEW hi \in lo..Len(d), Tied(d, lo, hi),
         {d[p].id : p \in lo..hi} = lo..hi
  PROVE  /\ Good(reverse, Sort!InsertionSort(d, lo, hi), lo, hi)
         /\ Same(d, Sort!InsertionSort(d, lo, hi), lo, hi)
<1> DEFINE e == Sort!InsertionSort(d, lo, hi)
<1>0. lo \in Nat /\ hi \in Nat /\ lo + (hi - lo) = hi
  BY LenProperties
<1>1. Insorted(d, lo, hi - lo, e)
  BY InsertionSortIs
<1> HIDE DEF e
<1>2. Sorted(reverse, e, lo, hi) /\ Same(d, e, lo, hi) /\ Elements(e, lo, hi) = Elements(d, lo, hi)
  BY <1>0, <1>1 DEF Insorted
<1>3. {e[p].id : p \in lo..hi} = {x.id : x \in Elements(e, lo, hi)}
  BY DEF Elements
<1>4. {d[p].id : p \in lo..hi} = {x.id : x \in Elements(d, lo, hi)}
  BY DEF Elements
<1> QED BY <1>2, <1>3, <1>4 DEF Good, e

(* The run that is found: its bounds, and that it is in order once it is flipped. *)
Found(s, run) == IF run.down THEN Sort!Flipped(buffer, s + 1, run.end) ELSE buffer
LEMMA CountRunIs ==
  ASSUME buffer \in Seq(Element), NEW s \in 0..Len(buffer) - 1, Untouched(buffer, s + 1, Len(buffer))
  PROVE  /\ Sort!CountRun(s).end \in s + 1..Len(buffer)
         /\ Good(reverse, Found(s, Sort!CountRun(s)), s + 1, Sort!CountRun(s).end)
         /\ Same(buffer, Found(s, Sort!CountRun(s)), s + 1, Sort!CountRun(s).end)
<1> DEFINE n == Len(buffer)
           down == s + 1 < n /\ Sort!Less(buffer[s + 2], buffer[s + 1])
           R == {e \in s + 1..n : \A q \in s + 2..e : Sort!Less(buffer[q], buffer[q - 1]) = down}
           end == Sort!Max(R)
           found == Found(s, Sort!CountRun(s))
<1>0. n \in Nat /\ s \in Nat /\ s < n /\ \A q \in 1..n : buffer[q] \in Element
  BY LenProperties, ElementOfSeq
<1>1. Sort!CountRun(s).end = end /\ Sort!CountRun(s).down = down
  BY DEF Sort!CountRun
<1>2. end \in s + 1..n /\ \A q \in s + 2..end : Sort!Less(buffer[q], buffer[q - 1]) = down
  <2>1. s + 1 \in R /\ R \in SUBSET (0..n)
    <3>1. s + 1 \in s + 1..n /\ s + 2..s + 1 = {} /\ s + 1..n \subseteq 0..n
      BY <1>0
    <3>2. R \subseteq s + 1..n
      OBVIOUS
    <3> QED BY <3>1, <3>2
  <2>2. end \in R
    <3> HIDE DEF R
    <3> QED BY <1>0, <2>1, MaxIs
  <2> QED BY <2>2
<1> HIDE DEF end
<1>3. end \in Nat /\ s + 1 \in 1..n /\ end \in s + 1..n /\ s + 1 \in Nat
  BY <1>0, <1>2
<1>4. CASE ~down
  <2>1. found = buffer
    BY <1>1, <1>4 DEF Found
  <2>2. ASSUME NEW q \in s + 2..end PROVE SortsBefore(reverse, buffer[q - 1], buffer[q])
    <3>1. q \in 1..n /\ q - 1 \in 1..n /\ q \in s + 1..n /\ q - 1 \in s + 1..n /\ q - 1 < q
      BY <1>0, <1>3
    <3>2. ~Sort!Less(buffer[q], buffer[q - 1])
      BY <1>2, <1>4
    <3>3. buffer[q].id = q /\ buffer[q - 1].id = q - 1
      BY <3>1 DEF Untouched
    <3>4. ~Under(reverse, buffer[q], buffer[q - 1]) /\ buffer[q - 1].id < buffer[q].id
      BY <3>1, <3>2, <3>3, LessIs
    <3>5. buffer[q] \in Element /\ buffer[q - 1] \in Element
      BY <1>0, <3>1
    <3> QED BY <3>4, <3>5, BeforeTransitive
  <2>3. s + 2 = (s + 1) + 1
    BY <1>0
  <2>4. Sorted(reverse, buffer, s + 1, end)
    <3> HIDE DEF down, n
    <3> QED BY <1>3, <2>2, <2>3, AdjacentSorted DEF n
  <2>5. \A p \in s + 1..end : buffer[p].id = p
    BY <1>0, <1>3 DEF Untouched
  <2>6. {buffer[p].id : p \in s + 1..end} = s + 1..end
    BY <2>5
  <2>7. Same(buffer, buffer, s + 1, end)
    BY DEF Same
  <2> QED BY <1>1, <1>3, <2>1, <2>4, <2>6, <2>7 DEF Good
<1>5. CASE down
  <2> DEFINE at(p) == (s + 1) + end - p
  <2>1. found = [p \in DOMAIN buffer |-> IF p \in s + 1..end THEN buffer[at(p)] ELSE buffer[p]]
    BY <1>1, <1>5 DEF Found, Sort!Flipped
  <2>2. DOMAIN buffer = 1..n
    BY LenProperties
  <2>3. \A p \in s + 1..end : at(p) \in s + 1..end /\ at(p) \in 1..n /\ at(at(p)) = p
    BY <1>0, <1>3
  <2>4. found \in Seq(Element) /\ Len(found) = n
    <3>1. \A p \in 1..n : found[p] \in Element
      BY <1>0, <2>1, <2>2, <2>3
    <3>2. DOMAIN found = 1..n
      BY <2>1, <2>2
    <3>3. found = [p \in 1..n |-> found[p]]
      BY <2>1, <2>2
    <3>4. found \in [1..n -> Element]
      BY <3>1, <3>3
    <3> HIDE DEF found, n
    <3> QED BY <1>0, <3>4, IsASeq, LenProperties
  <2>5. \A p \in s + 1..end : found[p] = buffer[at(p)]
    BY <1>0, <1>3, <2>1, <2>2
  <2>6. Same(buffer, found, s + 1, end)
    BY <2>1, <2>2, <2>4 DEF Same
  <2> HIDE DEF found
  <2>7. ASSUME NEW q \in s + 2..end PROVE SortsBefore(reverse, found[q - 1], found[q])
    <3>1. q \in s + 1..end /\ q - 1 \in s + 1..end /\ at(q - 1) \in s + 2..end /\ at(q) = at(q - 1) - 1
      BY <1>0, <1>3
    <3>2. Sort!Less(buffer[at(q - 1)], buffer[at(q - 1) - 1])
      BY <1>2, <1>5, <3>1
    <3>3. Sort!Less(found[q - 1], found[q])
      BY <2>5, <3>1, <3>2
    <3> QED BY <3>3, LessIs DEF SortsBefore
  <2>8. s + 2 = (s + 1) + 1
    BY <1>0
  <2>9. Sorted(reverse, found, s + 1, end)
    <3> HIDE DEF down, n
    <3> QED BY <1>3, <2>4, <2>7, <2>8, AdjacentSorted
  <2>10. \A p \in s + 1..end : found[p].id = at(p)
    <3>1. \A p \in s + 1..n : buffer[p].id = p
      BY DEF Untouched
    <3>2. \A p \in s + 1..end : at(p) \in s + 1..n
      BY <1>0, <1>3
    <3> QED BY <2>5, <3>1, <3>2
  <2>11. {found[p].id : p \in s + 1..end} = s + 1..end
    <3> DEFINE J == {found[p].id : p \in s + 1..end}
    <3>1. \A x \in J : x \in s + 1..end
      BY <2>3, <2>10
    <3>2. ASSUME NEW x \in s + 1..end PROVE x \in J
      <4>1. at(x) \in s + 1..end /\ found[at(x)].id = x
        BY <2>3, <2>10
      <4> QED BY <4>1
    <3> HIDE DEF J
    <3>3. J = s + 1..end
      BY <3>1, <3>2
    <3> QED BY <3>3 DEF J
  <2> QED BY <1>1, <1>3, <2>6, <2>9, <2>11 DEF Good, found
<1> QED BY <1>4, <1>5

ShiftStep(n, e, f) == IF e = 0 THEN n ELSE f[e - 1] \div 2
LEMMA ComputeMinRunIs ==
  ASSUME minRun \in Nat \ {0, 1}, NEW n \in Nat
  PROVE  Sort!ComputeMinRun(n) \in Nat
<1> DEFINE F == [p \in (1..n) \X Nat |-> p[2] \div 2]
           h == CHOOSE f : f = [e \in 0..n |-> ShiftStep(n, e, f)]
           R == {e \in 0..n : h[e] < minRun}
           last == Sort!Min(R)
<1>1. F \in [(1..n) \X Nat -> Nat]
  BY Halves
<1>2. PICK g \in [0..n -> Nat] : IsLoop(F, n, n, g)
  <2> HIDE DEF F
  <2> QED BY <1>1, LoopExists
<1>3. g = [e \in 0..n |-> ShiftStep(n, e, g)]
  <2> SUFFICES ASSUME NEW e \in 0..n
               PROVE  LoopStep(F, n, e, g) = ShiftStep(n, e, g)
    BY <1>2 DEF IsLoop
  <2>1. e # 0 => e \in 1..n /\ g[e - 1] \in Nat
    OBVIOUS
  <2> QED BY <2>1 DEF LoopStep, ShiftStep
<1>4. h = [e \in 0..n |-> ShiftStep(n, e, h)]
  BY <1>3
<1>5. Sort!ComputeMinRun(n) = h[last] + IF \E e \in 0..last - 1 : h[e] % 2 = 1 THEN 1 ELSE 0
  BY DEF Sort!ComputeMinRun, ShiftStep
<1> HIDE DEF h
<1>6. 0..n \subseteq {e \in Nat : h[e] \in Nat /\ (h[e] = 0 \/ h[e] + e <= n)}
  <2> DEFINE G == {e \in Nat : h[e] \in Nat /\ (h[e] = 0 \/ h[e] + e <= n)}
  <2>1. 0 \in G
    BY <1>4 DEF ShiftStep
  <2>2. ASSUME NEW e \in 0..n - 1, e \in G PROVE e + 1 \in G
    <3>1. e + 1 \in 0..n /\ e + 1 # 0 /\ (e + 1) - 1 = e /\ e + 1 \in Nat /\ e \in Nat
      OBVIOUS
    <3>2. h[e + 1] = h[e] \div 2
      BY <1>4, <3>1 DEF ShiftStep
    <3>3. h[e] \in Nat /\ (h[e] = 0 \/ h[e] + e <= n)
      BY <2>2
    <3>4. h[e] \div 2 \in Nat /\ 2 * (h[e] \div 2) <= h[e]
      BY <3>3, Halves
    <3>5. h[e + 1] = 0 \/ h[e + 1] + (e + 1) <= n
      BY <3>1, <3>2, <3>3, <3>4
    <3> QED BY <3>1, <3>2, <3>4, <3>5
  <2> HIDE DEF G
  <2>3. 0..n \subseteq G
    BY <2>1, <2>2, UpTo
  <2> QED BY <2>3 DEF G
<1>7. n \in R
  <2>1. n \in 0..n
    OBVIOUS
  <2>2. h[n] \in Nat /\ (h[n] = 0 \/ h[n] + n <= n)
    BY <1>6, <2>1
  <2> QED BY <2>1, <2>2
<1>8. last \in R
  <2>1. R \subseteq Nat
    OBVIOUS
  <2> HIDE DEF R
  <2> QED BY <1>7, <2>1, LeastIs
<1>9. h[last] \in Nat
  BY <1>6, <1>8
<1> HIDE DEF last
<1> QED BY <1>5, <1>9

(* The stack of runs: they lie next to one another, from slot 0 up to s.     *)
Run == [start : Nat, len : Nat]
EndOf(run) == run.start + run.len
Chain(rs, s) ==
  /\ rs \in Seq(Run) /\ s \in Nat
  /\ IF Len(rs) = 0 THEN s = 0 ELSE rs[1].start = 0
  /\ \A k \in 1..Len(rs) : EndOf(rs[k]) = IF k = Len(rs) THEN s ELSE rs[k + 1].start

LEMMA ChainTyped ==
  ASSUME NEW rs, NEW s, Chain(rs, s)
  PROVE  /\ Len(rs) \in Nat /\ DOMAIN rs = 1..Len(rs)
         /\ \A k \in 1..Len(rs) : /\ rs[k] \in Run /\ rs[k].start \in Nat /\ rs[k].len \in Nat
                                  /\ EndOf(rs[k]) \in Nat /\ rs[k].start <= EndOf(rs[k])
<1>1. rs \in Seq(Run)
  BY DEF Chain
<1>2. Len(rs) \in Nat /\ DOMAIN rs = 1..Len(rs) /\ \A k \in 1..Len(rs) : rs[k] \in Run
  BY <1>1, LenProperties, ElementOfSeq
<1>3. ASSUME NEW k \in 1..Len(rs)
      PROVE  /\ rs[k].start \in Nat /\ rs[k].len \in Nat
             /\ EndOf(rs[k]) \in Nat /\ rs[k].start <= EndOf(rs[k])
  <2>1. rs[k].start \in Nat /\ rs[k].len \in Nat
    BY <1>2 DEF Run
  <2> QED BY <2>1 DEF EndOf
<1> QED BY <1>2, <1>3

LEMMA ChainOrdered ==
  ASSUME NEW rs, NEW s, Chain(rs, s), NEW j \in 1..Len(rs)
  PROVE  /\ \A k \in j + 1..Len(rs) : EndOf(rs[j]) <= rs[k].start
         /\ EndOf(rs[j]) <= s
<1>0. /\ Len(rs) \in Nat /\ j \in Nat /\ 1 <= j /\ j <= Len(rs) /\ s \in Nat
      /\ \A k \in 1..Len(rs) : rs[k].start \in Nat /\ EndOf(rs[k]) \in Nat /\ rs[k].start <= EndOf(rs[k])
  <2>1. s \in Nat
    BY DEF Chain
  <2>2. Len(rs) \in Nat
    BY ChainTyped
  <2>3. j \in Nat /\ 1 <= j /\ j <= Len(rs)
    BY <2>2
  <2> QED BY <2>1, <2>2, <2>3, ChainTyped
<1>1. ASSUME NEW k \in 1..Len(rs) - 1 PROVE EndOf(rs[k]) = rs[k + 1].start /\ k + 1 \in 1..Len(rs)
  <2>1. k \in 1..Len(rs) /\ k # Len(rs) /\ k + 1 \in 1..Len(rs)
    BY <1>0
  <2> QED BY <2>1 DEF Chain
<1> DEFINE n == Len(rs) - j
           G == {m \in Nat : m <= n => EndOf(rs[j]) <= EndOf(rs[j + m])
                                       /\ (m > 0 => EndOf(rs[j]) <= rs[j + m].start)}
<1>2. 0 \in G
  <2>1. j + 0 = j
    BY <1>0
  <2> QED BY <1>0, <2>1
<1>3. ASSUME NEW m \in 0..n - 1, m \in G PROVE m + 1 \in G
  <2>1. /\ m \in Nat /\ m <= n /\ j + m \in 1..Len(rs) - 1 /\ j + (m + 1) = (j + m) + 1
        /\ j + m \in 1..Len(rs) /\ j + (m + 1) \in 1..Len(rs) /\ m + 1 \in Nat
    BY <1>0
  <2>2. EndOf(rs[j]) <= EndOf(rs[j + m])
    BY <1>3, <2>1
  <2>3. EndOf(rs[j + m]) = rs[j + (m + 1)].start
    BY <1>1, <2>1
  <2>4. EndOf(rs[j]) <= rs[j + (m + 1)].start
    BY <2>2, <2>3
  <2>5. EndOf(rs[j]) \in Nat /\ rs[j + (m + 1)].start \in Nat /\ EndOf(rs[j + (m + 1)]) \in Nat
        /\ rs[j + (m + 1)].start <= EndOf(rs[j + (m + 1)])
    BY <1>0, <2>1
  <2>6. EndOf(rs[j]) <= EndOf(rs[j + (m + 1)])
    BY <2>4, <2>5
  <2> QED BY <2>1, <2>4, <2>6
<1>4. 0..n \subseteq G
  <2>1. n \in Nat
    BY <1>0
  <2> HIDE DEF G, n
  <2> QED BY <1>2, <1>3, <2>1, UpTo
<1>5. ASSUME NEW k \in j + 1..Len(rs) PROVE EndOf(rs[j]) <= rs[k].start
  <2>1. k - j \in 0..n /\ k - j > 0 /\ k - j <= n /\ j + (k - j) = k
    BY <1>0
  <2>2. k - j \in G
    BY <1>4, <2>1
  <2> QED BY <2>1, <2>2
<1>6. EndOf(rs[j]) <= s
  <2>1. n \in 0..n /\ j + n = Len(rs) /\ Len(rs) \in 1..Len(rs)
    BY <1>0
  <2>2. n \in G
    BY <1>4, <2>1
  <2>3. EndOf(rs[Len(rs)]) = s
    BY <2>1 DEF Chain
  <2> QED BY <2>1, <2>2, <2>3
<1> QED BY <1>5, <1>6

LEMMA ChainPush ==
  ASSUME NEW rs, NEW s, Chain(rs, s), NEW len \in Nat
  PROVE  /\ Chain(Append(rs, [start |-> s, len |-> len]), s + len)
         /\ Len(Append(rs, [start |-> s, len |-> len])) = Len(rs) + 1
         /\ \A k \in 1..Len(rs) : Append(rs, [start |-> s, len |-> len])[k] = rs[k]
         /\ Append(rs, [start |-> s, len |-> len])[Len(rs) + 1] = [start |-> s, len |-> len]
<1> DEFINE x == [start |-> s, len |-> len]
           t == Append(rs, x)
           n == Len(rs)
<1>0. n \in Nat /\ s \in Nat /\ rs \in Seq(Run)
  BY ChainTyped DEF Chain
<1>1. x \in Run /\ x.start = s /\ EndOf(x) = s + len
  BY <1>0 DEF Run, EndOf
<1> HIDE DEF x
<1>2. /\ t \in Seq(Run) /\ Len(t) = n + 1 /\ t[n + 1] = x
      /\ \A k \in 1..n : t[k] = rs[k]
  <2>1. /\ t \in Seq(Run) /\ Len(t) = Len(rs) + 1 /\ t[Len(rs) + 1] = x
        /\ \A k \in 1..Len(rs) : t[k] = rs[k]
    BY <1>0, <1>1, AppendProperties
  <2> QED BY <2>1
<1> HIDE DEF t
<1>3. t[1].start = 0
  <2>1. CASE n = 0
    <3>1. s = 0 /\ t[1] = x
      BY <1>2, <2>1 DEF Chain
    <3> QED BY <1>1, <3>1
  <2>2. CASE n # 0
    <3>1. rs[1].start = 0 /\ 1 \in 1..n
      BY <1>0, <2>2 DEF Chain
    <3> QED BY <1>2, <3>1
  <2> QED BY <2>1, <2>2
<1>4. ASSUME NEW k \in 1..n + 1
      PROVE  EndOf(t[k]) = IF k = n + 1 THEN s + len ELSE t[k + 1].start
  <2>1. CASE k = n + 1
    BY <1>1, <1>2, <2>1
  <2>2. CASE k # n + 1
    <3>1. k \in 1..n /\ t[k] = rs[k] /\ EndOf(rs[k]) = IF k = n THEN s ELSE rs[k + 1].start
      BY <1>0, <1>2, <2>2 DEF Chain
    <3>2. CASE k = n
      BY <1>1, <1>2, <2>2, <3>1, <3>2
    <3>3. CASE k # n
      <4>1. k + 1 \in 1..n
        BY <1>0, <3>1, <3>3
      <4>2. t[k + 1] = rs[k + 1]
        BY <1>2, <4>1
      <4> QED BY <2>2, <3>1, <3>3, <4>2
    <3> QED BY <3>2, <3>3
  <2> QED BY <2>1, <2>2
<1>5. s + len \in Nat /\ Len(t) # 0
  BY <1>0, <1>2
<1>6. Chain(t, s + len)
  BY <1>2, <1>3, <1>4, <1>5 DEF Chain
<1> QED BY <1>2, <1>6 DEF t, x

(* Two neighbours of the stack made one.                                     *)
Merged(rs, at) == Sort!RemoveAt([rs EXCEPT ![at].len = @ + rs[at + 1].len], at + 1)
LEMMA MergedIs ==
  ASSUME NEW rs, NEW s, Chain(rs, s), NEW at \in 1..Len(rs) - 1
  PROVE  /\ Merged(rs, at) \in Seq(Run) /\ Len(Merged(rs, at)) = Len(rs) - 1
         /\ Merged(rs, at)[at].start = rs[at].start
         /\ EndOf(Merged(rs, at)[at]) = EndOf(rs[at + 1])
         /\ \A k \in 1..Len(rs) - 1 : k < at => Merged(rs, at)[k] = rs[k]
         /\ \A k \in 1..Len(rs) - 1 : k > at => Merged(rs, at)[k] = rs[k + 1]
<1> DEFINE n == Len(rs)
           x == [rs[at] EXCEPT !.len = @ + rs[at + 1].len]
           t == [rs EXCEPT ![at] = x]
           u == Sort!RemoveAt(t, at + 1)
<1>0. n \in Nat /\ rs \in Seq(Run) /\ at \in 1..n /\ at + 1 \in 1..n /\ at \in Nat /\ at # n
  BY ChainTyped DEF Chain
<1>1. /\ rs[at] \in Run /\ rs[at + 1] \in Run /\ rs[at].start \in Nat /\ rs[at].len \in Nat
      /\ rs[at + 1].len \in Nat
  <2>1. \A k \in 1..Len(rs) : rs[k] \in Run /\ rs[k].start \in Nat /\ rs[k].len \in Nat
    BY ChainTyped
  <2> QED BY <1>0, <2>1
<1>2. x \in Run /\ x.start = rs[at].start /\ x.len = rs[at].len + rs[at + 1].len
  BY <1>1 DEF Run
<1>3. EndOf(x) = EndOf(rs[at + 1])
  <2>1. EndOf(rs[at]) = rs[at + 1].start
    BY <1>0 DEF Chain
  <2> HIDE DEF x
  <2> QED BY <1>1, <1>2, <2>1 DEF EndOf
<1>4. Merged(rs, at) = u
  BY DEF Merged
<1> HIDE DEF x
<1>5. t \in Seq(Run) /\ Len(t) = n /\ t[at] = x /\ \A k \in 1..n : k # at => t[k] = rs[k]
  BY <1>0, <1>2
<1> HIDE DEF t
<1>6. /\ u \in Seq(Run) /\ Len(u) = n - 1
      /\ \A k \in 1..n - 1 : u[k] = IF k < at + 1 THEN t[k] ELSE t[k + 1]
  <2>1. at + 1 \in 1..Len(t)
    BY <1>0, <1>5
  <2> QED BY <1>5, <2>1, SortRemoveIs
<1> HIDE DEF u
<1>7. u[at] = x
  <2>1. at \in 1..n - 1 /\ at < at + 1
    BY <1>0
  <2> QED BY <1>5, <1>6, <2>1
<1>8. ASSUME NEW k \in 1..n - 1, k < at PROVE u[k] = rs[k]
  <2>1. k < at + 1 /\ k \in 1..n /\ k # at
    BY <1>0, <1>8
  <2> QED BY <1>5, <1>6, <2>1
<1>9. ASSUME NEW k \in 1..n - 1, k > at PROVE u[k] = rs[k + 1]
  <2>1. ~(k < at + 1) /\ k + 1 \in 1..n /\ k + 1 # at
    BY <1>0, <1>9
  <2> QED BY <1>5, <1>6, <2>1
<1> QED BY <1>2, <1>3, <1>4, <1>6, <1>7, <1>8, <1>9

LEMMA ChainMerge ==
  ASSUME NEW rs, NEW s, Chain(rs, s), NEW at \in 1..Len(rs) - 1
  PROVE  Chain(Merged(rs, at), s)
<1> DEFINE n == Len(rs)
           u == Merged(rs, at)
<1>0. /\ n \in Nat /\ s \in Nat /\ at \in 1..n /\ at + 1 \in 1..n /\ at \in Nat /\ at # n
      /\ at \in 1..n - 1
  BY ChainTyped DEF Chain
<1>1. /\ u \in Seq(Run) /\ Len(u) = n - 1
      /\ u[at].start = rs[at].start /\ EndOf(u[at]) = EndOf(rs[at + 1])
      /\ \A k \in 1..n - 1 : k < at => u[k] = rs[k]
      /\ \A k \in 1..n - 1 : k > at => u[k] = rs[k + 1]
  BY MergedIs
<1> HIDE DEF u
<1>2. \A k \in 1..n : EndOf(rs[k]) = IF k = n THEN s ELSE rs[k + 1].start
  BY DEF Chain
<1>3. u[1].start = 0 /\ Len(u) # 0
  <2>1. rs[1].start = 0 /\ 1 \in 1..n - 1
    BY <1>0 DEF Chain
  <2>2. CASE at = 1
    BY <1>1, <2>1, <2>2
  <2>3. CASE at # 1
    <3>1. 1 < at
      BY <1>0, <2>3
    <3>2. u[1] = rs[1]
      BY <1>1, <2>1, <3>1
    <3>3. Len(u) # 0
      BY <1>0, <1>1
    <3> QED BY <2>1, <3>2, <3>3
  <2> QED BY <2>2, <2>3
<1>4. ASSUME NEW k \in 1..n - 1
      PROVE  EndOf(u[k]) = IF k = n - 1 THEN s ELSE u[k + 1].start
  <2>0. k \in 1..n /\ k + 1 \in 1..n /\ (k # n - 1 => k + 1 \in 1..n - 1) /\ k \in Nat
        /\ (k + 1 = n <=> k = n - 1)
    BY <1>0
  <2>1. CASE k < at
    <3>1. k # n - 1 /\ k # n
      BY <1>0, <2>1
    <3>2. EndOf(u[k]) = rs[k + 1].start
      BY <1>1, <1>2, <2>0, <2>1, <3>1
    <3>3. u[k + 1].start = rs[k + 1].start
      <4>1. CASE k + 1 = at
        BY <1>1, <4>1
      <4>2. CASE k + 1 < at
        BY <1>1, <2>0, <3>1, <4>2
      <4> QED BY <1>0, <2>0, <2>1, <4>1, <4>2
    <3> QED BY <3>1, <3>2, <3>3
  <2>2. CASE k >= at
    <3>1. EndOf(u[k]) = EndOf(rs[k + 1])
      <4>1. CASE k = at
        BY <1>1, <4>1
      <4>2. CASE k > at
        BY <1>1, <4>2
      <4> QED BY <1>0, <2>0, <2>2, <4>1, <4>2
    <3>2. EndOf(rs[k + 1]) = IF k = n - 1 THEN s ELSE rs[(k + 1) + 1].start
      BY <1>2, <2>0
    <3>3. CASE k = n - 1
      BY <3>1, <3>2, <3>3
    <3>4. CASE k # n - 1
      <4>1. k + 1 \in 1..n - 1 /\ k + 1 > at
        BY <1>0, <2>0, <2>2, <3>4
      <4>2. u[k + 1] = rs[(k + 1) + 1]
        BY <1>1, <4>1
      <4> QED BY <3>1, <3>2, <3>4, <4>2
    <3> QED BY <3>3, <3>4
  <2> QED BY <1>0, <2>0, <2>1, <2>2
<1>5. Chain(u, s)
  BY <1>0, <1>1, <1>3, <1>4 DEF Chain
<1> QED BY <1>5 DEF u

(* A change of some slots leaves the others as good as they were.            *)
LEMMA GoodSame ==
  ASSUME NEW r, NEW d \in Seq(Element), NEW e, NEW lo \in Nat, NEW hi \in Nat, Same(d, e, lo, hi),
         NEW a \in Nat, NEW b \in Nat, 1 <= a, b <= Len(d), b < lo \/ hi < a, Good(r, d, a, b)
  PROVE  Good(r, e, a, b)
<1>0. Len(d) \in Nat
  BY LenProperties
<1>1. \A p \in a..b : e[p] = d[p]
  <2> SUFFICES ASSUME NEW p \in a..b PROVE e[p] = d[p]
    OBVIOUS
  <2>1. p \in 1..Len(d) /\ p \notin lo..hi
    BY <1>0
  <2> QED BY <2>1 DEF Same
<1>2. Sorted(r, e, a, b)
  BY <1>1 DEF Good, Sorted
<1>3. {e[p].id : p \in a..b} = {d[p].id : p \in a..b}
  BY <1>1
<1> QED BY <1>2, <1>3 DEF Good

(* A merge of the side A, i of which are placed, with B, j of which are.     *)
Placed(r, d, lo, A, i, B, j) ==
  /\ Sorted(r, d, lo + 1, lo + i + j)
  /\ Elements(d, lo + 1, lo + i + j) = Elements(A, 1, i) \cup Elements(B, 1, j)
  /\ \A p \in lo + 1..lo + i + j : \A q \in i + 1..Len(A) : SortsBefore(r, d[p], A[q])
  /\ \A p \in lo + 1..lo + i + j : \A q \in j + 1..Len(B) : SortsBefore(r, d[p], B[q])
Side(r, A, i) == A \in Seq(Element) /\ i \in 0..Len(A) /\ Sorted(r, A, 1, Len(A))

LEMMA SidesSwap ==
  ASSUME NEW r, NEW d, NEW lo \in Nat, NEW A, NEW i \in Nat, NEW B, NEW j \in Nat,
         Placed(r, d, lo, A, i, B, j)
  PROVE  Placed(r, d, lo, B, j, A, i)
<1>1. lo + i + j = lo + j + i
  OBVIOUS
<1>2. Elements(d, lo + 1, lo + i + j) = Elements(B, 1, j) \cup Elements(A, 1, i)
  BY DEF Placed
<1> QED BY <1>1, <1>2 DEF Placed

LEMMA PlaceOne ==
  ASSUME NEW r, NEW d \in Seq(Element), NEW lo \in Nat, NEW A, NEW i, NEW B, NEW j,
         Side(r, A, i), Side(r, B, j), Placed(r, d, lo, A, i, B, j),
         i < Len(A), j < Len(B), SortsBefore(r, A[i + 1], B[j + 1]),
         lo + Len(A) + Len(B) <= Len(d)
  PROVE  /\ Placed(r, [d EXCEPT ![lo + i + j + 1] = A[i + 1]], lo, A, i + 1, B, j)
         /\ Same(d, [d EXCEPT ![lo + i + j + 1] = A[i + 1]], lo + 1, lo + Len(A) + Len(B))
<1> DEFINE w == lo + i + j + 1
           v == A[i + 1]
           e == [d EXCEPT ![w] = v]
<1>0. /\ Len(d) \in Nat /\ i \in Nat /\ j \in Nat /\ Len(A) \in Nat /\ Len(B) \in Nat
      /\ A \in Seq(Element) /\ B \in Seq(Element)
  BY LenProperties DEF Side
<1>1. /\ w \in 1..Len(d) /\ w \in lo + 1..lo + Len(A) + Len(B) /\ i + 1 \in 1..Len(A)
      /\ lo + 1..w = (lo + 1..lo + i + j) \cup {w} /\ w \notin lo + 1..lo + i + j
      /\ lo + (i + 1) + j = w /\ 1..i + 1 = (1..i) \cup {i + 1}
      /\ lo + 1..lo + i + j \subseteq 1..Len(d) /\ w \in Nat
  <2>1. w \in Nat /\ w = lo + i + j + 1 /\ lo + (i + 1) + j = w
    BY <1>0
  <2>2. i + 1 <= Len(A) /\ j + 1 <= Len(B) /\ w <= lo + Len(A) + Len(B) /\ w <= Len(d)
    BY <1>0
  <2> HIDE DEF w
  <2>3. /\ w \in 1..Len(d) /\ w \in lo + 1..lo + Len(A) + Len(B) /\ i + 1 \in 1..Len(A)
    BY <1>0, <2>1, <2>2
  <2>4. lo + 1..w = (lo + 1..lo + i + j) \cup {w} /\ w \notin lo + 1..lo + i + j
    <3> DEFINE m == lo + i + j
    <3>1. m \in Nat /\ w = m + 1 /\ lo <= m
      BY <1>0, <2>1
    <3> HIDE DEF m
    <3>2. lo + 1..w = (lo + 1..m) \cup {w} /\ w \notin lo + 1..m
      BY <3>1
    <3> QED BY <3>2 DEF m
  <2>5. 1..i + 1 = (1..i) \cup {i + 1}
    BY <1>0
  <2>6. lo + 1..lo + i + j \subseteq 1..Len(d)
    BY <1>0, <2>1, <2>2
  <2> QED BY <2>1, <2>3, <2>4, <2>5, <2>6
<1>2. /\ \A q \in 1..Len(A) : A[q] \in Element
      /\ \A q \in 1..Len(B) : B[q] \in Element
      /\ \A q \in 1..Len(d) : d[q] \in Element
  BY <1>0, ElementOfSeq
<1>3. v \in Element
  BY <1>1, <1>2
<1> HIDE DEF w, v
<1>4. /\ e \in Seq(Element) /\ Len(e) = Len(d) /\ e[w] = v
      /\ \A p \in 1..Len(d) : p # w => e[p] = d[p]
  BY <1>1, <1>3
<1> HIDE DEF e
<1>5. \A p \in lo + 1..lo + i + j : e[p] = d[p]
  BY <1>1, <1>4
<1>6. \A p \in lo + 1..lo + i + j : SortsBefore(r, d[p], v)
  <2>1. i + 1 \in i + 1..Len(A)
    BY <1>0, <1>1
  <2> QED BY <2>1 DEF Placed, v
<1>7. \A q \in (i + 1) + 1..Len(A) : SortsBefore(r, v, A[q])
  <2> SUFFICES ASSUME NEW q \in (i + 1) + 1..Len(A) PROVE SortsBefore(r, v, A[q])
    OBVIOUS
  <2>1. i + 1 \in 1..Len(A) /\ q \in 1..Len(A) /\ i + 1 < q
    BY <1>0
  <2> QED BY <2>1 DEF Side, Sorted, v
<1>8. \A q \in j + 1..Len(B) : SortsBefore(r, v, B[q])
  <2> SUFFICES ASSUME NEW q \in j + 1..Len(B) PROVE SortsBefore(r, v, B[q])
    OBVIOUS
  <2>1. j + 1 \in 1..Len(B) /\ q \in 1..Len(B) /\ (j + 1 < q \/ j + 1 = q)
    BY <1>0
  <2>2. j + 1 < q => SortsBefore(r, B[j + 1], B[q])
    BY <2>1 DEF Side, Sorted
  <2>3. SortsBefore(r, v, B[j + 1])
    BY DEF v
  <2> QED BY <1>2, <1>3, <2>1, <2>2, <2>3, BeforeTransitive
<1>9. Sorted(r, e, lo + 1, w)
  <2> SUFFICES ASSUME NEW a \in lo + 1..w, NEW b \in lo + 1..w, a < b
               PROVE  SortsBefore(r, e[a], e[b])
    BY DEF Sorted
  <2>1. a \in lo + 1..lo + i + j
    BY <1>0 DEF w
  <2>2. CASE b = w
    BY <1>4, <1>5, <1>6, <2>1, <2>2
  <2>3. CASE b # w
    <3>1. b \in lo + 1..lo + i + j
      BY <1>1, <2>3
    <3>2. SortsBefore(r, d[a], d[b])
      BY <2>1, <3>1 DEF Placed, Sorted
    <3> QED BY <1>5, <2>1, <3>1, <3>2
  <2> QED BY <2>2, <2>3
<1>10. Elements(e, lo + 1, w) = Elements(A, 1, i + 1) \cup Elements(B, 1, j)
  <2>1. Elements(e, lo + 1, w) = Elements(d, lo + 1, lo + i + j) \cup {v}
    <3>1. Elements(e, lo + 1, w) = Elements(e, lo + 1, lo + i + j) \cup {e[w]}
      BY <1>1 DEF Elements
    <3>2. Elements(e, lo + 1, lo + i + j) = Elements(d, lo + 1, lo + i + j)
      BY <1>5 DEF Elements
    <3> QED BY <1>4, <3>1, <3>2
  <2>2. Elements(A, 1, i + 1) = Elements(A, 1, i) \cup {v}
    BY <1>1 DEF Elements, v
  <2>3. Elements(d, lo + 1, lo + i + j) = Elements(A, 1, i) \cup Elements(B, 1, j)
    BY DEF Placed
  <2> QED BY <2>1, <2>2, <2>3
<1>11. \A p \in lo + 1..w : \A q \in (i + 1) + 1..Len(A) : SortsBefore(r, e[p], A[q])
  <2> SUFFICES ASSUME NEW p \in lo + 1..w, NEW q \in (i + 1) + 1..Len(A)
               PROVE  SortsBefore(r, e[p], A[q])
    OBVIOUS
  <2>1. q \in i + 1..Len(A)
    BY <1>0
  <2>2. p = w \/ p \in lo + 1..lo + i + j
    BY <1>1
  <2>3. p \in lo + 1..lo + i + j => SortsBefore(r, d[p], A[q])
    BY <2>1 DEF Placed
  <2> QED BY <1>4, <1>5, <1>7, <2>2, <2>3
<1>12. \A p \in lo + 1..w : \A q \in j + 1..Len(B) : SortsBefore(r, e[p], B[q])
  <2> SUFFICES ASSUME NEW p \in lo + 1..w, NEW q \in j + 1..Len(B)
               PROVE  SortsBefore(r, e[p], B[q])
    OBVIOUS
  <2>2. p = w \/ p \in lo + 1..lo + i + j
    BY <1>1
  <2>3. p \in lo + 1..lo + i + j => SortsBefore(r, d[p], B[q])
    BY DEF Placed
  <2> QED BY <1>4, <1>5, <1>8, <2>2, <2>3
<1>13. Placed(r, e, lo, A, i + 1, B, j)
  BY <1>1, <1>9, <1>10, <1>11, <1>12 DEF Placed
<1>14. Same(d, e, lo + 1, lo + Len(A) + Len(B))
  BY <1>1, <1>4 DEF Same
<1> QED BY <1>13, <1>14 DEF e, v, w

(* What is left of B once A is used up, after what is placed.                *)
Finished(d, e, lo, B, j, m) ==
  /\ e \in Seq(Element) /\ Len(e) = Len(d)
  /\ \A p \in 1..Len(d) : e[p] = IF p \in lo + m + 1..lo + m + (Len(B) - j) THEN B[p - lo - m + j] ELSE d[p]

Joined(r, d, e, lo, hi, A, B) ==
  /\ Sorted(r, e, lo + 1, hi) /\ Same(d, e, lo + 1, hi)
  /\ Elements(e, lo + 1, hi) = Elements(A, 1, Len(A)) \cup Elements(B, 1, Len(B))

LEMMA PlaceRest ==
  ASSUME NEW r, NEW d \in Seq(Element), NEW e, NEW lo \in Nat, NEW A, NEW B, NEW j, NEW hi,
         Side(r, A, Len(A)), Side(r, B, j), Placed(r, d, lo, A, Len(A), B, j),
         hi = lo + Len(A) + Len(B), hi <= Len(d), Finished(d, e, lo, B, j, Len(A) + j)
  PROVE  Joined(r, d, e, lo, hi, A, B)
<1> DEFINE m == Len(A) + j
           w == lo + m
<1>0. /\ Len(d) \in Nat /\ j \in Nat /\ Len(A) \in Nat /\ Len(B) \in Nat /\ j <= Len(B)
      /\ A \in Seq(Element) /\ B \in Seq(Element)
  BY LenProperties DEF Side
<1>1. /\ w \in Nat /\ hi \in Nat /\ w <= hi /\ lo <= w /\ lo + m + (Len(B) - j) = hi
      /\ lo + Len(A) + j = w /\ hi - w = Len(B) - j
  BY <1>0
<1>2. e \in Seq(Element) /\ Len(e) = Len(d) /\ \A p \in 1..Len(d) : p \notin w + 1..hi => e[p] = d[p]
  BY <1>1 DEF Finished
<1>3. ASSUME NEW p \in w + 1..hi PROVE p - w + j \in j + 1..Len(B) /\ e[p] = B[p - w + j]
  <2>1. p \in 1..Len(d) /\ p - w + j \in j + 1..Len(B) /\ p - lo - m + j = p - w + j
    BY <1>0, <1>1
  <2>2. p \in lo + m + 1..lo + m + (Len(B) - j)
    BY <1>1
  <2> QED BY <2>1, <2>2 DEF Finished
<1> HIDE DEF m, w
<1>4. /\ Sorted(r, d, lo + 1, w)
      /\ Elements(d, lo + 1, w) = Elements(A, 1, Len(A)) \cup Elements(B, 1, j)
      /\ \A p \in lo + 1..w : \A q \in j + 1..Len(B) : SortsBefore(r, d[p], B[q])
  BY <1>1 DEF Placed
<1>5. \A p \in lo + 1..w : e[p] = d[p]
  <2> SUFFICES ASSUME NEW p \in lo + 1..w PROVE e[p] = d[p]
    OBVIOUS
  <2>1. p \in 1..Len(d) /\ p \notin w + 1..hi
    BY <1>0, <1>1
  <2> QED BY <1>2, <2>1
<1>6. ASSUME NEW a \in lo + 1..hi, NEW b \in lo + 1..hi, a < b PROVE SortsBefore(r, e[a], e[b])
  <2>1. CASE b <= w
    <3>1. a \in lo + 1..w /\ b \in lo + 1..w
      BY <1>1, <1>6, <2>1
    <3> QED BY <1>4, <1>5, <1>6, <3>1 DEF Sorted
  <2>2. CASE a <= w /\ b > w
    <3>1. a \in lo + 1..w /\ b \in w + 1..hi
      BY <1>1, <1>6, <2>2
    <3> QED BY <1>3, <1>4, <1>5, <3>1
  <2>3. CASE a > w
    <3>1. a \in w + 1..hi /\ b \in w + 1..hi
      BY <1>1, <1>6, <2>3
    <3>2. /\ a - w + j \in 1..Len(B) /\ b - w + j \in 1..Len(B) /\ a - w + j < b - w + j
      BY <1>0, <1>1, <1>3, <1>6, <3>1
    <3>3. SortsBefore(r, B[a - w + j], B[b - w + j])
      BY <3>2 DEF Side, Sorted
    <3> QED BY <1>3, <3>1, <3>3
  <2> QED BY <1>1, <2>1, <2>2, <2>3
<1>7. Sorted(r, e, lo + 1, hi)
  BY <1>6 DEF Sorted
<1>8. Same(d, e, lo + 1, hi)
  <2>1. \A p \in 1..Len(d) : p \notin lo + 1..hi => p \notin w + 1..hi
    BY <1>1
  <2> QED BY <1>2, <2>1 DEF Same
<1>9. Elements(e, lo + 1, hi) = Elements(A, 1, Len(A)) \cup Elements(B, 1, Len(B))
  <2>1. lo + 1..hi = (lo + 1..w) \cup (w + 1..hi)
    BY <1>1
  <2>2. Elements(e, lo + 1, hi) = Elements(e, lo + 1, w) \cup Elements(e, w + 1, hi)
    BY <2>1 DEF Elements
  <2>3. Elements(e, lo + 1, w) = Elements(d, lo + 1, w)
    BY <1>5 DEF Elements
  <2>4. Elements(e, w + 1, hi) = Elements(B, j + 1, Len(B))
    <3>1. ASSUME NEW p \in w + 1..hi PROVE e[p] \in Elements(B, j + 1, Len(B))
      BY <1>3 DEF Elements
    <3>2. ASSUME NEW q \in j + 1..Len(B) PROVE B[q] \in Elements(e, w + 1, hi)
      <4>1. q + w - j \in w + 1..hi /\ (q + w - j) - w + j = q
        BY <1>0, <1>1
      <4>2. e[q + w - j] = B[q]
        BY <1>3, <4>1
      <4> QED BY <4>1, <4>2 DEF Elements
    <3>3. Elements(e, w + 1, hi) \subseteq Elements(B, j + 1, Len(B))
      <4> SUFFICES ASSUME NEW p \in w + 1..hi PROVE e[p] \in Elements(B, j + 1, Len(B))
        BY DEF Elements
      <4> QED BY <3>1
    <3>4. Elements(B, j + 1, Len(B)) \subseteq Elements(e, w + 1, hi)
      <4> SUFFICES ASSUME NEW q \in j + 1..Len(B) PROVE B[q] \in Elements(e, w + 1, hi)
        BY DEF Elements
      <4> QED BY <3>2
    <3> QED BY <3>3, <3>4
  <2>5. 1..Len(B) = (1..j) \cup (j + 1..Len(B))
    BY <1>0
  <2>6. Elements(B, 1, Len(B)) = Elements(B, 1, j) \cup Elements(B, j + 1, Len(B))
    BY <2>5 DEF Elements
  <2> QED BY <1>4, <2>2, <2>3, <2>4, <2>6
<1> QED BY <1>7, <1>8, <1>9 DEF Joined

(* The invariant of the sort.                                                *)
MergeRecord == [left : Seq(Element), right : Seq(Element), i : Nat, j : Nat, at : Nat,
                back : {"collapse", "force", "done"}]
Phases == {"small", "run", "collapse", "merge", "force", "done"}
GoodRun(d, run) == Good(reverse, d, run.start + 1, EndOf(run))
IdsOf(s) == {s[p].id : p \in 1..Len(s)}
(* The two runs of a merge were copied out, and what is placed is in order. *)
MergeOK(r, d, rs, s, m) ==
  /\ m.at \in 1..Len(rs) - 1 /\ m.back \in {"collapse", "force"}
  /\ m.back = "force" => s = Len(d)
  /\ Side(r, m.left, m.i) /\ Len(m.left) = rs[m.at].len
  /\ Side(r, m.right, m.j) /\ Len(m.right) = rs[m.at + 1].len
  /\ IdsOf(m.left) = rs[m.at].start + 1..EndOf(rs[m.at])
  /\ IdsOf(m.right) = rs[m.at + 1].start + 1..EndOf(rs[m.at + 1])
  /\ Placed(r, d, rs[m.at].start, m.left, m.i, m.right, m.j)

Shape ==
  /\ buffer \in Seq(Element) /\ minRun \in MinRuns /\ merge \in MergeRecord
  /\ Chain(runs, following) /\ following <= Len(buffer) /\ phase \in Phases
Phased ==
  /\ phase # "done" => Untouched(buffer, following + 1, Len(buffer)) /\ Len(buffer) # 0
  /\ phase = "small" => following = 0 /\ Len(runs) = 0
  /\ phase = "run" => following < Len(buffer)
  /\ phase = "force" => following = Len(buffer)
RunsGood ==
  \A k \in 1..Len(runs) :
    (phase = "merge" /\ k \in {merge.at, merge.at + 1}) \/ GoodRun(buffer, runs[k])
Merging == phase = "merge" => MergeOK(reverse, buffer, runs, following, merge)
Ended == phase = "done" => Good(reverse, buffer, 1, Len(buffer))
SortInv == Shape /\ Phased /\ RunsGood /\ Merging /\ Ended

LEMMA ShapeFacts ==
  ASSUME Shape
  PROVE  /\ Len(buffer) \in Nat /\ Len(runs) \in Nat /\ following \in Nat /\ following <= Len(buffer)
         /\ \A p \in 1..Len(buffer) : buffer[p] \in Element
<1>1. buffer \in Seq(Element) /\ following \in Nat /\ runs \in Seq(Run) /\ following <= Len(buffer)
  BY DEF Shape, Chain
<1> QED BY <1>1, LenProperties, ElementOfSeq

LEMMA SortInit ==
  ASSUME Sort!TimsortAssumption, Sort!Init
  PROVE  SortInv
<1>1. PICK keys \in SortInputs : buffer = [p \in DOMAIN keys |-> [key |-> keys[p], id |-> p]]
  BY DEF Sort!Init
<1>2. keys \in Seq(Int) /\ DOMAIN keys = 1..Len(keys) /\ Len(keys) \in Nat
      /\ \A p \in 1..Len(keys) : keys[p] \in Int
  <2>1. keys \in Seq(Int)
    BY DEF Sort!TimsortAssumption
  <2> QED BY <2>1, LenProperties, ElementOfSeq
<1>3. buffer \in Seq(Element) /\ Len(buffer) = Len(keys) /\ \A p \in 1..Len(keys) : buffer[p].id = p
  <2>1. \A p \in 1..Len(keys) : [key |-> keys[p], id |-> p] \in Element
    BY <1>2 DEF Element
  <2>2. buffer \in [1..Len(keys) -> Element]
    BY <1>1, <1>2, <2>1
  <2>3. \A p \in 1..Len(keys) : buffer[p].id = p
    BY <1>1, <1>2
  <2>4. buffer \in Seq(Element)
    BY <1>2, <2>2, IsASeq
  <2>5. DOMAIN buffer = 1..Len(keys)
    BY <2>2
  <2>6. Len(buffer) = Len(keys)
    BY <1>2, <2>4, <2>5, LenProperties
  <2> QED BY <2>3, <2>4, <2>6
<1>4. /\ minRun \in MinRuns /\ runs = <<>> /\ following = 0 /\ merge = Sort!NoMerge
      /\ phase = IF Len(buffer) < 2 THEN "done" ELSE IF Len(buffer) < minRun THEN "small" ELSE "run"
  BY DEF Sort!Init
<1>5. Chain(runs, following)
  BY <1>4 DEF Chain
<1>6. merge \in MergeRecord
  BY <1>4 DEF Sort!NoMerge, MergeRecord
<1>7. phase \in {"small", "run", "done"} /\ (phase # "done" => Len(buffer) >= 2)
      /\ (phase = "done" => Len(buffer) < 2)
  BY <1>2, <1>3, <1>4
<1>8. Shape
  BY <1>2, <1>3, <1>4, <1>5, <1>6, <1>7 DEF Shape, Phases
<1>9. Untouched(buffer, 1, Len(buffer))
  BY <1>3 DEF Untouched
<1>10. Phased
  <2>1. following + 1 = 1 /\ Len(runs) = 0
    BY <1>4
  <2> QED BY <1>2, <1>3, <1>4, <1>7, <1>9, <2>1 DEF Phased
<1>11. RunsGood /\ Merging
  BY <1>4, <1>7 DEF RunsGood, Merging
<1>12. Ended
  <2>1. SUFFICES ASSUME Len(buffer) < 2 PROVE Good(reverse, buffer, 1, Len(buffer))
    BY <1>7 DEF Ended
  <2>2. Sorted(reverse, buffer, 1, Len(buffer))
    BY <1>2, <1>3, <2>1 DEF Sorted
  <2>3. {buffer[p].id : p \in 1..Len(buffer)} = 1..Len(buffer)
    BY <1>3
  <2> QED BY <2>2, <2>3 DEF Good
<1> QED BY <1>8, <1>10, <1>11, <1>12 DEF SortInv

LEMMA SmallStep ==
  ASSUME SortInv, Sort!Small
  PROVE  SortInv'
<1> DEFINE n == Len(buffer)
<1>0. Shape /\ Phased
  BY DEF SortInv
<1>1. n \in Nat /\ \A p \in 1..n : buffer[p] \in Element
  BY <1>0, ShapeFacts
<1>2. /\ phase = "small" /\ buffer' = Sort!InsertionSort(buffer, 1, n) /\ phase' = "done"
      /\ reverse' = reverse /\ minRun' = minRun /\ runs' = runs /\ following' = following /\ merge' = merge
  BY DEF Sort!Small
<1>3. following = 0 /\ Len(runs) = 0 /\ n # 0 /\ Untouched(buffer, 1, n) /\ buffer \in Seq(Element)
  <2>1. Untouched(buffer, following + 1, n) /\ following = 0 /\ Len(runs) = 0 /\ n # 0
    BY <1>0, <1>2 DEF Phased
  <2>2. following + 1 = 1
    BY <2>1
  <2> QED BY <1>0, <2>1, <2>2 DEF Shape
<1>4. Tied(buffer, 1, n)
  BY <1>3 DEF Tied, Untouched
<1>5. {buffer[p].id : p \in 1..n} = 1..n
  BY <1>3 DEF Untouched
<1>6. Good(reverse, buffer', 1, n) /\ Same(buffer, buffer', 1, n)
  <2>1. 1 \in 1..n /\ n \in 1..n
    BY <1>1, <1>3
  <2> HIDE DEF n
  <2>2. Good(reverse, Sort!InsertionSort(buffer, 1, n), 1, n)
        /\ Same(buffer, Sort!InsertionSort(buffer, 1, n), 1, n)
    BY <1>3, <1>4, <1>5, <2>1, SortedGood DEF n
  <2> QED BY <1>2, <2>2
<1>7. buffer' \in Seq(Element) /\ Len(buffer') = n
  BY <1>6 DEF Same
<1>8. Shape'
  BY <1>0, <1>2, <1>7 DEF Shape, Phases
<1>9. Phased' /\ RunsGood' /\ Merging' /\ Ended'
  BY <1>2, <1>3, <1>6, <1>7 DEF Phased, RunsGood, Merging, Ended
<1> QED BY <1>8, <1>9 DEF SortInv

LEMMA SameThrough ==
  ASSUME NEW d \in Seq(Element), NEW e, NEW f, NEW lo \in Nat, NEW mid \in Nat, NEW hi \in Nat,
         mid <= hi, Same(d, e, lo, mid), Same(e, f, lo, hi)
  PROVE  Same(d, f, lo, hi)
<1>1. /\ Len(e) = Len(d) /\ f \in Seq(Element) /\ Len(f) = Len(e)
      /\ \A p \in 1..Len(d) : p \notin lo..mid => e[p] = d[p]
      /\ \A p \in 1..Len(d) : p \notin lo..hi => f[p] = e[p]
  BY DEF Same
<1>2. \A p \in 1..Len(d) : p \notin lo..hi => p \notin lo..mid
  OBVIOUS
<1> QED BY <1>1, <1>2 DEF Same

(* The run that is pushed is in order, and the slots around it are as they were. *)
LEMMA PushRunIs ==
  ASSUME Sort!TimsortAssumption, SortInv, Sort!PushRun
  PROVE  \E len \in Nat :
           /\ following + len <= Len(buffer)
           /\ runs' = Append(runs, [start |-> following, len |-> len]) /\ following' = following + len
           /\ Same(buffer, buffer', following + 1, following + len)
           /\ Good(reverse, buffer', following + 1, following + len)
<1> DEFINE n == Len(buffer)
           run == Sort!CountRun(following)
           found == IF run.down THEN Sort!Flipped(buffer, following + 1, run.end) ELSE buffer
           least == Sort!Min({Sort!ComputeMinRun(n), n - following})
           short == run.end - following < Sort!ComputeMinRun(n)
           len == IF short THEN least ELSE run.end - following
<1>0. Shape /\ Phased /\ phase = "run"
  BY DEF SortInv, Sort!PushRun
<1>1. /\ n \in Nat /\ following \in Nat /\ following < n /\ buffer \in Seq(Element) /\ following \in 0..n - 1
      /\ Untouched(buffer, following + 1, n)
  <2>1. n \in Nat /\ following \in Nat /\ buffer \in Seq(Element)
    BY <1>0, ShapeFacts DEF Shape
  <2>2. following < n /\ Untouched(buffer, following + 1, n)
    BY <1>0 DEF Phased
  <2> HIDE DEF n
  <2> QED BY <2>1, <2>2
<1>2. /\ buffer' = (IF short THEN Sort!InsertionSort(found, following + 1, following + len) ELSE found)
      /\ runs' = Append(runs, [start |-> following, len |-> len]) /\ following' = following + len
  BY DEF Sort!PushRun
<1>3. /\ run.end \in following + 1..n /\ Good(reverse, found, following + 1, run.end)
      /\ Same(buffer, found, following + 1, run.end)
  BY <1>1, CountRunIs DEF Found
<1>4. Sort!ComputeMinRun(n) \in Nat
  <2>1. minRun \in Nat \ {0, 1}
    BY <1>0 DEF Shape, Sort!TimsortAssumption
  <2> QED BY <1>1, <2>1, ComputeMinRunIs
<1>5. least \in {Sort!ComputeMinRun(n), n - following} /\ least <= Sort!ComputeMinRun(n) /\ least <= n - following
      /\ least \in Nat
  <2> DEFINE R == {Sort!ComputeMinRun(n), n - following}
  <2>1. R \subseteq Nat /\ R # {} /\ Sort!ComputeMinRun(n) \in R /\ n - following \in R
    BY <1>1, <1>4
  <2> HIDE DEF R
  <2>2. Sort!Min(R) \in R /\ Sort!Min(R) \in Nat /\ \A y \in R : Sort!Min(R) <= y
    BY <2>1, LeastIs
  <2> QED BY <2>1, <2>2 DEF R
<1> DEFINE end == run.end
<1> HIDE DEF run, found, least
<1>6. end \in Nat /\ following + 1 <= end /\ end <= n
  BY <1>1, <1>3
<1>7. CASE short
  <2>1. /\ len = least /\ following + least \in end..n /\ following + least \in following + 1..n
        /\ following + 1 \in 1..n /\ end \in following + 1..following + least
    BY <1>1, <1>4, <1>5, <1>6, <1>7
  <2> DEFINE lo == following + 1
             hi == following + least
             sorted == Sort!InsertionSort(found, lo, hi)
  <2>2. found \in Seq(Element) /\ Len(found) = n
        /\ \A p \in 1..n : p \notin lo..end => found[p] = buffer[p]
    BY <1>3 DEF Same
  <2>3. Untouched(found, end + 1, hi)
    <3> SUFFICES ASSUME NEW p \in end + 1..hi PROVE found[p].id = p
      BY DEF Untouched
    <3>1. p \in 1..n /\ p \notin lo..end /\ p \in following + 1..n
      BY <1>1, <1>5, <1>6, <2>1
    <3> QED BY <1>1, <2>2, <3>1 DEF Untouched
  <2>4. lo \in 1..Len(found) /\ hi \in lo..Len(found) /\ end \in lo..hi
        /\ Good(reverse, found, lo, end)
    BY <1>3, <2>1, <2>2
  <2> HIDE DEF lo, hi, short, end
  <2>5. Tied(found, lo, hi)
    BY <2>2, <2>3, <2>4, TiedAfter
  <2>6. {found[p].id : p \in lo..hi} = lo..hi
    <3>1. {found[p].id : p \in lo..end} = lo..end
      BY <2>4 DEF Good
    <3>2. \A p \in end + 1..hi : found[p].id = p
      BY <2>3 DEF Untouched
    <3>3. lo..hi = (lo..end) \cup (end + 1..hi)
      BY <1>1, <1>5, <1>6, <2>1 DEF lo, hi
    <3>4. {found[p].id : p \in lo..hi} = {found[p].id : p \in lo..end} \cup {found[p].id : p \in end + 1..hi}
      BY <3>3
    <3>5. {found[p].id : p \in end + 1..hi} = end + 1..hi
      BY <3>2
    <3> QED BY <3>1, <3>3, <3>4, <3>5
  <2>7. Good(reverse, sorted, lo, hi) /\ Same(found, sorted, lo, hi)
    <3> HIDE DEF sorted
    <3> QED BY <2>2, <2>4, <2>5, <2>6, SortedGood DEF sorted
  <2>8. Same(buffer, found, lo, end) /\ lo \in Nat /\ end \in Nat /\ hi \in Nat /\ end <= hi
    BY <1>1, <1>3, <1>5, <1>6, <2>1 DEF lo, hi, end
  <2> HIDE DEF sorted
  <2>9. Same(buffer, sorted, lo, hi)
    BY <1>1, <2>7, <2>8, SameThrough
  <2>10. buffer' = sorted
    BY <1>2, <1>7, <2>1 DEF sorted, lo, hi
  <2>11. /\ following + least <= n /\ Same(buffer, buffer', following + 1, following + least)
         /\ Good(reverse, buffer', following + 1, following + least)
    BY <1>1, <1>5, <2>7, <2>9, <2>10 DEF lo, hi
  <2>12. runs' = Append(runs, [start |-> following, len |-> least]) /\ following' = following + least
    BY <1>2, <2>1
  <2> QED BY <1>5, <2>11, <2>12
<1>8. CASE ~short
  <2> DEFINE l == end - following
  <2>1. l \in Nat /\ following + l = end /\ following + l <= n /\ len = l
    BY <1>1, <1>6, <1>8
  <2>2. buffer' = found /\ runs' = Append(runs, [start |-> following, len |-> l]) /\ following' = following + l
    BY <1>2, <1>8, <2>1
  <2> HIDE DEF l, short
  <2> QED BY <1>3, <2>1, <2>2
<1> QED BY <1>7, <1>8

LEMMA PushRunStep ==
  ASSUME Sort!TimsortAssumption, SortInv, Sort!PushRun
  PROVE  SortInv'
<1> DEFINE n == Len(buffer)
           m == Len(runs)
<1>0. Shape /\ Phased /\ RunsGood /\ phase = "run"
  BY DEF SortInv, Sort!PushRun
<1>1. n \in Nat /\ m \in Nat /\ following \in Nat /\ buffer \in Seq(Element) /\ Chain(runs, following)
      /\ Untouched(buffer, following + 1, n) /\ n # 0
  BY <1>0, ShapeFacts DEF Shape, Phased
<1>2. PICK len \in Nat :
        /\ following + len <= n
        /\ runs' = Append(runs, [start |-> following, len |-> len]) /\ following' = following + len
        /\ Same(buffer, buffer', following + 1, following + len)
        /\ Good(reverse, buffer', following + 1, following + len)
  BY PushRunIs
<1>3. phase' = "collapse" /\ reverse' = reverse /\ minRun' = minRun /\ merge' = merge
  BY DEF Sort!PushRun
<1>4. buffer' \in Seq(Element) /\ Len(buffer') = n
      /\ \A p \in 1..n : p \notin following + 1..following + len => buffer'[p] = buffer[p]
  BY <1>2 DEF Same
<1>5. /\ Chain(runs', following') /\ Len(runs') = m + 1
      /\ \A k \in 1..m : runs'[k] = runs[k]
      /\ runs'[m + 1] = [start |-> following, len |-> len]
  <2> DEFINE rs == Append(runs, [start |-> following, len |-> len])
  <2>1. /\ Chain(rs, following + len) /\ Len(rs) = Len(runs) + 1
        /\ \A k \in 1..Len(runs) : rs[k] = runs[k]
        /\ rs[Len(runs) + 1] = [start |-> following, len |-> len]
    <3>1. Chain(runs, following) /\ len \in Nat
      BY <1>1
    <3> QED BY <3>1, ChainPush
  <2> HIDE DEF rs
  <2>2. runs' = rs /\ following' = following + len
    BY <1>2 DEF rs
  <2> QED BY <2>1, <2>2
<1>6. Shape'
  BY <1>0, <1>2, <1>3, <1>4, <1>5 DEF Shape, Phases
<1>7. Untouched(buffer', following + len + 1, n)
  <2> SUFFICES ASSUME NEW p \in following + len + 1..n PROVE buffer'[p].id = p
    BY DEF Untouched
  <2>1. p \in 1..n /\ p \notin following + 1..following + len /\ p \in following + 1..n
    BY <1>1
  <2> QED BY <1>1, <1>4, <2>1 DEF Untouched
<1>8. Phased'
  BY <1>1, <1>2, <1>3, <1>4, <1>7 DEF Phased
<1>9. ASSUME NEW k \in 1..m + 1 PROVE GoodRun(buffer', runs'[k])
  <2>1. CASE k = m + 1
    <3>1. runs'[k].start = following /\ EndOf(runs'[k]) = following + len
      BY <1>5, <2>1 DEF EndOf
    <3> QED BY <1>2, <1>3, <3>1 DEF GoodRun
  <2>2. CASE k # m + 1
    <3> DEFINE run == runs[k]
    <3>1. k \in 1..m /\ runs'[k] = run
      BY <1>1, <1>5, <2>2
    <3>2. GoodRun(buffer, run)
      BY <1>0, <3>1 DEF RunsGood
    <3>3. run.start \in Nat /\ EndOf(run) \in Nat /\ EndOf(run) <= following
      <4>1. run.start \in Nat /\ EndOf(run) \in Nat
        BY <1>1, <3>1, ChainTyped
      <4> QED BY <1>1, <3>1, <4>1, ChainOrdered
    <3>4. Good(reverse, buffer, run.start + 1, EndOf(run))
      BY <3>2 DEF GoodRun
    <3> HIDE DEF run
    <3>5. /\ following + 1 \in Nat /\ following + len \in Nat /\ run.start + 1 \in Nat /\ 1 <= run.start + 1
          /\ EndOf(run) <= Len(buffer) /\ EndOf(run) < following + 1
      BY <1>1, <1>2, <3>3
    <3>6. Good(reverse, buffer', run.start + 1, EndOf(run))
      BY <1>1, <1>2, <3>3, <3>4, <3>5, GoodSame
    <3> QED BY <1>3, <3>1, <3>6 DEF GoodRun
  <2> QED BY <2>1, <2>2
<1>10. RunsGood'
  BY <1>3, <1>5, <1>9 DEF RunsGood, GoodRun
<1>11. Merging' /\ Ended'
  BY <1>3 DEF Merging, Ended
<1> QED BY <1>6, <1>8, <1>10, <1>11 DEF SortInv

(* A copy of slots that are in order is in order. *)
LEMMA CopiedOut ==
  ASSUME NEW r, NEW d \in Seq(Element), NEW lo \in Nat, NEW hi \in Nat, lo <= hi, hi <= Len(d),
         Good(r, d, lo + 1, hi)
  PROVE  /\ Side(r, SubSeq(d, lo + 1, hi), 0) /\ Len(SubSeq(d, lo + 1, hi)) = hi - lo
         /\ IdsOf(SubSeq(d, lo + 1, hi)) = lo + 1..hi
<1> DEFINE s == SubSeq(d, lo + 1, hi)
           n == hi - lo
<1>0. Len(d) \in Nat /\ n \in Nat /\ \A p \in lo + 1..hi : d[p] \in Element
  BY LenProperties, ElementOfSeq
<1>1. s \in Seq(Element) /\ Len(s) = n /\ \A p \in 1..n : s[p] = d[lo + p]
  <2>1. s \in Seq(Element)
    BY <1>0, SubSeqProperties
  <2>2. Len(s) = n /\ \A p \in 1..n : s[p] = d[lo + p]
    <3>1. Len(s) = IF lo + 1 <= hi THEN hi - (lo + 1) + 1 ELSE 0
      BY <1>0, SubSeqProperties
    <3>2. Len(s) = n
      BY <3>1
    <3>3. ASSUME NEW p \in 1..n PROVE s[p] = d[lo + p]
      <4>1. p \in 1..hi - (lo + 1) + 1 /\ (lo + 1) + p - 1 = lo + p
        BY <1>0
      <4> QED BY <1>0, <4>1, SubSeqProperties
    <3> QED BY <3>2, <3>3
  <2> QED BY <2>1, <2>2
<1> HIDE DEF s
<1>2. \A p \in 1..n : lo + p \in lo + 1..hi
  BY <1>0
<1>3. Sorted(r, s, 1, n)
  <2> SUFFICES ASSUME NEW p \in 1..n, NEW q \in 1..n, p < q PROVE SortsBefore(r, s[p], s[q])
    BY DEF Sorted
  <2>1. lo + p < lo + q
    OBVIOUS
  <2>2. SortsBefore(r, d[lo + p], d[lo + q])
    BY <1>2, <2>1 DEF Good, Sorted
  <2> QED BY <1>1, <2>2
<1>4. IdsOf(s) = lo + 1..hi
  <2> DEFINE J == {d[q].id : q \in lo + 1..hi}
  <2>1. J = lo + 1..hi
    BY DEF Good
  <2>2. ASSUME NEW x \in IdsOf(s) PROVE x \in J
    <3>1. PICK p \in 1..n : x = s[p].id
      BY <1>1 DEF IdsOf
    <3> QED BY <1>1, <1>2, <3>1
  <2>3. ASSUME NEW x \in J PROVE x \in IdsOf(s)
    <3>1. PICK q \in lo + 1..hi : x = d[q].id
      OBVIOUS
    <3>2. q - lo \in 1..n /\ lo + (q - lo) = q
      BY <1>0
    <3>3. x = s[q - lo].id
      BY <1>1, <3>1, <3>2
    <3> QED BY <1>1, <3>2, <3>3 DEF IdsOf
  <2> HIDE DEF J
  <2> QED BY <2>1, <2>2, <2>3
<1>5. Side(r, s, 0)
  BY <1>0, <1>1, <1>3 DEF Side
<1> QED BY <1>1, <1>4, <1>5 DEF s

LEMMA StartMergeStep ==
  ASSUME SortInv, phase \in {"collapse", "force"}, NEW at \in 1..Len(runs) - 1, Sort!StartMerge(at)
  PROVE  SortInv'
<1> DEFINE n == Len(buffer)
           low == runs[at]
           high == runs[at + 1]
           mid == EndOf(low)
           hi == EndOf(high)
<1>0. Shape /\ Phased /\ RunsGood
  BY DEF SortInv
<1>1. /\ n \in Nat /\ Len(runs) \in Nat /\ following \in Nat /\ following <= n
      /\ at \in Nat /\ at \in 1..Len(runs) /\ at + 1 \in 1..Len(runs)
  BY <1>0, ShapeFacts
<1>2. /\ phase' = "merge" /\ buffer' = buffer /\ reverse' = reverse /\ minRun' = minRun /\ runs' = runs
      /\ following' = following
      /\ merge' = [left |-> SubSeq(buffer, low.start + 1, low.start + low.len),
                   right |-> SubSeq(buffer, low.start + low.len + 1, low.start + low.len + high.len),
                   i |-> 0, j |-> 0, at |-> at, back |-> phase]
  BY DEF Sort!StartMerge
<1>3. /\ low.start \in Nat /\ mid \in Nat /\ hi \in Nat /\ high.start = mid
      /\ low.len \in Nat /\ high.len \in Nat /\ low.start <= mid /\ mid <= hi
      /\ low.start + low.len = mid /\ mid + high.len = hi
  <2>0. Chain(runs, following)
    BY <1>0 DEF Shape
  <2>1. /\ low.start \in Nat /\ mid \in Nat /\ low.len \in Nat /\ low.start <= mid
    BY <1>1, <2>0, ChainTyped
  <2>2. /\ high.start \in Nat /\ hi \in Nat /\ high.len \in Nat /\ high.start <= hi
    BY <1>1, <2>0, ChainTyped
  <2>3. mid = high.start
    BY <1>1, <2>0 DEF Chain
  <2>4. low.start + low.len = mid /\ high.start + high.len = hi
    BY DEF EndOf
  <2> HIDE DEF low, high, mid, hi
  <2> QED BY <2>1, <2>2, <2>3, <2>4
<1>4. hi <= n
  <2>1. Chain(runs, following)
    BY <1>0 DEF Shape
  <2>2. hi <= following
    BY <1>1, <2>1, ChainOrdered
  <2> HIDE DEF hi
  <2> QED BY <1>1, <1>3, <2>2
<1>5. Good(reverse, buffer, low.start + 1, mid) /\ Good(reverse, buffer, mid + 1, hi)
  <2>1. GoodRun(buffer, low) /\ GoodRun(buffer, high)
    BY <1>0, <1>1 DEF RunsGood
  <2> QED BY <1>3, <2>1 DEF GoodRun
<1> HIDE DEF low, high, mid, hi
<1> DEFINE A == SubSeq(buffer, low.start + 1, mid)
           B == SubSeq(buffer, mid + 1, hi)
<1>6. /\ Side(reverse, A, 0) /\ Len(A) = mid - low.start /\ IdsOf(A) = low.start + 1..mid
      /\ Side(reverse, B, 0) /\ Len(B) = hi - mid /\ IdsOf(B) = mid + 1..hi
  <2>1. buffer \in Seq(Element) /\ mid <= Len(buffer) /\ hi <= Len(buffer)
    BY <1>0, <1>1, <1>3, <1>4 DEF Shape
  <2>2. /\ Side(reverse, A, 0) /\ Len(A) = mid - low.start /\ IdsOf(A) = low.start + 1..mid
    BY <1>3, <1>5, <2>1, CopiedOut
  <2>3. /\ Side(reverse, B, 0) /\ Len(B) = hi - mid /\ IdsOf(B) = mid + 1..hi
    BY <1>3, <1>5, <2>1, CopiedOut
  <2> QED BY <2>2, <2>3
<1>7. merge' = [left |-> A, right |-> B, i |-> 0, j |-> 0, at |-> at, back |-> phase]
  BY <1>2, <1>3
<1> HIDE DEF A, B
<1>8. /\ merge'.left = A /\ merge'.right = B /\ merge'.i = 0 /\ merge'.j = 0 /\ merge'.at = at
      /\ merge'.back = phase
  BY <1>7
<1>9. merge' \in MergeRecord
  <2>1. A \in Seq(Element) /\ B \in Seq(Element)
    BY <1>6 DEF Side
  <2> QED BY <1>1, <1>7, <2>1 DEF MergeRecord
<1>10. Placed(reverse, buffer, low.start, A, 0, B, 0)
  <2>1. low.start + 0 + 0 = low.start
    BY <1>3
  <2>2. Sorted(reverse, buffer, low.start + 1, low.start)
    BY <1>3 DEF Sorted
  <2>3. Elements(buffer, low.start + 1, low.start) = Elements(A, 1, 0) \cup Elements(B, 1, 0)
    BY <1>3 DEF Elements
  <2>4. low.start + 1..low.start = {}
    BY <1>3
  <2> QED BY <2>1, <2>2, <2>3, <2>4 DEF Placed
<1>11. MergeOK(reverse', buffer', runs', following', merge')
  <2>1. Len(A) = low.len /\ Len(B) = high.len
    <3>1. Len(A) = mid - low.start /\ Len(B) = hi - mid
      BY <1>6
    <3> HIDE DEF A, B
    <3> QED BY <1>3, <3>1
  <2>2. phase = "force" => following = n
    BY <1>0 DEF Phased
  <2>3. Side(reverse, A, 0) /\ Side(reverse, B, 0)
    BY <1>6
  <2>4. IdsOf(A) = low.start + 1..EndOf(low) /\ IdsOf(B) = high.start + 1..EndOf(high)
    BY <1>3, <1>6 DEF mid, hi
  <2> QED BY <1>2, <1>8, <1>10, <2>1, <2>2, <2>3, <2>4 DEF MergeOK, low, high
<1>12. Shape'
  BY <1>0, <1>2, <1>9 DEF Shape, Phases
<1>13. Phased'
  BY <1>0, <1>2 DEF Phased
<1>14. RunsGood'
  BY <1>0, <1>2 DEF RunsGood, GoodRun
<1>15. Merging' /\ Ended'
  BY <1>2, <1>11 DEF Merging, Ended
<1> QED BY <1>12, <1>13, <1>14, <1>15 DEF SortInv

LEMMA CollapseStep ==
  ASSUME SortInv, Sort!Collapse
  PROVE  SortInv'
<1>1. phase = "collapse" /\ Sort!CollapseAt # 0 /\ Sort!StartMerge(Sort!CollapseAt)
  BY DEF Sort!Collapse
<1>2. Len(runs) \in Nat
  BY ShapeFacts DEF SortInv
<1>3. Sort!CollapseAt \in 1..Len(runs) - 1
  BY <1>1, <1>2 DEF Sort!CollapseAt
<1> QED BY <1>1, <1>3, StartMergeStep

LEMMA ForceStep ==
  ASSUME SortInv, Sort!Force
  PROVE  SortInv'
<1>1. phase = "force" /\ Sort!ForceAt # 0 /\ Sort!StartMerge(Sort!ForceAt)
  BY DEF Sort!Force
<1>2. Len(runs) \in Nat
  BY ShapeFacts DEF SortInv
<1>3. Sort!ForceAt \in 1..Len(runs) - 1
  BY <1>1, <1>2 DEF Sort!ForceAt
<1> QED BY <1>1, <1>3, StartMergeStep

LEMMA CollapsedStep ==
  ASSUME SortInv, Sort!Collapsed
  PROVE  SortInv'
<1>1. /\ phase = "collapse" /\ phase' = (IF following < Len(buffer) THEN "run" ELSE "force")
      /\ buffer' = buffer /\ reverse' = reverse /\ minRun' = minRun /\ runs' = runs /\ following' = following
      /\ merge' = merge
  BY DEF Sort!Collapsed
<1>2. Shape /\ Phased /\ RunsGood /\ Len(buffer) \in Nat /\ following \in Nat /\ following <= Len(buffer)
  BY ShapeFacts DEF SortInv
<1>3. phase' \in {"run", "force"}
  BY <1>1
<1>4. Shape'
  BY <1>1, <1>2, <1>3 DEF Shape, Phases
<1>5. Phased'
  BY <1>1, <1>2 DEF Phased
<1>6. RunsGood'
  BY <1>1, <1>2, <1>3 DEF RunsGood, GoodRun
<1>7. Merging' /\ Ended'
  BY <1>3 DEF Merging, Ended
<1> QED BY <1>4, <1>5, <1>6, <1>7 DEF SortInv

LEMMA ForcedStep ==
  ASSUME SortInv, Sort!Forced
  PROVE  SortInv'
<1>1. /\ phase = "force" /\ Sort!ForceAt = 0 /\ phase' = "done"
      /\ buffer' = buffer /\ reverse' = reverse /\ minRun' = minRun /\ runs' = runs /\ following' = following
      /\ merge' = merge
  BY DEF Sort!Forced
<1>2. /\ Shape /\ Phased /\ RunsGood /\ Len(buffer) \in Nat /\ following \in Nat /\ Chain(runs, following)
      /\ Len(runs) \in Nat
  BY ShapeFacts DEF SortInv, Shape
<1>3. following = Len(buffer) /\ Len(buffer) # 0
  BY <1>1, <1>2 DEF Phased
<1>4. Len(runs) = 1
  <2>0. Len(runs) \in Nat
    BY <1>2
  <2>1. Len(runs) < 2
    <3>1. SUFFICES ASSUME Len(runs) >= 2 PROVE Sort!ForceAt # 0
      BY <1>1, <2>0
    <3>2. \/ Sort!ForceAt = Len(runs) - 2 /\ Len(runs) >= 3
          \/ Sort!ForceAt = Len(runs) - 1
      BY <2>0, <3>1 DEF Sort!ForceAt
    <3>3. CASE Sort!ForceAt = Len(runs) - 2 /\ Len(runs) >= 3
      BY <2>0, <3>3
    <3>4. CASE Sort!ForceAt = Len(runs) - 1
      BY <2>0, <3>1, <3>4
    <3> QED BY <3>2, <3>3, <3>4
  <2>2. Len(runs) # 0
    BY <1>3, <1>2 DEF Chain
  <2>3. \A m \in Nat : m < 2 /\ m # 0 => m = 1
    OBVIOUS
  <2> QED BY <2>0, <2>1, <2>2, <2>3, Zenon
<1>5. runs[1].start = 0 /\ EndOf(runs[1]) = following
  BY <1>2, <1>4 DEF Chain
<1>6. Good(reverse, buffer, 1, Len(buffer))
  <2>1. GoodRun(buffer, runs[1])
    BY <1>1, <1>2, <1>4 DEF RunsGood
  <2>2. runs[1].start + 1 = 1
    BY <1>5
  <2> QED BY <1>3, <1>5, <2>1, <2>2 DEF GoodRun
<1>7. Shape'
  BY <1>1, <1>2 DEF Shape, Phases
<1>8. RunsGood'
  BY <1>1, <1>2 DEF RunsGood, GoodRun
<1>9. Phased' /\ Merging' /\ Ended'
  BY <1>1, <1>6 DEF Phased, Merging, Ended
<1> QED BY <1>7, <1>8, <1>9 DEF SortInv

(* A merge: where its runs lie, and what a change of their slots leaves alone. *)
MergeFacts(lo, mid, hi) ==
  /\ Len(buffer) \in Nat /\ buffer \in Seq(Element) /\ following \in Nat /\ Len(runs) \in Nat
  /\ Chain(runs, following) /\ merge.at \in 1..Len(runs) - 1
  /\ lo \in Nat /\ mid \in Nat /\ hi \in Nat
  /\ lo = runs[merge.at].start /\ mid = EndOf(runs[merge.at])
  /\ mid = runs[merge.at + 1].start /\ hi = EndOf(runs[merge.at + 1])
  /\ Side(reverse, merge.left, merge.i) /\ Len(merge.left) = mid - lo
  /\ Side(reverse, merge.right, merge.j) /\ Len(merge.right) = hi - mid
  /\ lo <= mid /\ mid <= hi /\ hi <= following /\ following <= Len(buffer)
  /\ IdsOf(merge.left) = lo + 1..mid /\ IdsOf(merge.right) = mid + 1..hi
  /\ Placed(reverse, buffer, lo, merge.left, merge.i, merge.right, merge.j)

LEMMA MergeIs ==
  ASSUME SortInv, phase = "merge"
  PROVE  \E lo, mid, hi \in Nat : MergeFacts(lo, mid, hi)
<1> DEFINE at == merge.at
           low == runs[at]
           high == runs[at + 1]
           lo == low.start
           mid == EndOf(low)
           hi == EndOf(high)
<1>1. /\ at \in 1..Len(runs) - 1
      /\ Side(reverse, merge.left, merge.i) /\ Len(merge.left) = low.len
      /\ Side(reverse, merge.right, merge.j) /\ Len(merge.right) = high.len
      /\ IdsOf(merge.left) = lo + 1..mid /\ IdsOf(merge.right) = high.start + 1..hi
      /\ Placed(reverse, buffer, lo, merge.left, merge.i, merge.right, merge.j)
  BY DEF SortInv, Merging, MergeOK
<1>2. /\ Len(buffer) \in Nat /\ buffer \in Seq(Element) /\ following \in Nat /\ Len(runs) \in Nat
      /\ Chain(runs, following) /\ following <= Len(buffer)
  BY ShapeFacts DEF SortInv, Shape
<1>3. at \in 1..Len(runs) /\ at + 1 \in 1..Len(runs) /\ at # Len(runs)
  BY <1>1, <1>2
<1>4. /\ lo \in Nat /\ mid \in Nat /\ low.len \in Nat /\ lo <= mid
  BY <1>2, <1>3, ChainTyped
<1>5. /\ high.start \in Nat /\ hi \in Nat /\ high.len \in Nat /\ high.start <= hi
  BY <1>2, <1>3, ChainTyped
<1>6. mid = high.start
  BY <1>2, <1>3 DEF Chain
<1>7. hi <= following
  BY <1>2, <1>3, ChainOrdered
<1>8. lo + low.len = mid /\ high.start + high.len = hi
  BY DEF EndOf
<1>9. Len(merge.left) = mid - lo /\ Len(merge.right) = hi - mid
  <2> HIDE DEF low, high, lo, mid, hi
  <2>1. low.len = mid - lo
    BY <1>4, <1>8
  <2>2. high.len = hi - mid
    BY <1>5, <1>6, <1>8
  <2> QED BY <1>1, <2>1, <2>2
<1>10. MergeFacts(lo, mid, hi)
  <2> HIDE DEF lo, mid, hi
  <2>1. lo = runs[merge.at].start /\ mid = EndOf(runs[merge.at])
        /\ mid = runs[merge.at + 1].start /\ hi = EndOf(runs[merge.at + 1])
    BY <1>6 DEF lo, mid, hi
  <2>2. IdsOf(merge.right) = mid + 1..hi
    BY <1>1, <1>6
  <2>3. lo <= mid /\ mid <= hi
    BY <1>4, <1>5, <1>6
  <2> HIDE DEF low, high
  <2> QED BY <1>1, <1>2, <1>4, <1>5, <1>7, <1>9, <2>1, <2>2, <2>3 DEF MergeFacts
<1> QED BY <1>4, <1>5, <1>10

LEMMA MergeLeaves ==
  ASSUME SortInv, phase = "merge", NEW lo \in Nat, NEW mid \in Nat, NEW hi \in Nat,
         MergeFacts(lo, mid, hi), NEW e, Same(buffer, e, lo + 1, hi)
  PROVE  /\ e \in Seq(Element) /\ Len(e) = Len(buffer)
         /\ Untouched(e, following + 1, Len(e))
         /\ \A k \in 1..Len(runs) : k \notin {merge.at, merge.at + 1} => GoodRun(e, runs[k])
<1>0. /\ Len(buffer) \in Nat /\ buffer \in Seq(Element) /\ following \in Nat /\ Len(runs) \in Nat
      /\ Chain(runs, following) /\ merge.at \in 1..Len(runs) - 1 /\ hi <= following /\ following <= Len(buffer)
      /\ lo = runs[merge.at].start /\ hi = EndOf(runs[merge.at + 1])
  BY DEF MergeFacts
<1>1. /\ e \in Seq(Element) /\ Len(e) = Len(buffer)
      /\ \A p \in 1..Len(buffer) : p \notin lo + 1..hi => e[p] = buffer[p]
  BY DEF Same
<1>2. Untouched(e, following + 1, Len(e))
  <2> SUFFICES ASSUME NEW p \in following + 1..Len(buffer) PROVE e[p].id = p
    BY <1>1 DEF Untouched
  <2>1. p \in 1..Len(buffer) /\ p \notin lo + 1..hi
    BY <1>0
  <2>2. Untouched(buffer, following + 1, Len(buffer))
    BY DEF SortInv, Phased
  <2> QED BY <1>1, <2>1, <2>2 DEF Untouched
<1>3. ASSUME NEW k \in 1..Len(runs), k \notin {merge.at, merge.at + 1}
      PROVE  GoodRun(e, runs[k])
  <2> DEFINE run == runs[k]
  <2>1. GoodRun(buffer, run)
    BY <1>3 DEF SortInv, RunsGood
  <2>2. run.start \in Nat /\ EndOf(run) \in Nat /\ EndOf(run) <= following
    <3>1. run.start \in Nat /\ EndOf(run) \in Nat
      BY <1>0, ChainTyped
    <3>2. EndOf(run) <= following
      BY <1>0, ChainOrdered
    <3> QED BY <3>1, <3>2
  <2>3. EndOf(run) <= lo \/ hi <= run.start
    <3>1. merge.at \in 1..Len(runs) /\ merge.at + 1 \in 1..Len(runs)
      BY <1>0
    <3>2. CASE k < merge.at
      <4>1. merge.at \in k + 1..Len(runs)
        BY <1>0, <3>2
      <4> QED BY <1>0, <4>1, ChainOrdered
    <3>3. CASE k > merge.at
      <4>1. k \in (merge.at + 1) + 1..Len(runs)
        BY <1>0, <1>3, <3>3
      <4>2. EndOf(runs[merge.at + 1]) <= runs[k].start
        BY <1>0, <3>1, <4>1, ChainOrdered
      <4> QED BY <1>0, <4>2
    <3> QED BY <1>0, <1>3, <3>2, <3>3
  <2>4. Good(reverse, buffer, run.start + 1, EndOf(run))
    BY <2>1 DEF GoodRun
  <2> HIDE DEF run
  <2>5. /\ lo + 1 \in Nat /\ run.start + 1 \in Nat /\ 1 <= run.start + 1 /\ EndOf(run) <= Len(buffer)
        /\ (EndOf(run) < lo + 1 \/ hi < run.start + 1)
    <3>1. Len(buffer) \in Nat /\ following \in Nat /\ following <= Len(buffer)
      BY <1>0
    <3> QED BY <2>2, <2>3, <3>1
  <2>6. Good(reverse, e, run.start + 1, EndOf(run))
    BY <1>0, <2>2, <2>4, <2>5, GoodSame
  <2> QED BY <2>6 DEF GoodRun, run
<1> QED BY <1>1, <1>2, <1>3

LEMMA AdvanceIs ==
  ASSUME NEW m \in MergeRecord
  PROVE  /\ LET n == [m EXCEPT !.i = @ + 1]
            IN  /\ n \in MergeRecord /\ n.left = m.left /\ n.right = m.right /\ n.i = m.i + 1
                /\ n.j = m.j /\ n.at = m.at /\ n.back = m.back
         /\ LET n == [m EXCEPT !.j = @ + 1]
            IN  /\ n \in MergeRecord /\ n.left = m.left /\ n.right = m.right /\ n.i = m.i
                /\ n.j = m.j + 1 /\ n.at = m.at /\ n.back = m.back
BY DEF MergeRecord

LEMMA CompareStep ==
  ASSUME SortInv, Sort!Compare
  PROVE  SortInv'
<1> DEFINE i == merge.i
           j == merge.j
           A == merge.left
           B == merge.right
           l == A[i + 1]
           r == B[j + 1]
<1>0. /\ phase = "merge" /\ i < Len(A) /\ j < Len(B)
      /\ reverse' = reverse /\ minRun' = minRun /\ runs' = runs /\ following' = following /\ phase' = phase
      /\ IF Sort!Less(r, l)
         THEN buffer' = [buffer EXCEPT ![Sort!Place] = r] /\ merge' = [merge EXCEPT !.j = @ + 1]
         ELSE buffer' = [buffer EXCEPT ![Sort!Place] = l] /\ merge' = [merge EXCEPT !.i = @ + 1]
  BY DEF Sort!Compare, Sort!Comparing
<1>1. PICK lo, mid, hi \in Nat : MergeFacts(lo, mid, hi)
  BY <1>0, MergeIs
<1>2. /\ Len(buffer) \in Nat /\ buffer \in Seq(Element) /\ lo = runs[merge.at].start
      /\ Side(reverse, A, i) /\ Len(A) = mid - lo /\ Side(reverse, B, j) /\ Len(B) = hi - mid
      /\ IdsOf(A) = lo + 1..mid /\ IdsOf(B) = mid + 1..hi
      /\ Placed(reverse, buffer, lo, A, i, B, j) /\ hi <= Len(buffer) /\ lo <= mid /\ mid <= hi
  <2>1. MergeFacts(lo, mid, hi)
    BY <1>1
  <2>2. following \in Nat /\ hi <= following /\ following <= Len(buffer) /\ Len(buffer) \in Nat
    BY <2>1 DEF MergeFacts
  <2>3. hi <= Len(buffer)
    BY <2>2
  <2> QED BY <2>1, <2>3 DEF MergeFacts
<1>3. /\ i \in Nat /\ j \in Nat /\ Sort!Place = lo + i + j + 1 /\ lo + Len(A) + Len(B) = hi
      /\ lo + Len(B) + Len(A) = hi /\ lo + j + i + 1 = lo + i + j + 1
      /\ i + 1 \in 1..Len(A) /\ j + 1 \in 1..Len(B)
  <2>1. i \in 0..Len(A) /\ j \in 0..Len(B) /\ Len(A) \in Nat /\ Len(B) \in Nat
    BY <1>2, LenProperties DEF Side
  <2>2. Sort!Place = lo + i + j + 1
    BY <1>2 DEF Sort!Place
  <2>3. i < Len(A) /\ j < Len(B) /\ Len(A) = mid - lo /\ Len(B) = hi - mid
    BY <1>0, <1>2
  <2> HIDE DEF i, j, A, B
  <2>4. i \in Nat /\ j \in Nat
    BY <2>1
  <2>5. lo + Len(A) + Len(B) = hi /\ lo + Len(B) + Len(A) = hi
    BY <2>1, <2>3
  <2> QED BY <2>1, <2>2, <2>3, <2>4, <2>5
<1>4. l \in Element /\ r \in Element /\ l.id \in lo + 1..mid /\ r.id \in mid + 1..hi
  <2>1. l \in Element /\ r \in Element
    BY <1>2, <1>3, ElementOfSeq DEF Side
  <2>2. l.id \in IdsOf(A) /\ r.id \in IdsOf(B)
    BY <1>3 DEF IdsOf
  <2> QED BY <1>2, <2>1, <2>2
<1>5. merge \in MergeRecord /\ Shape /\ Phased /\ RunsGood
      /\ MergeOK(reverse, buffer, runs, following, merge)
  BY <1>0 DEF SortInv, Shape, Merging
<1>6. CASE Sort!Less(r, l)
  <2>1. SortsBefore(reverse, r, l)
    BY <1>6, LessIs DEF SortsBefore
  <2>2. buffer' = [buffer EXCEPT ![lo + j + i + 1] = B[j + 1]]
    BY <1>0, <1>3, <1>6
  <2>3. /\ Placed(reverse, buffer', lo, B, j + 1, A, i) /\ Same(buffer, buffer', lo + 1, hi)
    <3>1. Placed(reverse, buffer, lo, B, j, A, i)
      BY <1>2, <1>3, SidesSwap
    <3>2. SortsBefore(reverse, B[j + 1], A[i + 1]) /\ i < Len(A) /\ j < Len(B)
          /\ lo + Len(B) + Len(A) <= Len(buffer)
      BY <1>0, <1>2, <1>3, <2>1
    <3> HIDE DEF A, B, i, j
    <3>3. /\ Placed(reverse, [buffer EXCEPT ![lo + j + i + 1] = B[j + 1]], lo, B, j + 1, A, i)
          /\ Same(buffer, [buffer EXCEPT ![lo + j + i + 1] = B[j + 1]], lo + 1, lo + Len(B) + Len(A))
      BY <1>2, <3>1, <3>2, PlaceOne
    <3> QED BY <1>3, <2>2, <3>3
  <2>4. merge' \in MergeRecord /\ merge'.left = A /\ merge'.right = B /\ merge'.i = i
        /\ merge'.j = j + 1 /\ merge'.at = merge.at /\ merge'.back = merge.back
    <3>1. merge \in MergeRecord /\ merge' = [merge EXCEPT !.j = @ + 1]
      BY <1>0, <1>5, <1>6
    <3> QED BY <3>1, AdvanceIs
  <2>5. Placed(reverse, buffer', lo, A, i, B, j + 1)
    <3>1. j + 1 \in Nat
      BY <1>3
    <3> QED BY <1>3, <2>3, <3>1, SidesSwap
  <2>6. Side(reverse, B, j + 1)
    <3>1. B \in Seq(Element) /\ Sorted(reverse, B, 1, Len(B)) /\ Len(B) \in Nat
      BY <1>2, LenProperties DEF Side
    <3>2. j \in Nat /\ j + 1 \in 1..Len(B)
      BY <1>3
    <3> HIDE DEF B, j
    <3>3. j + 1 \in 0..Len(B)
      BY <3>1, <3>2
    <3> QED BY <3>1, <3>3 DEF Side
  <2>7. /\ buffer' \in Seq(Element) /\ Len(buffer') = Len(buffer)
        /\ Untouched(buffer', following + 1, Len(buffer'))
        /\ \A k \in 1..Len(runs) : k \notin {merge.at, merge.at + 1} => GoodRun(buffer', runs[k])
    BY <1>0, <1>1, <2>3, MergeLeaves
  <2>8. MergeOK(reverse', buffer', runs', following', merge')
    <3> HIDE DEF A, B, i, j
    <3>1. /\ merge.at \in 1..Len(runs) - 1 /\ merge.back \in {"collapse", "force"}
          /\ merge.back = "force" => following = Len(buffer)
          /\ Len(A) = runs[merge.at].len
          /\ Len(B) = runs[merge.at + 1].len
          /\ IdsOf(A) = runs[merge.at].start + 1..EndOf(runs[merge.at])
          /\ IdsOf(B) = runs[merge.at + 1].start + 1..EndOf(runs[merge.at + 1])
      BY <1>5 DEF MergeOK, A, B
    <3> QED BY <1>0, <1>2, <2>4, <2>5, <2>6, <2>7, <3>1 DEF MergeOK
  <2>9. Shape'
    BY <1>0, <1>5, <2>4, <2>7 DEF Shape
  <2>10. Phased'
    BY <1>0, <1>5, <2>7 DEF Phased
  <2>11. RunsGood'
    BY <1>0, <2>4, <2>7 DEF RunsGood, GoodRun
  <2>12. Merging' /\ Ended'
    BY <1>0, <2>8 DEF Merging, Ended
  <2> QED BY <2>9, <2>10, <2>11, <2>12 DEF SortInv
<1>7. CASE ~Sort!Less(r, l)
  <2>1. SortsBefore(reverse, l, r)
    <3>1. l.id < r.id
      BY <1>4
    <3>2. ~Under(reverse, r, l)
      BY <1>7, LessIs
    <3> HIDE DEF l, r
    <3> QED BY <1>4, <3>1, <3>2, BeforeTransitive
  <2>2. buffer' = [buffer EXCEPT ![lo + i + j + 1] = A[i + 1]]
    BY <1>0, <1>3, <1>7
  <2>3. /\ Placed(reverse, buffer', lo, A, i + 1, B, j) /\ Same(buffer, buffer', lo + 1, hi)
    <3>2. SortsBefore(reverse, A[i + 1], B[j + 1]) /\ i < Len(A) /\ j < Len(B)
          /\ lo + Len(A) + Len(B) <= Len(buffer)
      BY <1>0, <1>2, <1>3, <2>1
    <3> HIDE DEF A, B, i, j
    <3>3. /\ Placed(reverse, [buffer EXCEPT ![lo + i + j + 1] = A[i + 1]], lo, A, i + 1, B, j)
          /\ Same(buffer, [buffer EXCEPT ![lo + i + j + 1] = A[i + 1]], lo + 1, lo + Len(A) + Len(B))
      BY <1>2, <3>2, PlaceOne
    <3> QED BY <1>3, <2>2, <3>3
  <2>4. merge' \in MergeRecord /\ merge'.left = A /\ merge'.right = B /\ merge'.i = i + 1
        /\ merge'.j = j /\ merge'.at = merge.at /\ merge'.back = merge.back
    <3>1. merge \in MergeRecord /\ merge' = [merge EXCEPT !.i = @ + 1]
      BY <1>0, <1>5, <1>7
    <3> QED BY <3>1, AdvanceIs
  <2>6. Side(reverse, A, i + 1)
    <3>1. i + 1 \in 0..Len(A)
      BY <1>3
    <3> QED BY <1>2, <3>1 DEF Side
  <2>7. /\ buffer' \in Seq(Element) /\ Len(buffer') = Len(buffer)
        /\ Untouched(buffer', following + 1, Len(buffer'))
        /\ \A k \in 1..Len(runs) : k \notin {merge.at, merge.at + 1} => GoodRun(buffer', runs[k])
    BY <1>0, <1>1, <2>3, MergeLeaves
  <2>8. MergeOK(reverse', buffer', runs', following', merge')
    <3> HIDE DEF A, B, i, j
    <3>1. /\ merge.at \in 1..Len(runs) - 1 /\ merge.back \in {"collapse", "force"}
          /\ merge.back = "force" => following = Len(buffer)
          /\ Len(A) = runs[merge.at].len
          /\ Len(B) = runs[merge.at + 1].len
          /\ IdsOf(A) = runs[merge.at].start + 1..EndOf(runs[merge.at])
          /\ IdsOf(B) = runs[merge.at + 1].start + 1..EndOf(runs[merge.at + 1])
      BY <1>5 DEF MergeOK, A, B
    <3> QED BY <1>0, <1>2, <2>3, <2>4, <2>6, <2>7, <3>1 DEF MergeOK
  <2>9. Shape'
    BY <1>0, <1>5, <2>4, <2>7 DEF Shape
  <2>10. Phased'
    BY <1>0, <1>5, <2>7 DEF Phased
  <2>11. RunsGood'
    BY <1>0, <2>4, <2>7 DEF RunsGood, GoodRun
  <2>12. Merging' /\ Ended'
    BY <1>0, <2>8 DEF Merging, Ended
  <2> QED BY <2>9, <2>10, <2>11, <2>12 DEF SortInv
<1> QED BY <1>6, <1>7

Rest(A, i, B, j) == SubSeq(A, i + 1, Len(A)) \o SubSeq(B, j + 1, Len(B))
LEMMA RestIs ==
  ASSUME NEW A \in Seq(Element), NEW i \in 0..Len(A), NEW B \in Seq(Element), NEW j \in 0..Len(B)
  PROVE  /\ i = Len(A) => /\ Len(Rest(A, i, B, j)) = Len(B) - j
                          /\ \A p \in 1..Len(B) - j : Rest(A, i, B, j)[p] = B[p + j]
         /\ j = Len(B) => /\ Len(Rest(A, i, B, j)) = Len(A) - i
                          /\ \A p \in 1..Len(A) - i : Rest(A, i, B, j)[p] = A[p + i]
<1> DEFINE s == Drop(A, i)
           t == Drop(B, j)
           u == s \o t
<1>0. /\ Len(A) \in Nat /\ Len(B) \in Nat /\ i \in Nat /\ j \in Nat
      /\ i <= Len(A) /\ j <= Len(B)
  BY LenProperties
<1>1. /\ s \in Seq(Element) /\ Len(s) = Len(A) - i /\ \A p \in 1..Len(A) - i : s[p] = A[p + i]
  BY DropLemma
<1>2. /\ t \in Seq(Element) /\ Len(t) = Len(B) - j /\ \A p \in 1..Len(B) - j : t[p] = B[p + j]
  BY DropLemma
<1>3. Rest(A, i, B, j) = u
  BY DEF Rest, Drop
<1> HIDE DEF s, t
<1>4. /\ Len(u) = Len(s) + Len(t)
      /\ \A p \in 1..Len(s) + Len(t) : u[p] = IF p <= Len(s) THEN s[p] ELSE t[p - Len(s)]
  BY <1>1, <1>2, ConcatProperties
<1> HIDE DEF u
<1>5. ASSUME i = Len(A)
      PROVE  Len(u) = Len(B) - j /\ \A p \in 1..Len(B) - j : u[p] = B[p + j]
  <2>1. Len(s) = 0 /\ Len(u) = Len(B) - j
    BY <1>0, <1>1, <1>2, <1>4, <1>5
  <2>2. ASSUME NEW p \in 1..Len(B) - j PROVE u[p] = B[p + j]
    <3>1. p \in 1..Len(s) + Len(t) /\ ~(p <= Len(s)) /\ p - Len(s) = p
      BY <1>0, <1>2, <2>1
    <3> QED BY <1>2, <1>4, <3>1
  <2> QED BY <2>1, <2>2
<1>6. ASSUME j = Len(B)
      PROVE  Len(u) = Len(A) - i /\ \A p \in 1..Len(A) - i : u[p] = A[p + i]
  <2>1. Len(t) = 0 /\ Len(u) = Len(A) - i
    BY <1>0, <1>1, <1>2, <1>4, <1>6
  <2>2. ASSUME NEW p \in 1..Len(A) - i PROVE u[p] = A[p + i]
    <3>1. p \in 1..Len(s) + Len(t) /\ p <= Len(s)
      BY <1>0, <1>1, <2>1
    <3> QED BY <1>1, <1>4, <3>1
  <2> QED BY <2>1, <2>2
<1> QED BY <1>3, <1>5, <1>6

(* Slots filled from place on are what PlaceRest is about. *)
Filled(d, rest, place) ==
  [p \in DOMAIN d |-> IF p - place \in 0..Len(rest) - 1 THEN rest[p - place + 1] ELSE d[p]]
LeftOf(B, j, rest) ==
  /\ Len(B) \in Nat /\ j \in Nat /\ j <= Len(B) /\ Len(rest) = Len(B) - j
  /\ \A p \in 1..Len(B) - j : rest[p] = B[p + j] /\ B[p + j] \in Element
LEMMA FilledIs ==
  ASSUME NEW d \in Seq(Element), NEW lo \in Nat, NEW B, NEW j, NEW m \in Nat, NEW rest,
         LeftOf(B, j, rest)
  PROVE  Finished(d, Filled(d, rest, lo + m + 1), lo, B, j, m)
<1> DEFINE place == lo + m + 1
           e == [p \in DOMAIN d |-> IF p - place \in 0..Len(rest) - 1
                                    THEN rest[p - place + 1] ELSE d[p]]
<1>a. /\ Len(B) \in Nat /\ j \in Nat /\ j <= Len(B) /\ Len(rest) = Len(B) - j
      /\ \A p \in 1..Len(B) - j : rest[p] = B[p + j] /\ B[p + j] \in Element
  BY DEF LeftOf
<1>b. place \in Nat /\ place = lo + m + 1
  OBVIOUS
<1>c. e = Filled(d, rest, place)
  BY DEF Filled
<1> HIDE DEF place
<1>0. Len(d) \in Nat /\ DOMAIN d = 1..Len(d) /\ \A p \in 1..Len(d) : d[p] \in Element
  BY LenProperties, ElementOfSeq
<1>1. ASSUME NEW p \in 1..Len(d)
      PROVE  e[p] = IF p \in lo + m + 1..lo + m + (Len(B) - j) THEN B[p - lo - m + j] ELSE d[p]
  <2>1. e[p] = IF p - place \in 0..Len(rest) - 1 THEN rest[p - place + 1] ELSE d[p]
    BY <1>0
  <2>2. p - place \in 0..Len(rest) - 1 <=> p \in lo + m + 1..lo + m + (Len(B) - j)
    <3>1. Len(rest) = Len(B) - j
      BY <1>a
    <3> QED BY <1>0, <1>a, <1>b, <3>1
  <2>3. CASE p \in lo + m + 1..lo + m + (Len(B) - j)
    <3>1. p - place + 1 \in 1..Len(B) - j /\ (p - place + 1) + j = p - lo - m + j
      BY <1>0, <1>a, <1>b, <2>3
    <3>2. rest[p - place + 1] = B[p - lo - m + j]
      BY <1>a, <3>1
    <3> HIDE DEF e
    <3> QED BY <2>1, <2>2, <2>3, <3>2
  <2>4. CASE p \notin lo + m + 1..lo + m + (Len(B) - j)
    <3> HIDE DEF e
    <3> QED BY <2>1, <2>2, <2>4
  <2> QED BY <2>3, <2>4
<1>2. ASSUME NEW p \in 1..Len(d) PROVE e[p] \in Element
  <2>1. CASE p \in lo + m + 1..lo + m + (Len(B) - j)
    <3>1. (p - lo - m) \in 1..Len(B) - j
      BY <1>0, <1>a, <2>1
    <3>2. e[p] = B[p - lo - m + j]
      BY <1>1, <2>1
    <3> QED BY <1>a, <3>1, <3>2
  <2>2. CASE p \notin lo + m + 1..lo + m + (Len(B) - j)
    <3>1. e[p] = d[p]
      <4> HIDE DEF e
      <4> QED BY <1>1, <2>2
    <3> QED BY <1>0, <3>1
  <2> QED BY <2>1, <2>2
<1>3. DOMAIN e = 1..Len(d) /\ e = [p \in 1..Len(d) |-> e[p]]
  BY <1>0
<1> HIDE DEF e
<1>4. e \in [1..Len(d) -> Element]
  BY <1>2, <1>3
<1>5. e \in Seq(Element)
  BY <1>0, <1>4, IsASeq
<1>6. Len(e) = Len(d)
  BY <1>0, <1>3, <1>5, LenProperties
<1>7. Finished(d, e, lo, B, j, m)
  BY <1>1, <1>5, <1>6 DEF Finished
<1> QED BY <1>7, <1>c DEF place

LEMMA JoinedGood ==
  ASSUME NEW lo \in Nat, NEW mid \in Nat, NEW hi \in Nat, lo <= mid, mid <= hi,
         NEW r, NEW d, NEW e, NEW A, NEW B, Joined(r, d, e, lo, hi, A, B) \/ Joined(r, d, e, lo, hi, B, A),
         IdsOf(A) = lo + 1..mid, IdsOf(B) = mid + 1..hi
  PROVE  Good(r, e, lo + 1, hi) /\ Same(d, e, lo + 1, hi)
<1>0. /\ Sorted(r, e, lo + 1, hi) /\ Same(d, e, lo + 1, hi)
      /\ Elements(e, lo + 1, hi) = Elements(A, 1, Len(A)) \cup Elements(B, 1, Len(B))
  BY DEF Joined
<1>1. IdsOf(A) = {x.id : x \in Elements(A, 1, Len(A))}
  BY DEF IdsOf, Elements
<1>2. IdsOf(B) = {x.id : x \in Elements(B, 1, Len(B))}
  BY DEF IdsOf, Elements
<1>3. {e[p].id : p \in lo + 1..hi} = {x.id : x \in Elements(e, lo + 1, hi)}
  BY DEF Elements
<1>4. {e[p].id : p \in lo + 1..hi} = IdsOf(A) \cup IdsOf(B)
  BY <1>0, <1>1, <1>2, <1>3
<1>5. lo + 1..hi = (lo + 1..mid) \cup (mid + 1..hi)
  OBVIOUS
<1> QED BY <1>0, <1>4, <1>5 DEF Good

LEMMA EndMergeData ==
  ASSUME SortInv, Sort!EndMerge, NEW lo \in Nat, NEW mid \in Nat, NEW hi \in Nat, MergeFacts(lo, mid, hi)
  PROVE  Good(reverse, buffer', lo + 1, hi) /\ Same(buffer, buffer', lo + 1, hi)
<1> DEFINE i == merge.i
           j == merge.j
           A == merge.left
           B == merge.right
           rest == Rest(A, i, B, j)
<1>0. /\ ~(phase = "merge" /\ i < Len(A) /\ j < Len(B)) /\ phase = "merge"
      /\ buffer' = Filled(buffer, rest, Sort!Place)
  BY DEF Sort!EndMerge, Sort!Comparing, Rest, Filled
<1>1. /\ Len(buffer) \in Nat /\ buffer \in Seq(Element) /\ lo = runs[merge.at].start
      /\ Side(reverse, A, i) /\ Len(A) = mid - lo /\ Side(reverse, B, j) /\ Len(B) = hi - mid
      /\ IdsOf(A) = lo + 1..mid /\ IdsOf(B) = mid + 1..hi
      /\ Placed(reverse, buffer, lo, A, i, B, j) /\ lo <= mid /\ mid <= hi
      /\ following \in Nat /\ hi <= following /\ following <= Len(buffer)
  BY DEF MergeFacts
<1>2. hi <= Len(buffer)
  BY <1>1
<1>3. Sort!Place = lo + i + j + 1
  BY <1>1 DEF Sort!Place
<1>4. /\ A \in Seq(Element) /\ B \in Seq(Element) /\ i \in 0..Len(A) /\ j \in 0..Len(B)
      /\ Len(A) \in Nat /\ Len(B) \in Nat /\ i \in Nat /\ j \in Nat /\ i <= Len(A) /\ j <= Len(B)
  <2>1. A \in Seq(Element) /\ B \in Seq(Element) /\ i \in 0..Len(A) /\ j \in 0..Len(B)
    BY <1>1 DEF Side
  <2>2. Len(A) \in Nat /\ Len(B) \in Nat
    BY <2>1, LenProperties
  <2> HIDE DEF i, j, A, B
  <2> QED BY <2>1, <2>2
<1>5. \A p \in 1..Len(A) : A[p] \in Element
  BY <1>4, ElementOfSeq
<1>6. \A p \in 1..Len(B) : B[p] \in Element
  BY <1>4, ElementOfSeq
<1>7. lo + Len(A) + Len(B) = hi /\ lo + Len(B) + Len(A) = hi
  <2> HIDE DEF A, B
  <2>1. Len(A) = mid - lo /\ Len(B) = hi - mid
    BY <1>1
  <2> QED BY <2>1
<1> HIDE DEF i, j, A, B
<1>8. i = Len(A) \/ j = Len(B)
  BY <1>0, <1>4
<1> HIDE DEF rest
<1>9. CASE i = Len(A)
  <2>1. Len(rest) = Len(B) - j /\ \A p \in 1..Len(B) - j : rest[p] = B[p + j]
    BY <1>4, <1>9, RestIs DEF rest
  <2>2. \A p \in 1..Len(B) - j : B[p + j] \in Element
    <3>1. \A p \in 1..Len(B) - j : p + j \in 1..Len(B)
      BY <1>4
    <3> QED BY <1>6, <3>1
  <2>3. Len(A) + j \in Nat /\ Sort!Place = lo + (Len(A) + j) + 1
    BY <1>3, <1>4, <1>9
  <2>4. Finished(buffer, buffer', lo, B, j, Len(A) + j)
    <3> DEFINE m == Len(A) + j
    <3> HIDE DEF m
    <3>1. m \in Nat /\ Sort!Place = lo + m + 1 /\ buffer \in Seq(Element)
      BY <1>1, <2>3 DEF m
    <3>2. LeftOf(B, j, rest)
      BY <1>4, <2>1, <2>2 DEF LeftOf
    <3>3. Finished(buffer, Filled(buffer, rest, lo + m + 1), lo, B, j, m)
      BY <3>1, <3>2, FilledIs
    <3> QED BY <1>0, <3>1, <3>3 DEF m
  <2>5. Side(reverse, A, Len(A)) /\ Placed(reverse, buffer, lo, A, Len(A), B, j)
        /\ Side(reverse, B, j)
    BY <1>1, <1>9
  <2>6. Joined(reverse, buffer, buffer', lo, hi, A, B)
    <3>1. buffer \in Seq(Element) /\ hi = lo + Len(A) + Len(B)
      BY <1>1, <1>7
    <3>2. Side(reverse, A, Len(A)) /\ Side(reverse, B, j)
      BY <2>5
    <3>3. Placed(reverse, buffer, lo, A, Len(A), B, j)
      BY <2>5
    <3> QED BY <1>2, <2>4, <3>1, <3>2, <3>3, PlaceRest
  <2>7. lo <= mid /\ mid <= hi /\ IdsOf(A) = lo + 1..mid /\ IdsOf(B) = mid + 1..hi
    BY <1>1
  <2> QED BY <2>6, <2>7, JoinedGood
<1>10. CASE j = Len(B)
  <2>1. Len(rest) = Len(A) - i /\ \A p \in 1..Len(A) - i : rest[p] = A[p + i]
    BY <1>4, <1>10, RestIs DEF rest
  <2>2. \A p \in 1..Len(A) - i : A[p + i] \in Element
    <3>1. \A p \in 1..Len(A) - i : p + i \in 1..Len(A)
      BY <1>4
    <3> QED BY <1>5, <3>1
  <2>3. Len(B) + i \in Nat /\ Sort!Place = lo + (Len(B) + i) + 1
    BY <1>3, <1>4, <1>10
  <2>4. Finished(buffer, buffer', lo, A, i, Len(B) + i)
    <3> DEFINE m == Len(B) + i
    <3> HIDE DEF m
    <3>1. m \in Nat /\ Sort!Place = lo + m + 1 /\ buffer \in Seq(Element)
      BY <1>1, <2>3 DEF m
    <3>2. LeftOf(A, i, rest)
      BY <1>4, <2>1, <2>2 DEF LeftOf
    <3>3. Finished(buffer, Filled(buffer, rest, lo + m + 1), lo, A, i, m)
      BY <3>1, <3>2, FilledIs
    <3> QED BY <1>0, <3>1, <3>3 DEF m
  <2>5. Side(reverse, B, Len(B)) /\ Placed(reverse, buffer, lo, B, Len(B), A, i)
        /\ Side(reverse, A, i)
    BY <1>1, <1>4, <1>10, SidesSwap
  <2>6. Joined(reverse, buffer, buffer', lo, hi, B, A)
    <3>1. buffer \in Seq(Element) /\ hi = lo + Len(B) + Len(A)
      BY <1>1, <1>7
    <3>2. Side(reverse, B, Len(B)) /\ Side(reverse, A, i)
      BY <2>5
    <3>3. Placed(reverse, buffer, lo, B, Len(B), A, i)
      BY <2>5
    <3> QED BY <1>2, <2>4, <3>1, <3>2, <3>3, PlaceRest
  <2>7. lo <= mid /\ mid <= hi /\ IdsOf(A) = lo + 1..mid /\ IdsOf(B) = mid + 1..hi
    BY <1>1
  <2> QED BY <2>6, <2>7, JoinedGood
<1> QED BY <1>8, <1>9, <1>10

LEMMA EndMergeStep ==
  ASSUME SortInv, Sort!EndMerge
  PROVE  SortInv'
<1> DEFINE at == merge.at
           m == Len(runs)
<1>0. /\ phase = "merge" /\ phase' = merge.back /\ merge' = Sort!NoMerge
      /\ reverse' = reverse /\ minRun' = minRun /\ following' = following
      /\ runs' = Merged(runs, at)
  BY DEF Sort!EndMerge, Merged
<1>1. PICK lo, mid, hi \in Nat : MergeFacts(lo, mid, hi)
  BY <1>0, MergeIs
<1>2. Good(reverse, buffer', lo + 1, hi) /\ Same(buffer, buffer', lo + 1, hi)
  BY <1>1, EndMergeData
<1>3. /\ m \in Nat /\ Chain(runs, following) /\ at \in 1..m - 1
      /\ lo = runs[at].start /\ hi = EndOf(runs[at + 1])
      /\ Len(buffer) \in Nat /\ following \in Nat /\ following <= Len(buffer)
  BY <1>1 DEF MergeFacts
<1>4. /\ buffer' \in Seq(Element) /\ Len(buffer') = Len(buffer)
      /\ Untouched(buffer', following + 1, Len(buffer'))
      /\ \A k \in 1..m : k \notin {at, at + 1} => GoodRun(buffer', runs[k])
  BY <1>0, <1>1, <1>2, MergeLeaves
<1>5. Chain(runs', following')
  BY <1>0, <1>3, ChainMerge
<1>6. /\ Len(runs') = m - 1
      /\ runs'[at].start = lo /\ EndOf(runs'[at]) = hi
      /\ \A k \in 1..m - 1 : k < at => runs'[k] = runs[k]
      /\ \A k \in 1..m - 1 : k > at => runs'[k] = runs[k + 1]
  <2> DEFINE u == Merged(runs, at)
  <2>1. /\ Len(u) = Len(runs) - 1
        /\ u[at].start = runs[at].start
        /\ EndOf(u[at]) = EndOf(runs[at + 1])
        /\ \A k \in 1..Len(runs) - 1 : k < at => u[k] = runs[k]
        /\ \A k \in 1..Len(runs) - 1 : k > at => u[k] = runs[k + 1]
    <3>1. Chain(runs, following) /\ at \in 1..Len(runs) - 1
      BY <1>3
    <3> HIDE DEF at
    <3> QED BY <3>1, MergedIs
  <2> HIDE DEF u
  <2>2. runs' = u
    BY <1>0 DEF u
  <2> QED BY <1>3, <2>1, <2>2
<1>7. ASSUME NEW k \in 1..m - 1 PROVE GoodRun(buffer', runs'[k])
  <2>1. CASE k = at
    BY <1>2, <1>6, <2>1 DEF GoodRun
  <2>2. CASE k < at
    <3>1. k \in 1..m /\ k \notin {at, at + 1}
      BY <1>3, <2>2
    <3> QED BY <1>4, <1>6, <2>2, <3>1
  <2>3. CASE k > at
    <3>1. k + 1 \in 1..m /\ k + 1 \notin {at, at + 1}
      BY <1>3, <2>3
    <3> QED BY <1>4, <1>6, <2>3, <3>1
  <2> QED BY <1>3, <2>1, <2>2, <2>3
<1>8. /\ Shape /\ Phased /\ merge.back \in {"collapse", "force"}
      /\ merge.back = "force" => following = Len(buffer)
  BY <1>0 DEF SortInv, Merging, MergeOK
<1>9. Shape'
  <2>1. merge' \in MergeRecord
    BY <1>0 DEF Sort!NoMerge, MergeRecord
  <2>2. phase' \in Phases
    BY <1>0, <1>8 DEF Phases
  <2> QED BY <1>0, <1>3, <1>4, <1>5, <1>8, <2>1, <2>2 DEF Shape
<1>10. Phased'
  BY <1>0, <1>4, <1>8 DEF Phased
<1>11. RunsGood'
  BY <1>0, <1>6, <1>7 DEF RunsGood, GoodRun
<1>12. Merging' /\ Ended'
  BY <1>0, <1>8 DEF Merging, Ended
<1> QED BY <1>9, <1>10, <1>11, <1>12 DEF SortInv

LEMMA SortStep ==
  ASSUME Sort!TimsortAssumption, SortInv, [Sort!Next]_(Sort!vars)
  PROVE  SortInv'
<1>1. CASE Sort!Small  BY <1>1, SmallStep
<1>2. CASE Sort!PushRun  BY <1>2, PushRunStep
<1>3. CASE Sort!Collapse  BY <1>3, CollapseStep
<1>4. CASE Sort!Collapsed  BY <1>4, CollapsedStep
<1>5. CASE Sort!Force  BY <1>5, ForceStep
<1>6. CASE Sort!Forced  BY <1>6, ForcedStep
<1>7. CASE Sort!Compare  BY <1>7, CompareStep
<1>8. CASE Sort!EndMerge  BY <1>8, EndMergeStep
<1>9. CASE UNCHANGED Sort!vars
  BY <1>9 DEF Sort!vars, SortInv, Shape, Phased, RunsGood, GoodRun, Merging, Ended
<1> QED BY <1>1, <1>2, <1>3, <1>4, <1>5, <1>6, <1>7, <1>8, <1>9 DEF Sort!Next

LEMMA SortTyped ==
  ASSUME SortInv
  PROVE  Sort!TypeOK
<1>0. /\ phase \in Phases /\ Chain(runs, following) /\ buffer \in Seq(Element)
      /\ RunsGood /\ Len(buffer) \in Nat /\ following \in Nat /\ following <= Len(buffer)
  BY ShapeFacts DEF SortInv, Shape
<1>1. DOMAIN runs = 1..Len(runs) /\ Len(runs) \in Nat
  BY <1>0, ChainTyped
<1>2. ASSUME NEW k \in DOMAIN runs
      PROVE  runs[k].start + runs[k].len = IF k = Len(runs) THEN following ELSE runs[k + 1].start
  BY <1>0, <1>1 DEF Chain, EndOf
<1>3. ASSUME NEW k \in DOMAIN runs, phase # "merge"
      PROVE  Sort!Ordered(SubSeq(buffer, runs[k].start + 1, runs[k].start + runs[k].len))
  <2> DEFINE lo == runs[k].start
             hi == EndOf(runs[k])
             s == SubSeq(buffer, lo + 1, hi)
  <2>0. k \in 1..Len(runs)
    BY <1>1
  <2>1. lo \in Nat /\ hi \in Nat /\ lo <= hi /\ runs[k].start + runs[k].len = hi
    BY <1>0, <2>0, ChainTyped DEF EndOf
  <2>2. hi <= following
    BY <1>0, <2>0, ChainOrdered
  <2>3. Good(reverse, buffer, lo + 1, hi)
    BY <1>0, <1>3, <2>0 DEF RunsGood, GoodRun
  <2>4. hi <= Len(buffer)
    <3> HIDE DEF hi
    <3> QED BY <1>0, <2>1, <2>2
  <2> HIDE DEF lo, hi
  <2>5. Side(reverse, s, 0)
    BY <1>0, <2>1, <2>3, <2>4, CopiedOut
  <2> HIDE DEF s
  <2>6. Sort!Ordered(s)
    <3>1. s \in Seq(Element) /\ DOMAIN s = 1..Len(s) /\ \A p \in 1..Len(s) : s[p] \in Element
      BY <2>5, LenProperties, ElementOfSeq DEF Side
    <3>2. ASSUME NEW p \in 1..Len(s), NEW q \in 1..Len(s), p < q PROVE ~Sort!Less(s[q], s[p])
      <4>1. SortsBefore(reverse, s[p], s[q])
        BY <2>5, <3>2 DEF Side, Sorted
      <4>2. ~Under(reverse, s[q], s[p])
        BY <3>1, <4>1, BeforeTransitive
      <4> QED BY <4>2, LessIs
    <3> QED BY <3>1, <3>2 DEF Sort!Ordered
  <2> QED BY <2>1, <2>6 DEF s, lo
<1> QED BY <1>0, <1>2, <1>3 DEF Sort!TypeOK, Phases

LEMMA SortedStably ==
  ASSUME SortInv
  PROVE  Sort!SortIsStable
<1> SUFFICES ASSUME phase = "done"
             PROVE  /\ Sort!Ids(buffer) = DOMAIN buffer
                    /\ \A p, q \in DOMAIN buffer :
                         p < q => \/ Sort!Less(buffer[p], buffer[q])
                                  \/ buffer[p].key = buffer[q].key /\ buffer[p].id < buffer[q].id
  BY DEF Sort!SortIsStable
<1>1. DOMAIN buffer = 1..Len(buffer) /\ Good(reverse, buffer, 1, Len(buffer))
  BY LenProperties DEF SortInv, Shape, Ended
<1>2. Sort!Ids(buffer) = DOMAIN buffer
  BY <1>1 DEF Sort!Ids, Good
<1>3. ASSUME NEW p \in DOMAIN buffer, NEW q \in DOMAIN buffer, p < q
      PROVE  \/ Sort!Less(buffer[p], buffer[q])
             \/ buffer[p].key = buffer[q].key /\ buffer[p].id < buffer[q].id
  <2>1. SortsBefore(reverse, buffer[p], buffer[q])
    BY <1>1, <1>3 DEF Good, Sorted
  <2> QED BY <2>1, LessIs DEF SortsBefore
<1> QED BY <1>2, <1>3

(* A sort leaves the elements it was given, in order, and those of equal keys  *)
(* in the order they had, in reverse too; at every step the runs on the stack  *)
(* are adjacent and in order.                                                 *)
THEOREM SortCorrect ==
  ASSUME Sort!TimsortAssumption PROVE Sort!Spec => [](Sort!TypeOK /\ Sort!SortIsStable)
<1>1. Sort!Init => SortInv
  BY SortInit
<1>2. SortInv /\ [Sort!Next]_(Sort!vars) => SortInv'
  BY SortStep
<1>3. SortInv => Sort!TypeOK /\ Sort!SortIsStable
  BY SortTyped, SortedStably
<1> QED BY <1>1, <1>2, <1>3, PTL DEF Sort!Spec
=============================================================================
