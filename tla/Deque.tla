------------------------------- MODULE Deque -------------------------------
(* collections.deque, runtime/src/deque.rs: a ring buffer of tagged values  *)
(* with an optional maxlen.  A slot outside the live window keeps whatever  *)
(* was in it; slots count from 0, as in the code.  extend, extendleft and   *)
(* deque(iterable) are loops of append and appendleft that run user code    *)
(* between two of them, so they are interleavings of those actions.         *)
EXTENDS Integers, SequencesExt, FiniteSetsExt, Buffers

CONSTANTS Values,
          MaxLens,      \* the maxlen arguments, -1 for none
          MinCapacity,  \* a power of 2: 8 in the code
          Indices,      \* bound: index and rotation arguments
          MaxLen,       \* bound: elements
          Zero,         \* a slot of a fresh buffer
          IndexError, ValueError, None

DequeAssumption ==
  /\ MinCapacity \in Nat \ {0} /\ MaxLens \subseteq Nat \cup {-1} /\ Indices \subseteq Int
  /\ MaxLen \in Nat /\ Zero \notin Values

VARIABLE deque  \* [data, capacity, head, len, maxlen]

Buffer(cap) == [i \in 0..cap - 1 |-> Zero]
Fresh(maxlen) == [data |-> Buffer(MinCapacity), capacity |-> MinCapacity,
                  head |-> 0, len |-> 0, maxlen |-> maxlen]

Init == \E m \in MaxLens : deque = Fresh(m)

----------------------------------------------------------------------------
Ring(d, i) == (d.head + i) % d.capacity
Contents(d) == [i \in 1..d.len |-> d.data[Ring(d, i - 1)]]
Window(d, data, head, len) == [data |-> data, capacity |-> d.capacity, head |-> head,
                               len |-> len, maxlen |-> d.maxlen]

\* Mutant: the buffer grows with its slots where they are.
EnsureCapacityInPlace(d) ==
  IF d.len < d.capacity THEN d
  ELSE [data |-> [i \in 0..2 * d.capacity - 1 |-> IF i < d.len THEN d.data[i] ELSE Zero],
        capacity |-> 2 * d.capacity, head |-> d.head, len |-> d.len, maxlen |-> d.maxlen]
\* Double the buffer when it is full, linearized from the head.
EnsureCapacity(d) ==
  IF d.len < d.capacity THEN d
  ELSE [data |-> [i \in 0..2 * d.capacity - 1 |->
                    IF i < d.len THEN d.data[Ring(d, i)] ELSE Zero],
        capacity |-> 2 * d.capacity, head |-> 0, len |-> d.len, maxlen |-> d.maxlen]

AtMaxLen(d) == d.maxlen >= 0 /\ d.len >= d.maxlen

Appended(d, v) ==
  LET room == IF AtMaxLen(d)
              THEN [d EXCEPT !.head = (@ + 1) % d.capacity, !.len = @ - 1] ELSE d
      e == EnsureCapacity(room)
  IN  IF AtMaxLen(d) /\ d.maxlen = 0 THEN d
      ELSE Window(e, [e.data EXCEPT ![Ring(e, e.len)] = v], e.head, e.len + 1)

AppendedLeft(d, v) ==
  LET room == IF AtMaxLen(d) THEN [d EXCEPT !.len = @ - 1] ELSE d
      e == EnsureCapacity(room)
      front == IF e.head = 0 THEN e.capacity - 1 ELSE e.head - 1
  IN  IF AtMaxLen(d) /\ d.maxlen = 0 THEN d
      ELSE Window(e, [e.data EXCEPT ![front] = v], front, e.len + 1)

\* Close the gap at idx from its shorter side.
Deleted(d, idx) ==
  LET before == idx
      after == d.len - 1 - idx
  IN  IF before <= after
      THEN Window(d, Copies(d.data, [k \in 1..before |-> Ring(d, idx + 1 - k)],
                                    [k \in 1..before |-> Ring(d, idx - k)]),
                  Ring(d, 1), d.len - 1)
      ELSE Window(d, Copies(d.data, [k \in 1..after |-> Ring(d, idx + k - 1)],
                                    [k \in 1..after |-> Ring(d, idx + k)]),
                  d.head, d.len - 1)

\* Open a slot at idx by moving its shorter side away.
Inserted(d, idx, v) ==
  LET e == EnsureCapacity(d)
      f == [e EXCEPT !.head = Ring(e, e.capacity - 1)]
      before == idx
      after == e.len - idx
      opened == IF before <= after
                THEN Copies(e.data, [k \in 1..before |-> Ring(f, k - 1)],
                                    [k \in 1..before |-> Ring(e, k - 1)])
                ELSE Copies(e.data, [k \in 1..after |-> Ring(e, e.len + 1 - k)],
                                    [k \in 1..after |-> Ring(e, e.len - k)])
      g == IF before <= after THEN f ELSE e
  IN  Window(g, [opened EXCEPT ![Ring(g, idx)] = v], g.head, g.len + 1)

\* A full ring turns by its head; otherwise the window is permuted.
Rotated(d, n) ==
  LET steps == n % d.len
  IN  IF d.len <= 1 \/ steps = 0 THEN d
      ELSE IF d.len = d.capacity
      THEN [d EXCEPT !.head = (@ + d.capacity - steps) % d.capacity]
      ELSE [d EXCEPT !.data = [s \in DOMAIN @ |->
              LET i == (s + d.capacity - d.head) % d.capacity
              IN  IF i < d.len THEN d.data[Ring(d, (i + d.len - steps) % d.len)]
                  ELSE d.data[s]]]

\* Swap the ends, inwards.
Reversed(d) ==
  LET half == d.len \div 2
  IN  [d EXCEPT !.data = Swaps(@, [k \in 1..half |-> Ring(d, k - 1)],
                                  [k \in 1..half |-> Ring(d, d.len - k)])]

Copied(d) ==
  LET copy[n \in 0..d.len] ==
        IF n = 0 THEN Fresh(d.maxlen) ELSE Appended(copy[n - 1], d.data[Ring(d, n - 1)])
  IN  copy[d.len]

\* -1 when the index is out of range.
Actual(d, i) == LET at == IF i < 0 THEN d.len + i ELSE i
                IN  IF at < 0 \/ at >= d.len THEN -1 ELSE at
Clamped(d, i) == LET at == IF i < 0 THEN Max({d.len + i, 0}) ELSE i
                 IN  Min({at, d.len})
\* The first position of a value, the length when absent.
Find(d, v) == Min({i \in 0..d.len - 1 : d.data[Ring(d, i)] = v} \cup {d.len})
----------------------------------------------------------------------------
\* Each call gives the deque after it and what it returns or raises.
Done(d) == [deque |-> d, answer |-> None]
Answers(d, a) == [deque |-> d, answer |-> a]

Pop(d) == IF d.len = 0 THEN Answers(d, IndexError)
          ELSE Answers([d EXCEPT !.len = @ - 1], d.data[Ring(d, d.len - 1)])
PopLeft(d) == IF d.len = 0 THEN Answers(d, IndexError)
              ELSE Answers([d EXCEPT !.head = Ring(d, 1), !.len = @ - 1], d.data[d.head])
Rotate(d, n) == Done(IF d.len <= 1 THEN d ELSE Rotated(d, n))
Get(d, i) == Answers(d, IF Actual(d, i) = -1 THEN IndexError ELSE d.data[Ring(d, Actual(d, i))])
Set(d, i, v) == IF Actual(d, i) = -1 THEN Answers(d, IndexError)
                ELSE Done(Window(d, [d.data EXCEPT ![Ring(d, Actual(d, i))] = v],
                                 d.head, d.len))
Delete(d, i) == IF Actual(d, i) = -1 THEN Answers(d, IndexError)
                ELSE Done(Deleted(d, Actual(d, i)))
Insert(d, i, v) == IF AtMaxLen(d) THEN Answers(d, IndexError)
                   ELSE Done(Inserted(d, Clamped(d, i), v))
Discard(d, v) == IF Find(d, v) = d.len THEN Answers(d, ValueError)
                 ELSE Done(Deleted(d, Find(d, v)))
Index(d, v) == Answers(d, IF Find(d, v) = d.len THEN ValueError ELSE Find(d, v))
Count(d, v) == Answers(d, Cardinality({i \in DOMAIN Contents(d) : Contents(d)[i] = v}))
Flip(d) == Done(IF d.len <= 1 THEN d ELSE Reversed(d))
Clear(d) == Done(Window(d, d.data, 0, 0))

Calls ==
  UNION {{"append", "appendleft", "remove", "index", "count"} \X Values,
         {"rotate", "get", "del"} \X Indices, {"set", "insert"} \X Indices \X Values,
         {<<"pop">>, <<"popleft">>, <<"reverse">>, <<"clear">>, <<"copy">>}}
Result(d, c) ==
  CASE c[1] = "append" -> Done(Appended(d, c[2]))
    [] c[1] = "appendleft" -> Done(AppendedLeft(d, c[2]))
    [] c[1] = "pop" -> Pop(d)
    [] c[1] = "popleft" -> PopLeft(d)
    [] c[1] = "rotate" -> Rotate(d, c[2])
    [] c[1] = "get" -> Get(d, c[2])
    [] c[1] = "set" -> Set(d, c[2], c[3])
    [] c[1] = "del" -> Delete(d, c[2])
    [] c[1] = "insert" -> Insert(d, c[2], c[3])
    [] c[1] = "remove" -> Discard(d, c[2])
    [] c[1] = "index" -> Index(d, c[2])
    [] c[1] = "count" -> Count(d, c[2])
    [] c[1] = "reverse" -> Flip(d)
    [] c[1] = "clear" -> Clear(d)
    [] c[1] = "copy" -> Done(Copied(d))

\* The program goes on with the copy of a deque.
Next == \E c \in Calls : LET after == Result(deque, c).deque
                        IN  after.len <= MaxLen /\ deque' = after
Spec == Init /\ [][Next]_deque
----------------------------------------------------------------------------
Python == INSTANCE PyDeque WITH Unbounded <- -1

\* The window stays inside the ring and within maxlen, and never shows a slot
\* that was not written.
TypeOK ==
  /\ deque.capacity \in Nat /\ DOMAIN deque.data = 0..deque.capacity - 1
  /\ deque.head \in 0..deque.capacity - 1 /\ deque.len \in 0..deque.capacity
  /\ deque.maxlen >= 0 => deque.len <= deque.maxlen
  /\ Range(Contents(deque)) \subseteq Values

\* Whatever the head, the growth and the evictions, every call leaves in the ring
\* the items Python's bounded sequence leaves, and answers the same.
DequeIsPython ==
  \A c \in Calls : LET r == Result(deque, c)
                       p == Python!Result(Contents(deque), deque.maxlen, c)
                   IN  /\ Contents(r.deque) = p.items /\ r.answer = p.answer
                       /\ r.deque.maxlen = deque.maxlen
=============================================================================
