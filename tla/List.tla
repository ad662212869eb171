-------------------------------- MODULE List --------------------------------
(* list, runtime/src/list: a buffer of tagged values, len of them live.      *)
(* Indices and positions count from 0, as in the code; slot i is data[i + 1]. *)
(* Operations that make a new list go on with the new list.                  *)
EXTENDS Integers, SequencesExt, FiniteSetsExt, Buffers

CONSTANTS Values,
          Others,        \* the other operand of extend, concatenation and slice assignment
          Self,          \* the operand that is the list itself
          Indices,       \* bound: index arguments
          Bounds,        \* bound: slice bounds, Omitted among them
          Steps,         \* bound: slice steps
          Counts,        \* bound: repetitions
          MaxLen,        \* bound: elements
          Omitted,       \* an absent slice bound: i64::MIN or i64::MAX in the code
          Zero,          \* a cleared slot, which reads as a null pointer
          Junk,          \* a slot the allocator has not cleared
          IndexError, ValueError, None

ListAssumption ==
  /\ Indices \subseteq Int /\ Bounds \ {Omitted} \subseteq Int /\ Steps \subseteq Int
  /\ Counts \subseteq Int /\ Others \subseteq Seq(Values)
  /\ MaxLen \in Nat /\ {Zero, Junk} \cap Values = {}

VARIABLE list  \* [data, len]; the capacity is Len(data)

Contents(l) == SubSeq(l.data, 1, l.len)
\* rt_make_list(Len(s)) filled with s.
Fresh(s) == [data |-> s, len |-> Len(s)]

Init == list = Fresh(<<>>)
----------------------------------------------------------------------------
Grow(cap) == CASE cap = 0 -> 4 [] cap \in 1..8 -> cap + 3 [] OTHER -> cap + cap \div 8 + 6
\* Grow as often as n elements need.
CapacityFor(cap, n) ==
  LET grown[k \in 0..n] == IF k = 0 THEN cap
                           ELSE IF grown[k - 1] < n THEN Grow(grown[k - 1]) ELSE grown[k - 1]
  IN  grown[n]
WithRoom(data, n, blank) ==
  data \o [k \in 1..CapacityFor(Len(data), n) - Len(data) |-> blank]
Window(data, len) == [data |-> data, len |-> len]

Pushed(l, v) == Window([WithRoom(l.data, l.len + 1, Zero) EXCEPT ![l.len + 1] = v], l.len + 1)

\* Mutant: the tail is moved from its start.
InsertedForward(l, idx, v) ==
  LET after == l.len - idx
      opened == Copies(WithRoom(l.data, l.len + 1, Zero),
                       [k \in 1..after |-> idx + k + 1], [k \in 1..after |-> idx + k])
  IN  Window([opened EXCEPT ![idx + 1] = v], l.len + 1)
Inserted(l, idx, v) ==
  LET after == l.len - idx
      opened == Copies(WithRoom(l.data, l.len + 1, Zero),
                       [k \in 1..after |-> l.len + 2 - k], [k \in 1..after |-> l.len + 1 - k])
  IN  Window([opened EXCEPT ![idx + 1] = v], l.len + 1)

Removed(l, idx) ==
  LET after == l.len - 1 - idx
      closed == Copies(l.data, [k \in 1..after |-> idx + k], [k \in 1..after |-> idx + k + 1])
  IN  Window([closed EXCEPT ![l.len] = Zero], l.len - 1)

\* Swap the ends, inwards.
Reversed(l) ==
  LET half == l.len \div 2
  IN  Window(Swaps(l.data, [k \in 1..half |-> k], [k \in 1..half |-> l.len + 1 - k]), l.len)

\* The buffer is reallocated without clearing what is new.
Extended(l, other) ==
  LET n == l.len + Len(other)
      room == WithRoom(l.data, n, IF l.data = <<>> THEN Zero ELSE Junk)
  IN  IF other = <<>> THEN l
      ELSE Window([p \in DOMAIN room |-> IF p \in l.len + 1..n THEN other[p - l.len] ELSE room[p]],
                  n)

Repeated(l, n) == Fresh(IF n <= 0 THEN <<>>
                        ELSE [p \in 1..n * l.len |-> l.data[((p - 1) % l.len) + 1]])
----------------------------------------------------------------------------
\* Slice bounds after defaults, negative bounds and clamping.
PositiveBound(x, len, default) ==
  IF x = Omitted THEN default ELSE IF x < 0 THEN Max({len + x, 0}) ELSE Min({x, len})
NegativeBound(x, len, default, last) ==
  IF x = Omitted THEN default ELSE IF x < 0 THEN Max({len + x, -1}) ELSE Min({x, last})
NormalizeSlice(start, stop, len, step) ==
  IF step > 0
  THEN <<PositiveBound(start, len, 0), PositiveBound(stop, len, len)>>
  ELSE <<NegativeBound(start, len, len - 1, len - 1), NegativeBound(stop, len, -1, len)>>
\* The positions from s towards e, e left out.
StepIndices(s, e, step) ==
  LET away == IF step > 0 THEN e - s ELSE s - e
      by == IF step > 0 THEN step ELSE -step
  IN  IF away <= 0 THEN <<>>
      ELSE [k \in 1..(away + by - 1) \div by |-> s + (k - 1) * step]
Selected(l, start, stop, step) ==
  LET b == NormalizeSlice(start, stop, l.len, step) IN StepIndices(b[1], b[2], step)
\* A step of 0 adds its first position for ever, unless there is none.
Returns(l, start, stop, step) ==
  LET b == NormalizeSlice(start, stop, l.len, step) IN step # 0 \/ b[1] <= b[2]

\* Replace a contiguous slice.  When the buffer grows, only the live slots move.
SliceAssigned(l, start, stop, values) ==
  LET b == NormalizeSlice(start, stop, l.len, 1)
      s == b[1]
      cut == Max({b[2] - s, 0})
      n == l.len - cut + Len(values)
      room == IF n <= Len(l.data) THEN l.data ELSE
              [p \in 1..CapacityFor(Len(l.data), n) |->
                 IF p <= l.len THEN l.data[p] ELSE Zero]
      shifted == [p \in DOMAIN room |->
                    IF p \in s + 1..s + Len(values) THEN values[p - s]
                    ELSE IF p \in s + Len(values) + 1..n THEN room[p - Len(values) + cut]
                    ELSE room[p]]
  IN  Window(shifted, n)
\* Overwrite the selected positions of an extended slice.
StepAssigned(l, at, values) ==
  LET after[k \in 0..Len(at)] == IF k = 0 THEN l.data
                                 ELSE [after[k - 1] EXCEPT ![at[k] + 1] = values[k]]
  IN  Window(after[Len(at)], l.len)
\* Keep the others, in one pass to the front.
Kept(l, at) ==
  LET kept[p \in 0..l.len] == IF p = 0 THEN <<>>
                              ELSE IF \E k \in DOMAIN at : at[k] + 1 = p THEN kept[p - 1]
                              ELSE Append(kept[p - 1], p)
  IN  kept[l.len]
SliceDeleted(l, at) ==
  LET rest == Kept(l, at)
      packed == [p \in DOMAIN l.data |-> IF p <= Len(rest) THEN l.data[rest[p]]
                                         ELSE IF p <= l.len THEN Zero ELSE l.data[p]]
  IN  IF at = <<>> THEN l ELSE Window(packed, Len(rest))

\* -1 when the index is out of range.
Actual(l, i) == LET at == IF i < 0 THEN l.len + i ELSE i
                IN  IF at < 0 \/ at >= l.len THEN -1 ELSE at
Find(l, v) == Min({i \in 0..l.len - 1 : l.data[i + 1] = v} \cup {l.len})
----------------------------------------------------------------------------
\* Each call gives the list after it and what it returns or raises.
Done(l) == [list |-> l, answer |-> None]
Answers(l, a) == [list |-> l, answer |-> a]

Get(l, i) == Answers(l, IF Actual(l, i) = -1 THEN IndexError ELSE l.data[Actual(l, i) + 1])
\* An index out of range is ignored.
Set(l, i, v) ==
  Done(IF Actual(l, i) = -1 THEN l
       ELSE Window([l.data EXCEPT ![Actual(l, i) + 1] = v], l.len))
\* An index out of range answers a null pointer.
Pop(l, i) == IF Actual(l, i) = -1 THEN Answers(l, Zero)
             ELSE Answers(Removed(l, Actual(l, i)), l.data[Actual(l, i) + 1])
Delete(l, i) == IF Actual(l, i) = -1 THEN Answers(l, IndexError)
                ELSE Done(Removed(l, Actual(l, i)))
Insert(l, i, v) ==
  Done(Inserted(l, IF i < 0 THEN Max({l.len + i, 0}) ELSE Min({i, l.len}), v))
Discard(l, v) == IF Find(l, v) = l.len THEN Answers(l, ValueError)
                ELSE Done(Removed(l, Find(l, v)))
Index(l, v) == Answers(l, IF Find(l, v) = l.len THEN ValueError ELSE Find(l, v))
Count(l, v) == Answers(l, Cardinality({p \in 1..l.len : l.data[p] = v}))
Clear(l) ==
  Done(Window([p \in DOMAIN l.data |-> IF p <= l.len THEN Zero ELSE l.data[p]], 0))
Slice(l, start, stop, step) ==
  IF step = 0 THEN Answers(l, ValueError)
  ELSE LET at == Selected(l, start, stop, step)
       IN  Done(Fresh([k \in DOMAIN at |-> l.data[at[k] + 1]]))
SetSlice(l, start, stop, step, values) ==
  LET at == Selected(l, start, stop, step)
  IN  IF step = 1 THEN Done(SliceAssigned(l, start, stop, values))
      ELSE IF Len(at) # Len(values) THEN Answers(l, ValueError)
      ELSE Done(StepAssigned(l, at, values))
DelSlice(l, start, stop, step) == Done(SliceDeleted(l, Selected(l, start, stop, step)))

Calls ==
  UNION {{"append", "remove", "index", "count"} \X Values,
         {"get", "pop", "del"} \X Indices, {"set", "insert"} \X Indices \X Values,
         {"extend", "concat"} \X (Others \cup {Self}), {"repeat"} \X Counts,
         {"slice", "delslice"} \X Bounds \X Bounds \X Steps,
         {"setslice"} \X Bounds \X Bounds \X Steps \X (Others \cup {Self}),
         {<<"reverse">>, <<"clear">>, <<"copy">>}}
Operand(l, other) == IF other = Self THEN Contents(l) ELSE other
Result(l, c) ==
  CASE c[1] = "append" -> Done(Pushed(l, c[2]))
    [] c[1] = "get" -> Get(l, c[2])
    [] c[1] = "set" -> Set(l, c[2], c[3])
    [] c[1] = "pop" -> Pop(l, c[2])
    [] c[1] = "del" -> Delete(l, c[2])
    [] c[1] = "insert" -> Insert(l, c[2], c[3])
    [] c[1] = "remove" -> Discard(l, c[2])
    [] c[1] = "index" -> Index(l, c[2])
    [] c[1] = "count" -> Count(l, c[2])
    [] c[1] = "reverse" -> Done(Reversed(l))
    [] c[1] = "clear" -> Clear(l)
    [] c[1] = "copy" -> Done(Fresh(Contents(l)))
    [] c[1] = "extend" -> Done(Extended(l, Operand(l, c[2])))
    [] c[1] = "concat" -> Done(Fresh(Contents(l) \o Operand(l, c[2])))
    [] c[1] = "repeat" -> Done(Repeated(l, c[2]))
    [] c[1] = "slice" -> Slice(l, c[2], c[3], c[4])
    [] c[1] = "delslice" -> DelSlice(l, c[2], c[3], c[4])
    [] c[1] = "setslice" -> SetSlice(l, c[2], c[3], c[4], Operand(l, c[5]))

\* The calls that come back, and those of them where the code does not check an
\* index or a step that Python raises IndexError or ValueError for.
Returning(l) == {c \in Calls : c[1] \in {"setslice", "delslice"} => Returns(l, c[2], c[3], c[4])}
Unchecked(l, c) == \/ c[1] \in {"pop", "set"} /\ Actual(l, c[2]) = -1
                   \/ c[1] \in {"setslice", "delslice"} /\ c[4] = 0

Next == \E c \in Returning(list) : LET after == Result(list, c).list
                                  IN  after.len <= MaxLen /\ list' = after
Spec == Init /\ [][Next]_list
----------------------------------------------------------------------------
Python == INSTANCE PyList

\* The live elements fit the buffer and are values: no cleared or uncleared slot
\* ever shows.
TypeOK == list.len \in 0..Len(list.data) /\ Range(Contents(list)) \subseteq Values

\* Whatever grew, moved or was left behind in the buffer, every call that checks
\* its arguments leaves the items Python's leaves and answers the same.
ListIsPython ==
  \A c \in Returning(list) :
    Unchecked(list, c) \/ LET r == Result(list, c)
                              p == Python!Result(Contents(list), c)
                          IN  Contents(r.list) = p.items /\ r.answer = p.answer
=============================================================================
