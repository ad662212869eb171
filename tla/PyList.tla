------------------------------- MODULE PyList -------------------------------
(* What Python promises of a list: a sequence, whose slices are those of     *)
(* slice.indices().  Each call gives the items after it and its answer; one  *)
(* that makes a new list gives the items of the new list.                    *)
EXTENDS Integers, SequencesExt, FiniteSetsExt

CONSTANTS Self, Omitted, IndexError, ValueError, None

Does(s) == [items |-> s, answer |-> None]
Answers(s, a) == [items |-> s, answer |-> a]

\* The position an index names, 0 when it is out of range.
Position(s, i) == IF i < -Len(s) \/ i >= Len(s) THEN 0 ELSE (i % Len(s)) + 1
At(s, v) == {p \in DOMAIN s : s[p] = v}

\* slice.indices(Len(s)): both bounds within the limits of the direction.
Low(step) == IF step > 0 THEN 0 ELSE -1
High(s, step) == IF step > 0 THEN Len(s) ELSE Len(s) - 1
Clamped(s, x, step) ==
  Max({Low(step), Min({High(s, step), IF x < 0 THEN x + Len(s) ELSE x})})
First(s, start, step) ==
  IF start # Omitted THEN Clamped(s, start, step)
  ELSE IF step > 0 THEN Low(step) ELSE High(s, step)
Past(s, stop, step) ==
  IF stop # Omitted THEN Clamped(s, stop, step)
  ELSE IF step > 0 THEN High(s, step) ELSE Low(step)
\* Positions in the direction of a step.
Ordered(at, step) ==
  CHOOSE q \in [1..Cardinality(at) -> at] :
    /\ Range(q) = at
    /\ \A i, j \in DOMAIN q : i < j => IF step > 0 THEN q[i] < q[j] ELSE q[j] < q[i]
\* The positions a slice selects, in its own direction.
Selection(s, start, stop, step) ==
  LET from == First(s, start, step) + 1
      past == Past(s, stop, step) + 1
      by == IF step > 0 THEN step ELSE -step
      at == {p \in DOMAIN s : /\ (p - from) % by = 0
                              /\ IF step > 0 THEN p \in from..past - 1
                                 ELSE p \in past + 1..from}
  IN  Ordered(at, step)
Pick(s, at) == [k \in DOMAIN at |-> s[at[k]]]

SliceSet(s, start, stop, step, values) ==
  LET from == First(s, start, 1)
      to == Max({from, Past(s, stop, 1)})
      at == Selection(s, start, stop, step)
  IN  IF step = 1 THEN Does(SubSeq(s, 1, from) \o values \o SubSeq(s, to + 1, Len(s)))
      ELSE IF Len(at) # Len(values) THEN Answers(s, ValueError)
      ELSE Does([p \in DOMAIN s |->
                   IF p \in Range(at) THEN values[CHOOSE k \in DOMAIN at : at[k] = p]
                   ELSE s[p]])
Rest(s, at) == Ordered(DOMAIN s \ Range(at), 1)
Times(s, n) ==
  LET times[k \in 0..n] == IF k = 0 THEN <<>> ELSE times[k - 1] \o s
  IN  IF n <= 0 THEN <<>> ELSE times[n]

Result(s, c) ==
  LET p == Position(s, c[2])
      at == At(s, c[2])
      other(x) == IF x = Self THEN s ELSE x
      selected == Selection(s, c[2], c[3], c[4])
  IN  CASE c[1] = "append" -> Does(Append(s, c[2]))
        [] c[1] = "get" -> Answers(s, IF p = 0 THEN IndexError ELSE s[p])
        [] c[1] = "set" -> IF p = 0 THEN Answers(s, IndexError)
                           ELSE Does([s EXCEPT ![p] = c[3]])
        [] c[1] = "pop" -> IF p = 0 THEN Answers(s, IndexError)
                           ELSE Answers(RemoveAt(s, p), s[p])
        [] c[1] = "del" -> IF p = 0 THEN Answers(s, IndexError) ELSE Does(RemoveAt(s, p))
        [] c[1] = "insert" -> Does(InsertAt(s, Clamped(s, c[2], 1) + 1, c[3]))
        [] c[1] = "remove" -> IF at = {} THEN Answers(s, ValueError)
                              ELSE Does(RemoveAt(s, Min(at)))
        [] c[1] = "index" -> Answers(s, IF at = {} THEN ValueError ELSE Min(at) - 1)
        [] c[1] = "count" -> Answers(s, Cardinality(at))
        [] c[1] = "reverse" -> Does(Reverse(s))
        [] c[1] = "clear" -> Does(<<>>)
        [] c[1] = "copy" -> Does(s)
        [] c[1] = "extend" -> Does(s \o other(c[2]))
        [] c[1] = "concat" -> Does(s \o other(c[2]))
        [] c[1] = "repeat" -> Does(Times(s, c[2]))
        [] c[1] = "slice" -> IF c[4] = 0 THEN Answers(s, ValueError) ELSE Does(Pick(s, selected))
        [] c[1] = "delslice" -> IF c[4] = 0 THEN Answers(s, ValueError)
                                ELSE Does(Pick(s, Rest(s, selected)))
        [] c[1] = "setslice" -> IF c[4] = 0 THEN Answers(s, ValueError)
                                ELSE SliceSet(s, c[2], c[3], c[4], other(c[5]))
=============================================================================
