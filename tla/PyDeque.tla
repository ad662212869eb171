------------------------------ MODULE PyDeque ------------------------------
(* What Python promises of collections.deque: a sequence with cheap ends    *)
(* that drops from the other end when it is full.  Each call gives the      *)
(* items after it and its answer.                                           *)
EXTENDS Integers, SequencesExt, FiniteSetsExt

CONSTANTS Unbounded, IndexError, ValueError, None

Does(s) == [items |-> s, answer |-> None]
Answers(s, a) == [items |-> s, answer |-> a]
Full(s, maxlen) == maxlen # Unbounded /\ Len(s) >= maxlen

\* The position an index names, 0 when it is out of range, and the position an
\* insertion is pinned to.
Position(s, i) == IF i < -Len(s) \/ i >= Len(s) THEN 0
                  ELSE IF i < 0 THEN Len(s) + i + 1 ELSE i + 1
Pinned(s, i) == Max({0, Min({IF i < 0 THEN Len(s) + i ELSE i, Len(s)})}) + 1
At(s, v) == {p \in DOMAIN s : s[p] = v}
Rotated(s, n) == [p \in DOMAIN s |-> s[((p - 1 - n) % Len(s)) + 1]]

AddRight(s, maxlen, v) ==
  IF maxlen = 0 THEN <<>> ELSE Append(IF Full(s, maxlen) THEN Tail(s) ELSE s, v)
AddLeft(s, maxlen, v) ==
  IF maxlen = 0 THEN <<>> ELSE <<v>> \o (IF Full(s, maxlen) THEN Front(s) ELSE s)

Result(s, maxlen, c) ==
  LET p == Position(s, c[2])
      at == At(s, c[2])
  IN  CASE c[1] = "append" -> Does(AddRight(s, maxlen, c[2]))
        [] c[1] = "appendleft" -> Does(AddLeft(s, maxlen, c[2]))
        [] c[1] = "pop" -> IF s = <<>> THEN Answers(s, IndexError)
                           ELSE Answers(Front(s), Last(s))
        [] c[1] = "popleft" -> IF s = <<>> THEN Answers(s, IndexError)
                               ELSE Answers(Tail(s), Head(s))
        [] c[1] = "rotate" -> Does(Rotated(s, c[2]))
        [] c[1] = "get" -> Answers(s, IF p = 0 THEN IndexError ELSE s[p])
        [] c[1] = "set" -> IF p = 0 THEN Answers(s, IndexError)
                           ELSE Does([s EXCEPT ![p] = c[3]])
        [] c[1] = "del" -> IF p = 0 THEN Answers(s, IndexError) ELSE Does(RemoveAt(s, p))
        [] c[1] = "insert" -> IF Full(s, maxlen) THEN Answers(s, IndexError)
                              ELSE Does(InsertAt(s, Pinned(s, c[2]), c[3]))
        [] c[1] = "remove" -> IF at = {} THEN Answers(s, ValueError)
                              ELSE Does(RemoveAt(s, Min(at)))
        [] c[1] = "index" -> Answers(s, IF at = {} THEN ValueError ELSE Min(at) - 1)
        [] c[1] = "count" -> Answers(s, Cardinality(at))
        [] c[1] = "reverse" -> Does(Reverse(s))
        [] c[1] = "clear" -> Does(<<>>)
        [] c[1] = "copy" -> Does(s)
=============================================================================
