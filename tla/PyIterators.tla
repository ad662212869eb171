---------------------------- MODULE PyIterators ----------------------------
(* What Python promises of the iterators a program builds: those over data   *)
(* walk it as it is now, and the others do what the generators that the      *)
(* library reference gives as their equivalents do.                          *)
EXTENDS Integers, SequencesExt, FiniteSetsExt

CONSTANTS program, lists, Stop

\* An iterator has given n items and, for islice, drawn m from its source.
Fresh(i) == [n |-> 0, m |-> 0, over |-> FALSE,
             len |-> IF program[i].kind = "reversed" THEN lists[program[i].a] ELSE 0]

Over(its, i) == [its |-> [its EXCEPT ![i].over = TRUE], answer |-> Stop]
Gave(its, i, v) == [its |-> [its EXCEPT ![i].n = @ + 1], answer |-> v]

\* The integers of range(a, b, c), in order.
RangeOf(a, b, c) ==
  LET all == {x \in Min({a, b})..Max({a, b}) :
                (x - a) % (IF c > 0 THEN c ELSE -c) = 0 /\ x # b
                  /\ (IF c > 0 THEN a <= x ELSE x <= a)}
  IN  IF (c > 0) = (a < b) THEN SetToSortSeq(all, LAMBDA x, y : IF c > 0 THEN x < y ELSE x > y)
      ELSE <<>>
\* The items an iterator over data has, counted from its start, as they are now.
Data(its, i) ==
  LET p == program[i]
  IN  CASE p.kind = "list" -> [k \in 1..lists[p.a] |-> <<p.a, k - 1>>]
        [] p.kind = "reversed" -> [k \in 1..its[i].len |-> <<p.a, its[i].len - k>>]
        [] p.kind = "range" -> [k \in DOMAIN RangeOf(p.a, p.b, p.c) |->
                                  <<i, RangeOf(p.a, p.b, p.c)[k]>>]
        [] p.kind = "generator" -> [k \in 1..p.a |-> <<i, k - 1>>]

RECURSIVE Next(_, _)

\* One item of each source, in order, until one has none.
Row(its, sources) ==
  FoldLeft(LAMBDA r, j : IF r.answer = Stop THEN r
                         ELSE LET s == Next(r.its, j)
                              IN  [its |-> s.its, answer |-> IF s.answer = Stop THEN Stop
                                                             ELSE Append(r.answer, s.answer)],
           [its |-> its, answer |-> <<>>], sources)
\* The first source that still has an item.
FirstOf(its, sources) ==
  FoldLeft(LAMBDA r, j : IF r.answer # Stop THEN r ELSE Next(r.its, j),
           [its |-> its, answer |-> Stop], sources)

Next(its, i) ==
  LET p == program[i]
      row == Row(its, p.on)
      first == FirstOf(its, p.on)
      want == p.a + its[i].n * p.c
      drawn == Row(its, [k \in 1..Min({want + 1, Max({p.a, p.b})}) - its[i].m |-> p.on[1]])
  IN  CASE its[i].over -> [its |-> its, answer |-> Stop]
        [] ~its[i].over /\ p.kind \in {"list", "reversed", "range", "generator"} ->
             IF its[i].n < Len(Data(its, i)) THEN Gave(its, i, Data(its, i)[its[i].n + 1])
             ELSE Over(its, i)
        [] ~its[i].over /\ p.kind = "enumerate" ->
             IF row.answer = Stop THEN Over(row.its, i)
             ELSE Gave(row.its, i, <<its[i].n, row.answer[1]>>)
        [] ~its[i].over /\ p.kind = "zip" ->
             IF row.answer = Stop THEN Over(row.its, i) ELSE Gave(row.its, i, row.answer)
        [] ~its[i].over /\ p.kind = "chain" ->
             IF first.answer = Stop THEN Over(first.its, i) ELSE Gave(first.its, i, first.answer)
        [] ~its[i].over /\ p.kind = "islice" ->
             IF drawn.answer = Stop \/ want >= p.b THEN Over(drawn.its, i)
             ELSE Gave([drawn.its EXCEPT ![i].m = want + 1], i, Last(drawn.answer))
Answer(its, i) == Next(its, i).answer
=============================================================================
