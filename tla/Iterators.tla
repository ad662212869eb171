----------------------------- MODULE Iterators -----------------------------
(* Iterators over live lists, ranges and generators, and the lazy ones built *)
(* over them: enumerate, zip, chain, islice (runtime/src/iterator).  A       *)
(* program is a sequence of iterators, each built over earlier ones.  Where  *)
(* the code has an iterable it will wrap, the model has its iterator.        *)
EXTENDS Integers, SequencesExt, FiniteSetsExt

CONSTANTS Programs,   \* sequences of nodes [kind, on, named, a, b, c]
          Lists, MaxLen,
          MaxCount,   \* bound: the counter of enumerate, the position of islice
          Sentinel, None, Null, Stop

Kinds == {"list", "reversed", "range", "generator", "enumerate", "zip", "chain", "islice"}
IteratorsAssumption ==
  \A p \in Programs : \A i \in DOMAIN p :
    /\ p[i].kind \in Kinds /\ Range(p[i].on) \subseteq 1..i - 1
    /\ p[i].kind = "islice" => p[i].a >= 0 /\ p[i].b >= 0 /\ p[i].c > 0
    /\ p[i].kind = "range" => p[i].c # 0
    /\ p[i].kind \in {"list", "reversed"} => p[i].a \in Lists

VARIABLES program,
          lists,    \* the length of each list: items are named by their position
          heap,     \* for each node [at, taken, exhausted]
          py        \* for each node its state in Python

vars == <<program, lists, heap, py>>

Kind(i) == program[i].kind
On(i) == program[i].on
----------------------------------------------------------------------------
\* What a next() leaves and gives: Sentinel when the iterator has ended.
Ends(h, i) == [heap |-> [h EXCEPT ![i].exhausted = TRUE], answer |-> Sentinel]
Gives(h, i, at, v) == [heap |-> [h EXCEPT ![i].at = at], answer |-> v]

Item(l, k) == IF k < lists[l] THEN <<l, k>> ELSE Null
NextList(h, i) == IF h[i].at >= lists[program[i].a] THEN Ends(h, i)
                  ELSE Gives(h, i, h[i].at + 1, Item(program[i].a, h[i].at))
\* The other end is not looked at.
NextReversed(h, i) == IF h[i].at < 0 THEN Ends(h, i)
                      ELSE Gives(h, i, h[i].at - 1, Item(program[i].a, h[i].at))
NextRange(h, i) ==
  LET p == program[i]
  IN  IF (p.c > 0 /\ h[i].at >= p.b) \/ (p.c < 0 /\ h[i].at <= p.b) THEN Ends(h, i)
      ELSE Gives(h, i, h[i].at + p.c, <<i, h[i].at>>)
\* rt_generator_next: the resume that finishes the body returns None, and a
\* finished generator is not resumed.
NextGenerator(h, i) ==
  CASE h[i].exhausted -> [heap |-> h, answer |-> Null]
    [] ~h[i].exhausted /\ h[i].at >= program[i].a ->
         [heap |-> [h EXCEPT ![i].exhausted = TRUE], answer |-> None]
    [] OTHER -> Gives(h, i, h[i].at + 1, <<i, h[i].at>>)

RECURSIVE NextIn(_, _)  \* rt_iter_next_internal
RECURSIVE NextChain(_, _)

NextEnumerate(h, i) ==
  LET r == NextIn(h, On(i)[1])
  IN  IF r.answer = Sentinel THEN Ends(r.heap, i)
      ELSE Gives(r.heap, i, r.heap[i].at + 1, <<r.heap[i].at, r.answer>>)

\* zip of two, of three and of more: each source in turn, until one has ended.
NextZip(h, i) ==
  LET pull(r, j) == LET n == NextIn(r.heap, j)
                    IN  IF r.answer = Sentinel THEN r
                        ELSE [heap |-> n.heap,
                              answer |-> IF n.answer = Sentinel THEN Sentinel
                                         ELSE Append(r.answer, n.answer)]
      r == FoldLeft(pull, [heap |-> h, answer |-> <<>>], On(i))
  IN  IF r.answer = Sentinel THEN Ends(r.heap, i) ELSE r

\* Mutant: a source has ended when it says so, whatever its flag.
NextChainNoFlag(h, i) ==
  LET r == NextIn(h, On(i)[h[i].at + 1])
  IN  IF h[i].at >= Len(On(i)) THEN Ends(h, i)
      ELSE IF r.answer # Sentinel THEN r
      ELSE NextChain([r.heap EXCEPT ![i].at = @ + 1], i)
NextChain(h, i) ==
  LET j == On(i)[h[i].at + 1]
      r == NextIn(h, j)
  IN  IF h[i].at >= Len(On(i)) THEN Ends(h, i)
      ELSE IF r.answer # Sentinel /\ ~r.heap[j].exhausted THEN r
      ELSE NextChain([r.heap EXCEPT ![i].at = @ + 1], i)

NextISlice(h, i) ==
  LET p == program[i]
      pull(r, k) == IF r.answer = Sentinel THEN r ELSE NextIn(r.heap, On(i)[1])
      \* skip to next_yield, and take one
      r == FoldLeft(pull, [heap |-> h, answer |-> None],
                    [k \in 1..h[i].at - h[i].taken + 1 |-> k])
  IN  IF h[i].at >= p.b THEN Ends(h, i)
      ELSE IF r.answer = Sentinel THEN Ends(r.heap, i)
      ELSE [heap |-> [r.heap EXCEPT ![i].taken = h[i].at + 1, ![i].at = @ + p.c],
            answer |-> r.answer]

NextIn(h, i) ==
  CASE Kind(i) = "generator" -> NextGenerator(h, i)
    [] Kind(i) # "generator" /\ h[i].exhausted -> [heap |-> h, answer |-> Sentinel]
    [] OTHER -> CASE Kind(i) = "list" -> NextList(h, i)
                  [] Kind(i) = "reversed" -> NextReversed(h, i)
                  [] Kind(i) = "range" -> NextRange(h, i)
                  [] Kind(i) = "enumerate" -> NextEnumerate(h, i)
                  [] Kind(i) = "zip" -> NextZip(h, i)
                  [] Kind(i) = "chain" -> NextChain(h, i)
                  [] Kind(i) = "islice" -> NextISlice(h, i)
\* rt_iter_next and rt_iter_next_no_exc: the flag decides whether it has ended.
Answer(i) == LET r == NextIn(heap, i) IN IF r.heap[i].exhausted THEN Stop ELSE r.answer
----------------------------------------------------------------------------
Python == INSTANCE PyIterators

\* Where an iterator starts.
Start(p, i) == CASE p[i].kind = "reversed" -> lists[p[i].a] - 1
                 [] p[i].kind \in {"range", "islice"} -> p[i].a
                 [] OTHER -> 0
Init ==
  /\ program \in Programs /\ lists \in [Lists -> 0..MaxLen]
  /\ heap = [i \in DOMAIN program |->
               [at |-> Start(program, i), taken |-> 0, exhausted |-> FALSE]]
  /\ py = [i \in DOMAIN program |-> Python!Fresh(i)]

\* The program calls next() on an iterator it holds, or a loop over it does.
NextOf(i) ==
  /\ program[i].named
  /\ heap' = NextIn(heap, i).heap /\ py' = Python!Next(py, i).its
  /\ \A j \in DOMAIN program : Kind(j) \in {"enumerate", "islice"} => heap'[j].at <= MaxCount
  /\ UNCHANGED <<program, lists>>
\* list.append and list.pop while iterators run.
AppendTo(l) == /\ lists[l] < MaxLen /\ lists' = [lists EXCEPT ![l] = @ + 1]
               /\ UNCHANGED <<program, heap, py>>
PopFrom(l) == /\ lists[l] > 0 /\ lists' = [lists EXCEPT ![l] = @ - 1]
              /\ \A i \in DOMAIN program : Kind(i) # "reversed"
              /\ UNCHANGED <<program, heap, py>>

Next == \/ \E i \in DOMAIN program : NextOf(i)
        \/ \E l \in Lists : AppendTo(l) \/ PopFrom(l)
Spec == Init /\ [][Next]_vars
----------------------------------------------------------------------------
\* A position is within the list it walks, or past its end once only.
TypeOK ==
  \A i \in DOMAIN program :
    /\ Kind(i) = "list" => heap[i].at \in 0..MaxLen
    /\ Kind(i) = "reversed" => heap[i].at \in -1..MaxLen - 1
    /\ Kind(i) = "chain" => heap[i].at \in 0..Len(On(i))

Users(j) == {i \in DOMAIN program : j \in Range(On(i))}
\* The code tells the end of a generator by its flag, which only chain reads;
\* and an islice that ends leaves its source where its last item was.
Faithful ==
  \A i \in DOMAIN program :
    /\ Kind(i) \in {"enumerate", "zip", "islice"} =>
         \A j \in Range(On(i)) : Kind(j) # "generator"
    /\ Kind(i) = "islice" => Users(On(i)[1]) = {i} /\ ~program[On(i)[1]].named

\* However iterators share sources, end and grow under one another, each gives
\* what Python's gives.
IteratorsArePython ==
  Faithful => \A i \in DOMAIN program :
                program[i].named => Answer(i) = Python!Answer(py, i)

\* enumerate, zip and islice have ended when what they are built over has.
StopsWithSource ==
  \A i \in DOMAIN program :
    /\ Kind(i) \in {"enumerate", "zip", "islice"}
    /\ \A j \in Range(On(i)) : heap[j].exhausted
    => Answer(i) = Stop
=============================================================================
