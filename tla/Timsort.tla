------------------------------ MODULE Timsort ------------------------------
(* list.sort(), runtime/src/list/timsort.rs: runs are found or forced, kept  *)
(* on a stack and merged.  A merge is one action per comparison, because a   *)
(* comparison may call a user's __lt__, which may allocate, and so collect.  *)
(* Slots count from 0 in runs and from 1 in data.  rt_list_sort_by_keys runs *)
(* the same algorithm on pairs of a key and a value.                         *)
EXTENDS Integers, SequencesExt, FiniteSetsExt

CONSTANTS SortInputs,  \* the lists: sequences of keys
          MinRuns      \* powers of 2: MIN_RUN is 32 in the code

TimsortAssumption == MinRuns \subseteq Nat \ {0, 1} /\ SortInputs \subseteq Seq(Int)

VARIABLES
  data,     \* the list's buffer: elements [key, id]
  reverse, minRun,
  runs,     \* stack of [start, len], the last on top
  start,    \* where the next run starts
  merge,    \* the merge under way, [left, right, i, j, at, back], or NoMerge
  phase     \* "small", "run", "collapse", "merge", "force", "done"

vars == <<data, reverse, minRun, runs, start, merge, phase>>

NoMerge == [left |-> <<>>, right |-> <<>>, i |-> 0, j |-> 0, at |-> 1, back |-> "done"]

Init ==
  /\ \E keys \in SortInputs :
       data = [p \in DOMAIN keys |-> [key |-> keys[p], id |-> p]]
  /\ reverse \in BOOLEAN /\ minRun \in MinRuns
  /\ runs = <<>> /\ start = 0 /\ merge = NoMerge
  /\ phase = IF Len(data) < 2 THEN "done" ELSE IF Len(data) < minRun THEN "small" ELSE "run"

----------------------------------------------------------------------------
\* reverse swaps the operands; equal elements stay equal.
Less(a, b) == IF reverse THEN b.key < a.key ELSE a.key < b.key

\* n shifted right until it is below minRun, and one more if a bit was lost.
ComputeMinRun(n) ==
  LET shifted[e \in 0..n] == IF e = 0 THEN n ELSE shifted[e - 1] \div 2
      last == Min({e \in 0..n : shifted[e] < minRun})
  IN  shifted[last] + IF \E e \in 0..last - 1 : shifted[e] % 2 = 1 THEN 1 ELSE 0

\* Mutant: the element is moved ahead of its equals.
SunkStrict(d, from, i) ==
  LET p == Min({q \in from..i : \A r \in q..i - 1 : ~Less(d[r], d[i])})
  IN  InsertAt(RemoveAt(d, i), p, d[i])
\* Sink d[i] past the larger elements of from..i-1, which are in order.
Sunk(d, from, i) ==
  LET p == Min({q \in from..i : \A r \in q..i - 1 : Less(d[i], d[r])})
  IN  InsertAt(RemoveAt(d, i), p, d[i])
\* The slots from..to of data, from 1, in order.
InsertionSort(d, from, to) ==
  LET sunk[k \in 0..to - from] == IF k = 0 THEN d ELSE Sunk(sunk[k - 1], from, from + k)
  IN  sunk[to - from]

\* The run that starts after `from` slots: its end, and whether it descends.
CountRun(from) ==
  LET n == Len(data)
      down == from + 1 < n /\ Less(data[from + 2], data[from + 1])
      goes(q) == Less(data[q], data[q - 1]) = down
  IN  [down |-> down, end |-> Max({e \in from + 1..n : \A q \in from + 2..e : goes(q)})]
Flipped(d, from, to) == [p \in DOMAIN d |-> IF p \in from..to THEN d[from + to - p] ELSE d[p]]

Top(k) == runs[Len(runs) + 1 - k].len
\* The run to merge with the one above it, 0 when the stack is as it should be.
CollapseAt ==
  LET n == Len(runs)
  IN  IF n < 2 THEN 0
      ELSE IF n >= 3 /\ Top(3) <= Top(2) + Top(1) THEN IF Top(3) < Top(1) THEN n - 2 ELSE n - 1
      ELSE IF Top(2) <= Top(1) THEN n - 1 ELSE 0
ForceAt ==
  LET n == Len(runs)
  IN  IF n < 2 THEN 0 ELSE IF n >= 3 /\ Top(3) < Top(1) THEN n - 2 ELSE n - 1
----------------------------------------------------------------------------
Small ==
  /\ phase = "small"
  /\ data' = InsertionSort(data, 1, Len(data)) /\ phase' = "done"
  /\ UNCHANGED <<reverse, minRun, runs, start, merge>>

\* Find the next run, lengthen it when it is short, and push it.
PushRun ==
  /\ phase = "run"
  /\ LET run == CountRun(start)
         found == IF run.down THEN Flipped(data, start + 1, run.end) ELSE data
         least == Min({ComputeMinRun(Len(data)), Len(data) - start})
         short == run.end - start < ComputeMinRun(Len(data))
         len == IF short THEN least ELSE run.end - start
     IN  /\ data' = IF short THEN InsertionSort(found, start + 1, start + len) ELSE found
         /\ runs' = Append(runs, [start |-> start, len |-> len])
         /\ start' = start + len
  /\ phase' = "collapse"
  /\ UNCHANGED <<reverse, minRun, merge>>

\* Copy two adjacent runs out of the buffer.
StartMerge(at) ==
  LET low == runs[at]
      mid == low.start + low.len
  IN  /\ merge' = [left |-> SubSeq(data, low.start + 1, mid),
                   right |-> SubSeq(data, mid + 1, mid + runs[at + 1].len),
                   i |-> 0, j |-> 0, at |-> at, back |-> phase]
      /\ phase' = "merge"
      /\ UNCHANGED <<data, reverse, minRun, runs, start>>
Collapse == phase = "collapse" /\ CollapseAt # 0 /\ StartMerge(CollapseAt)
Collapsed ==
  /\ phase = "collapse" /\ CollapseAt = 0
  /\ phase' = IF start < Len(data) THEN "run" ELSE "force"
  /\ UNCHANGED <<data, reverse, minRun, runs, start, merge>>
Force == phase = "force" /\ ForceAt # 0 /\ StartMerge(ForceAt)
Forced == phase = "force" /\ ForceAt = 0 /\ phase' = "done"
          /\ UNCHANGED <<data, reverse, minRun, runs, start, merge>>

Comparing == phase = "merge" /\ merge.i < Len(merge.left) /\ merge.j < Len(merge.right)
Place == runs[merge.at].start + merge.i + merge.j + 1
Compare ==
  /\ Comparing
  /\ LET l == merge.left[merge.i + 1]
         r == merge.right[merge.j + 1]
     IN  IF Less(r, l)
         THEN data' = [data EXCEPT ![Place] = r] /\ merge' = [merge EXCEPT !.j = @ + 1]
         ELSE data' = [data EXCEPT ![Place] = l] /\ merge' = [merge EXCEPT !.i = @ + 1]
  /\ UNCHANGED <<reverse, minRun, runs, start, phase>>
\* One side is used up: the rest of the other follows, and the runs are one.
EndMerge ==
  /\ phase = "merge" /\ ~Comparing
  /\ LET rest == SubSeq(merge.left, merge.i + 1, Len(merge.left))
                   \o SubSeq(merge.right, merge.j + 1, Len(merge.right))
         at == merge.at
     IN  /\ data' = [p \in DOMAIN data |-> IF p - Place \in 0..Len(rest) - 1
                                           THEN rest[p - Place + 1] ELSE data[p]]
         /\ runs' = RemoveAt([runs EXCEPT ![at].len = @ + runs[at + 1].len], at + 1)
  /\ phase' = merge.back /\ merge' = NoMerge
  /\ UNCHANGED <<reverse, minRun, start>>

Next == Small \/ PushRun \/ Collapse \/ Collapsed \/ Force \/ Forced \/ Compare \/ EndMerge
Spec == Init /\ [][Next]_vars
----------------------------------------------------------------------------
Ordered(s) == \A p, q \in DOMAIN s : p < q => ~Less(s[q], s[p])
Ids(s) == {s[p].id : p \in DOMAIN s}

\* The runs on the stack lie next to one another up to start, and each is in
\* order when no merge is under way.
TypeOK ==
  /\ phase \in {"small", "run", "collapse", "merge", "force", "done"}
  /\ \A k \in DOMAIN runs :
       /\ runs[k].start + runs[k].len = IF k = Len(runs) THEN start ELSE runs[k + 1].start
       /\ phase # "merge" =>
            Ordered(SubSeq(data, runs[k].start + 1, runs[k].start + runs[k].len))

\* What comes out is what went in, in order, and equal elements keep their order.
SortIsStable ==
  phase = "done" =>
    /\ Ids(data) = DOMAIN data
    /\ \A p, q \in DOMAIN data :
         p < q => \/ Less(data[p], data[q])
                  \/ data[p].key = data[q].key /\ data[p].id < data[q].id

\* Whenever a comparison runs, the list's buffer holds every element, so the
\* collector finds them all.
ElementsRooted == Comparing => Ids(data) = DOMAIN data
=============================================================================
