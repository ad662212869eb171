----------------------------- MODULE MCLanguage -----------------------------
(* What the language's own behaviour rests on, side by side: classes and the *)
(* member a call reaches, exceptions, generators, sequences and their sort.  *)
(* The models share no state, so a behaviour uses one of them, and the one   *)
(* whose initial states are many is otherwise not there.                     *)
EXTENDS Classes

CONSTANTS MaxExc, MaxInst, MaxDepth, Gens, Yields, Values, None,
          Stored, MaxLens, MinCapacity, Turns, MaxDeque,
          Others, ListIndices, Bounds, Steps, Counts, MaxList,
          Omitted, Self, Zero, Junk, IndexError, ValErr, SortInputs, MinRuns, Null

VARIABLES
  using,
  ctl, cur, handling, pendingCause, pendingSuppress, pc, stmt, shadow,
  bound, nextStmt, nextInst, boundary,
  state, exhausted, closing, sent, pending, calls, finished, lost, ignored,
  deque, list,
  data, reverse, minRun, runs, start, merge, phase

excVars == <<ctl, cur, handling, pendingCause, pendingSuppress, pc, stmt, shadow,
             bound, nextStmt, nextInst, boundary>>
genVars == <<state, exhausted, closing, sent, pending, calls, finished, lost, ignored>>
sortVars == <<data, reverse, minRun, runs, start, merge, phase>>

E == INSTANCE Exceptions
G == INSTANCE Generator

D == INSTANCE Deque WITH Values <- Stored, Indices <- Turns, MaxLen <- MaxDeque,
       ValueError <- ValErr
L == INSTANCE List WITH Values <- Stored, Indices <- ListIndices, MaxLen <- MaxList,
       ValueError <- ValErr
T == INSTANCE Timsort

ASSUME LanguageAssumption ==
  /\ E!ExceptionsAssumption /\ G!GeneratorAssumption /\ D!DequeAssumption
  /\ L!ListAssumption /\ T!TimsortAssumption

LanguageInit ==
  /\ using \in {"classes", "exceptions", "generators", "deque", "list", "sort"}
  /\ Init /\ E!Init /\ G!Init /\ D!Init /\ L!Init
  /\ using # "classes" => theme = "bare"
  /\ using # "deque" => deque.maxlen = -1
  /\ IF using = "sort" THEN T!Init
     ELSE /\ data = Null /\ reverse = Null /\ minRun = Null /\ runs = Null
          /\ start = Null /\ merge = Null /\ phase = Null
LanguageNext ==
  /\ UNCHANGED using
  /\ using # "classes" => UNCHANGED vars
  /\ using # "exceptions" => UNCHANGED excVars
  /\ using # "generators" => UNCHANGED genVars
  /\ using # "deque" => UNCHANGED deque
  /\ using # "list" => UNCHANGED list
  /\ using # "sort" => UNCHANGED sortVars
  /\ \/ using = "classes" /\ Next
     \/ using = "exceptions" /\ E!Next
     \/ using = "generators" /\ G!Next
     \/ using = "deque" /\ D!Next
     \/ using = "list" /\ L!Next
     \/ using = "sort" /\ T!Next
LanguageSpec ==
  LanguageInit /\ [][LanguageNext]_<<using, vars, excVars, genVars, deque, list, sortVars>>

\* The state in use is of its type: a class whose layout was built has the builtin
\* exception base its first such ancestor gives it, a ring or a buffer shows only
\* what was stored in it, and the runs of a sort lie next to one another, in order.
LanguageTypeOK ==
  /\ using = "classes" => TypeOK
  /\ using = "exceptions" => E!TypeOK
  /\ using = "generators" => G!TypeOK
  /\ using = "deque" => D!TypeOK
  /\ using = "list" => L!TypeOK
  /\ using = "sort" => T!TypeOK
\* The handling stack is the handlers the program is in, whatever way it left
\* the others.
HandlingMatches == E!HandlingMatches
\* The shadow stack holds the roots of exactly the frames that are active.
ShadowMatches == E!ShadowMatches
\* An armed cause reaches its own raise, unless a constructor raised between.
CauseOwnedToBoundary == E!CauseOwnedToBoundary
\* raise, try, finally and with do what Python's do.
ImplementsPython == E!ImplementsPython
\* A finished generator is not resumed, and outside close() no resume takes the
\* close path: unless its own body raised, or, for the latter, yielded to a close().
GeneratorFlagsSound == G!FinishedUnlessRaised /\ G!ClosingScoped
\* throw() reaches the generator it was called on.
ThrowDelivered == G!ThrowDelivered
\* Whatever the ring or the buffer went through, each call on a deque, and each on
\* a list that checks its arguments, leaves and answers what Python's does.
SequencesArePython ==
  /\ using = "deque" => D!DequeIsPython
  /\ using = "list" => L!ListIsPython
\* list.sort() permutes, orders, and keeps the order of equal elements.
SortIsStable == using = "sort" => T!SortIsStable
----------------------------------------------------------------------------
\* Items, and the generators named like them, have no order: they may be permuted.
Symmetry == Permutations(Stored)
MCMaxLens == {-1, 0, 2, 3}
MCTurns == -3..3
MCOthers == {s \in UNION {[1..n -> Stored] : n \in 0..2} : IsInjective(s)}
MCListIndices == -4..3
MCBounds == {Omitted, -4, -1, 1, 3}
MCSteps == -2..2
MCCounts == {-1, 0, 2, 3}
\* Every list of up to six elements with three keys, and of nine with two, where
\* three runs wait and the outer two are merged first.
MCInputs == UNION {[1..n -> 1..3] : n \in 0..6} \cup [1..9 -> 1..2]
=============================================================================
