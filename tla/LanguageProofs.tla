--------------------------- MODULE LanguageProofs ---------------------------
(* Theorems of the behaviours of MCLanguage, for every value of its          *)
(* constants:                                                                *)
(*   1. what ExceptionsProofs proves of exceptions is true of them;          *)
(*   2. generators: what throw() arms is delivered where it was thrown, a    *)
(*      finished generator is not run again unless its body raised, and the  *)
(*      closing flag lasts as close() does;                                  *)
(*   3. deques, and 4. lists: whatever the ring or the buffer went through,  *)
(*      each call leaves the items Python's leaves and answers the same;     *)
(*   5. the sort: what it leaves is in order, and stable.                    *)
EXTENDS MCLanguage, SeqLemmas, TLAPS

EP == INSTANCE ExceptionsProofs
DP == INSTANCE DequeProofs WITH Values <- Stored, Indices <- Turns, MaxLen <- MaxDeque,
        ValueError <- ValErr
LP == INSTANCE ListProofs WITH Values <- Stored, Indices <- ListIndices, MaxLen <- MaxList,
        ValueError <- ValErr, buffer <- data, following <- start

allVars == <<using, vars, excVars, genVars, deque, list, sortVars>>
----------------------------------------------------------------------------
(* 1. Exceptions.  The instance of MCLanguage and the one the proofs are     *)
(* about are the same.                                                       *)
LEMMA SameExceptions ==
  /\ E!ExceptionsAssumption => EP!ExceptionsAssumption
  /\ E!Init => EP!Init
  /\ E!Next => EP!Next
<1>1. E!ExceptionsAssumption => EP!ExceptionsAssumption
  BY DEF E!ExceptionsAssumption, EP!ExceptionsAssumption
<1>2. E!Init => EP!Init
  BY DEF E!Init, EP!Init, E!NoExc, EP!NoExc, E!NoStmt, EP!NoStmt
<1>3. E!Next => EP!Next
  BY Zenon DEF E!Next, EP!Next, E!Enter, EP!Enter, E!Return, EP!Return, E!LeaveBody,
         EP!LeaveBody, E!LeaveHandler, EP!LeaveHandler, E!Arm, EP!Arm,
         E!RaiseBuiltin, EP!RaiseBuiltin, E!RaiseInstance, EP!RaiseInstance,
         E!Construct, EP!Construct, E!RaiseCustom, EP!RaiseCustom, E!Reraise,
         EP!Reraise, E!ReraiseNothing, EP!ReraiseNothing, E!CatchUnnamed,
         EP!CatchUnnamed, E!CatchNamed, EP!CatchNamed, E!NoMatch, EP!NoMatch,
         E!CleanupPad, EP!CleanupPad, E!Landed, EP!Landed, E!HandlerBlock,
         EP!HandlerBlock, E!StartHandling, EP!StartHandling, E!Dispatch,
         EP!Dispatch, E!FindHandler, EP!FindHandler, E!UnwindBelow,
         EP!UnwindBelow, E!PopFrame, EP!PopFrame, E!Protects, EP!Protects,
         E!Rooted, EP!Rooted, E!Block, EP!Block, E!Kinds, EP!Kinds, E!Froms,
         EP!Froms, E!NewTarget, EP!NewTarget, E!NoStmt, EP!NoStmt, E!NoExc,
         EP!NoExc, E!Handled, EP!Handled, E!NewContext, EP!NewContext,
         E!Built, EP!Built, E!TakePending, EP!TakePending, E!EndHandling,
         EP!EndHandling, E!InArmedCtor, EP!InArmedCtor, E!MarkBoundary,
         EP!MarkBoundary, E!Running, EP!Running, E!Cons, EP!Cons, E!state,
         EP!state
<1> QED BY <1>1, <1>2, <1>3

LEMMA RunsExceptions == LanguageSpec => EP!Spec
<1>1. LanguageInit => EP!Init
  BY SameExceptions DEF LanguageInit
<1>2. [LanguageNext]_allVars => [EP!Next]_(EP!vars)
  <2>1. LanguageNext => EP!Next \/ UNCHANGED excVars
    BY SameExceptions DEF LanguageNext
  <2>2. UNCHANGED allVars => UNCHANGED excVars
    BY DEF allVars
  <2>3. UNCHANGED excVars => UNCHANGED EP!vars
    BY DEF excVars, EP!vars
  <2> QED BY <2>1, <2>2, <2>3
<1> QED BY <1>1, <1>2, PTL DEF LanguageSpec, EP!Spec, allVars

----------------------------------------------------------------------------
(* The handling stack is exactly the handlers the program is in.             *)
THEOREM HandlingIsNested == LanguageSpec => []HandlingMatches
<1>1. LanguageSpec => []EP!HandlingMatches
  BY LanguageAssumption, SameExceptions, RunsExceptions, EP!HandlingIsNested, PTL
<1>2. EP!HandlingMatches => HandlingMatches
  BY DEF HandlingMatches, E!HandlingMatches, EP!HandlingMatches, E!Lists, EP!Lists,
         E!IsHandler, EP!IsHandler, E!NoExc, EP!NoExc
<1> QED BY <1>1, <1>2, PTL

(* The collector's shadow stack has the roots of the active frames only.     *)
THEOREM ShadowIsActive == LanguageSpec => []ShadowMatches
<1>1. LanguageSpec => []EP!ShadowMatches
  BY LanguageAssumption, SameExceptions, RunsExceptions, EP!ShadowIsActive, PTL
<1>2. EP!ShadowMatches => ShadowMatches
  BY DEF ShadowMatches, E!ShadowMatches, EP!ShadowMatches, E!Rooted, EP!Rooted
<1> QED BY <1>1, <1>2, PTL

(* An armed cause reaches its own raise, unless a constructor raised between. *)
THEOREM CauseIsOwn == LanguageSpec => []CauseOwnedToBoundary
<1>1. LanguageSpec => []EP!CauseOwnedToBoundary
  BY LanguageAssumption, SameExceptions, RunsExceptions, EP!CauseIsOwn, PTL
<1>2. EP!CauseOwnedToBoundary => CauseOwnedToBoundary
  BY DEF CauseOwnedToBoundary, E!CauseOwnedToBoundary, EP!CauseOwnedToBoundary, E!CauseOwned,
         EP!CauseOwned, E!OwnCause, EP!OwnCause
<1> QED BY <1>1, <1>2, PTL

(* raise, try, finally and with do what Python's do.                         *)
THEOREM BehavesAsPython == LanguageSpec => ImplementsPython
<1>1. LanguageSpec => EP!ImplementsPython
  BY LanguageAssumption, SameExceptions, RunsExceptions, EP!BehavesAsPython, PTL
<1>2. EP!Py!Init => E!Py!Init
  BY DEF EP!Py!Init, E!Py!Init, E!IsHandler, EP!IsHandler
<1>3. [EP!Py!Next]_(EP!Py!vars) => [E!Py!Next]_(E!Py!vars)
  BY DEF E!IsHandler, EP!IsHandler, E!Py!Next, EP!Py!Next, E!Py!vars,
         EP!Py!vars, E!Py!Enter, EP!Py!Enter, E!Py!Leave, EP!Py!Leave,
         E!Py!Raise, EP!Py!Raise, E!Py!Propagate, EP!Py!Propagate, E!Py!Catch,
         EP!Py!Catch, E!Py!Abandon, EP!Py!Abandon, E!Py!Handling,
         EP!Py!Handling, E!Py!Unused, EP!Py!Unused, E!Py!Block, EP!Py!Block
<1> QED BY <1>1, <1>2, <1>3, PTL DEF ImplementsPython, E!ImplementsPython, EP!ImplementsPython,
                                     E!Py!Spec, EP!Py!Spec
----------------------------------------------------------------------------
(* 2. Generators.                                                            *)
CallRecords == [gen : Gens, op : G!Ops, point : G!Points, got : Values \cup {G!NotSet}]

(* A call by the point it is at: what it relies on when it is dispatched, and *)
(* the exhausted flag, up provisionally while a thrown exception is handled. *)
CallGood(c, st, ex, cl, armed) ==
  /\ c.point = "dispatch" /\ c.op \in {"close", "throw"} => st[c.gen] # 0
  /\ c.point = "resume" => st[c.gen] \in 1..Yields
  /\ c.point = "thrown" => c.op = "throw"
  /\ c.op = "throw" /\ c.point \in {"dispatch", "resume"} => armed = c.gen
  /\ c.op = "throw" => c.point # "cleanup"
  /\ c.op = "close" => c.point \in {"dispatch", "resume", "cleanup", "body"} /\ cl[c.gen]
  /\ ex[c.gen] <=> c.op = "throw" /\ c.point \in {"thrown", "body"}
CallsGood == \A i \in DOMAIN calls : CallGood(calls[i], state, exhausted, closing, pending)

(* Calls wait in a body, each of another generator.                          *)
Distinct == \A i, j \in DOMAIN calls : i # j => calls[i].gen # calls[j].gen
Waiting == \A i \in DOMAIN calls : i # 1 => calls[i].point \in {"body", "cleanup"}

StateExhausted == \A g \in Gens : state[g] = G!U32Max => exhausted[g]

GeneratorInv == /\ G!TypeOK /\ CallsGood /\ Distinct /\ Waiting /\ StateExhausted
        /\ G!ThrowDelivered /\ G!FinishedUnlessRaised /\ G!ClosingScoped
----------------------------------------------------------------------------
LEMMA TopCall ==
  ASSUME G!TypeOK
  PROVE  /\ calls \in Seq(CallRecords) /\ DOMAIN calls = 1..Len(calls) /\ Len(calls) \in Nat
         /\ \A i \in DOMAIN calls : calls[i] \in CallRecords /\ calls[i].gen \in Gens
         /\ calls # <<>> => 1 \in DOMAIN calls /\ Head(calls) = calls[1]
<1>1. calls \in Seq(CallRecords)
  BY DEF G!TypeOK, CallRecords
<1>2. \A c \in CallRecords : c.gen \in Gens
  BY DEF CallRecords
<1>3. calls # <<>> => 1 \in DOMAIN calls /\ Head(calls) = calls[1]
  BY <1>1, HeadTailProperties, LenProperties, EmptySeq
<1> QED BY <1>1, <1>2, <1>3, LenProperties, ElementOfSeq

LEMMA PushCall ==
  ASSUME NEW cs \in Seq(CallRecords), NEW c \in CallRecords
  PROVE  /\ Cons(c, cs) \in Seq(CallRecords) /\ Cons(c, cs) # <<>> /\ Head(Cons(c, cs)) = c
         /\ 1 \in DOMAIN Cons(c, cs) /\ Cons(c, cs)[1] = c
         /\ \A i \in DOMAIN Cons(c, cs) :
              i = 1 \/ (i - 1 \in DOMAIN cs /\ Cons(c, cs)[i] = cs[i - 1])
         /\ \A i \in DOMAIN Cons(c, cs) : i \in Nat
         /\ \A i \in DOMAIN cs : i + 1 \in DOMAIN Cons(c, cs) /\ Cons(c, cs)[i + 1] = cs[i]
<1>1. Cons(c, cs) \in Seq(CallRecords) /\ Cons(c, cs) # <<>> /\ Head(Cons(c, cs)) = c
  BY ConsElements
<1>2. 1 \in DOMAIN Cons(c, cs) /\ Cons(c, cs)[1] = c
  BY ConsElements
<1>3. \A i \in DOMAIN Cons(c, cs) : i = 1 \/ (i - 1 \in DOMAIN cs /\ Cons(c, cs)[i] = cs[i - 1])
  BY ConsElements
<1>4. \A i \in DOMAIN Cons(c, cs) : i \in Nat
  BY ConsElements
<1>5. \A i \in DOMAIN cs : i + 1 \in DOMAIN Cons(c, cs) /\ Cons(c, cs)[i + 1] = cs[i]
  BY ConsElements
<1> QED BY <1>1, <1>2, <1>3, <1>4, <1>5

(* Nothing is armed once the innermost call is in a body.                    *)
LEMMA NothingArmed ==
  ASSUME GeneratorInv, ~G!At("dispatch"), ~G!At("resume") PROVE pending = None
BY DEF GeneratorInv, G!ThrowDelivered

LEMMA U32Unused ==
  ASSUME G!GeneratorAssumption
  PROVE  /\ G!U32Max \notin 0..Yields /\ 0 # G!U32Max /\ 0 \notin 1..Yields
         /\ 0 \in 0..Yields \cup {G!U32Max} /\ \A k \in 1..Yields : k \in 0..Yields /\ k # G!U32Max
BY DEF G!GeneratorAssumption, G!U32Max
----------------------------------------------------------------------------
(* next, send, close and throw.                                              *)
Starts(g) == G!CallNext(g) \/ (\E v \in Values : G!Send(g, v)) \/ G!Close(g) \/ G!Throw(g)
Started(g, op) == [gen |-> g, op |-> op, point |-> "dispatch", got |-> G!NotSet]

LEMMA StartFacts ==
  ASSUME GeneratorInv, NEW g \in Gens, Starts(g)
  PROVE  \E op \in G!Ops :
           /\ calls' = Cons(Started(g, op), calls) /\ G!CanCall /\ ~G!Active(g)
           /\ ~exhausted[g] /\ (op \in {"close", "throw"} => state[g] # 0)
           /\ pending' = (IF op = "throw" THEN g ELSE pending)
           /\ closing' = (IF op = "close" THEN [closing EXCEPT ![g] = TRUE] ELSE closing)
           /\ sent' \in [Gens -> Values]
           /\ state' = state /\ exhausted' = exhausted /\ finished' = finished /\ lost' = lost /\ ignored' = ignored
<1>0. sent \in [Gens -> Values]
  BY DEF GeneratorInv, G!TypeOK
<1>5. \A x, s : G!Cons(x, s) = Cons(x, s)
  BY DEF G!Cons, Cons
<1>1. CASE G!CallNext(g)
  BY <1>0, <1>1, <1>5 DEF G!CallNext, G!Call, Started, G!Ops, G!object
<1>2. CASE \E v \in Values : G!Send(g, v)
  BY <1>0, <1>2, <1>5 DEF G!Send, G!Call, Started, G!Ops
<1>3. CASE G!Close(g)
  BY <1>0, <1>3, <1>5 DEF G!Close, G!Call, Started, G!Ops
<1>4. CASE G!Throw(g)
  BY <1>0, <1>4, <1>5 DEF G!Throw, G!Call, Started, G!Ops, G!object
<1> QED BY <1>1, <1>2, <1>3, <1>4 DEF Starts

LEMMA StartKeeps ==
  ASSUME G!GeneratorAssumption, GeneratorInv, NEW g \in Gens, Starts(g)
  PROVE  GeneratorInv'
<1>0. /\ G!TypeOK /\ CallsGood /\ Distinct /\ Waiting /\ StateExhausted
      /\ G!ThrowDelivered /\ G!FinishedUnlessRaised /\ G!ClosingScoped
      /\ calls \in Seq(CallRecords) /\ DOMAIN calls = 1..Len(calls) /\ Len(calls) \in Nat
      /\ \A i \in DOMAIN calls : calls[i].gen \in Gens
      /\ calls # <<>> => 1 \in DOMAIN calls /\ Head(calls) = calls[1]
      /\ g # None
  BY TopCall DEF GeneratorInv, G!GeneratorAssumption
<1>1. PICK op \in G!Ops :
        /\ calls' = Cons(Started(g, op), calls) /\ G!CanCall /\ ~G!Active(g)
        /\ ~exhausted[g] /\ (op \in {"close", "throw"} => state[g] # 0)
        /\ pending' = (IF op = "throw" THEN g ELSE pending)
        /\ closing' = (IF op = "close" THEN [closing EXCEPT ![g] = TRUE] ELSE closing)
        /\ sent' \in [Gens -> Values]
        /\ state' = state /\ exhausted' = exhausted /\ finished' = finished /\ lost' = lost /\ ignored' = ignored
  BY StartFacts
<1> DEFINE new == Started(g, op)
<1>2. /\ new \in CallRecords /\ new.gen = g /\ new.op = op /\ new.point = "dispatch"
  BY DEF Started, CallRecords, G!Points
<1>3. calls' \in Seq(CallRecords) /\ calls' # <<>> /\ 1 \in DOMAIN calls' /\ calls'[1] = new
      /\ Head(calls') = new
  BY <1>0, <1>1, <1>2, PushCall
<1>4. /\ \A i \in DOMAIN calls' : i = 1 \/ (i - 1 \in DOMAIN calls /\ calls'[i] = calls[i - 1])
      /\ \A i \in DOMAIN calls : i + 1 \in DOMAIN calls' /\ calls'[i + 1] = calls[i]
      /\ \A i \in DOMAIN calls' : i \in Nat
  <2>0. calls' = Cons(new, calls) /\ calls \in Seq(CallRecords) /\ new \in CallRecords
    BY <1>0, <1>1, <1>2
  <2> HIDE DEF new
  <2>1. \A i \in DOMAIN calls' : i = 1 \/ (i - 1 \in DOMAIN calls /\ calls'[i] = calls[i - 1])
    BY <2>0, PushCall
  <2>2. \A i \in DOMAIN calls : i + 1 \in DOMAIN calls' /\ calls'[i + 1] = calls[i]
    BY <2>0, PushCall
  <2>3. \A i \in DOMAIN calls' : i \in Nat
    BY <2>0, PushCall
  <2> QED BY <2>1, <2>2, <2>3
<1> HIDE DEF new
<1>5. \A i \in DOMAIN calls : calls[i].gen # g /\ calls[i].point \in {"body", "cleanup"}
  BY <1>0, <1>1 DEF G!Active, G!CanCall, Waiting
<1>6. pending = None
  BY <1>0, <1>1, NothingArmed DEF G!CanCall, G!At
<1>7. closing' \in [Gens -> BOOLEAN] /\ (op = "close" => closing'[g])
      /\ \A h \in Gens : h # g \/ op # "close" => closing'[h] = closing[h]
  BY <1>0, <1>1 DEF G!TypeOK
<1>8. G!TypeOK'
  BY <1>0, <1>1, <1>3, <1>7 DEF G!TypeOK, CallRecords
<1>9. CallsGood'
  <2>1. CallGood(new, state, exhausted, closing', pending')
    BY <1>1, <1>2, <1>7 DEF CallGood
  <2>2. ASSUME NEW i \in DOMAIN calls
        PROVE  CallGood(calls[i], state, exhausted, closing', pending')
    <3>1. /\ CallGood(calls[i], state, exhausted, closing, pending)
          /\ calls[i].gen # g /\ calls[i].point \in {"body", "cleanup"} /\ calls[i].gen \in Gens
      BY <1>0, <1>5 DEF CallsGood
    <3>2. closing'[calls[i].gen] = closing[calls[i].gen]
      BY <1>7, <3>1
    <3> QED BY <3>1, <3>2 DEF CallGood
  <2> QED BY <1>1, <1>3, <1>4, <2>1, <2>2 DEF CallsGood
<1>10. Distinct' /\ Waiting'
  <2>1. ASSUME NEW i \in DOMAIN calls', NEW j \in DOMAIN calls', i # j
        PROVE  calls'[i].gen # calls'[j].gen
    <3>1. CASE i = 1
      BY <1>2, <1>3, <1>4, <1>5, <2>1, <3>1
    <3>2. CASE j = 1
      BY <1>2, <1>3, <1>4, <1>5, <2>1, <3>2
    <3>3. CASE i # 1 /\ j # 1
      <4>1. i - 1 \in DOMAIN calls /\ j - 1 \in DOMAIN calls /\ i - 1 # j - 1
        BY <1>3, <1>4, <2>1, <3>3
      <4> QED BY <1>0, <1>4, <3>3, <4>1 DEF Distinct
    <3> QED BY <3>1, <3>2, <3>3
  <2>2. \A i \in DOMAIN calls' : i # 1 => calls'[i].point \in {"body", "cleanup"}
    BY <1>4, <1>5
  <2> QED BY <2>1, <2>2 DEF Distinct, Waiting
<1>11. StateExhausted'
  BY <1>0, <1>1 DEF StateExhausted
<1>12. G!ThrowDelivered'
  BY <1>1, <1>2, <1>3, <1>6 DEF G!ThrowDelivered, G!At, G!Me
<1>13. G!FinishedUnlessRaised'
  <2>1. \A h \in Gens : G!Active(h)' <=> h = g \/ G!Active(h)
    BY <1>2, <1>3, <1>4 DEF G!Active
  <2>2. ~lost[g] => ~finished[g]
    BY <1>0, <1>1 DEF G!FinishedUnlessRaised
  <2> QED BY <1>0, <1>1, <2>1, <2>2 DEF G!FinishedUnlessRaised, G!NeverResumed
<1>14. G!ClosingScoped'
  <2> SUFFICES ASSUME NEW h \in Gens, closing'[h], ~lost[h], ~ignored[h]
               PROVE  \E i \in DOMAIN calls' : calls'[i].gen = h /\ calls'[i].op = "close"
    BY <1>1 DEF G!ClosingScoped
  <2>1. CASE h = g /\ op = "close"
    BY <1>2, <1>3, <2>1
  <2>2. CASE ~(h = g /\ op = "close")
    <3>1. PICK i \in DOMAIN calls : calls[i].gen = h /\ calls[i].op = "close"
      BY <1>0, <1>7, <2>2 DEF G!ClosingScoped
    <3> QED BY <1>4, <3>1
  <2> QED BY <2>1, <2>2
<1> QED BY <1>8, <1>9, <1>10, <1>11, <1>12, <1>13, <1>14 DEF GeneratorInv
----------------------------------------------------------------------------
(* The resume function up to the body.                                       *)
Moves == G!Dispatch \/ G!Resume \/ G!CatchThrown \/ G!LeaveCleanup

LEMMA HeadMoves ==
  ASSUME G!TypeOK, calls # <<>>, NEW p \in G!Points, NEW w \in Values \cup {G!NotSet},
         calls' = [calls EXCEPT ![1].point = p] \/ calls' = [calls EXCEPT ![1].point = p, ![1].got = w]
  PROVE  /\ calls' \in Seq(CallRecords) /\ calls' # <<>> /\ DOMAIN calls' = DOMAIN calls
         /\ calls'[1].gen = calls[1].gen /\ calls'[1].op = calls[1].op /\ calls'[1].point = p
         /\ Head(calls') = calls'[1]
         /\ \A i \in DOMAIN calls : i # 1 => calls'[i] = calls[i]
<1>1. /\ DOMAIN calls = 1..Len(calls) /\ Len(calls) \in Nat /\ 1 \in DOMAIN calls
      /\ \A i \in DOMAIN calls : calls[i] \in CallRecords
      /\ calls \in [1..Len(calls) -> CallRecords]
  <2>1. /\ DOMAIN calls = 1..Len(calls) /\ Len(calls) \in Nat /\ 1 \in DOMAIN calls
        /\ \A i \in DOMAIN calls : calls[i] \in CallRecords /\ calls \in Seq(CallRecords)
    BY TopCall
  <2> QED BY <2>1, LenProperties
<1> DEFINE r == [calls[1] EXCEPT !.point = p]
           q == [calls[1] EXCEPT !.point = p, !.got = w]
<1>2. /\ r \in CallRecords /\ r.gen = calls[1].gen /\ r.op = calls[1].op /\ r.point = p
      /\ q \in CallRecords /\ q.gen = calls[1].gen /\ q.op = calls[1].op /\ q.point = p
  <2>1. calls[1] \in CallRecords
    BY <1>1
  <2> QED BY <2>1 DEF CallRecords
<1>3. calls' = [calls EXCEPT ![1] = r] \/ calls' = [calls EXCEPT ![1] = q]
  BY <1>1
<1> HIDE DEF r, q
<1>4. /\ calls' \in [1..Len(calls) -> CallRecords] /\ calls'[1] \in {r, q}
      /\ \A i \in DOMAIN calls : i # 1 => calls'[i] = calls[i]
  BY <1>1, <1>2, <1>3
<1>5. calls' \in Seq(CallRecords) /\ DOMAIN calls' = DOMAIN calls
  BY <1>1, <1>4, SeqDef
<1>6. calls' # <<>>
  BY <1>1, <1>5
<1>7. Head(calls') = calls'[1]
  BY <1>5, <1>6, HeadTailProperties
<1> QED BY <1>2, <1>4, <1>5, <1>6, <1>7

LEMMA MoveFacts ==
  ASSUME G!GeneratorAssumption, GeneratorInv, Moves
  PROVE  /\ calls # <<>>
         /\ \E p \in G!Points, w \in Values \cup {G!NotSet} :
              /\ calls' = [calls EXCEPT ![1].point = p] \/ calls' = [calls EXCEPT ![1].point = p, ![1].got = w]
              /\ \/ p = "resume" /\ pending' = pending /\ calls[1].point = "dispatch"
                 \/ p # "dispatch" /\ p # "resume" /\ pending' = None
              /\ p = "resume" => state[calls[1].gen] \in 1..Yields
              /\ p = "thrown" => calls[1].op = "throw"
              /\ calls[1].op = "throw" => p # "cleanup"
              /\ calls[1].op = "close" => p \in {"resume", "cleanup", "body"}
              /\ exhausted'[calls[1].gen] <=> calls[1].op = "throw" /\ p \in {"thrown", "body"}
         /\ exhausted' \in [Gens -> BOOLEAN]
         /\ \A h \in Gens : h # calls[1].gen => exhausted'[h] = exhausted[h]
         /\ exhausted[calls[1].gen] => exhausted'[calls[1].gen]
         /\ state' = state /\ closing' = closing /\ sent' = sent /\ finished' = finished /\ lost' = lost /\ ignored' = ignored
<1>0. calls # <<>>
  BY DEF Moves, G!Dispatch, G!Resume, G!CatchThrown, G!LeaveCleanup, G!At
<1>1. /\ calls # <<>> /\ Head(calls) = calls[1] /\ 1 \in DOMAIN calls /\ calls[1].gen \in Gens
      /\ exhausted \in [Gens -> BOOLEAN] /\ G!Me = calls[1].gen
      /\ CallGood(calls[1], state, exhausted, closing, pending)
      /\ None \notin Gens /\ G!NotSet \in Values \cup {G!NotSet}
      /\ state[calls[1].gen] \in 0..Yields \cup {G!U32Max}
      /\ sent[calls[1].gen] \in Values
      /\ state[calls[1].gen] = G!U32Max => exhausted[calls[1].gen]
  BY <1>0, TopCall DEF GeneratorInv, G!TypeOK, CallsGood, G!Me, G!GeneratorAssumption, StateExhausted
<1> DEFINE g == calls[1].gen
<1>2. CASE G!Dispatch
  <2>1. /\ calls[1].point = "dispatch" /\ ~exhausted[g]
        /\ pending' = pending /\ exhausted' = exhausted
        /\ state' = state /\ closing' = closing /\ sent' = sent /\ finished' = finished /\ lost' = lost /\ ignored' = ignored
    BY <1>1, <1>2 DEF G!Dispatch, G!At, G!object, CallGood
  <2>2. state[g] = 0 \/ state[g] \in 1..Yields
    BY <1>1, <2>1 DEF G!GeneratorAssumption
  <2>3. CASE state[g] = 0
    <3>1. calls' = [calls EXCEPT ![1].point = "body"]
      BY <1>1, <1>2, <2>3 DEF G!Dispatch, G!Goto
    <3>2. calls[1].op \notin {"close", "throw"}
      BY <1>1, <2>1, <2>3 DEF CallGood
    <3>3. pending' = None
      BY <1>1, <2>1, <3>2 DEF GeneratorInv, G!ThrowDelivered
    <3>4. "body" \in G!Points
      BY DEF G!Points
    <3> QED BY <1>1, <2>1, <3>1, <3>2, <3>3, <3>4
  <2>4. CASE state[g] \in 1..Yields
    <3>1. calls' = [calls EXCEPT ![1].point = "resume"]
      <4>1. state[g] # 0
        BY <2>4, U32Unused
      <4> QED BY <1>1, <1>2, <2>4, <4>1 DEF G!Dispatch, G!Goto
    <3>2. "resume" \in G!Points
      BY DEF G!Points
    <3> QED BY <1>1, <2>1, <2>4, <3>1, <3>2
  <2> QED BY <2>2, <2>3, <2>4
<1>3. CASE G!Resume
  <2>1. /\ calls[1].point = "resume" /\ ~exhausted[g]
        /\ state' = state /\ closing' = closing /\ sent' = sent /\ finished' = finished /\ lost' = lost /\ ignored' = ignored
    BY <1>1, <1>3 DEF G!Resume, G!At, CallGood
  <2>2. CASE pending = g
    <3>1. /\ calls' = [calls EXCEPT ![1].point = "thrown"] /\ pending' = None
          /\ exhausted' = [exhausted EXCEPT ![g] = TRUE]
      BY <1>1, <1>3, <2>2 DEF G!Resume, G!Goto
    <3>2. calls[1].op = "throw"
      BY <1>1, <2>2 DEF GeneratorInv, G!ThrowDelivered
    <3>3. /\ exhausted' \in [Gens -> BOOLEAN] /\ exhausted'[g]
          /\ \A h \in Gens : h # g => exhausted'[h] = exhausted[h]
      BY <1>1, <3>1
    <3>4. "thrown" \in G!Points
      BY DEF G!Points
    <3> QED BY <1>1, <2>1, <3>1, <3>2, <3>3, <3>4
  <2>3. CASE pending # g /\ closing[g]
    <3>1. calls' = [calls EXCEPT ![1].point = "cleanup"] /\ pending' = pending /\ exhausted' = exhausted
      BY <1>1, <1>3, <2>3 DEF G!Resume, G!Goto
    <3>2. calls[1].op # "throw" /\ pending' = None
      BY <1>1, <2>1, <2>3, <3>1 DEF CallGood, GeneratorInv, G!ThrowDelivered
    <3>3. "cleanup" \in G!Points
      BY DEF G!Points
    <3> QED BY <1>1, <2>1, <3>1, <3>2, <3>3
  <2>4. CASE pending # g /\ ~closing[g]
    <3>1. /\ calls' = [calls EXCEPT ![1].point = "body", ![1].got = sent[g]]
          /\ pending' = pending /\ exhausted' = exhausted
      BY <1>1, <1>3, <2>4 DEF G!Resume
    <3>2. calls[1].op # "throw" /\ calls[1].op # "close" /\ pending' = None
      BY <1>1, <2>1, <2>4, <3>1 DEF CallGood, GeneratorInv, G!ThrowDelivered
    <3>3. "body" \in G!Points
      BY DEF G!Points
    <3> QED BY <1>1, <2>1, <3>1, <3>2, <3>3
  <2> QED BY <2>2, <2>3, <2>4
<1>4. CASE G!CatchThrown
  <2>1. /\ calls' = [calls EXCEPT ![1].point = "body"] /\ calls[1].point = "thrown"
        /\ pending' = pending /\ exhausted' = exhausted
        /\ state' = state /\ closing' = closing /\ sent' = sent /\ finished' = finished /\ lost' = lost /\ ignored' = ignored
    BY <1>1, <1>4 DEF G!CatchThrown, G!Goto, G!At, G!object
  <2>2. calls[1].op = "throw" /\ exhausted[g]
    BY <1>1, <2>1 DEF CallGood
  <2>3. pending' = None
    BY <1>1, <2>1 DEF GeneratorInv, G!ThrowDelivered, G!At
  <2>4. "body" \in G!Points
    BY DEF G!Points
  <2> QED BY <1>1, <2>1, <2>2, <2>3, <2>4
<1>5. CASE G!LeaveCleanup
  <2>1. /\ calls' = [calls EXCEPT ![1].point = "body"] /\ calls[1].point = "cleanup"
        /\ pending' = pending /\ exhausted' = exhausted
        /\ state' = state /\ closing' = closing /\ sent' = sent /\ finished' = finished /\ lost' = lost /\ ignored' = ignored
    BY <1>1, <1>5 DEF G!LeaveCleanup, G!Goto, G!At, G!object
  <2>2. calls[1].op # "throw" /\ ~exhausted[g]
    BY <1>1, <2>1 DEF CallGood
  <2>3. pending' = None
    BY <1>1, <2>1 DEF GeneratorInv, G!ThrowDelivered, G!At
  <2>4. "body" \in G!Points
    BY DEF G!Points
  <2> QED BY <1>1, <2>1, <2>2, <2>3, <2>4
<1> QED BY <1>2, <1>3, <1>4, <1>5 DEF Moves

LEMMA MoveKeeps ==
  ASSUME G!GeneratorAssumption, GeneratorInv, Moves
  PROVE  GeneratorInv'
<1>0. /\ G!TypeOK /\ CallsGood /\ Distinct /\ Waiting /\ StateExhausted
      /\ G!ThrowDelivered /\ G!FinishedUnlessRaised /\ G!ClosingScoped
      /\ calls # <<>> /\ 1 \in DOMAIN calls /\ DOMAIN calls = 1..Len(calls) /\ Len(calls) \in Nat
      /\ \A i \in DOMAIN calls : calls[i].gen \in Gens
      /\ Head(calls) = calls[1] /\ None \in Values
  BY MoveFacts, TopCall DEF GeneratorInv, G!GeneratorAssumption
<1> DEFINE g == calls[1].gen
           op == calls[1].op
<1>1. PICK p \in G!Points, w \in Values \cup {G!NotSet} :
        /\ calls' = [calls EXCEPT ![1].point = p] \/ calls' = [calls EXCEPT ![1].point = p, ![1].got = w]
        /\ \/ p = "resume" /\ pending' = pending /\ calls[1].point = "dispatch"
           \/ p # "dispatch" /\ p # "resume" /\ pending' = None
        /\ p = "resume" => state[g] \in 1..Yields
        /\ p = "thrown" => op = "throw"
        /\ op = "throw" => p # "cleanup"
        /\ op = "close" => p \in {"resume", "cleanup", "body"}
        /\ exhausted'[g] <=> op = "throw" /\ p \in {"thrown", "body"}
  BY MoveFacts
<1>2. /\ exhausted' \in [Gens -> BOOLEAN]
      /\ \A h \in Gens : h # g => exhausted'[h] = exhausted[h]
      /\ exhausted[g] => exhausted'[g]
      /\ state' = state /\ closing' = closing /\ sent' = sent /\ finished' = finished /\ lost' = lost /\ ignored' = ignored
  BY MoveFacts
<1>3. /\ calls' \in Seq(CallRecords) /\ calls' # <<>> /\ DOMAIN calls' = DOMAIN calls
      /\ calls'[1].gen = g /\ calls'[1].op = op /\ calls'[1].point = p
      /\ Head(calls') = calls'[1]
      /\ \A i \in DOMAIN calls : i # 1 => calls'[i] = calls[i]
  BY <1>0, <1>1, HeadMoves
<1>4. \A i \in DOMAIN calls : calls'[i].gen = calls[i].gen /\ calls'[i].op = calls[i].op
  BY <1>3
<1>5. CallGood(calls[1], state, exhausted, closing, pending) /\ g \in Gens
  BY <1>0 DEF CallsGood
<1>6. G!TypeOK'
  <2>1. pending' \in Gens \cup {None}
    BY <1>0, <1>1 DEF G!TypeOK
  <2> QED BY <1>0, <1>2, <1>3, <2>1 DEF G!TypeOK, CallRecords
<1>7. CallsGood'
  <2> SUFFICES ASSUME NEW i \in DOMAIN calls
               PROVE  CallGood(calls'[i], state, exhausted', closing, pending')
    BY <1>2, <1>3 DEF CallsGood
  <2>1. CASE i = 1
    BY <1>1, <1>3, <1>5, <2>1 DEF CallGood
  <2>2. CASE i # 1
    <3>1. /\ calls'[i] = calls[i] /\ calls[i].gen # g /\ calls[i].gen \in Gens
          /\ calls[i].point \in {"body", "cleanup"}
          /\ CallGood(calls[i], state, exhausted, closing, pending)
      BY <1>0, <1>3, <2>2 DEF Distinct, Waiting, CallsGood
    <3>2. exhausted'[calls[i].gen] = exhausted[calls[i].gen]
      BY <1>2, <3>1
    <3> QED BY <3>1, <3>2 DEF CallGood
  <2> QED BY <2>1, <2>2
<1>8. Distinct' /\ Waiting'
  <2>1. Distinct'
    BY <1>0, <1>3, <1>4 DEF Distinct
  <2>2. Waiting'
    BY <1>0, <1>3 DEF Waiting
  <2> QED BY <2>1, <2>2
<1>9. StateExhausted'
  BY <1>0, <1>2, <1>5 DEF StateExhausted
<1>10. G!ThrowDelivered'
  BY <1>0, <1>1, <1>3 DEF G!ThrowDelivered, G!At, G!Me
<1>11. G!FinishedUnlessRaised'
  <2>1. \A h \in Gens : G!Active(h)' <=> G!Active(h)
    BY <1>3, <1>4 DEF G!Active
  <2>2. G!Active(g)
    BY <1>0 DEF G!Active
  <2>3. \A h \in Gens : exhausted[h] => exhausted'[h]
    BY <1>2
  <2>4. \A h \in Gens : ~G!Active(h) => exhausted'[h] = exhausted[h]
    BY <1>2, <2>2
  <2> QED BY <1>0, <1>2, <2>1, <2>3, <2>4 DEF G!FinishedUnlessRaised, G!NeverResumed
<1>12. G!ClosingScoped'
  BY <1>0, <1>2, <1>3, <1>4 DEF G!ClosingScoped
<1> QED BY <1>6, <1>7, <1>8, <1>9, <1>10, <1>11, <1>12 DEF GeneratorInv
----------------------------------------------------------------------------
(* A yield, the end of the body or of a close, an exception that escapes:    *)
(* the innermost call ends, and what it leaves of its generator agrees.      *)
Ends == (\E k \in 1..Yields : G!Yield(k) \/ G!IgnoreClose(k)) \/ G!Return \/ G!Escape

LEMMA EndFacts ==
  ASSUME G!GeneratorAssumption, GeneratorInv, Ends
  PROVE  /\ calls # <<>> /\ calls' = Tail(calls) /\ pending' = None
         /\ state' \in [Gens -> 0..Yields \cup {G!U32Max}] /\ exhausted' \in [Gens -> BOOLEAN]
         /\ closing' \in [Gens -> BOOLEAN] /\ finished' \in [Gens -> BOOLEAN]
         /\ lost' \in [Gens -> BOOLEAN] /\ ignored' \in [Gens -> BOOLEAN] /\ sent' = sent
         /\ \A h \in Gens : h # calls[1].gen =>
              /\ state'[h] = state[h] /\ exhausted'[h] = exhausted[h] /\ closing'[h] = closing[h]
              /\ finished'[h] = finished[h] /\ lost'[h] = lost[h] /\ ignored'[h] = ignored[h]
         /\ state'[calls[1].gen] = G!U32Max => exhausted'[calls[1].gen]
         /\ ~lost'[calls[1].gen] => finished'[calls[1].gen] <=> exhausted'[calls[1].gen]
         /\ ~lost'[calls[1].gen] /\ ~ignored'[calls[1].gen] => ~closing'[calls[1].gen]
<1>0. /\ calls # <<>> /\ pending = None
      /\ Head(calls).point \in {"body", "cleanup", "thrown", "end"}
  <2>1. calls # <<>> /\ Head(calls).point \in {"body", "cleanup", "thrown", "end"}
    BY DEF Ends, G!Yield, G!IgnoreClose, G!Return, G!Escape, G!At
  <2>2. ~G!At("dispatch") /\ ~G!At("resume")
    BY <2>1 DEF G!At
  <2> QED BY <2>1, <2>2, NothingArmed
<1> DEFINE g == calls[1].gen
<1>1. /\ Head(calls) = calls[1] /\ 1 \in DOMAIN calls /\ g \in Gens /\ G!Me = g
      /\ CallGood(calls[1], state, exhausted, closing, pending)
      /\ state \in [Gens -> 0..Yields \cup {G!U32Max}] /\ exhausted \in [Gens -> BOOLEAN]
      /\ closing \in [Gens -> BOOLEAN] /\ finished \in [Gens -> BOOLEAN] /\ lost \in [Gens -> BOOLEAN]
      /\ ignored \in [Gens -> BOOLEAN]
  <2>1. Head(calls) = calls[1] /\ 1 \in DOMAIN calls /\ g \in Gens
    BY <1>0, TopCall DEF GeneratorInv
  <2>2. CallGood(calls[1], state, exhausted, closing, pending)
    BY <2>1 DEF GeneratorInv, CallsGood
  <2> QED BY <2>1, <2>2 DEF GeneratorInv, G!TypeOK, G!Me
<1>2. /\ state[g] = G!U32Max => exhausted[g]
      /\ ~lost[g] => ~finished[g]
      /\ closing[g] /\ ~lost[g] /\ ~ignored[g] => calls[1].op = "close"
  <2>1. state[g] = G!U32Max => exhausted[g]
    BY <1>1 DEF GeneratorInv, StateExhausted
  <2>2. ~lost[g] => ~finished[g]
    BY <1>1 DEF GeneratorInv, G!FinishedUnlessRaised, G!NeverResumed, G!Active
  <2>3. ASSUME closing[g], ~lost[g], ~ignored[g] PROVE calls[1].op = "close"
    <3>1. PICK i \in DOMAIN calls : calls[i].gen = g /\ calls[i].op = "close"
      BY <1>1, <2>3 DEF GeneratorInv, G!ClosingScoped
    <3>2. i = 1
      BY <1>1, <3>1 DEF GeneratorInv, Distinct
    <3> QED BY <3>1, <3>2
  <2> QED BY <2>1, <2>2, <2>3
<1> HIDE DEF g
<1>3. CASE \E k \in 1..Yields : G!Yield(k) \/ G!IgnoreClose(k)
  <2>1. PICK k \in 1..Yields : G!Yield(k) \/ G!IgnoreClose(k)
    BY <1>3
  <2>2. /\ calls' = Tail(calls) /\ pending' = None
        /\ state' = [state EXCEPT ![g] = k] /\ exhausted' = [exhausted EXCEPT ![g] = @ /\ k = G!U32Max]
        /\ closing' = closing /\ sent' = sent /\ finished' = finished /\ lost' = lost
        /\ \/ calls[1].op # "close" /\ ignored' = ignored
           \/ ignored' = [ignored EXCEPT ![g] = TRUE]
    BY <1>0, <1>1, <2>1 DEF G!Yield, G!IgnoreClose, G!At, G!SetState, G!CallReturns
  <2>3. k \in 0..Yields /\ k # G!U32Max
    BY U32Unused
  <2>4. /\ state' \in [Gens -> 0..Yields \cup {G!U32Max}] /\ exhausted' \in [Gens -> BOOLEAN]
        /\ state'[g] # G!U32Max /\ ~exhausted'[g]
        /\ \A h \in Gens : h # g => state'[h] = state[h] /\ exhausted'[h] = exhausted[h]
    BY <1>1, <2>2, <2>3
  <2>5. /\ ignored' \in [Gens -> BOOLEAN]
        /\ \A h \in Gens : h # g => ignored'[h] = ignored[h]
        /\ ~ignored'[g] => ~ignored[g] /\ calls[1].op # "close"
    <3>1. CASE calls[1].op # "close" /\ ignored' = ignored
      BY <1>1, <3>1
    <3>2. CASE ignored' = [ignored EXCEPT ![g] = TRUE]
      BY <1>1, <3>2
    <3> QED BY <2>2, <3>1, <3>2
  <2>6. ~lost'[g] => (finished'[g] <=> exhausted'[g])
    BY <1>2, <2>2, <2>4
  <2>7. ~lost'[g] /\ ~ignored'[g] => ~closing'[g]
    BY <1>2, <2>2, <2>5
  <2>8. \A h \in Gens : h # g =>
          /\ state'[h] = state[h] /\ exhausted'[h] = exhausted[h] /\ closing'[h] = closing[h]
          /\ finished'[h] = finished[h] /\ lost'[h] = lost[h] /\ ignored'[h] = ignored[h]
    BY <2>2, <2>4, <2>5
  <2>9. /\ closing' \in [Gens -> BOOLEAN] /\ finished' \in [Gens -> BOOLEAN]
        /\ lost' \in [Gens -> BOOLEAN] /\ sent' = sent
    BY <1>1, <2>2
  <2> QED BY <1>0, <2>2, <2>4, <2>5, <2>6, <2>7, <2>8, <2>9 DEF g
<1>4. CASE G!Return
  <2>1. /\ calls' = Tail(calls) /\ pending' = None
        /\ exhausted' = [exhausted EXCEPT ![g] = TRUE] /\ state' = [state EXCEPT ![g] = G!U32Max]
        /\ closing' = [closing EXCEPT ![g] = @ /\ calls[1].op # "close"]
        /\ finished' = [finished EXCEPT ![g] = TRUE] /\ sent' = sent /\ lost' = lost /\ ignored' = ignored
    BY <1>0, <1>1, <1>4 DEF G!Return, G!EndClose, G!SetExhausted, G!CallReturns
  <2>2. /\ state' \in [Gens -> 0..Yields \cup {G!U32Max}] /\ exhausted' \in [Gens -> BOOLEAN]
        /\ finished' \in [Gens -> BOOLEAN] /\ exhausted'[g] /\ finished'[g]
        /\ \A h \in Gens : h # g => /\ state'[h] = state[h] /\ exhausted'[h] = exhausted[h]
                                    /\ finished'[h] = finished[h]
    BY <1>1, <2>1
  <2>3. /\ closing' \in [Gens -> BOOLEAN]
        /\ \A h \in Gens : h # g => closing'[h] = closing[h]
        /\ closing'[g] <=> closing[g] /\ calls[1].op # "close"
    BY <1>1, <2>1
  <2> QED BY <1>0, <1>1, <1>2, <2>1, <2>2, <2>3 DEF g
<1>5. CASE G!Escape
  <2>1. /\ calls' = Tail(calls) /\ pending' = None
        /\ finished' = [finished EXCEPT ![g] = TRUE]
        /\ lost' = [lost EXCEPT ![g] = @ \/ calls[1].op # "throw"]
        /\ state' = state /\ exhausted' = exhausted /\ closing' = closing /\ sent' = sent
        /\ ignored' = ignored
    BY <1>0, <1>1, <1>5 DEF G!Escape, G!object
  <2>2. /\ finished' \in [Gens -> BOOLEAN] /\ lost' \in [Gens -> BOOLEAN] /\ finished'[g]
        /\ \A h \in Gens : h # g => finished'[h] = finished[h] /\ lost'[h] = lost[h]
        /\ lost'[g] <=> lost[g] \/ calls[1].op # "throw"
    BY <1>1, <2>1
  <2>3. calls[1].op = "throw" => exhausted[g]
    BY <1>1, <1>5 DEF CallGood, G!Escape, g
  <2>4. /\ state' \in [Gens -> 0..Yields \cup {G!U32Max}] /\ exhausted' \in [Gens -> BOOLEAN]
        /\ closing' \in [Gens -> BOOLEAN] /\ ignored' \in [Gens -> BOOLEAN]
    BY <1>1, <2>1
  <2>5. state'[g] = G!U32Max => exhausted'[g]
    BY <1>2, <2>1
  <2>6. /\ ~lost'[g] => (finished'[g] <=> exhausted'[g])
        /\ ~lost'[g] /\ ~ignored'[g] => ~closing'[g]
    <3>1. SUFFICES ASSUME ~lost'[g]
                   PROVE  (finished'[g] <=> exhausted'[g]) /\ (~ignored'[g] => ~closing'[g])
      OBVIOUS
    <3>2. ~lost[g] /\ calls[1].op = "throw"
      BY <2>2, <3>1
    <3>3. finished'[g] /\ exhausted'[g]
      BY <2>1, <2>2, <2>3, <3>2
    <3>4. closing[g] => ignored[g]
      BY <1>2, <3>2
    <3> QED BY <2>1, <3>3, <3>4
  <2> QED BY <1>0, <2>1, <2>2, <2>4, <2>5, <2>6 DEF g
<1> QED BY <1>3, <1>4, <1>5 DEF Ends

LEMMA EndKeeps ==
  ASSUME G!GeneratorAssumption, GeneratorInv, Ends
  PROVE  GeneratorInv'
<1>0. /\ G!TypeOK /\ CallsGood /\ Distinct /\ Waiting /\ StateExhausted
      /\ G!ThrowDelivered /\ G!FinishedUnlessRaised /\ G!ClosingScoped
  BY DEF GeneratorInv
<1>g. PICK g : g = calls[1].gen
  OBVIOUS
<1>1. /\ calls # <<>> /\ calls' = Tail(calls) /\ pending' = None
      /\ state' \in [Gens -> 0..Yields \cup {G!U32Max}] /\ exhausted' \in [Gens -> BOOLEAN]
      /\ closing' \in [Gens -> BOOLEAN] /\ finished' \in [Gens -> BOOLEAN]
      /\ lost' \in [Gens -> BOOLEAN] /\ ignored' \in [Gens -> BOOLEAN] /\ sent' = sent
      /\ \A h \in Gens : h # g =>
           /\ state'[h] = state[h] /\ exhausted'[h] = exhausted[h] /\ closing'[h] = closing[h]
           /\ finished'[h] = finished[h] /\ lost'[h] = lost[h] /\ ignored'[h] = ignored[h]
      /\ state'[g] = G!U32Max => exhausted'[g]
      /\ ~lost'[g] => (finished'[g] <=> exhausted'[g])
      /\ ~lost'[g] /\ ~ignored'[g] => ~closing'[g]
  BY <1>g, EndFacts
<1>2. /\ calls \in Seq(CallRecords) /\ \A i \in DOMAIN calls : calls[i].gen \in Gens
      /\ 1 \in DOMAIN calls
  BY <1>0, <1>1, TopCall
<1>3. /\ calls' \in Seq(CallRecords)
      /\ \A i \in DOMAIN calls' : i \in Nat /\ i + 1 \in DOMAIN calls /\ calls'[i] = calls[i + 1]
      /\ \A i \in DOMAIN calls : i = 1 \/ (i - 1 \in DOMAIN calls' /\ calls'[i - 1] = calls[i])
  <2>1. calls' \in Seq(CallRecords)
    BY <1>1, <1>2, TailElements
  <2>2. \A i \in DOMAIN calls' : i \in Nat /\ i + 1 \in DOMAIN calls /\ calls'[i] = calls[i + 1]
    BY <1>1, <1>2, TailElements
  <2>3. \A i \in DOMAIN calls : i = 1 \/ (i - 1 \in DOMAIN calls' /\ calls'[i - 1] = calls[i])
    BY <1>1, <1>2, TailElements
  <2> QED BY <2>1, <2>2, <2>3
<1>4. ASSUME NEW i \in DOMAIN calls'
      PROVE  /\ calls'[i].gen # g /\ calls'[i].gen \in Gens
             /\ calls'[i].point \in {"body", "cleanup"}
             /\ CallGood(calls'[i], state, exhausted, closing, pending)
  <2>1. i + 1 \in DOMAIN calls /\ calls'[i] = calls[i + 1] /\ i + 1 # 1
    <3>1. i \in Nat /\ i + 1 \in DOMAIN calls /\ calls'[i] = calls[i + 1]
      BY <1>3
    <3>2. i # 0
      <4>1. DOMAIN calls' = 1..Len(calls) - 1
        BY <1>1, <1>2, TailElements
      <4> QED BY <4>1
    <3> QED BY <3>1, <3>2
  <2> QED BY <1>g, <1>0, <1>2, <2>1 DEF Distinct, Waiting, CallsGood
<1>5. ~G!Active(g)'
  BY <1>4 DEF G!Active
<1>6. ASSUME NEW h \in Gens, h # g PROVE G!Active(h)' <=> G!Active(h)
  <2>1. G!Active(h)' => G!Active(h)
    BY <1>3 DEF G!Active
  <2>2. G!Active(h) => G!Active(h)'
    BY <1>g, <1>3, <1>6 DEF G!Active
  <2> QED BY <2>1, <2>2
<1>7. G!TypeOK'
  BY <1>0, <1>1, <1>3 DEF G!TypeOK, CallRecords
<1>8. CallsGood'
  <2> SUFFICES ASSUME NEW i \in DOMAIN calls'
               PROVE  CallGood(calls'[i], state', exhausted', closing', pending')
    BY DEF CallsGood
  <2>1. /\ state'[calls'[i].gen] = state[calls'[i].gen]
        /\ exhausted'[calls'[i].gen] = exhausted[calls'[i].gen]
        /\ closing'[calls'[i].gen] = closing[calls'[i].gen]
    BY <1>1, <1>4
  <2> QED BY <1>4, <2>1 DEF CallGood
<1>9. Distinct'
  <2> SUFFICES ASSUME NEW i \in DOMAIN calls', NEW j \in DOMAIN calls', i # j
               PROVE  calls'[i].gen # calls'[j].gen
    BY DEF Distinct
  <2>1. i + 1 \in DOMAIN calls /\ j + 1 \in DOMAIN calls /\ i + 1 # j + 1
    BY <1>3
  <2> QED BY <1>0, <1>3, <2>1 DEF Distinct
<1>10. Waiting'
  BY <1>4 DEF Waiting
<1>11. StateExhausted'
  BY <1>0, <1>1 DEF StateExhausted
<1>12. G!ThrowDelivered'
  BY <1>1 DEF G!ThrowDelivered
<1>13. G!FinishedUnlessRaised'
  <2> SUFFICES ASSUME NEW h \in Gens, ~lost'[h]
               PROVE  /\ (finished[h] => ~G!Active(h))'
                      /\ (finished[h] => exhausted[h])'
                      /\ (exhausted[h] /\ ~G!Active(h) => finished[h])'
    BY DEF G!FinishedUnlessRaised, G!NeverResumed
  <2>1. CASE h = g
    BY <1>1, <1>5, <2>1
  <2>2. CASE h # g
    BY <1>0, <1>1, <1>6, <2>2 DEF G!FinishedUnlessRaised, G!NeverResumed
  <2> QED BY <2>1, <2>2
<1>14. G!ClosingScoped'
  <2> SUFFICES ASSUME NEW h \in Gens, closing'[h], ~lost'[h], ~ignored'[h]
               PROVE  \E i \in DOMAIN calls' : calls'[i].gen = h /\ calls'[i].op = "close"
    BY DEF G!ClosingScoped
  <2>1. h # g /\ closing[h] /\ ~lost[h] /\ ~ignored[h]
    BY <1>1
  <2>2. PICK i \in DOMAIN calls : calls[i].gen = h /\ calls[i].op = "close"
    BY <1>0, <2>1 DEF G!ClosingScoped
  <2>3. i - 1 \in DOMAIN calls' /\ calls'[i - 1] = calls[i]
    BY <1>g, <1>3, <2>1, <2>2
  <2> QED BY <2>2, <2>3
<1> QED BY <1>7, <1>8, <1>9, <1>10, <1>11, <1>12, <1>13, <1>14 DEF GeneratorInv
----------------------------------------------------------------------------
LEMMA FinishKeeps ==
  ASSUME G!GeneratorAssumption, GeneratorInv, NEW g \in Gens, G!FinishUnstarted(g)
  PROVE  GeneratorInv'
<1>1. /\ G!TypeOK /\ CallsGood /\ Distinct /\ Waiting /\ StateExhausted
      /\ G!ThrowDelivered /\ G!FinishedUnlessRaised /\ G!ClosingScoped
  BY DEF GeneratorInv
<1>2. /\ ~G!Active(g) /\ exhausted' = [exhausted EXCEPT ![g] = TRUE]
      /\ finished' = [finished EXCEPT ![g] = TRUE]
      /\ state' = state /\ closing' = closing /\ sent' = sent /\ pending' = pending
      /\ calls' = calls /\ lost' = lost /\ ignored' = ignored
  BY DEF G!FinishUnstarted
<1>3. /\ exhausted' \in [Gens -> BOOLEAN] /\ finished' \in [Gens -> BOOLEAN]
      /\ exhausted'[g] /\ finished'[g]
      /\ \A h \in Gens : h # g => exhausted'[h] = exhausted[h] /\ finished'[h] = finished[h]
  BY <1>1, <1>2 DEF G!TypeOK
<1>4. \A i \in DOMAIN calls : calls[i].gen \in Gens /\ calls[i].gen # g
  BY <1>1, <1>2, TopCall DEF G!Active
<1>5. G!TypeOK'
  BY <1>1, <1>2, <1>3 DEF G!TypeOK
<1>6. CallsGood'
  BY <1>1, <1>2, <1>3, <1>4 DEF CallsGood, CallGood
<1>7. Distinct' /\ Waiting' /\ G!ThrowDelivered' /\ G!ClosingScoped'
  BY <1>1, <1>2 DEF Distinct, Waiting, G!ThrowDelivered, G!At, G!Me, G!ClosingScoped
<1>8. StateExhausted'
  BY <1>1, <1>2, <1>3 DEF StateExhausted
<1>9. G!FinishedUnlessRaised'
  BY <1>1, <1>2, <1>3 DEF G!FinishedUnlessRaised, G!NeverResumed, G!Active
<1> QED BY <1>5, <1>6, <1>7, <1>8, <1>9 DEF GeneratorInv

LEMMA GeneratorInit == ASSUME G!GeneratorAssumption, G!Init PROVE GeneratorInv
<1>1. calls = <<>> /\ DOMAIN calls = {} /\ calls \in Seq(CallRecords)
  BY EmptySeq DEF G!Init
<1>2. 0 # G!U32Max /\ 0 \in 0..Yields /\ None \in Values
  BY U32Unused DEF G!GeneratorAssumption
<1>3. G!TypeOK
  BY <1>1, <1>2 DEF G!Init, G!TypeOK, CallRecords
<1>4. CallsGood /\ Distinct /\ Waiting
  BY <1>1 DEF CallsGood, Distinct, Waiting
<1>5. StateExhausted /\ G!ThrowDelivered /\ G!FinishedUnlessRaised /\ G!ClosingScoped
  BY <1>2 DEF G!Init, StateExhausted, G!ThrowDelivered, G!FinishedUnlessRaised, G!NeverResumed, G!ClosingScoped
<1> QED BY <1>3, <1>4, <1>5 DEF GeneratorInv

LEMMA GeneratorStep ==
  ASSUME G!GeneratorAssumption, GeneratorInv, [G!Next]_(G!vars) PROVE GeneratorInv'
<1>1. CASE \E g \in Gens : Starts(g)
  BY <1>1, StartKeeps
<1>2. CASE Moves
  BY <1>2, MoveKeeps
<1>3. CASE Ends
  BY <1>3, EndKeeps
<1>4. CASE \E g \in Gens : G!FinishUnstarted(g)
  BY <1>4, FinishKeeps
<1>5. CASE UNCHANGED G!vars
  <2>1. /\ G!TypeOK' /\ CallsGood' /\ Distinct' /\ Waiting'
    BY <1>5 DEF G!vars, G!object, GeneratorInv, G!TypeOK, CallsGood, Distinct, Waiting
  <2>2. StateExhausted' /\ G!ThrowDelivered' /\ G!FinishedUnlessRaised' /\ G!ClosingScoped'
    BY <1>5 DEF G!vars, G!object, GeneratorInv, StateExhausted, G!ThrowDelivered, G!At, G!Me,
                G!FinishedUnlessRaised, G!NeverResumed, G!Active, G!ClosingScoped
  <2> QED BY <2>1, <2>2 DEF GeneratorInv
<1> QED BY <1>1, <1>2, <1>3, <1>4, <1>5 DEF G!Next, Starts, Moves, Ends, G!CallExhausted

(* Calls wait in bodies, each of another generator, and the point a call is  *)
(* at fixes its generator's state, exhausted and closing flags.              *)
THEOREM GeneratorsInvariant == LanguageSpec => []GeneratorInv
<1>1. LanguageInit => GeneratorInv
  BY LanguageAssumption, GeneratorInit DEF LanguageInit
<1>2. [LanguageNext]_allVars => [G!Next]_(G!vars)
  <2>1. LanguageNext => G!Next \/ UNCHANGED genVars
    BY DEF LanguageNext
  <2>2. UNCHANGED allVars => UNCHANGED genVars
    BY DEF allVars
  <2>3. UNCHANGED genVars => UNCHANGED G!vars
    BY DEF genVars, G!vars
  <2> QED BY <2>1, <2>2, <2>3
<1>3. GeneratorInv /\ [LanguageNext]_allVars => GeneratorInv'
  BY <1>2, LanguageAssumption, GeneratorStep
<1> QED BY <1>1, <1>3, PTL DEF LanguageSpec, allVars

(* throw() reaches the generator it was called on: however generators call   *)
(* each other, the exception is raised there, before the body runs.          *)
THEOREM ThrowIsDelivered == LanguageSpec => []ThrowDelivered
<1>1. GeneratorInv => ThrowDelivered
  BY DEF GeneratorInv, ThrowDelivered
<1> QED BY <1>1, GeneratorsInvariant, PTL

(* A generator that returned, was closed or was finished by throw() is never *)
(* resumed, and none is taken for finished that is not, through the flag     *)
(* that is up while a thrown exception is handled.  The closing flag is up   *)
(* only during close(), except after the body yielded to one, which leaves   *)
(* it up for good, or raised.                                                *)
THEOREM FlagsAreSound == LanguageSpec => []GeneratorFlagsSound
<1>1. GeneratorInv => GeneratorFlagsSound
  BY DEF GeneratorInv, GeneratorFlagsSound
<1> QED BY <1>1, GeneratorsInvariant, PTL
----------------------------------------------------------------------------
(* 3. Deques.  The calls of MCLanguage's instance, and those of Python, are    *)
(* the ones DequeProofs is about.                                            *)
LEMMA SameCalls ==
  ASSUME NEW d, NEW c
  PROVE  D!Result(d, c) = DP!Result(d, c)
BY Zenon DEF D!Buffer, DP!Buffer, D!Fresh, DP!Fresh, D!Ring, DP!Ring, D!Contents,
           DP!Contents, D!Window, DP!Window, D!EnsureCapacity, DP!EnsureCapacity,
           D!AtMaxLen, DP!AtMaxLen, D!Appended, DP!Appended, D!AppendedLeft,
           DP!AppendedLeft, D!Deleted, DP!Deleted, D!Inserted, DP!Inserted, D!Rotated,
           DP!Rotated, D!Reversed, DP!Reversed, D!Copied, DP!Copied, D!Actual,
           DP!Actual, D!Clamped, DP!Clamped, D!Find, DP!Find, D!Done, DP!Done,
           D!Answers, DP!Answers, D!Pop, DP!Pop, D!PopLeft, DP!PopLeft, D!Rotate,
           DP!Rotate, D!Get, DP!Get, D!Set, DP!Set, D!Delete, DP!Delete, D!Insert,
           DP!Insert, D!Discard, DP!Discard, D!Index, DP!Index, D!Count, DP!Count,
           D!Flip, DP!Flip, D!Clear, DP!Clear, D!Calls, DP!Calls, D!Result, DP!Result,
           D!Copies, DP!Copies, D!Swaps, DP!Swaps, D!Min, DP!Min, D!Max, DP!Max,
           D!Cardinality, DP!Cardinality

LEMMA SamePython ==
  ASSUME NEW s, NEW m, NEW c
  PROVE  D!Python!Result(s, m, c) = DP!Python!Result(s, m, c)
BY Zenon DEF D!Python!Does, DP!Python!Does, D!Python!Answers, DP!Python!Answers,
           D!Python!Full, DP!Python!Full, D!Python!Position, DP!Python!Position,
           D!Python!Pinned, DP!Python!Pinned, D!Python!At, DP!Python!At,
           D!Python!Rotated, DP!Python!Rotated, D!Python!AddRight, DP!Python!AddRight,
           D!Python!AddLeft, DP!Python!AddLeft, D!Python!Result, DP!Python!Result,
           D!Python!Min, DP!Python!Min, D!Python!Max, DP!Python!Max, D!Python!Front,
           DP!Python!Front, D!Python!Last, DP!Python!Last, D!Python!RemoveAt,
           DP!Python!RemoveAt, D!Python!InsertAt, DP!Python!InsertAt, D!Python!Reverse,
           DP!Python!Reverse, D!Python!Cardinality, DP!Python!Cardinality

LEMMA SameDeques ==
  /\ D!DequeAssumption => DP!DequeAssumption
  /\ D!Init => DP!Init
  /\ D!Next => DP!Next
  /\ DP!TypeOK => D!TypeOK
  /\ DP!DequeIsPython => D!DequeIsPython
<1>1. D!Calls = DP!Calls
  BY DEF D!Calls, DP!Calls
<1>2. \A d : D!Contents(d) = DP!Contents(d)
  BY DEF D!Contents, DP!Contents, D!Ring, DP!Ring
<1>3. D!DequeAssumption => DP!DequeAssumption
  BY DEF D!DequeAssumption, DP!DequeAssumption
<1>4. D!Init => DP!Init
  BY DEF D!Init, DP!Init, D!Fresh, DP!Fresh, D!Buffer, DP!Buffer
<1>5. D!Next => DP!Next
  BY <1>1, SameCalls, Zenon DEF D!Next, DP!Next
<1>6. DP!TypeOK => D!TypeOK
  BY <1>2 DEF D!TypeOK, DP!TypeOK, D!Range, DP!Range
<1>7. DP!DequeIsPython => D!DequeIsPython
  BY <1>1, <1>2, SameCalls, SamePython, Zenon DEF D!DequeIsPython, DP!DequeIsPython
<1> QED BY <1>3, <1>4, <1>5, <1>6, <1>7

LEMMA RunsDeque == LanguageSpec => DP!Spec
<1>1. LanguageInit => DP!Init
  BY SameDeques DEF LanguageInit
<1>2. [LanguageNext]_allVars => [DP!Next]_deque
  BY SameDeques DEF LanguageNext, allVars
<1> QED BY <1>1, <1>2, PTL DEF LanguageSpec, DP!Spec, allVars

(* The window stays inside the ring and within maxlen, and shows only values  *)
(* that were stored.                                                         *)
THEOREM DequeTyped == LanguageSpec => [](using = "deque" => D!TypeOK)
<1>1. LanguageSpec => []DP!TypeOK
  BY LanguageAssumption, SameDeques, RunsDeque, DP!RingIsWhole, PTL
<1>2. DP!TypeOK => (using = "deque" => D!TypeOK)
  BY SameDeques
<1> QED BY <1>1, <1>2, PTL

(* Growth, eviction at maxlen, a wrapped head, the shorter side of a deletion *)
(* or an insertion, a rotation through the head or through the window: each   *)
(* call leaves in the ring the items Python's bounded sequence leaves, and    *)
(* answers the same.                                                         *)
THEOREM DequeAsPython == LanguageSpec => [](using = "deque" => D!DequeIsPython)
<1>1. LanguageSpec => []DP!DequeIsPython
  BY LanguageAssumption, SameDeques, RunsDeque, DP!RingAsPython, PTL
<1>2. DP!DequeIsPython => (using = "deque" => D!DequeIsPython)
  BY SameDeques
<1> QED BY <1>1, <1>2, PTL
----------------------------------------------------------------------------
(* 4. Lists, in the same way.                                                *)
LEMMA SameListCalls ==
  ASSUME NEW l, NEW c
  PROVE  L!Result(l, c) = LP!Result(l, c)
BY Zenon DEF L!Contents, LP!Contents, L!Fresh, LP!Fresh, L!Grow, LP!Grow, L!CapacityFor,
           LP!CapacityFor, L!WithRoom, LP!WithRoom, L!Window, LP!Window, L!Pushed,
           LP!Pushed, L!Inserted, LP!Inserted, L!Removed, LP!Removed, L!Reversed,
           LP!Reversed, L!Extended, LP!Extended, L!Repeated, LP!Repeated,
           L!PositiveBound, LP!PositiveBound, L!NegativeBound, LP!NegativeBound,
           L!NormalizeSlice, LP!NormalizeSlice, L!StepIndices, LP!StepIndices,
           L!Selected, LP!Selected, L!Returns, LP!Returns, L!SliceAssigned,
           LP!SliceAssigned, L!StepAssigned, LP!StepAssigned, L!Kept, LP!Kept,
           L!SliceDeleted, LP!SliceDeleted, L!Actual, LP!Actual, L!Find, LP!Find, L!Done,
           LP!Done, L!Answers, LP!Answers, L!Get, LP!Get, L!Set, LP!Set, L!Pop, LP!Pop,
           L!Delete, LP!Delete, L!Insert, LP!Insert, L!Discard, LP!Discard, L!Index,
           LP!Index, L!Count, LP!Count, L!Clear, LP!Clear, L!Slice, LP!Slice, L!SetSlice,
           LP!SetSlice, L!DelSlice, LP!DelSlice, L!Calls, LP!Calls, L!Operand,
           LP!Operand, L!Result, LP!Result, L!Copies, LP!Copies, L!Swaps, LP!Swaps,
           L!Min, LP!Min, L!Max, LP!Max, L!Cardinality, LP!Cardinality

LEMMA SamePyList ==
  ASSUME NEW s, NEW c
  PROVE  L!Python!Result(s, c) = LP!Python!Result(s, c)
BY Zenon DEF L!Python!Does, LP!Python!Does, L!Python!Answers, LP!Python!Answers,
           L!Python!Position, LP!Python!Position, L!Python!At, LP!Python!At,
           L!Python!Low, LP!Python!Low, L!Python!High, LP!Python!High, L!Python!Clamped,
           LP!Python!Clamped, L!Python!First, LP!Python!First, L!Python!Past,
           LP!Python!Past, L!Python!Ordered, LP!Python!Ordered, L!Python!Selection,
           LP!Python!Selection, L!Python!Pick, LP!Python!Pick, L!Python!SliceSet,
           LP!Python!SliceSet, L!Python!Rest, LP!Python!Rest, L!Python!Times,
           LP!Python!Times, L!Python!Result, LP!Python!Result, L!Python!Min,
           LP!Python!Min, L!Python!Max, LP!Python!Max, L!Python!Cardinality,
           LP!Python!Cardinality, L!Python!Range, LP!Python!Range, L!Python!RemoveAt,
           LP!Python!RemoveAt, L!Python!InsertAt, LP!Python!InsertAt, L!Python!Reverse,
           LP!Python!Reverse

LEMMA SameLists ==
  /\ L!ListAssumption => LP!ListAssumption
  /\ L!Init => LP!Init
  /\ L!Next => LP!Next
  /\ LP!TypeOK => L!TypeOK
  /\ LP!ListIsPython => L!ListIsPython
<1>1. \A l : L!Returning(l) = LP!Returning(l)
  BY Zenon DEF L!Returning, LP!Returning, L!Returns, LP!Returns, L!NormalizeSlice, LP!NormalizeSlice,
           L!PositiveBound, LP!PositiveBound, L!NegativeBound, LP!NegativeBound,
           L!Min, LP!Min, L!Max, LP!Max, L!Calls, LP!Calls
<1>2. \A l : L!Contents(l) = LP!Contents(l)
  BY DEF L!Contents, LP!Contents
<1>3. \A l, c : L!Unchecked(l, c) <=> LP!Unchecked(l, c)
  BY Zenon DEF L!Unchecked, LP!Unchecked, L!Actual, LP!Actual
<1>4. L!ListAssumption => LP!ListAssumption
  BY DEF L!ListAssumption, LP!ListAssumption
<1>5. L!Init => LP!Init
  BY DEF L!Init, LP!Init, L!Fresh, LP!Fresh
<1>6. L!Next => LP!Next
  BY <1>1, SameListCalls, Zenon DEF L!Next, LP!Next
<1>7. LP!TypeOK => L!TypeOK
  BY <1>2 DEF L!TypeOK, LP!TypeOK, L!Range, LP!Range
<1>8. LP!ListIsPython => L!ListIsPython
  BY <1>1, <1>2, <1>3, SameListCalls, SamePyList, Zenon DEF L!ListIsPython, LP!ListIsPython
<1> QED BY <1>4, <1>5, <1>6, <1>7, <1>8

LEMMA RunsList == LanguageSpec => LP!Spec
<1>1. LanguageInit => LP!Init
  BY SameLists DEF LanguageInit
<1>2. [LanguageNext]_allVars => [LP!Next]_list
  BY SameLists DEF LanguageNext, allVars
<1> QED BY <1>1, <1>2, PTL DEF LanguageSpec, LP!Spec, allVars

(* A list shows only values that were stored in it: no slot a removal cleared *)
(* or the allocator left as it was.                                          *)
THEOREM ListTyped == LanguageSpec => [](using = "list" => L!TypeOK)
<1>1. LanguageSpec => []LP!TypeOK
  BY LanguageAssumption, SameLists, RunsList, LP!BufferIsWhole, PTL
<1>2. LP!TypeOK => (using = "list" => L!TypeOK)
  BY SameLists
<1> QED BY <1>1, <1>2, PTL

(* Each call on a list that checks its arguments leaves the items Python's   *)
(* leaves, and answers the same, whatever grew or moved.                     *)
THEOREM ListAsPython == LanguageSpec => [](using = "list" => L!ListIsPython)
<1>1. LanguageSpec => []LP!ListIsPython
  BY LanguageAssumption, SameLists, RunsList, LP!BufferAsPython, PTL
<1>2. LP!ListIsPython => (using = "list" => L!ListIsPython)
  BY SameLists
<1> QED BY <1>1, <1>2, PTL

(* Both sequences are Python's, call by call.                                *)
THEOREM SequencesAsPython == LanguageSpec => []SequencesArePython
BY DequeAsPython, ListAsPython, PTL DEF SequencesArePython
----------------------------------------------------------------------------
(* 5. The sort, in the same way.                                             *)
LEMMA SameSorts ==
  /\ T!TimsortAssumption => LP!Sort!TimsortAssumption
  /\ T!Init => LP!Sort!Init
  /\ T!Next => LP!Sort!Next
  /\ LP!Sort!TypeOK => T!TypeOK
  /\ LP!Sort!SortIsStable => T!SortIsStable
<1>1. T!TimsortAssumption => LP!Sort!TimsortAssumption
  BY DEF T!TimsortAssumption, LP!Sort!TimsortAssumption
<1>2. T!Init => LP!Sort!Init
  BY DEF T!Init, LP!Sort!Init, T!NoMerge, LP!Sort!NoMerge
<1>3. \A a, b : T!Less(a, b) <=> LP!Sort!Less(a, b)
  BY DEF T!Less, LP!Sort!Less
<1>4. T!Next => LP!Sort!Next
  BY Zenon DEF T!Next, LP!Sort!Next, T!Small, LP!Sort!Small, T!PushRun, LP!Sort!PushRun,
         T!Collapse, LP!Sort!Collapse, T!Collapsed, LP!Sort!Collapsed, T!Force,
         LP!Sort!Force, T!Forced, LP!Sort!Forced, T!StartMerge, LP!Sort!StartMerge,
         T!Compare, LP!Sort!Compare, T!EndMerge, LP!Sort!EndMerge, T!Comparing,
         LP!Sort!Comparing, T!Place, LP!Sort!Place, T!CollapseAt, LP!Sort!CollapseAt,
         T!ForceAt, LP!Sort!ForceAt, T!Top, LP!Sort!Top, T!CountRun, LP!Sort!CountRun,
         T!Flipped, LP!Sort!Flipped, T!ComputeMinRun, LP!Sort!ComputeMinRun,
         T!InsertionSort, LP!Sort!InsertionSort, T!Sunk, LP!Sort!Sunk, T!Less,
         LP!Sort!Less, T!Min, LP!Sort!Min, T!Max, LP!Sort!Max, T!InsertAt,
         LP!Sort!InsertAt, T!RemoveAt, LP!Sort!RemoveAt, T!NoMerge, LP!Sort!NoMerge
<1>5. LP!Sort!TypeOK => T!TypeOK
  BY <1>3, Zenon DEF T!TypeOK, LP!Sort!TypeOK, T!Ordered, LP!Sort!Ordered
<1>6. LP!Sort!SortIsStable => T!SortIsStable
  BY <1>3, Zenon DEF T!SortIsStable, LP!Sort!SortIsStable, T!Ids, LP!Sort!Ids
<1> QED BY <1>1, <1>2, <1>4, <1>5, <1>6

(* At every step of a sort the runs on the stack are adjacent and in stable   *)
(* order, and what a merge has placed comes first.                           *)
LEMMA RunsSort == LanguageSpec => [](using = "sort" => LP!SortInv)
<1>1. LanguageInit => (using = "sort" => LP!SortInv)
  BY LanguageAssumption, SameSorts, LP!SortInit DEF LanguageInit
<1>2. (using = "sort" => LP!SortInv) /\ [LanguageNext]_allVars => (using = "sort" => LP!SortInv)'
  <2> SUFFICES ASSUME using = "sort" => LP!SortInv, [LanguageNext]_allVars, using' = "sort"
               PROVE  LP!SortInv'
    OBVIOUS
  <2>1. using = "sort" /\ (LP!Sort!Next \/ UNCHANGED sortVars)
    BY SameSorts DEF LanguageNext, allVars
  <2>2. UNCHANGED sortVars => UNCHANGED LP!Sort!vars
    BY DEF sortVars, LP!Sort!vars
  <2>3. LP!Sort!TimsortAssumption
    BY LanguageAssumption, SameSorts
  <2> QED BY <2>1, <2>2, <2>3, LP!SortStep
<1> QED BY <1>1, <1>2, PTL DEF LanguageSpec, allVars

(* A sort leaves the elements it was given, in order, and those of equal keys *)
(* in the order they had, in reverse too: whatever runs it finds or forces,   *)
(* and whichever two it merges.                                              *)
THEOREM SortsStably == LanguageSpec => []SortIsStable
<1>1. (using = "sort" => LP!SortInv) => SortIsStable
  BY SameSorts, LP!SortedStably DEF SortIsStable
<1> QED BY <1>1, RunsSort, PTL
=============================================================================
