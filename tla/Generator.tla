----------------------------- MODULE Generator -----------------------------
(* Generator objects: runtime/src/generator.rs and the resume function the  *)
(* frontend lowers a generator body to (frontend-python/src/lower/          *)
(* generators.rs).                                                          *)
(*                                                                          *)
(* A body is any code that yields at points 1..Yields in any order, catches *)
(* what is raised in it or not, returns, raises, and calls the generators   *)
(* that are not running.  No function here guards a call on a running one.  *)
EXTENDS Naturals, SequencesExt

CONSTANTS Gens,    \* generator objects
          Yields,  \* yield expressions of a body
          Values,  \* what send() may send
          None     \* Python's None, one of them

GeneratorAssumption == Yields \in Nat \ {0} /\ None \in Values /\ None \notin Gens

VARIABLES
  state,      \* 0 before the first resume, k at yield k, U32Max when exhausted
  exhausted,
  closing,
  sent,       \* sent_value
  pending,    \* PENDING_THROW: the generator it is armed for, or None
  calls,      \* active calls of next, send, close and throw, innermost first
  finished,   \* history: the body returned, or an exception escaped it
  lost,       \* history: the exception was not thrown in by throw()
  ignored     \* history: the body yielded to close()

object == <<state, exhausted, closing, sent>>
vars == <<state, exhausted, closing, sent, pending, calls, finished, lost, ignored>>

U32Max == Yields + 2                       \* u32::MAX: no yield's number
Ops == {"next", "send", "close", "throw"}
Points == {"dispatch", "resume", "thrown", "body", "cleanup", "end"}
NotSet == "not set"

Init == /\ state = [g \in Gens |-> 0]
        /\ exhausted = [g \in Gens |-> FALSE]
        /\ closing = [g \in Gens |-> FALSE]
        /\ sent = [g \in Gens |-> None]
        /\ pending = None
        /\ calls = <<>>
        /\ finished = [g \in Gens |-> FALSE]
        /\ lost = [g \in Gens |-> FALSE]
        /\ ignored = [g \in Gens |-> FALSE]
----------------------------------------------------------------------------
(* The four calls, up to __pyaot_generator_resume.  They are made by the    *)
(* program or by the body of another generator; an exception they raise at  *)
(* once goes to that caller, who may raise anyhow.                          *)
Active(g) == \E i \in DOMAIN calls : calls[i].gen = g
CanCall == calls # <<>> => Head(calls).point \in {"body", "cleanup"}
Call(g, op) == /\ CanCall /\ ~Active(g)
               /\ calls' = Cons([gen |-> g, op |-> op, point |-> "dispatch",
                                 got |-> NotSet], calls)

CallNext(g) ==
  /\ ~exhausted[g]
  /\ Call(g, "next")
  /\ UNCHANGED <<object, pending, finished, lost, ignored>>

Send(g, v) ==
  /\ ~exhausted[g]
  /\ state[g] = 0 => v = None
  /\ Call(g, "send")
  /\ sent' = [sent EXCEPT ![g] = v]
  /\ UNCHANGED <<state, exhausted, closing, pending, finished, lost, ignored>>

CloseUnstarted(g) ==   \* mutant: a generator that never ran is resumed
  /\ ~exhausted[g]
  /\ Call(g, "close")
  /\ closing' = [closing EXCEPT ![g] = TRUE]
  /\ UNCHANGED <<state, exhausted, sent, pending, finished, lost, ignored>>

Close(g) ==
  /\ ~exhausted[g] /\ state[g] # 0
  /\ Call(g, "close")
  /\ closing' = [closing EXCEPT ![g] = TRUE]
  /\ UNCHANGED <<state, exhausted, sent, pending, finished, lost, ignored>>

ThrowUnstarted(g) ==   \* mutant: so is one that something is thrown into
  /\ ~exhausted[g]
  /\ Call(g, "throw")
  /\ pending' = g
  /\ UNCHANGED <<object, finished, lost, ignored>>

Throw(g) ==
  /\ ~exhausted[g] /\ state[g] # 0
  /\ Call(g, "throw")
  /\ pending' = g
  /\ UNCHANGED <<object, finished, lost, ignored>>

(* close() or throw() of a generator that never started.                    *)
FinishUnstarted(g) ==
  /\ CanCall /\ ~Active(g)
  /\ ~exhausted[g] /\ state[g] = 0
  /\ exhausted' = [exhausted EXCEPT ![g] = TRUE]
  /\ finished' = [finished EXCEPT ![g] = TRUE]
  /\ UNCHANGED <<state, closing, sent, pending, calls, lost, ignored>>

(* Any call on a finished one only reports that it is finished.             *)
CallExhausted(g) == /\ CanCall /\ ~Active(g)
                    /\ exhausted[g]
                    /\ UNCHANGED vars
----------------------------------------------------------------------------
(* The resume function of the innermost call.                               *)
At(point) == calls # <<>> /\ Head(calls).point = point
Me == Head(calls).gen
Goto(point) == calls' = [calls EXCEPT ![1].point = point]

(* build_gen_dispatch: start, the resume block of a yield, or exhaust.      *)
Dispatch ==
  /\ At("dispatch")
  /\ Goto(CASE state[Me] = 0 -> "body"
            [] state[Me] \in 1..Yields -> "resume"
            [] OTHER -> "end")
  /\ UNCHANGED <<object, pending, finished, lost, ignored>>

(* A resume block asks rt_generator_is_closing first: raise what was thrown *)
(* in, take the close path, or read the sent value and continue.            *)
Resume ==
  /\ At("resume")
  /\ \/ /\ pending = Me
        /\ pending' = None
        /\ exhausted' = [exhausted EXCEPT ![Me] = TRUE]
        /\ Goto("thrown")
     \/ /\ pending # Me /\ closing[Me]
        /\ Goto("cleanup")
        /\ UNCHANGED <<pending, exhausted>>
     \/ /\ pending # Me /\ ~closing[Me]
        /\ calls' = [calls EXCEPT ![1].point = "body", ![1].got = sent[Me]]
        /\ UNCHANGED <<pending, exhausted>>
  /\ UNCHANGED <<state, closing, sent, finished, lost, ignored>>

(* The body catches what was thrown in, or a jump out of a finally drops it. *)
CatchThrown ==
  /\ At("thrown")
  /\ Goto("body")
  /\ UNCHANGED <<object, pending, finished, lost, ignored>>

(* The close path is the finally blocks around the yield, lowered again     *)
(* under the handlers and loops outside each: the body goes on where an     *)
(* except catches what one raised, or where a break or continue leads.      *)
LeaveCleanup ==
  /\ At("cleanup")
  /\ Goto("body")
  /\ UNCHANGED <<object, pending, finished, lost, ignored>>

(* Control is the caller's again; throw() disarms the exception first.      *)
CallReturns ==
  /\ calls' = Tail(calls)
  /\ pending' = IF Head(calls).op = "throw" THEN None ELSE pending

(* SetState(k), return the value.                                           *)
SetStateNext(k) ==   \* mutant: the number after the yield's
  /\ state' = [state EXCEPT ![Me] = k + 1]
  /\ exhausted' = [exhausted EXCEPT ![Me] = @ /\ k = U32Max]
SetStateOnly(k) == state' = [state EXCEPT ![Me] = k] /\ UNCHANGED exhausted  \* mutant

SetState(k) ==
  /\ state' = [state EXCEPT ![Me] = k]
  /\ exhausted' = [exhausted EXCEPT ![Me] = @ /\ k = U32Max]

Yield(k) ==
  /\ At("body") /\ Head(calls).op # "close" /\ k \in 1..Yields
  /\ SetState(k)
  /\ CallReturns
  /\ UNCHANGED <<closing, sent, finished, lost, ignored>>

(* close() finds the generator suspended again: it raises RuntimeError to   *)
(* its caller, before the line that takes closing back.                     *)
IgnoreClose(k) ==
  /\ At("body") /\ Head(calls).op = "close" /\ k \in 1..Yields
  /\ SetState(k)
  /\ CallReturns
  /\ ignored' = [ignored EXCEPT ![Me] = TRUE]
  /\ UNCHANGED <<closing, sent, finished, lost>>

(* emit_gen_exhaust: the end of the body or of the close path, or the       *)
(* dispatcher's default.                                                    *)
SetExhausted ==
  /\ exhausted' = [exhausted EXCEPT ![Me] = TRUE]
  /\ state' = [state EXCEPT ![Me] = U32Max]

EndCloseNot == UNCHANGED closing   \* mutant: close() leaves the flag up
\* What close() does once its generator is exhausted.
EndClose == closing' = [closing EXCEPT ![Me] = @ /\ Head(calls).op # "close"]

Return ==
  /\ calls # <<>> /\ Head(calls).point \in {"body", "cleanup", "end"}
  /\ SetExhausted
  /\ CallReturns
  /\ EndClose
  /\ finished' = [finished EXCEPT ![Me] = TRUE]
  /\ UNCHANGED <<sent, lost, ignored>>

(* An exception leaves the body: it unwinds the call too, past its end, to  *)
(* whoever made it.                                                         *)
Escape ==
  /\ calls # <<>> /\ Head(calls).point \in {"body", "cleanup", "thrown"}
  /\ calls' = Tail(calls)
  /\ finished' = [finished EXCEPT ![Me] = TRUE]
  /\ lost' = [lost EXCEPT ![Me] = @ \/ Head(calls).op # "throw"]
  /\ UNCHANGED <<object, pending, ignored>>

Next == \/ \E g \in Gens : \/ CallNext(g) \/ Close(g) \/ Throw(g) \/ FinishUnstarted(g)
                           \/ CallExhausted(g)
                           \/ \E v \in Values : Send(g, v)
        \/ Dispatch \/ Resume \/ CatchThrown \/ LeaveCleanup
        \/ \E k \in 1..Yields : Yield(k) \/ IgnoreClose(k)
        \/ Return \/ Escape

Spec == Init /\ [][Next]_vars
----------------------------------------------------------------------------
TypeOK ==
  /\ state \in [Gens -> 0..Yields \cup {U32Max}]
  /\ exhausted \in [Gens -> BOOLEAN]
  /\ closing \in [Gens -> BOOLEAN]
  /\ sent \in [Gens -> Values]
  /\ pending \in Gens \cup {None}
  /\ calls \in Seq([gen : Gens, op : Ops, point : Points, got : Values \cup {NotSet}])
  /\ finished \in [Gens -> BOOLEAN]
  /\ lost \in [Gens -> BOOLEAN]
  /\ ignored \in [Gens -> BOOLEAN]

(* A finished generator is never resumed: its body does not run again.      *)
NeverResumed(g) == finished[g] => ~Active(g)
FinishedNeverResumed == \A g \in Gens : NeverResumed(g)

(* So it is for a generator that returned, was closed, or was finished by   *)
(* an exception thrown into it, through the provisional exhausted flag that *)
(* set_state takes back; what is left is an exception of the body's own.    *)
FinishedUnlessRaised ==
  \A g \in Gens : ~lost[g] => /\ NeverResumed(g)
                              /\ finished[g] => exhausted[g]
                              /\ exhausted[g] /\ ~Active(g) => finished[g]

(* The exception armed by throw() is raised in the generator it was thrown  *)
(* into, before its body runs, whichever generators call each other; once   *)
(* that is done no exception is left armed.                                 *)
ThrowDelivered ==
  pending # None => /\ At("dispatch") \/ At("resume")
                    /\ Head(calls).op = "throw" /\ Me = pending

(* Outside close() the closing flag is up, and the next resume takes the    *)
(* close path, only of a generator that yielded to a close() or whose body  *)
(* raised: after a close() that returned to its caller it is down.          *)
ClosingScoped ==
  \A g \in Gens : closing[g] /\ ~lost[g] /\ ~ignored[g] =>
    \E i \in DOMAIN calls : calls[i].gen = g /\ calls[i].op = "close"

(* next(g) is g.send(None).                                                 *)
NextSendsNone ==
  \A i \in DOMAIN calls : calls[i].op = "next" => calls[i].got \in {None, NotSet}
=============================================================================
