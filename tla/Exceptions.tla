----------------------------- MODULE Exceptions -----------------------------
(* Exceptions: the thread-local state of runtime/src/exceptions/ and the    *)
(* runtime calls that compiled code makes around it, as the frontend lowers *)
(* raise, try, finally and with (frontend-python/src/lower/).               *)
(*                                                                          *)
(* The native stack is ctl, the active frames and blocks, innermost first;  *)
(* a block protects what is above it through the unwind table.  A deep      *)
(* clone is the same value: an ExceptionObject is a record here.  Messages, *)
(* tracebacks and all of a context chain but its head are left out.         *)
EXTENDS Naturals, SequencesExt

CONSTANTS MaxExc,    \* bound: raise statements executed
          MaxInst,   \* bound: exception instances allocated
          MaxDepth   \* bound: frames and blocks

ExceptionsAssumption == {MaxExc, MaxInst, MaxDepth} \subseteq Nat

VARIABLES
  ctl,             \* frames and blocks
  cur,             \* current_exception
  handling,        \* handling_stack, innermost first
  pendingCause,    \* pending_cause: the statement that armed it, 0 for None
  pendingSuppress, \* pending_suppress
  pc,              \* program running, raise armed, landed, re-raising, exited
  stmt,            \* the armed raise statement
  shadow,          \* depths of the frames on the GC's shadow stack
  bound,           \* exception objects the program holds in variables
  nextStmt,        \* raise statements are numbered
  nextInst,        \* so are instances
  boundary         \* history: a constructor raised while its raise was armed

state == <<cur, handling, pendingCause, pendingSuppress>>
vars == <<ctl, cur, handling, pendingCause, pendingSuppress, pc, stmt, shadow,
          bound, nextStmt, nextInst, boundary>>

(* An ExceptionObject: the Python exception it is (a history variable),     *)
(* its instance (0 is null), its context, cause and suppress_context, and   *)
(* the statement that raised it (history).                                  *)
Froms == {"nothing", "cause", "none"}
Excs == [id : 1..MaxExc, inst : 0..MaxInst, ctx : 0..MaxExc,
         cause : 0..MaxExc, suppress : BOOLEAN, stmt : 1..MaxExc, from : Froms]
NoExc == [id |-> 0]

Kinds == {"leaf", "frame", "ctor", "try", "cleanup", "handler"}
Block(k) == [kind |-> k, exc |-> 0, from |-> "nothing"]
Protects(b) == b.kind \in {"try", "cleanup", "handler"}
Rooted(b) == b.kind \in {"frame", "ctor"}

NoStmt == [id |-> 0]
NewTarget == <<0, 0>>

Init == /\ ctl = <<>>
        /\ cur = NoExc /\ handling = <<>>
        /\ pendingCause = 0 /\ pendingSuppress = FALSE
        /\ pc = "run" /\ stmt = NoStmt
        /\ shadow = {} /\ bound = {}
        /\ nextStmt = 1 /\ nextInst = 1
        /\ boundary = FALSE
-----------------------------------------------------------------------------
(* The runtime.                                                             *)

(* ExceptionState::handled: the top entry, which may be None.               *)
Handled == IF handling = <<>> THEN NoExc ELSE Head(handling)

(* ExceptionState::new_context *)
NewContext(inst) ==
  IF Handled = NoExc \/ (inst # 0 /\ Handled.inst = inst) THEN 0 ELSE Handled.id

(* A raise builder, with apply_pending.                                     *)
Built(id, inst, s, from) ==
  [id |-> id, inst |-> inst, ctx |-> NewContext(inst), cause |-> pendingCause,
   suppress |-> pendingSuppress \/ pendingCause # 0, stmt |-> s, from |-> from]

TakePendingNot == UNCHANGED <<pendingCause, pendingSuppress>>  \* mutant
TakePending == pendingCause' = 0 /\ pendingSuppress' = FALSE

EndHandling == handling' = IF handling = <<>> THEN <<>> ELSE Tail(handling)

(* gc_pop, and dispatch_existing_exception from a native stack c with the   *)
(* shadow frames at depths d: find_handler walks to the first frame or      *)
(* block that protects, unwind_below drops the shadow frames deeper than    *)
(* it, resume jumps; without a handler the process exits.                   *)
PopFrame(d) == {x \in d : \E y \in d : x < y}
UnwindBelowNothing(d, depth) == d   \* mutant
UnwindBelow(d, depth) == {x \in d : x <= depth}

FindHandler(c) == CHOOSE i \in DOMAIN c : /\ Protects(c[i])
                                          /\ \A j \in 1..i - 1 : ~Protects(c[j])
Dispatch(c, d) ==
  IF \E i \in DOMAIN c : Protects(c[i])
    THEN /\ pc' = "landed"
         /\ ctl' = SubSeq(c, FindHandler(c), Len(c))
         /\ shadow' = UnwindBelow(d, Len(c) - FindHandler(c) + 1)
    ELSE /\ pc' = "exit"
         /\ ctl' = c /\ shadow' = d

(* A raise statement inside a constructor whose own raise is armed: the     *)
(* case stage_raise_target_operands documents as a boundary.                *)
InArmedCtor == \E i \in DOMAIN ctl : ctl[i].kind = "ctor" /\ ctl[i].from # "nothing"
MarkBoundary == boundary' = (boundary \/ InArmedCtor)
-----------------------------------------------------------------------------
(* Compiled code: blocks and calls.  A prologue pushes a shadow frame when  *)
(* the function has roots, the epilogue pops the top one.                   *)
Running == pc = "run"

Enter(k) ==
  /\ Running /\ Len(ctl) < MaxDepth
  /\ k \in {"leaf", "frame", "try", "cleanup"}
  /\ ctl' = Cons(Block(k), ctl)
  /\ shadow' = IF Rooted(Block(k)) THEN shadow \cup {Len(ctl) + 1} ELSE shadow
  /\ UNCHANGED <<state, pc, stmt, bound, nextStmt, nextInst, boundary>>

Return ==
  /\ Running /\ ctl # <<>>
  /\ Head(ctl).kind \in {"leaf", "frame"}
  /\ ctl' = Tail(ctl)
  /\ shadow' = IF Rooted(Head(ctl)) THEN PopFrame(shadow) ELSE shadow
  /\ UNCHANGED <<state, pc, stmt, bound, nextStmt, nextInst, boundary>>

(* Control leaves a block, at its end or by return, break or continue       *)
(* (emit_exit_cleanups, innermost first): nothing to do for a protected     *)
(* body, EndHandling for a handler.                                         *)
LeaveBody ==
  /\ Running /\ ctl # <<>>
  /\ Head(ctl).kind \in {"try", "cleanup"}
  /\ ctl' = Tail(ctl)
  /\ UNCHANGED <<state, pc, stmt, shadow, bound, nextStmt, nextInst, boundary>>

LeaveHandler ==
  /\ Running /\ ctl # <<>>
  /\ Head(ctl).kind = "handler"
  /\ ctl' = Tail(ctl)
  /\ EndHandling
  /\ UNCHANGED <<cur, pendingCause, pendingSuppress, pc, stmt, shadow, bound,
                 nextStmt, nextInst, boundary>>

(* raise TARGET [from CAUSE]: the arm, then the builder.  The target is a   *)
(* new exception or one a variable holds.  (A cause that is no exception    *)
(* raises TypeError before arming: a raise of its own.)                     *)
Arm(target, from) ==
  /\ Running /\ nextStmt <= MaxExc
  /\ stmt' = [id |-> nextStmt, target |-> target, from |-> from]
  /\ nextStmt' = nextStmt + 1
  /\ pendingCause' = IF from = "cause" THEN nextStmt ELSE pendingCause
  /\ pendingSuppress' = (pendingSuppress \/ from = "none")
  /\ pc' = "armed"
  /\ MarkBoundary
  /\ UNCHANGED <<ctl, cur, handling, shadow, bound, nextInst>>

(* rt_exc_raise and rt_exc_raise_stdlib: no instance yet.                   *)
RaiseBuiltin ==
  /\ pc = "armed" /\ stmt.target = NewTarget
  /\ cur' = Built(stmt.id, 0, stmt.id, stmt.from)
  /\ TakePending
  /\ Dispatch(ctl, shadow)
  /\ stmt' = NoStmt
  /\ UNCHANGED <<handling, bound, nextStmt, nextInst, boundary>>

(* rt_exc_raise_instance: raise e.                                          *)
RaiseInstance ==
  /\ pc = "armed" /\ stmt.target # NewTarget
  /\ cur' = Built(stmt.target[1], stmt.target[2], stmt.id, stmt.from)
  /\ TakePending
  /\ Dispatch(ctl, shadow)
  /\ stmt' = NoStmt
  /\ UNCHANGED <<handling, bound, nextStmt, nextInst, boundary>>

(* raise C(...) of a user class: lower_raise calls the constructor between  *)
(* the arm and rt_exc_raise_custom_with_instance.                           *)
Construct ==
  /\ pc = "armed" /\ stmt.target = NewTarget
  /\ Len(ctl) < MaxDepth
  /\ ctl' = Cons([kind |-> "ctor", exc |-> stmt.id, from |-> stmt.from], ctl)
  /\ shadow' = shadow \cup {Len(ctl) + 1}
  /\ pc' = "run" /\ stmt' = NoStmt
  /\ UNCHANGED <<state, bound, nextStmt, nextInst, boundary>>

RaiseCustom ==
  /\ Running /\ ctl # <<>> /\ nextInst <= MaxInst
  /\ Head(ctl).kind = "ctor"
  /\ cur' = Built(Head(ctl).exc, nextInst, Head(ctl).exc, Head(ctl).from)
  /\ nextInst' = nextInst + 1
  /\ TakePending
  /\ Dispatch(Tail(ctl), PopFrame(shadow))
  /\ UNCHANGED <<handling, stmt, bound, nextStmt, boundary>>

(* rt_exc_reraise: a bare raise, or the propagation of the exception in     *)
(* flight.  A handled exception is re-raised as a copy.                     *)
ReraiseHandled ==   \* mutant: the handled exception before the one in flight
  /\ pc \in {"run", "reraise"}
  /\ cur # NoExc \/ Handled # NoExc
  /\ cur' = IF Handled # NoExc THEN Handled ELSE cur
  /\ Dispatch(ctl, shadow)
  /\ MarkBoundary
  /\ UNCHANGED <<handling, pendingCause, pendingSuppress, stmt, bound, nextStmt,
                 nextInst>>

Reraise ==
  /\ pc \in {"run", "reraise"}
  /\ cur # NoExc \/ Handled # NoExc
  /\ cur' = IF cur = NoExc THEN Handled ELSE cur
  /\ Dispatch(ctl, shadow)
  /\ MarkBoundary
  /\ UNCHANGED <<handling, pendingCause, pendingSuppress, stmt, bound, nextStmt,
                 nextInst>>

(* Nothing to re-raise: raise_runtime_error.                                *)
ReraiseNothing ==
  /\ pc \in {"run", "reraise"}
  /\ cur = NoExc /\ Handled = NoExc
  /\ nextStmt <= MaxExc
  /\ cur' = Built(nextStmt, 0, nextStmt, "nothing")
  /\ nextStmt' = nextStmt + 1
  /\ TakePending
  /\ Dispatch(ctl, shadow)
  /\ MarkBoundary
  /\ UNCHANGED <<handling, stmt, bound, nextInst>>
-----------------------------------------------------------------------------
(* Landing pads.  A clause that matches, or the exceptional edge of finally *)
(* and with, may take the instance (rt_exc_get_current allocates it on      *)
(* first use), then rt_exc_start_handling parks the exception.              *)
StartHandling(exc) == handling' = Cons(exc, handling) /\ cur' = NoExc

Landed(kinds) == pc = "landed" /\ Head(ctl).kind \in kinds
HandlerBlock == [kind |-> "handler", exc |-> cur.id, from |-> "nothing"]

CatchUnnamed ==
  /\ Landed({"try", "cleanup"})
  /\ StartHandling(cur)
  /\ ctl' = Cons(HandlerBlock, Tail(ctl))
  /\ pc' = "run"
  /\ UNCHANGED <<pendingCause, pendingSuppress, stmt, shadow, bound, nextStmt,
                 nextInst, boundary>>

CatchNamedNull ==   \* mutant: the instance is not created
  /\ Landed({"try", "cleanup"})
  /\ bound' = bound \cup {<<cur.id, cur.inst>>}
  /\ StartHandling(cur)
  /\ ctl' = Cons(HandlerBlock, Tail(ctl))
  /\ pc' = "run"
  /\ UNCHANGED <<pendingCause, pendingSuppress, stmt, shadow, nextStmt, nextInst,
                 boundary>>

CatchNamed ==
  /\ Landed({"try", "cleanup"})
  /\ cur.inst # 0 \/ nextInst <= MaxInst
  /\ LET inst == IF cur.inst = 0 THEN nextInst ELSE cur.inst
     IN /\ nextInst' = IF cur.inst = 0 THEN nextInst + 1 ELSE nextInst
        /\ bound' = bound \cup {<<cur.id, inst>>}
        /\ StartHandling([cur EXCEPT !.inst = inst])
  /\ ctl' = Cons(HandlerBlock, Tail(ctl))
  /\ pc' = "run"
  /\ UNCHANGED <<pendingCause, pendingSuppress, stmt, shadow, nextStmt, boundary>>

(* No clause matches: the tail of the handler chain re-raises.              *)
NoMatch ==
  /\ Landed({"try"})
  /\ ctl' = Tail(ctl)
  /\ pc' = "reraise"
  /\ UNCHANGED <<state, stmt, shadow, bound, nextStmt, nextInst, boundary>>

(* The cleanup pad of a handler's body: EndHandling, then Reraise.          *)
CleanupPadKeeps ==  \* mutant: the pad does not pop the handling stack
  /\ Landed({"handler"})
  /\ ctl' = Tail(ctl)
  /\ pc' = "reraise"
  /\ UNCHANGED <<state, stmt, shadow, bound, nextStmt, nextInst, boundary>>

CleanupPad ==
  /\ Landed({"handler"})
  /\ EndHandling
  /\ ctl' = Tail(ctl)
  /\ pc' = "reraise"
  /\ UNCHANGED <<cur, pendingCause, pendingSuppress, stmt, shadow, bound,
                 nextStmt, nextInst, boundary>>

Next ==
  \/ \E k \in Kinds : Enter(k)
  \/ Return \/ LeaveBody \/ LeaveHandler
  \/ \E target \in bound \cup {NewTarget}, from \in Froms : Arm(target, from)
  \/ RaiseBuiltin \/ RaiseInstance \/ Construct \/ RaiseCustom
  \/ Reraise \/ ReraiseNothing
  \/ CatchUnnamed \/ CatchNamed \/ NoMatch \/ CleanupPad

Spec == Init /\ [][Next]_vars
-----------------------------------------------------------------------------
Blocks == [kind : Kinds, exc : 0..MaxExc, from : Froms]
TypeOK ==
  /\ ctl \in Seq(Blocks)
  /\ cur \in Excs \cup {NoExc}
  /\ handling \in Seq(Excs \cup {NoExc})
  /\ pendingCause \in 0..MaxExc /\ pendingSuppress \in BOOLEAN
  /\ pc \in {"run", "armed", "landed", "reraise", "exit"}
  /\ shadow \subseteq 1..MaxDepth
  /\ bound \subseteq (1..MaxExc) \X (1..MaxInst)
  /\ nextStmt \in 1..MaxExc + 1 /\ nextInst \in 1..MaxInst + 1
  /\ boundary \in BOOLEAN

(* The thread-local stack of handled exceptions is the one the program text *)
(* nests: whichever way blocks are left, its entries are the exceptions of  *)
(* the active handlers, innermost first, none of them None; and while the   *)
(* program runs no exception is left in flight.                             *)
IsHandler(b) == b.kind = "handler"
Lists(hs, c) == \E pos \in [DOMAIN hs -> DOMAIN c] :
  /\ \A i, j \in DOMAIN hs : i < j => pos[i] < pos[j]
  /\ \A p \in DOMAIN c : IsHandler(c[p]) <=> \E i \in DOMAIN hs : pos[i] = p
  /\ \A i \in DOMAIN hs : hs[i].id = c[pos[i]].exc
HandlingMatches ==
  /\ Lists(handling, ctl)
  /\ (cur = NoExc) <=> pc \in {"run", "armed"}

(* The GC's shadow stack has a frame for each active function that pushed   *)
(* one, however many an exception abandoned, and none that is gone.         *)
ShadowMatches ==
  pc # "exit" => shadow = {Len(ctl) - i + 1 : i \in {j \in DOMAIN ctl : Rooted(ctl[j])}}

(* Blocks and exceptions behave as Python's: a finally or with is never     *)
(* skipped, a bare raise is the innermost handler's exception, and what is  *)
(* caught is what was raised.                                               *)
Py == INSTANCE PyExc WITH
        Ids <- 1..MaxExc,
        blocks <- [i \in DOMAIN ctl |->
                     [kind |-> IF ctl[i].kind \in {"leaf", "frame", "ctor"}
                                 THEN "call" ELSE ctl[i].kind,
                      exc |-> IF IsHandler(ctl[i]) THEN ctl[i].exc ELSE 0]],
        raising <- cur.id,
        bound <- {b[1] : b \in bound}
ImplementsPython == Py!Spec

(* Every exception in flight carries the cause, or the from None, of the    *)
(* statement that raised it and of no other, and nothing stays armed once   *)
(* it is raised.                                                            *)
OwnCause(e) == /\ e.cause = (IF e.from = "cause" THEN e.stmt ELSE 0)
               /\ e.suppress = (e.from # "nothing")
CauseOwned == pc = "landed" => OwnCause(cur)

(* CauseOwned as long as no constructor of an exception raises while the    *)
(* raise it is called for is armed.                                         *)
CauseOwnedToBoundary == boundary \/ CauseOwned

(* An exception is never its own context: re-raising the handled one, by    *)
(* name or not, does not chain it to itself (ExceptionState::new_context).  *)
NotOwnContext == cur # NoExc => cur.ctx # cur.id
=============================================================================
