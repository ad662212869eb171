------------------------------ MODULE Classes ------------------------------
(***************************************************************************)
(* User classes, from the class statements of a program to what a call     *)
(* reaches at run time.  semantics linearizes every class (C3) and lays     *)
(* out its fields base-first; lowering plans runtime-class dispatchers and  *)
(* picks, per call site, a direct call, the vtable or a dispatcher; the     *)
(* start-up code registers parents and ancestors for isinstance/except.     *)
(*                                                                         *)
(* A class is its position in the source, 1, 2, ...; a base is an earlier   *)
(* class.  One member name "m", two calling conventions of it ("p", "q"),   *)
(* two field names and two builtin exceptions are enough to tell every      *)
(* decision apart.  A theme says which of them the bodies of one program    *)
(* use; bounds: MaxClasses classes (MaxBare when no body says anything).    *)
(***************************************************************************)
EXTENDS Naturals, Sequences, SequencesExt, TLC

CONSTANTS MaxClasses, MaxBare

ASSUME ClassesAssumption == MaxClasses \in Nat /\ MaxBare \in Nat

VARIABLES
  status,     \* "source", "build", "ready", "mro_error" or "layout_error"
  theme,      \* what the class bodies of this program declare
  bases,      \* class -> sequence of its user base classes
  body,       \* class -> its own method, own field and builtin exception bases
  nested,     \* classes defined inside a module-level if: numbered last
  mro,        \* class -> C3 linearization, the class itself first
  queue,      \* classes still to build, base-first
  table       \* class -> resolved layout and builtin exception base

vars == <<status, theme, bases, body, nested, mro, queue, table>>

Classes == DOMAIN bases
Upto(n) == [i \in 1..n |-> i]
First(s, Test(_)) == LET i == SelectInSeq(s, Test) IN IF i = 0 THEN 0 ELSE s[i]

\* Builtin exception tags are class ids too; 255 stands for no class.
Exception == 100
KeyError == 101
ValueError == 102
Builtin == {Exception, KeyError, ValueError}
NoParent == 255

Blank == [method |-> "none", field |-> "none", exc |-> <<>>]
Bodies ==
  [bare    |-> {Blank},
   methods |-> {[Blank EXCEPT !.method = a] : a \in {"none", "p", "q"}},
   fields  |-> {[Blank EXCEPT !.field = f] : f \in {"none", "x", "y"}},
   excs    |-> {[Blank EXCEPT !.exc = e] : e \in
                 {<<>>, <<KeyError>>, <<KeyError, ValueError>>}}]

Limit == IF theme = "bare" THEN MaxBare ELSE MaxClasses
\* A base named twice, always refused, is left to the bare programs.
BaseLists == {bs \in UNION {[1..n -> Classes] : n \in 0..2} :
                theme = "bare" \/ IsInjective(bs)}

Init ==
  /\ status = "source" /\ theme \in DOMAIN Bodies
  /\ bases = <<>> /\ body = <<>> /\ nested = {} /\ mro = <<>> /\ queue = <<>>
  /\ table = <<>>

\* A class statement, at the top level or inside an if (one nested class per
\* program, not the last one: enough to give a base a higher id than its subclass).
Declare ==
  /\ status = "source" /\ Len(bases) < Limit
  /\ \E bs \in BaseLists, b \in Bodies[theme], inner \in BOOLEAN :
       /\ inner => theme = "fields" /\ nested = {} /\ Len(bases) + 1 < Limit
       /\ bases' = Append(bases, bs) /\ body' = Append(body, b)
       /\ nested' = IF inner THEN nested \cup {Len(bases) + 1} ELSE nested
  /\ UNCHANGED <<status, theme, mro, queue, table>>

----------------------------------------------------------------------------
(* C3: L[C] = C + merge(L[B1], ..., L[Bn], [B1, ..., Bn]).                  *)

\* Mutant: the first remaining head is taken even from another one's tail.
MergeStepFirst(m) ==
  LET live == SelectSeq(m.seqs, LAMBDA s : s # <<>>)
  IN  IF live = <<>> THEN m
      ELSE LET head == Head(live[1])
           IN  [m EXCEPT !.out = Append(@, head),
                         !.seqs = [i \in DOMAIN live |-> SelectSeq(live[i], LAMBDA c : c # head)]]
MergeStep(m) ==
  LET live == SelectSeq(m.seqs, LAMBDA s : s # <<>>)
      Good(s) == \A t \in Range(live) : ~Contains(Tail(t), Head(s))
      at == SelectInSeq(live, Good)
  IN  IF ~m.ok \/ live = <<>> THEN m
      ELSE IF at = 0 THEN [m EXCEPT !.ok = FALSE]
      ELSE LET head == Head(live[at])
           IN  [ok |-> TRUE, out |-> Append(m.out, head),
                seqs |-> [i \in DOMAIN live |-> SelectSeq(live[i], LAMBDA c : c # head)]]

\* done: the linearizations of the earlier classes.
Linearization(c, done) ==
  LET inputs == [i \in DOMAIN bases[c] |-> done[bases[c][i]]] \o <<bases[c]>>
  IN  FoldLeft(LAMBDA m, i : MergeStep(m),
               [ok |-> TRUE, out |-> <<c>>, seqs |-> inputs], Upto(c))

AllMros ==
  FoldLeft(LAMBDA acc, c : LET m == Linearization(c, acc.mro)
                           IN  IF acc.ok /\ m.ok
                               THEN [ok |-> TRUE, mro |-> Append(acc.mro, m.out)]
                               ELSE [acc EXCEPT !.ok = FALSE],
           [ok |-> TRUE, mro |-> <<>>], Upto(Len(bases)))

\* Class ids: the frontend numbers the nested classes after the others.
IdOrder == SelectSeq(Upto(Len(bases)), LAMBDA c : c \notin nested)
             \o SelectSeq(Upto(Len(bases)), LAMBDA c : c \in nested)

\* Mutant: classes are built in id order.
BuildOrderById(ls) == IdOrder
\* Base-first: a reversed linearization lists the ancestors before the class.
BuildOrder(ls) ==
  FoldLeft(LAMBDA q, c : q \o SelectSeq(Reverse(ls[c]), LAMBDA a : ~Contains(q, a)),
           <<>>, IdOrder)

Linearize ==
  /\ status = "source" /\ bases # <<>>
  /\ LET all == AllMros IN
       IF all.ok
       THEN status' = "build" /\ mro' = all.mro /\ queue' = BuildOrder(all.mro)
       ELSE status' = "mro_error" /\ UNCHANGED <<mro, queue>>
  /\ UNCHANGED <<theme, bases, body, nested, table>>

----------------------------------------------------------------------------
(* The class table: fields and exception base of one class.                 *)

\* Merge one base's layout into the slots so far; a slot that would hold two
\* fields has no consistent layout.
MergeLayout(acc, b) ==
  IF b \notin DOMAIN table THEN acc
  ELSE LET from == table[b].fields
       IN  IF \E s \in DOMAIN acc.fields \cap DOMAIN from : acc.fields[s] # from[s]
           THEN [acc EXCEPT !.ok = FALSE]
           ELSE [acc EXCEPT !.fields = @ \o SubSeq(from, Len(@) + 1, Len(from))]

Inherited(c) == FoldLeft(MergeLayout, [ok |-> TRUE, fields |-> <<>>], bases[c])

WithOwn(fields, own) ==
  IF own = "none" \/ Contains(fields, own) THEN fields ELSE Append(fields, own)

\* Mutant: only the first base is asked for an exception base.
ExceptionBaseOfFirst(c) ==
  IF body[c].exc # <<>> THEN Last(body[c].exc)
  ELSE IF bases[c] = <<>> \/ bases[c][1] \notin DOMAIN table THEN NoParent
  ELSE table[bases[c][1]].exc
\* Its own builtin base (the last one named), else the first along the MRO.
ExceptionBase(c) ==
  LET from == First(Tail(mro[c]),
                    LAMBDA a : a \in DOMAIN table /\ table[a].exc # NoParent)
  IN  IF body[c].exc # <<>> THEN Last(body[c].exc)
      ELSE IF from = 0 THEN NoParent ELSE table[from].exc

Build ==
  /\ status = "build" /\ queue # <<>>
  /\ LET c == Head(queue)
         inherited == Inherited(c) IN
       IF inherited.ok
       THEN /\ table' = (c :> [fields |-> WithOwn(inherited.fields, body[c].field),
                               exc |-> ExceptionBase(c)]) @@ table
            /\ queue' = Tail(queue)
            /\ status' = IF Len(queue) = 1 THEN "ready" ELSE "build"
       ELSE status' = "layout_error" /\ UNCHANGED <<table, queue>>
  /\ UNCHANGED <<theme, bases, body, nested, mro>>

Next == Declare \/ Linearize \/ Build

Spec == Init /\ [][Next]_vars

----------------------------------------------------------------------------
(* What a call reaches.  c is the receiver's static class, k its class at   *)
(* run time; 0 stands for "no definition".                                  *)

Defines(c) == body[c].method # "none"
IsSubclass(a, b) == Contains(mro[a], b)
Family(c) == {k \in Classes : IsSubclass(k, c)}
Resolve(k) == First(mro[k], Defines)
After(k, anchor) ==
  LET l == mro[k] IN First(SubSeq(l, SelectInSeq(l, LAMBDA a : a = anchor) + 1, Len(l)), Defines)
ResolveSuper(c) == First(Tail(mro[c]), Defines)
OverriddenBelow(c) == \E d \in Classes : d # c /\ IsSubclass(d, c) /\ Defines(d)
AbiCompatible(a, b) == body[a].method = body[b].method

\* Where the static class's own resolution leads, and what it is for k.
Kinds == {"plain", "dunder", "other", "super"}
Base(kind, c) == IF kind = "super" THEN ResolveSuper(c) ELSE Resolve(c)
Arm(kind, c, k) ==
  LET t == IF kind = "super" THEN After(k, c) ELSE Resolve(k)
  IN  IF t = 0 THEN Base(kind, c) ELSE t

\* Mutants: every kind keeps the vtable when the conventions agree; a plain
\* method keeps it when one of them does.
PlannedByAbi(kind, c) ==
  LET arms == {Arm(kind, c, k) : k \in Family(c)} \ {Base(kind, c)}
  IN  Base(kind, c) # 0 /\ \E t \in arms : ~AbiCompatible(Base(kind, c), t)
PlannedWhenAll(kind, c) ==
  LET arms == {Arm(kind, c, k) : k \in Family(c)} \ {Base(kind, c)}
  IN  /\ Base(kind, c) # 0 /\ arms # {}
      /\ kind = "plain" => \A t \in arms : ~AbiCompatible(Base(kind, c), t)
\* The static classes a dispatcher is planned for: some subclass resolves the
\* member differently and, for a plain method, not every one by the same ABI.
Planned(kind, c) ==
  LET arms == {Arm(kind, c, k) : k \in Family(c)} \ {Base(kind, c)}
  IN  /\ Base(kind, c) # 0 /\ arms # {}
      /\ kind = "plain" => \E t \in arms : ~AbiCompatible(Base(kind, c), t)

Dispatched(kind, c, k) == IF Planned(kind, c) THEN Arm(kind, c, k) ELSE 0

\* A plain call devirtualizes unless overridden below the static class, then
\* goes through the dispatcher or, without one, by name through k's vtable.
SelectPlain(c, k) ==
  IF ~OverriddenBelow(c) THEN Resolve(c)
  ELSE IF Planned("plain", c) THEN Arm("plain", c, k) ELSE Resolve(k)
\* An operator on a concrete class: the dispatcher has to exist.
SelectDunder(c, k) == IF OverriddenBelow(c) THEN Dispatched("dunder", c, k) ELSE Resolve(c)
\* Mutant: super() always binds to the static class's own resolution.
SelectOtherStatic(kind, c, k) ==
  IF Planned(kind, c) /\ kind # "super" THEN Arm(kind, c, k) ELSE Base(kind, c)
\* Properties, static and class methods and attributes through an instance,
\* and super() from a method of c.
SelectOther(kind, c, k) == IF Planned(kind, c) THEN Arm(kind, c, k) ELSE Base(kind, c)

Select(kind, c, k) ==
  CASE kind = "plain"  -> SelectPlain(c, k)
    [] kind = "dunder" -> SelectDunder(c, k)
    [] OTHER           -> SelectOther(kind, c, k)

----------------------------------------------------------------------------
(* What the start-up code registers, and rt_class_inherits_from over it.    *)

Parent(k) ==
  IF k \in Builtin THEN IF k = Exception THEN NoParent ELSE Exception
  ELSE IF bases[k] # <<>> THEN Head(bases[k]) ELSE table[k].exc
\* Mutant: only the exception base is registered beside the parent.
AncestorsBuiltin(k) == IF k \in Builtin THEN {} ELSE {table[k].exc} \ {NoParent}
Ancestors(k) ==
  IF k \in Builtin THEN {}
  ELSE Range(Tail(mro[k])) \cup ({table[k].exc} \ {NoParent})

\* Walk the parents; no chain is longer than all the classes there are.
ParentChain(k) ==
  FoldLeft(LAMBDA seen, i : IF Last(seen) = NoParent THEN seen
                            ELSE Append(seen, Parent(Last(seen))),
           <<k>>, Upto(Len(bases) + 3))
InheritsFrom(k, target) ==
  \/ k = target
  \/ Contains(ParentChain(k), target)
  \/ target \in Ancestors(k)
  \/ \E a \in Ancestors(k) : Contains(ParentChain(a), target)

----------------------------------------------------------------------------
(* References: what Python says.                                            *)

PySupers(k) ==
  LET supers[c \in DOMAIN bases] == {c} \cup UNION {supers[b] : b \in Range(bases[c])}
  IN  supers[k]
PyExceptions(k) ==
  LET direct == UNION {Range(body[a].exc) : a \in PySupers(k)}
  IN  direct \cup (IF direct = {} THEN {} ELSE {Exception})

Before(s, a, b) == \E i, j \in DOMAIN s : i < j /\ s[i] = a /\ s[j] = b
Extends(order, s) ==
  \A i, j \in DOMAIN s : i < j => Before(order, s[i], s[j])
Consistent(c, order, ls) ==
  /\ Extends(order, bases[c])
  /\ \A b \in Range(bases[c]) : Extends(order, ls[b])
IsOrder(c, s) == s # <<>> /\ s[1] = c /\ IsInjective(s) /\ Range(s) = PySupers(c)
Orders(c) == {<<c>> \o p : p \in SetToSeqs(PySupers(c) \ {c})}

Built == status = "ready"
Linearized == status \in {"build", "ready", "layout_error"}

\* The builtin exception base of a class is its own last one, or else that of
\* the first of all its ancestors that has one: none was built too late to count.
ExceptionBases ==
  \A c \in DOMAIN table :
    LET having == SelectSeq(Tail(mro[c]), LAMBDA a : table[a].exc # NoParent)
    IN  /\ table[c].exc \in Builtin \cup {NoParent}
        /\ Range(mro[c]) \subseteq DOMAIN table
        /\ table[c].exc = CASE body[c].exc # <<>> -> Last(body[c].exc)
                             [] body[c].exc = <<>> /\ having # <<>> -> table[having[1]].exc
                             [] OTHER -> NoParent

TypeOK ==
  /\ status \in {"source", "build", "ready", "mro_error", "layout_error"}
  /\ theme \in DOMAIN Bodies
  /\ bases \in Seq(Seq(Nat)) /\ Len(bases) <= Limit
  /\ body \in Seq(Bodies[theme]) /\ Len(body) = Len(bases)
  /\ mro \in Seq(Seq(Classes)) /\ queue \in Seq(Classes)
  /\ ExceptionBases
  /\ \A c \in DOMAIN table : table[c].fields \in Seq({"x", "y"})

\* A program is rejected for its method resolution order exactly when some
\* class has no order that keeps its base list and the order of every base;
\* else each linearization is such an order of all its ancestors.
MroLinear ==
  /\ Linearized =>
       \A c \in Classes : IsOrder(c, mro[c]) /\ Consistent(c, mro[c], mro)
  /\ status = "mro_error" =>
       LET ls == AllMros.mro
           c == Len(ls) + 1
       IN  \A order \in Orders(c) : ~Consistent(c, order, ls)

\* Field access is compiled to a slot of the static class: every ancestor's
\* layout is a prefix of the class's, its own field included, and no field has
\* two slots.  Only bases that disagree about a slot are refused.
FieldSlotsStable ==
  /\ \A c \in DOMAIN table :
       /\ IsInjective(table[c].fields)
       /\ \A a \in Range(mro[c]) :
            /\ a \in DOMAIN table /\ IsPrefix(table[a].fields, table[c].fields)
            /\ body[a].field # "none" => Contains(table[a].fields, body[a].field)
  /\ status = "layout_error" =>
       \E a, b \in Range(bases[Head(queue)]) :
         \E s \in DOMAIN table[a].fields \cap DOMAIN table[b].fields :
           table[a].fields[s] # table[b].fields[s]

\* A call on a receiver of static class c that is a k at run time reaches the
\* definition Python would: k's own resolution of the member.  For methods and
\* operators nobody below c overrides this holds of definitions above c (the
\* run of DispatchFollowsReceiver shows what happens to the others).
DispatchExact ==
  Built /\ theme = "methods" =>
    \A c \in Classes : \A k \in Family(c) : \A kind \in {"plain", "dunder", "other"} :
      Resolve(c) # 0 /\ (\/ kind = "other" \/ IsSubclass(c, Resolve(k))
                           \/ \E d \in Family(c) \ {c} : Defines(d))
        => Select(kind, c, k) = Resolve(k)

\* The same without the restriction, as hir/src/lib.rs says of a receiver that
\* is not virtually dispatched: it devirtualizes to c's resolved method.
DispatchFollowsReceiver ==
  Built /\ theme = "methods" =>
    \A c \in Classes : \A k \in Family(c) :
      Resolve(c) # 0 => SelectPlain(c, k) = Resolve(k)

\* The vtable call passes the arguments by the static class's convention, so
\* every definition it may reach has that convention.
VirtualCallAbi ==
  Built /\ theme = "methods" =>
    \A c \in Classes : \A k \in Family(c) :
      Resolve(c) # 0 /\ OverriddenBelow(c) /\ ~Planned("plain", c)
        => AbiCompatible(Resolve(c), Resolve(k))

\* Cooperative inheritance: from the definition an instance of k starts with,
\* following super() visits every definition along k's order exactly once, as
\* long as each super() call compiles.
SuperChain(k) ==
  FoldLeft(LAMBDA chain, i :
             IF Last(chain) = 0 \/ ResolveSuper(Last(chain)) = 0 THEN chain
             ELSE Append(chain, SelectOther("super", Last(chain), k)),
           <<Resolve(k)>>, Upto(Len(bases)))
SuperVisitsAll ==
  Built /\ theme = "methods" =>
    \A k \in Classes : Resolve(k) # 0 =>
      IsPrefix(SuperChain(k), SelectSeq(mro[k], Defines))

\* isinstance and except-matching never claim more than Python does, and are
\* exact for user classes and for the exception base the compiler kept.
InheritsSound ==
  Built /\ theme = "excs" =>
    \A k \in Classes :
      /\ \A t \in Classes : InheritsFrom(k, t) <=> t \in PySupers(k)
      /\ \A t \in Builtin : InheritsFrom(k, t) => t \in PyExceptions(k)
      /\ PyExceptions(k) # {} => /\ table[k].exc # NoParent
                                 /\ InheritsFrom(k, table[k].exc)
                                 /\ InheritsFrom(k, Exception)

\* ... and, as vtable.rs says of multiple inheritance, every ancestor
\* contributes the builtin hierarchy above its own exception base.
InheritsComplete ==
  Built /\ theme = "excs" =>
    \A k \in Classes : \A a \in PySupers(k) : table[a].exc # NoParent =>
      InheritsFrom(k, table[a].exc)
=============================================================================
