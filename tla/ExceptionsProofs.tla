-------------------------- MODULE ExceptionsProofs --------------------------
(* Exceptions, for every number of raise statements, instances and blocks:   *)
(* the handling stack and the shadow stack match the program's blocks, what  *)
(* is armed reaches the raise it was armed for, and blocks and exceptions    *)
(* behave as Python's.                                                       *)
EXTENDS Exceptions, SeqLemmas, TLAPS

(* The statement that is armed, and the blocks an exception has unwound to.  *)
Stmts == [id : 1..MaxExc, target : bound \cup {NewTarget}, from : Froms]
StmtOK == pc = "armed" => stmt \in Stmts /\ stmt.id < nextStmt

StackOK ==
  /\ Len(ctl) <= MaxDepth
  /\ pc = "landed" => ctl # <<>> /\ Protects(ctl[1])
  /\ \A i \in DOMAIN ctl : ctl[i].exc = 0 <=> ctl[i].kind \notin {"ctor", "handler"}

(* Exceptions are numbered by the statement that makes them: the one a      *)
(* constructor or an armed statement is about to make is known to nobody.   *)
Unknown(x) == x # cur.id /\ \A b \in bound : b[1] # x
IdsFresh ==
  /\ cur.id < nextStmt
  /\ \A b \in bound : b[1] < nextStmt
  /\ \A i \in DOMAIN ctl : ctl[i].exc < nextStmt
  /\ \A i, j \in DOMAIN ctl :
       ctl[i].kind = "ctor" => Unknown(ctl[i].exc) /\ (i # j => ctl[i].exc # ctl[j].exc)
  /\ pc = "armed" /\ stmt.target = NewTarget =>
       Unknown(stmt.id) /\ \A i \in DOMAIN ctl : ctl[i].exc # stmt.id

(* Until a constructor raises while its own raise is armed, what is armed   *)
(* belongs to the armed statement or to the innermost constructor.          *)
Pending(from, id) == /\ pendingCause = (IF from = "cause" THEN id ELSE 0)
                     /\ pendingSuppress = (from = "none")
Armed(i) == ctl[i].kind = "ctor" /\ ctl[i].from # "nothing"
PendingOwned == ~boundary =>
  /\ pc = "armed" => ~InArmedCtor /\ Pending(stmt.from, stmt.id)
  /\ pc # "armed" /\ ~InArmedCtor => Pending("nothing", 0)
  /\ \A i \in DOMAIN ctl : Armed(i) =>
       /\ Pending(ctl[i].from, ctl[i].exc)
       /\ \A j \in DOMAIN ctl : j < i => ctl[j].kind # "ctor"

CausesOwned == ~boundary =>
  /\ cur # NoExc => OwnCause(cur)
  /\ \A i \in DOMAIN handling : OwnCause(handling[i])

IInv == /\ TypeOK /\ StmtOK /\ StackOK /\ IdsFresh
        /\ HandlingMatches /\ ShadowMatches /\ PendingOwned /\ CausesOwned
----------------------------------------------------------------------------
(* The list of a stack's handlers, as blocks are pushed and popped.          *)
Entries == Excs \cup {NoExc}

LEMMA PushBlock ==
  ASSUME NEW c \in Seq(Blocks), NEW b \in Blocks
  PROVE  /\ Cons(b, c) \in Seq(Blocks) /\ Cons(b, c) # <<>>
         /\ Len(Cons(b, c)) = Len(c) + 1 /\ DOMAIN Cons(b, c) = 1..Len(c) + 1
         /\ Cons(b, c)[1] = b
         /\ \A i \in 1..Len(c) : Cons(b, c)[i + 1] = c[i]
         /\ \A i \in 2..Len(c) + 1 : Cons(b, c)[i] = c[i - 1]
<1>1. DOMAIN Cons(b, c) = 1..Len(c) + 1 /\ Cons(b, c)[1] = b
  BY ConsLemma
<1>2. Cons(b, c) \in Seq(Blocks) /\ Cons(b, c) # <<>> /\ Len(Cons(b, c)) = Len(c) + 1
  BY ConsLemma
<1>3. \A i \in 1..Len(c) : Cons(b, c)[i + 1] = c[i]
  BY ConsLemma
<1>4. \A i \in 2..Len(c) + 1 : Cons(b, c)[i] = c[i - 1]
  BY ConsLemma
<1> QED BY <1>1, <1>2, <1>3, <1>4

LEMMA ListsPush ==
  ASSUME NEW hs \in Seq(Entries), NEW c \in Seq(Blocks), NEW b \in Blocks,
         ~IsHandler(b), Lists(hs, c)
  PROVE  Lists(hs, Cons(b, c))
<1> DEFINE t == Cons(b, c)
<1>1. /\ DOMAIN hs = 1..Len(hs) /\ Len(hs) \in Nat /\ DOMAIN c = 1..Len(c) /\ Len(c) \in Nat
      /\ DOMAIN t = 1..Len(c) + 1 /\ t[1] = b
      /\ \A i \in 1..Len(c) : t[i + 1] = c[i]
      /\ \A i \in 2..Len(c) + 1 : t[i] = c[i - 1]
  <2>1. DOMAIN hs = 1..Len(hs) /\ Len(hs) \in Nat /\ DOMAIN c = 1..Len(c) /\ Len(c) \in Nat
    BY LenProperties
  <2> QED BY <2>1, PushBlock
<1> HIDE DEF t
<1>2. PICK pos \in [DOMAIN hs -> DOMAIN c] :
        /\ \A i, j \in DOMAIN hs : i < j => pos[i] < pos[j]
        /\ \A p \in DOMAIN c : IsHandler(c[p]) <=> \E i \in DOMAIN hs : pos[i] = p
        /\ \A i \in DOMAIN hs : hs[i].id = c[pos[i]].exc
  BY DEF Lists
<1> DEFINE q == [i \in DOMAIN hs |-> pos[i] + 1]
<1>3. q \in [DOMAIN hs -> DOMAIN t] /\ \A i \in DOMAIN hs : q[i] = pos[i] + 1 /\ t[q[i]] = c[pos[i]]
  BY <1>1, <1>2
<1>4. \A p \in DOMAIN t : IsHandler(t[p]) <=> \E i \in DOMAIN hs : q[i] = p
  <2> SUFFICES ASSUME NEW p \in DOMAIN t PROVE IsHandler(t[p]) <=> \E i \in DOMAIN hs : q[i] = p
    OBVIOUS
  <2>1. CASE p = 1
    BY <1>1, <1>2, <1>3, <2>1
  <2>2. CASE p # 1
    <3>1. p - 1 \in DOMAIN c /\ t[p] = c[p - 1]
      BY <1>1, <2>2
    <3>2. \A i \in DOMAIN hs : q[i] = p <=> pos[i] = p - 1
      BY <1>1, <1>2, <1>3
    <3> QED BY <1>2, <3>1, <3>2
  <2> QED BY <2>1, <2>2
<1>5. \A i, j \in DOMAIN hs : i < j => q[i] < q[j]
  BY <1>1, <1>2, <1>3
<1>6. \A i \in DOMAIN hs : hs[i].id = t[q[i]].exc
  BY <1>2, <1>3
<1> HIDE DEF q
<1>7. Lists(hs, t)
  BY <1>3, <1>4, <1>5, <1>6 DEF Lists
<1> QED BY <1>7 DEF t

LEMMA ListsPushHandler ==
  ASSUME NEW hs \in Seq(Entries), NEW c \in Seq(Blocks), NEW b \in Blocks,
         NEW h \in Entries, IsHandler(b), h.id = b.exc, Lists(hs, c)
  PROVE  Lists(Cons(h, hs), Cons(b, c))
<1> DEFINE t == Cons(b, c)
           g == Cons(h, hs)
<1>1. /\ DOMAIN hs = 1..Len(hs) /\ Len(hs) \in Nat /\ DOMAIN c = 1..Len(c) /\ Len(c) \in Nat
      /\ DOMAIN t = 1..Len(c) + 1 /\ t[1] = b
      /\ DOMAIN g = 1..Len(hs) + 1 /\ g[1] = h
      /\ \A i \in 1..Len(c) : t[i + 1] = c[i]
      /\ \A i \in 2..Len(c) + 1 : t[i] = c[i - 1]
      /\ \A i \in 2..Len(hs) + 1 : g[i] = hs[i - 1]
  <2>1. DOMAIN hs = 1..Len(hs) /\ Len(hs) \in Nat /\ DOMAIN c = 1..Len(c) /\ Len(c) \in Nat
    BY LenProperties
  <2>2. /\ DOMAIN t = 1..Len(c) + 1 /\ t[1] = b
        /\ \A i \in 1..Len(c) : t[i + 1] = c[i]
        /\ \A i \in 2..Len(c) + 1 : t[i] = c[i - 1]
    BY <2>1, PushBlock
  <2>3. /\ DOMAIN g = 1..Len(hs) + 1 /\ g[1] = h
        /\ \A i \in 2..Len(hs) + 1 : g[i] = hs[i - 1]
    BY <2>1, ConsLemma
  <2> QED BY <2>1, <2>2, <2>3
<1> HIDE DEF t, g
<1>2. PICK pos \in [DOMAIN hs -> DOMAIN c] :
        /\ \A i, j \in DOMAIN hs : i < j => pos[i] < pos[j]
        /\ \A p \in DOMAIN c : IsHandler(c[p]) <=> \E i \in DOMAIN hs : pos[i] = p
        /\ \A i \in DOMAIN hs : hs[i].id = c[pos[i]].exc
  BY DEF Lists
<1> DEFINE q == [i \in DOMAIN g |-> IF i = 1 THEN 1 ELSE pos[i - 1] + 1]
<1>3. /\ q \in [DOMAIN g -> DOMAIN t] /\ q[1] = 1
      /\ \A i \in 1..Len(hs) : q[i + 1] = pos[i] + 1 /\ t[q[i + 1]] = c[pos[i]]
      /\ \A i \in 2..Len(hs) + 1 :
           i - 1 \in DOMAIN hs /\ q[i] = pos[i - 1] + 1 /\ t[q[i]] = c[pos[i - 1]]
  <2>1. \A i \in DOMAIN hs : pos[i] \in 1..Len(c) /\ t[pos[i] + 1] = c[pos[i]]
    BY <1>1, <1>2
  <2>2. \A i \in 2..Len(hs) + 1 :
          i - 1 \in DOMAIN hs /\ q[i] = pos[i - 1] + 1 /\ t[q[i]] = c[pos[i - 1]]
    <3> SUFFICES ASSUME NEW i \in 2..Len(hs) + 1
                 PROVE  i - 1 \in DOMAIN hs /\ q[i] = pos[i - 1] + 1 /\ t[q[i]] = c[pos[i - 1]]
      OBVIOUS
    <3>1. i \in DOMAIN g /\ i # 1 /\ i - 1 \in DOMAIN hs
      BY <1>1
    <3>2. q[i] = pos[i - 1] + 1
      BY <3>1
    <3> QED BY <2>1, <3>1, <3>2
  <2>3. q \in [DOMAIN g -> DOMAIN t] /\ q[1] = 1
    <3>1. \A i \in DOMAIN g : (IF i = 1 THEN 1 ELSE pos[i - 1] + 1) \in DOMAIN t
      BY <1>1, <2>1
    <3> QED BY <1>1, <3>1
  <2>4. \A i \in 1..Len(hs) : q[i + 1] = pos[i] + 1 /\ t[q[i + 1]] = c[pos[i]]
    <3> SUFFICES ASSUME NEW i \in 1..Len(hs)
                 PROVE  q[i + 1] = pos[i] + 1 /\ t[q[i + 1]] = c[pos[i]]
      OBVIOUS
    <3>1. i + 1 \in 2..Len(hs) + 1 /\ (i + 1) - 1 = i
      BY <1>1
    <3> QED BY <2>2, <3>1
  <2> QED BY <2>2, <2>3, <2>4
<1>4. \A p \in DOMAIN t : IsHandler(t[p]) <=> \E i \in DOMAIN g : q[i] = p
  <2> SUFFICES ASSUME NEW p \in DOMAIN t PROVE IsHandler(t[p]) <=> \E i \in DOMAIN g : q[i] = p
    OBVIOUS
  <2>1. CASE p = 1
    BY <1>1, <1>2, <1>3, <2>1
  <2>2. CASE p # 1
    <3>1. p - 1 \in DOMAIN c /\ t[p] = c[p - 1]
      BY <1>1, <2>2
    <3>2. ASSUME NEW i \in DOMAIN hs, pos[i] = p - 1 PROVE \E k \in DOMAIN g : q[k] = p
      <4>1. i + 1 \in DOMAIN g /\ q[i + 1] = p
        BY <1>1, <1>2, <1>3, <2>2, <3>1, <3>2
      <4> QED BY <4>1
    <3>3. ASSUME NEW k \in DOMAIN g, q[k] = p PROVE \E i \in DOMAIN hs : pos[i] = p - 1
      <4>1. k # 1
        BY <1>3, <2>2, <3>3
      <4> QED BY <1>1, <1>2, <1>3, <3>3, <4>1
    <3> QED BY <1>2, <3>1, <3>2, <3>3
  <2> QED BY <2>1, <2>2
<1>5. ASSUME NEW i \in DOMAIN g, NEW j \in DOMAIN g, i < j PROVE q[i] < q[j]
  <2>1. j \in 2..Len(hs) + 1 /\ j - 1 \in DOMAIN hs /\ q[j] = pos[j - 1] + 1 /\ pos[j - 1] \in 1..Len(c)
    BY <1>1, <1>2, <1>3, <1>5
  <2>2. CASE i = 1
    BY <1>1, <1>3, <2>1, <2>2
  <2>3. CASE i # 1
    <3>1. i - 1 \in DOMAIN hs /\ q[i] = pos[i - 1] + 1 /\ pos[i - 1] \in 1..Len(c) /\ i - 1 < j - 1
      BY <1>1, <1>2, <1>3, <1>5, <2>3
    <3> QED BY <1>2, <2>1, <3>1
  <2> QED BY <2>2, <2>3
<1>6. ASSUME NEW i \in DOMAIN g PROVE g[i].id = t[q[i]].exc
  BY <1>1, <1>2, <1>3
<1> HIDE DEF q
<1>7. Lists(g, t)
  BY <1>3, <1>4, <1>5, <1>6 DEF Lists
<1> QED BY <1>7 DEF t, g

LEMMA ListsDrop ==
  ASSUME NEW hs \in Seq(Entries), NEW c \in Seq(Blocks), NEW n \in 0..Len(c),
         \A i \in 1..n : ~IsHandler(c[i]), Lists(hs, c)
  PROVE  Lists(hs, Drop(c, n))
<1> DEFINE t == Drop(c, n)
<1>1. /\ DOMAIN hs = 1..Len(hs) /\ Len(hs) \in Nat /\ DOMAIN c = 1..Len(c) /\ Len(c) \in Nat
      /\ DOMAIN t = 1..Len(c) - n
      /\ \A i \in 1..Len(c) - n : t[i] = c[i + n]
      /\ \A i \in n + 1..Len(c) : t[i - n] = c[i]
  BY DropLemma, LenProperties
<1> HIDE DEF t
<1>2. PICK pos \in [DOMAIN hs -> DOMAIN c] :
        /\ \A i, j \in DOMAIN hs : i < j => pos[i] < pos[j]
        /\ \A p \in DOMAIN c : IsHandler(c[p]) <=> \E i \in DOMAIN hs : pos[i] = p
        /\ \A i \in DOMAIN hs : hs[i].id = c[pos[i]].exc
  BY DEF Lists
<1>3. \A i \in DOMAIN hs : pos[i] \in n + 1..Len(c)
  BY <1>1, <1>2
<1> DEFINE q == [i \in DOMAIN hs |-> pos[i] - n]
<1>4. /\ q \in [DOMAIN hs -> DOMAIN t]
      /\ \A i \in DOMAIN hs : q[i] = pos[i] - n /\ t[q[i]] = c[pos[i]]
  BY <1>1, <1>2, <1>3
<1>5. ASSUME NEW p \in DOMAIN t PROVE IsHandler(t[p]) <=> \E i \in DOMAIN hs : q[i] = p
  <2>1. p + n \in DOMAIN c /\ t[p] = c[p + n]
    BY <1>1
  <2>2. \A i \in DOMAIN hs : q[i] = p <=> pos[i] = p + n
    BY <1>1, <1>3, <1>4
  <2> QED BY <1>2, <2>1, <2>2
<1>6. \A i, j \in DOMAIN hs : i < j => q[i] < q[j]
  BY <1>1, <1>2, <1>3, <1>4
<1>7. \A i \in DOMAIN hs : hs[i].id = t[q[i]].exc
  BY <1>2, <1>4
<1> HIDE DEF q
<1>8. Lists(hs, t)
  BY <1>4, <1>5, <1>6, <1>7 DEF Lists
<1> QED BY <1>8 DEF t

(* The innermost handler is the first of the list.                           *)
LEMMA ListsFirst ==
  ASSUME NEW hs \in Seq(Entries), NEW c \in Seq(Blocks), Lists(hs, c)
  PROVE  /\ hs = <<>> => \A i \in DOMAIN c : ~IsHandler(c[i])
         /\ hs # <<>> => \E p \in DOMAIN c : /\ IsHandler(c[p]) /\ c[p].exc = hs[1].id
                                           /\ \A j \in 1..p - 1 : ~IsHandler(c[j])
         /\ c # <<>> /\ IsHandler(c[1]) => hs # <<>> /\ hs[1].id = c[1].exc
<1>1. /\ DOMAIN hs = 1..Len(hs) /\ Len(hs) \in Nat /\ DOMAIN c = 1..Len(c) /\ Len(c) \in Nat
      /\ hs # <<>> => 1 \in DOMAIN hs
      /\ c # <<>> => 1 \in DOMAIN c
      /\ hs = <<>> => DOMAIN hs = {}
  BY LenProperties, EmptySeq
<1>2. PICK pos \in [DOMAIN hs -> DOMAIN c] :
        /\ \A i, j \in DOMAIN hs : i < j => pos[i] < pos[j]
        /\ \A p \in DOMAIN c : IsHandler(c[p]) <=> \E i \in DOMAIN hs : pos[i] = p
        /\ \A i \in DOMAIN hs : hs[i].id = c[pos[i]].exc
  BY DEF Lists
<1>3. \A i \in DOMAIN hs : i = 1 \/ (1 < i /\ 1 \in DOMAIN hs /\ pos[1] < pos[i])
  <2>1. \A i \in DOMAIN hs : i = 1 \/ (1 < i /\ 1 \in DOMAIN hs)
    BY <1>1
  <2> QED BY <1>2, <2>1
<1>4. ASSUME hs # <<>>
      PROVE  /\ pos[1] \in DOMAIN c /\ IsHandler(c[pos[1]]) /\ c[pos[1]].exc = hs[1].id
             /\ \A j \in 1..pos[1] - 1 : ~IsHandler(c[j])
  <2>1. pos[1] \in DOMAIN c /\ IsHandler(c[pos[1]]) /\ c[pos[1]].exc = hs[1].id
    BY <1>1, <1>2, <1>4
  <2>2. ASSUME NEW j \in 1..pos[1] - 1, IsHandler(c[j]) PROVE FALSE
    <3>1. j \in DOMAIN c /\ j < pos[1] /\ pos[1] \in 1..Len(c)
      BY <1>1, <2>1
    <3>2. PICK i \in DOMAIN hs : pos[i] = j
      BY <1>2, <2>2, <3>1
    <3> QED BY <1>1, <1>3, <3>1, <3>2
  <2> QED BY <2>1, <2>2
<1>5. ASSUME c # <<>>, IsHandler(c[1]) PROVE hs # <<>> /\ hs[1].id = c[1].exc
  <2>1. PICK i \in DOMAIN hs : pos[i] = 1
    BY <1>1, <1>2, <1>5
  <2>2. i = 1
    BY <1>1, <1>2, <1>3, <2>1
  <2> QED BY <1>1, <1>2, <2>1, <2>2
<1> QED BY <1>1, <1>2, <1>4, <1>5

LEMMA ListsPop ==
  ASSUME NEW hs \in Seq(Entries), NEW c \in Seq(Blocks), c # <<>>, IsHandler(c[1]),
         Lists(hs, c)
  PROVE  hs # <<>> /\ Lists(Tail(hs), Tail(c))
<1>1. hs # <<>>
  BY ListsFirst
<1> DEFINE t == Tail(c)
           g == Tail(hs)
<1>2. /\ DOMAIN hs = 1..Len(hs) /\ Len(hs) \in Nat \ {0}
      /\ DOMAIN c = 1..Len(c) /\ Len(c) \in Nat \ {0}
      /\ DOMAIN t = 1..Len(c) - 1 /\ DOMAIN g = 1..Len(hs) - 1
      /\ \A i \in 1..Len(c) - 1 : t[i] = c[i + 1]
      /\ \A i \in 2..Len(c) : t[i - 1] = c[i]
      /\ \A i \in 1..Len(hs) - 1 : g[i] = hs[i + 1]
  BY <1>1, TailLemma, DropLemma
<1> HIDE DEF t, g
<1>3. PICK pos \in [DOMAIN hs -> DOMAIN c] :
        /\ \A i, j \in DOMAIN hs : i < j => pos[i] < pos[j]
        /\ \A p \in DOMAIN c : IsHandler(c[p]) <=> \E i \in DOMAIN hs : pos[i] = p
        /\ \A i \in DOMAIN hs : hs[i].id = c[pos[i]].exc
  BY DEF Lists
<1>4. pos[1] = 1
  <2>1. PICK i \in DOMAIN hs : pos[i] = 1
    BY <1>2, <1>3
  <2>2. CASE i # 1
    <3>1. 1 \in DOMAIN hs /\ 1 < i /\ pos[1] \in 1..Len(c)
      BY SMTT(30), <1>2, <1>3, <2>2
    <3>2. pos[1] < pos[i]
      BY <1>3, <3>1
    <3> QED BY <1>2, <2>1, <3>1, <3>2
  <2> QED BY <2>1, <2>2
<1>5. \A i \in 1..Len(hs) - 1 : i + 1 \in DOMAIN hs /\ pos[i + 1] \in 2..Len(c)
  <2> SUFFICES ASSUME NEW i \in 1..Len(hs) - 1
               PROVE  i + 1 \in DOMAIN hs /\ pos[i + 1] \in 2..Len(c)
    OBVIOUS
  <2>1. i + 1 \in DOMAIN hs /\ 1 \in DOMAIN hs /\ 1 < i + 1
    BY <1>2
  <2>2. pos[1] < pos[i + 1] /\ pos[i + 1] \in 1..Len(c)
    BY <1>2, <1>3, <2>1
  <2> QED BY <1>2, <1>4, <2>1, <2>2
<1> DEFINE q == [i \in DOMAIN g |-> pos[i + 1] - 1]
<1>6. /\ q \in [DOMAIN g -> DOMAIN t]
      /\ \A i \in DOMAIN g : q[i] = pos[i + 1] - 1 /\ t[q[i]] = c[pos[i + 1]]
  BY SMTT(30), <1>2, <1>3, <1>5
<1>7. ASSUME NEW p \in DOMAIN t PROVE IsHandler(t[p]) <=> \E i \in DOMAIN g : q[i] = p
  <2>1. p + 1 \in DOMAIN c /\ t[p] = c[p + 1] /\ p + 1 # 1
    BY <1>2
  <2>2. ASSUME NEW i \in DOMAIN g, q[i] = p PROVE IsHandler(t[p])
    BY <1>2, <1>3, <1>5, <1>6, <2>1, <2>2
  <2>3. ASSUME IsHandler(t[p]) PROVE \E i \in DOMAIN g : q[i] = p
    <3>1. PICK k \in DOMAIN hs : pos[k] = p + 1
      BY <1>3, <2>1, <2>3
    <3>2. k # 1
      BY <1>4, <2>1, <3>1
    <3>3. k - 1 \in DOMAIN g /\ (k - 1) + 1 = k
      BY <1>2, <3>2
    <3>4. q[k - 1] = p
      BY <1>2, <1>6, <3>1, <3>3
    <3> QED BY <3>3, <3>4
  <2> QED BY <2>2, <2>3
<1>8. ASSUME NEW i \in DOMAIN g, NEW j \in DOMAIN g, i < j PROVE q[i] < q[j]
  <2>1. /\ i + 1 \in DOMAIN hs /\ j + 1 \in DOMAIN hs /\ i + 1 < j + 1
        /\ pos[i + 1] \in 1..Len(c) /\ pos[j + 1] \in 1..Len(c)
    BY <1>2, <1>3, <1>5, <1>8
  <2>2. pos[i + 1] < pos[j + 1]
    BY <1>3, <2>1
  <2> QED BY <1>6, <2>1, <2>2
<1>9. \A i \in DOMAIN g : g[i].id = t[q[i]].exc
  BY <1>2, <1>3, <1>5, <1>6
<1> HIDE DEF q
<1>10. Lists(g, t)
  BY <1>6, <1>7, <1>8, <1>9 DEF Lists
<1> QED BY <1>1, <1>10 DEF t, g
----------------------------------------------------------------------------
(* The depths of the frames with roots, as the stack changes.                *)
RootDepths(c) == {Len(c) - i + 1 : i \in {j \in DOMAIN c : Rooted(c[j])}}

LEMMA RootDepthsElement ==
  ASSUME NEW c \in Seq(Blocks), NEW x
  PROVE  x \in RootDepths(c) <=> x \in 1..Len(c) /\ Rooted(c[Len(c) - x + 1])
<1>1. DOMAIN c = 1..Len(c) /\ Len(c) \in Nat
  BY LenProperties
<1>2. ASSUME x \in RootDepths(c) PROVE x \in 1..Len(c) /\ Rooted(c[Len(c) - x + 1])
  <2>1. PICK i \in DOMAIN c : Rooted(c[i]) /\ x = Len(c) - i + 1
    BY <1>2 DEF RootDepths
  <2>2. i = Len(c) - x + 1 /\ x \in 1..Len(c)
    BY <1>1, <2>1
  <2> QED BY <2>1, <2>2
<1>3. ASSUME x \in 1..Len(c), Rooted(c[Len(c) - x + 1]) PROVE x \in RootDepths(c)
  <2>1. Len(c) - x + 1 \in DOMAIN c /\ x = Len(c) - (Len(c) - x + 1) + 1
    BY <1>1, <1>3
  <2> QED BY <1>3, <2>1 DEF RootDepths
<1> QED BY <1>2, <1>3

LEMMA RootDepthsPush ==
  ASSUME NEW c \in Seq(Blocks), NEW b \in Blocks
  PROVE  RootDepths(Cons(b, c)) = RootDepths(c) \cup (IF Rooted(b) THEN {Len(c) + 1} ELSE {})
<1> DEFINE t == Cons(b, c)
<1>1. Len(c) \in Nat /\ t \in Seq(Blocks) /\ Len(t) = Len(c) + 1 /\ t[1] = b
  BY PushBlock, LenProperties
<1>2. \A i \in 2..Len(c) + 1 : t[i] = c[i - 1]
  BY PushBlock
<1> HIDE DEF t
<1>3. ASSUME NEW x PROVE x \in RootDepths(t) <=>
        x \in RootDepths(c) \cup (IF Rooted(b) THEN {Len(c) + 1} ELSE {})
  <2>1. CASE x = Len(c) + 1
    <3>1. Len(t) - x + 1 = 1 /\ x \in 1..Len(t) /\ x \notin 1..Len(c)
      BY <1>1, <2>1
    <3>2. x \in RootDepths(t) <=> Rooted(b)
      BY <1>1, <3>1, RootDepthsElement
    <3>3. x \notin RootDepths(c)
      BY <3>1, RootDepthsElement
    <3> QED BY <2>1, <3>2, <3>3
  <2>2. CASE x \in 1..Len(c)
    <3>1. /\ x \in 1..Len(t) /\ Len(t) - x + 1 \in 2..Len(c) + 1
          /\ (Len(t) - x + 1) - 1 = Len(c) - x + 1 /\ x # Len(c) + 1
      BY <1>1, <2>2
    <3>2. t[Len(t) - x + 1] = c[Len(c) - x + 1]
      BY <1>2, <3>1
    <3>3. x \in RootDepths(t) <=> x \in RootDepths(c)
      BY <1>1, <2>2, <3>1, <3>2, RootDepthsElement
    <3> QED BY <3>1, <3>3
  <2>3. CASE x # Len(c) + 1 /\ x \notin 1..Len(c)
    <3>1. x \notin 1..Len(t)
      BY <1>1, <2>3
    <3> QED BY <1>1, <2>3, <3>1, RootDepthsElement
  <2> QED BY <2>1, <2>2, <2>3
<1> QED BY <1>3 DEF t

LEMMA RootDepthsDrop ==
  ASSUME NEW c \in Seq(Blocks), NEW n \in 0..Len(c)
  PROVE  UnwindBelow(RootDepths(c), Len(c) - n) = RootDepths(Drop(c, n))
<1> DEFINE t == Drop(c, n)
<1>1. /\ Len(c) \in Nat /\ t \in Seq(Blocks) /\ Len(t) = Len(c) - n
      /\ \A i \in 1..Len(c) - n : t[i] = c[i + n]
  BY DropLemma, LenProperties
<1> HIDE DEF t
<1>2. ASSUME NEW x PROVE x \in UnwindBelow(RootDepths(c), Len(c) - n) <=> x \in RootDepths(t)
  <2>1. x \in UnwindBelow(RootDepths(c), Len(c) - n) <=> x \in RootDepths(c) /\ x <= Len(c) - n
    BY DEF UnwindBelow
  <2>2. CASE x \in 1..Len(t)
    <3>1. /\ x \in 1..Len(c) /\ x <= Len(c) - n /\ Len(t) - x + 1 \in 1..Len(c) - n
          /\ (Len(t) - x + 1) + n = Len(c) - x + 1
      BY <1>1, <2>2
    <3>2. t[Len(t) - x + 1] = c[Len(c) - x + 1]
      BY <1>1, <3>1
    <3> QED BY <1>1, <2>1, <2>2, <3>1, <3>2, RootDepthsElement
  <2>3. CASE x \notin 1..Len(t)
    <3>1. x \notin RootDepths(t)
      BY <1>1, <2>3, RootDepthsElement
    <3>2. ~(x \in 1..Len(c) /\ x <= Len(c) - n)
      BY <1>1, <2>3
    <3> QED BY <2>1, <3>1, <3>2, RootDepthsElement
  <2> QED BY <2>2, <2>3
<1> QED BY <1>2 DEF t

LEMMA RootDepthsPop ==
  ASSUME NEW c \in Seq(Blocks), c # <<>>
  PROVE  /\ Rooted(c[1]) => PopFrame(RootDepths(c)) = RootDepths(Tail(c))
         /\ ~Rooted(c[1]) => RootDepths(c) = RootDepths(Tail(c))
<1>1. Len(c) \in Nat \ {0} /\ 1 \in 0..Len(c) /\ Tail(c) = Drop(c, 1)
  BY TailLemma
<1>2. \A x \in RootDepths(c) : x \in 1..Len(c) /\ Rooted(c[Len(c) - x + 1])
  BY RootDepthsElement
<1>3. RootDepths(Tail(c)) = {x \in RootDepths(c) : x <= Len(c) - 1}
  BY <1>1, RootDepthsDrop DEF UnwindBelow
<1>4. Len(c) \in RootDepths(c) <=> Rooted(c[1])
  <2>1. Len(c) \in 1..Len(c) /\ Len(c) - Len(c) + 1 = 1
    BY <1>1
  <2> QED BY <2>1, RootDepthsElement
<1>5. ASSUME Rooted(c[1]) PROVE PopFrame(RootDepths(c)) = RootDepths(Tail(c))
  <2>1. \A x \in RootDepths(c) : (\E y \in RootDepths(c) : x < y) <=> x <= Len(c) - 1
    <3> SUFFICES ASSUME NEW x \in RootDepths(c)
                 PROVE  (\E y \in RootDepths(c) : x < y) <=> x <= Len(c) - 1
      OBVIOUS
    <3>1. x \in 1..Len(c) /\ \A y \in RootDepths(c) : y \in 1..Len(c)
      BY <1>2
    <3>2. Len(c) \in RootDepths(c)
      BY <1>4, <1>5
    <3>3. ASSUME NEW y \in RootDepths(c), x < y PROVE x <= Len(c) - 1
      BY <1>1, <3>1, <3>3
    <3>4. x <= Len(c) - 1 => x < Len(c)
      BY <1>1, <3>1
    <3> QED BY <3>2, <3>3, <3>4
  <2> QED BY <1>3, <2>1 DEF PopFrame
<1>6. ASSUME ~Rooted(c[1]) PROVE RootDepths(c) = RootDepths(Tail(c))
  <2>1. \A x \in RootDepths(c) : x <= Len(c) - 1
    BY <1>1, <1>2, <1>4, <1>6
  <2> QED BY <1>3, <2>1
<1> QED BY <1>5, <1>6

(* A dispatch drops what protects nothing, up to a block that protects.      *)
LEMMA DropNone ==
  ASSUME NEW c \in Seq(Blocks) PROVE Drop(c, 0) = c
<1>1. Len(c) \in Nat /\ 0 \in 0..Len(c)
  BY LenProperties
<1>2. Drop(c, 0) \in Seq(Blocks) /\ Len(Drop(c, 0)) = Len(c)
  BY <1>1, DropLemma
<1>3. \A i \in 1..Len(c) : Drop(c, 0)[i] = c[i]
  BY <1>1, DropLemma
<1> QED BY <1>2, <1>3, SeqEqual

LEMMA DropTail ==
  ASSUME NEW c \in Seq(Blocks), c # <<>>, NEW n \in 0..Len(c) - 1
  PROVE  Drop(Tail(c), n) = Drop(c, n + 1)
<1> DEFINE t == Tail(c)
<1>1. /\ Len(c) \in Nat \ {0} /\ n + 1 \in 0..Len(c) /\ t \in Seq(Blocks) /\ Len(t) = Len(c) - 1
      /\ \A i \in 1..Len(c) - 1 : t[i] = c[i + 1]
  BY TailLemma, DropLemma
<1> HIDE DEF t
<1>2. /\ Drop(t, n) \in Seq(Blocks) /\ Len(Drop(t, n)) = Len(c) - (n + 1)
      /\ \A i \in 1..Len(c) - (n + 1) : Drop(t, n)[i] = t[i + n]
  <2>1. n \in 0..Len(t) /\ Len(t) - n = Len(c) - (n + 1)
    BY <1>1
  <2>2. Drop(t, n) \in Seq(Blocks) /\ Len(Drop(t, n)) = Len(t) - n
    BY ZenonT(60), <1>1, <2>1, DropLemma
  <2>3. \A i \in 1..Len(t) - n : Drop(t, n)[i] = t[i + n]
    BY ZenonT(60), <1>1, <2>1, DropLemma
  <2> QED BY <2>1, <2>2, <2>3
<1>3. /\ Drop(c, n + 1) \in Seq(Blocks) /\ Len(Drop(c, n + 1)) = Len(c) - (n + 1)
      /\ \A i \in 1..Len(c) - (n + 1) : Drop(c, n + 1)[i] = c[i + (n + 1)]
  <2>1. Drop(c, n + 1) \in Seq(Blocks) /\ Len(Drop(c, n + 1)) = Len(c) - (n + 1)
    BY ZenonT(60), <1>1, DropLemma
  <2>2. \A i \in 1..Len(c) - (n + 1) : Drop(c, n + 1)[i] = c[i + (n + 1)]
    BY ZenonT(60), <1>1, DropLemma
  <2> QED BY <2>1, <2>2
<1>4. ASSUME NEW i \in 1..Len(c) - (n + 1) PROVE t[i + n] = c[i + (n + 1)]
  <2>1. i + n \in 1..Len(c) - 1 /\ (i + n) + 1 = i + (n + 1)
    BY <1>1
  <2> QED BY <1>1, <2>1
<1>5. Drop(t, n) = Drop(c, n + 1)
  <2>1. Len(Drop(t, n)) = Len(Drop(c, n + 1))
    BY <1>2, <1>3
  <2>2. \A i \in 1..Len(Drop(t, n)) : Drop(t, n)[i] = Drop(c, n + 1)[i]
    BY <1>2, <1>3, <1>4
  <2>3. Drop(t, n) \in Seq(Blocks) /\ Drop(c, n + 1) \in Seq(Blocks)
    BY <1>2, <1>3
  <2> HIDE DEF t
  <2> QED BY <2>1, <2>2, <2>3, SeqEqual
<1> QED BY <1>5 DEF t

LEMMA DispatchUnwinds ==
  ASSUME NEW c \in Seq(Blocks), NEW d, Dispatch(c, d)
  PROVE  \E n \in 0..Len(c) :
           /\ ctl' = Drop(c, n)
           /\ \A i \in 1..n : ~Protects(c[i])
           /\ \/ /\ pc' = "landed" /\ n < Len(c) /\ Protects(c[n + 1])
                 /\ shadow' = UnwindBelow(d, Len(c) - n)
              \/ pc' = "exit" /\ shadow' = d
<1>1. DOMAIN c = 1..Len(c) /\ Len(c) \in Nat
  BY LenProperties
<1>2. CASE \E i \in DOMAIN c : Protects(c[i])
  <2> DEFINE T == {i \in DOMAIN c : Protects(c[i])}
             h == FindHandler(c)
  <2>1. PICK m \in T : \A y \in T : m <= y
    <3>1. T \subseteq Nat /\ T # {}
      BY <1>1, <1>2
    <3> QED BY <3>1, NatMin
  <2>2. m \in DOMAIN c /\ Protects(c[m]) /\ \A j \in 1..m - 1 : ~Protects(c[j])
    BY <1>1, <2>1
  <2>3. h \in DOMAIN c /\ Protects(c[h]) /\ \A j \in 1..h - 1 : ~Protects(c[j])
    BY <2>2 DEF FindHandler
  <2>4. pc' = "landed" /\ ctl' = SubSeq(c, h, Len(c)) /\ shadow' = UnwindBelow(d, Len(c) - h + 1)
    BY <1>2 DEF Dispatch
  <2> HIDE DEF h, T
  <2>5. h - 1 \in 0..Len(c) /\ (h - 1) + 1 = h /\ Len(c) - (h - 1) = Len(c) - h + 1 /\ h - 1 < Len(c)
    BY <1>1, <2>3
  <2>6. ctl' = Drop(c, h - 1)
    BY <2>4, <2>5 DEF Drop
  <2> QED BY <2>3, <2>4, <2>5, <2>6
<1>3. CASE ~\E i \in DOMAIN c : Protects(c[i])
  <2>1. pc' = "exit" /\ ctl' = Drop(c, 0) /\ shadow' = d
    BY <1>3, DropNone DEF Dispatch
  <2> QED BY <1>1, <2>1
<1> QED BY <1>2, <1>3
----------------------------------------------------------------------------
(* What the invariant says of one block, of the lists and of an entry.       *)
LEMMA StackFacts ==
  ASSUME TypeOK
  PROVE  /\ Len(ctl) \in Nat /\ DOMAIN ctl = 1..Len(ctl) /\ ctl \in Seq(Blocks)
         /\ Len(handling) \in Nat /\ DOMAIN handling = 1..Len(handling)
         /\ handling \in Seq(Entries)
         /\ \A i \in DOMAIN ctl : ctl[i] \in Blocks /\ ctl[i].exc \in 0..MaxExc /\ ctl[i].from \in Froms
         /\ \A i \in DOMAIN handling : handling[i] \in Entries
         /\ ctl # <<>> => Head(ctl) = ctl[1] /\ 1 \in DOMAIN ctl
         /\ handling # <<>> => Head(handling) = handling[1] /\ 1 \in DOMAIN handling
<1>1. ctl \in Seq(Blocks) /\ handling \in Seq(Entries)
  BY DEF TypeOK, Entries
<1>2. /\ Len(ctl) \in Nat /\ DOMAIN ctl = 1..Len(ctl)
      /\ ctl # <<>> => Head(ctl) = ctl[1] /\ 1 \in DOMAIN ctl
      /\ \A i \in DOMAIN ctl : ctl[i] \in Blocks
  BY <1>1, LenProperties, EmptySeq, HeadTailProperties, ElementOfSeq
<1>3. /\ Len(handling) \in Nat /\ DOMAIN handling = 1..Len(handling)
      /\ handling # <<>> => Head(handling) = handling[1] /\ 1 \in DOMAIN handling
      /\ \A i \in DOMAIN handling : handling[i] \in Entries
  BY <1>1, LenProperties, EmptySeq, HeadTailProperties, ElementOfSeq
<1>4. \A b \in Blocks : b.exc \in 0..MaxExc /\ b.from \in Froms
  BY DEF Blocks
<1> QED BY <1>1, <1>2, <1>3, <1>4

(* No entry of the handling stack is None, and each is known to a handler.   *)
LEMMA HandlingFacts ==
  ASSUME IInv
  PROVE  /\ \A i \in DOMAIN handling :
              /\ handling[i] \in Excs
              /\ \E p \in DOMAIN ctl : IsHandler(ctl[p]) /\ ctl[p].exc = handling[i].id
         /\ Handled = NoExc <=> handling = <<>>
         /\ handling # <<>> => Handled = handling[1] /\ Handled \in Excs
         /\ Handled \in Entries
<1>1. /\ DOMAIN handling = 1..Len(handling)
      /\ \A i \in DOMAIN handling : handling[i] \in Entries
      /\ handling # <<>> => Head(handling) = handling[1] /\ 1 \in DOMAIN handling
  BY StackFacts DEF IInv
<1>2. \A i \in DOMAIN handling :
        \E p \in DOMAIN ctl : IsHandler(ctl[p]) /\ ctl[p].exc = handling[i].id
  BY DEF IInv, HandlingMatches, Lists
<1>3. \A p \in DOMAIN ctl : IsHandler(ctl[p]) => ctl[p].exc # 0
  BY DEF IInv, StackOK, IsHandler
<1>4. NoExc.id = 0
  BY DEF NoExc
<1>5. \A i \in DOMAIN handling : handling[i] \in Excs
  BY <1>1, <1>2, <1>3, <1>4 DEF Entries
<1>6. \A e \in Excs : e # NoExc
  BY <1>4 DEF Excs
<1> QED BY <1>1, <1>2, <1>5, <1>6 DEF Handled, Entries
----------------------------------------------------------------------------
(* What the actions that raise have in common: the stack is unwound to the   *)
(* block that protects; the exception in flight belongs to no constructor    *)
(* that is left; and it carries what was armed for it.                       *)
Raises == RaiseBuiltin \/ RaiseInstance \/ RaiseCustom \/ Reraise \/ ReraiseNothing
Unwound(n) ==
  /\ ctl' = Drop(ctl, n)
  /\ \A i \in 1..n : ~Protects(ctl[i])
  /\ \/ /\ pc' = "landed" /\ n < Len(ctl) /\ Protects(ctl[n + 1])
        /\ shadow' = RootDepths(ctl')
     \/ pc' = "exit" /\ shadow' \subseteq shadow
  /\ \A i \in n + 1..Len(ctl) : ctl[i].kind = "ctor" => ctl[i].exc # cur'.id

LEMMA BuiltExc ==
  ASSUME ExceptionsAssumption, IInv, NEW id \in 1..MaxExc, NEW inst \in 0..MaxInst, NEW s \in 1..MaxExc,
         NEW from \in Froms
  PROVE  /\ Built(id, inst, s, from) \in Excs /\ Built(id, inst, s, from).id = id
         /\ Pending(from, s) => OwnCause(Built(id, inst, s, from))
<1>1. NewContext(inst) \in 0..MaxExc
  <2>1. 0 \in 0..MaxExc /\ \A e \in Excs : e.id \in 0..MaxExc
    BY DEF ExceptionsAssumption, Excs
  <2>2. CASE Handled = NoExc \/ (inst # 0 /\ Handled.inst = inst)
    BY <2>1, <2>2 DEF NewContext
  <2>3. CASE ~(Handled = NoExc \/ (inst # 0 /\ Handled.inst = inst))
    <3>1. Handled \in Excs
      BY <2>3, HandlingFacts
    <3> QED BY <2>1, <2>3, <3>1 DEF NewContext
  <2> QED BY <2>2, <2>3
<1>2. pendingCause \in 0..MaxExc /\ (pendingSuppress \/ pendingCause # 0) \in BOOLEAN
  BY DEF IInv, TypeOK
<1>3. Built(id, inst, s, from) \in Excs
  BY <1>1, <1>2 DEF Built, Excs
<1>4. ASSUME Pending(from, s) PROVE OwnCause(Built(id, inst, s, from))
  <2>1. /\ pendingCause = (IF from = "cause" THEN s ELSE 0)
        /\ pendingSuppress = (from = "none") /\ s # 0
    BY <1>4 DEF Pending
  <2>2. (pendingSuppress \/ pendingCause # 0) = (from # "nothing")
    BY <2>1 DEF Froms
  <2> QED BY <2>1, <2>2 DEF OwnCause, Built
<1> QED BY <1>3, <1>4 DEF Built

LEMMA RaiseUnwinds ==
  ASSUME ExceptionsAssumption, IInv, Raises
  PROVE  /\ \E n \in 0..Len(ctl) : Unwound(n) /\ (RaiseCustom => n > 0)
         /\ RaiseCustom => ctl # <<>> /\ ctl[1].kind = "ctor"
<1>0. /\ TypeOK /\ StmtOK /\ StackOK /\ IdsFresh /\ HandlingMatches /\ ShadowMatches
      /\ ctl \in Seq(Blocks) /\ Len(ctl) \in Nat /\ DOMAIN ctl = 1..Len(ctl)
      /\ ctl # <<>> => Head(ctl) = ctl[1]
  BY StackFacts DEF IInv
<1>1. RaiseCustom => ctl # <<>> /\ ctl[1].kind = "ctor"
  BY <1>0 DEF RaiseCustom
<1>2. shadow = RootDepths(ctl)
  BY <1>0 DEF ShadowMatches, RootDepths, Raises, RaiseBuiltin, RaiseInstance, RaiseCustom,
              Reraise, ReraiseNothing, Running
<1>3. \A i \in DOMAIN ctl : /\ ctl[i].exc < nextStmt
                            /\ ctl[i].kind = "ctor" => ctl[i].exc # cur.id
  BY <1>0 DEF IdsFresh, Unknown
<1>4. ASSUME Dispatch(ctl, shadow), \A i \in DOMAIN ctl : ctl[i].kind = "ctor" => ctl[i].exc # cur'.id
      PROVE  \E n \in 0..Len(ctl) : Unwound(n)
  <2>1. PICK n \in 0..Len(ctl) :
           /\ ctl' = Drop(ctl, n)
           /\ \A i \in 1..n : ~Protects(ctl[i])
           /\ \/ /\ pc' = "landed" /\ n < Len(ctl) /\ Protects(ctl[n + 1])
                 /\ shadow' = UnwindBelow(shadow, Len(ctl) - n)
              \/ pc' = "exit" /\ shadow' = shadow
    BY <1>0, <1>4, DispatchUnwinds
  <2>2. UnwindBelow(shadow, Len(ctl) - n) = RootDepths(ctl')
    BY <1>0, <1>2, <2>1, RootDepthsDrop
  <2>3. \A i \in n + 1..Len(ctl) : i \in DOMAIN ctl
    BY <1>0
  <2> QED BY <1>4, <2>1, <2>2, <2>3 DEF Unwound
<1>5. CASE RaiseBuiltin
  <2>1. cur'.id = stmt.id /\ Dispatch(ctl, shadow)
    BY <1>5 DEF RaiseBuiltin, Built
  <2>2. \A i \in DOMAIN ctl : ctl[i].exc # cur'.id
    BY <1>0, <1>5, <2>1 DEF RaiseBuiltin, IdsFresh
  <2> QED BY <1>4, <1>5, <2>1, <2>2 DEF RaiseBuiltin, RaiseCustom, Running
<1>6. CASE RaiseInstance
  <2>1. cur'.id = stmt.target[1] /\ Dispatch(ctl, shadow) /\ stmt.target \in bound
    BY <1>0, <1>6 DEF RaiseInstance, Built, StmtOK, Stmts
  <2>2. \A i \in DOMAIN ctl : ctl[i].kind = "ctor" => ctl[i].exc # cur'.id
    BY <1>0, <2>1 DEF IdsFresh, Unknown
  <2> QED BY <1>4, <1>6, <2>1, <2>2 DEF RaiseInstance, RaiseCustom, Running
<1>7. CASE RaiseCustom
  <2> DEFINE c == Tail(ctl)
  <2>1. /\ cur'.id = ctl[1].exc /\ Dispatch(c, PopFrame(shadow))
        /\ ctl # <<>> /\ Rooted(ctl[1]) /\ ~Protects(ctl[1]) /\ ctl[1].kind = "ctor"
    BY <1>0, <1>7 DEF RaiseCustom, Built, Rooted, Protects
  <2>2. /\ Len(ctl) \in Nat \ {0} /\ 1 \in 0..Len(ctl)
        /\ c \in Seq(Blocks) /\ Len(c) = Len(ctl) - 1
        /\ \A i \in 1..Len(ctl) - 1 : c[i] = ctl[i + 1]
        /\ \A i \in 2..Len(ctl) : c[i - 1] = ctl[i]
    BY <1>0, <2>1, TailLemma, DropLemma
  <2>3. PopFrame(shadow) = RootDepths(c)
    BY <1>0, <1>2, <2>1, RootDepthsPop
  <2> HIDE DEF c
  <2>4. PICK n \in 0..Len(c) :
           /\ ctl' = Drop(c, n)
           /\ \A i \in 1..n : ~Protects(c[i])
           /\ \/ /\ pc' = "landed" /\ n < Len(c) /\ Protects(c[n + 1])
                 /\ shadow' = UnwindBelow(PopFrame(shadow), Len(c) - n)
              \/ pc' = "exit" /\ shadow' = PopFrame(shadow)
    BY <2>1, <2>2, DispatchUnwinds
  <2>5. UnwindBelow(PopFrame(shadow), Len(c) - n) = RootDepths(ctl')
    BY <2>2, <2>3, <2>4, RootDepthsDrop
  <2>6. ctl' = Drop(ctl, n + 1)
    BY <1>0, <2>1, <2>2, <2>4, DropTail DEF c
  <2>7. \A i \in 1..n + 1 : ~Protects(ctl[i])
    <3> SUFFICES ASSUME NEW i \in 1..n + 1 PROVE ~Protects(ctl[i])
      OBVIOUS
    <3>1. i = 1 \/ (i - 1 \in 1..n /\ i \in 2..Len(ctl))
      BY <2>2
    <3> QED BY <2>1, <2>2, <2>4, <3>1
  <2>8. \A i \in (n + 1) + 1..Len(ctl) : ctl[i].kind = "ctor" => ctl[i].exc # cur'.id
    <3> SUFFICES ASSUME NEW i \in (n + 1) + 1..Len(ctl), ctl[i].kind = "ctor"
                 PROVE  ctl[i].exc # cur'.id
      OBVIOUS
    <3>1. i \in DOMAIN ctl /\ 1 \in DOMAIN ctl /\ i # 1
      BY <1>0, <2>2
    <3> QED BY <1>0, <2>1, <3>1 DEF IdsFresh
  <2>9. n < Len(c) /\ Protects(c[n + 1]) => n + 1 < Len(ctl) /\ Protects(ctl[(n + 1) + 1])
    BY <2>2
  <2>10. PopFrame(shadow) \subseteq shadow
    BY DEF PopFrame
  <2>11. n + 1 \in 0..Len(ctl) /\ n + 1 > 0
    BY <2>2
  <2>12. Unwound(n + 1)
    BY <2>4, <2>5, <2>6, <2>7, <2>8, <2>9, <2>10 DEF Unwound
  <2> QED BY <1>1, <2>11, <2>12
<1>8. CASE Reraise
  <2>1. Dispatch(ctl, shadow) /\ (cur' = cur \/ (cur' = Handled /\ handling # <<>>))
    BY <1>8, HandlingFacts DEF Reraise
  <2>2. \A i \in DOMAIN ctl : ctl[i].kind = "ctor" => ctl[i].exc # cur'.id
    <3>1. CASE cur' = cur
      BY <1>3, <3>1
    <3>2. CASE cur' = Handled /\ handling # <<>>
      <4>1. PICK p \in DOMAIN ctl : IsHandler(ctl[p]) /\ ctl[p].exc = cur'.id
        BY <3>2, StackFacts, HandlingFacts DEF IInv
      <4> QED BY <1>0, <4>1 DEF IdsFresh, IsHandler
    <3> QED BY <2>1, <3>1, <3>2
  <2>3. ~RaiseCustom \/ \E n \in 0..Len(ctl) : Unwound(n)
    BY <1>4, <2>1, <2>2
  <2>4. RaiseCustom => cur = NoExc
    BY <1>0 DEF RaiseCustom, Running, HandlingMatches
  <2> QED BY <1>1, <1>4, <1>7, <2>1, <2>2
<1>9. CASE ReraiseNothing
  <2>1. cur'.id = nextStmt /\ Dispatch(ctl, shadow)
    BY <1>9 DEF ReraiseNothing, Built
  <2>2. \A i \in DOMAIN ctl : ctl[i].exc # cur'.id
    BY <1>0, <1>3, <2>1 DEF TypeOK
  <2> QED BY <1>1, <1>4, <1>7, <2>1, <2>2
<1> QED BY <1>5, <1>6, <1>7, <1>8, <1>9 DEF Raises

LEMMA RaiseCarries ==
  ASSUME ExceptionsAssumption, IInv, Raises
  PROVE  /\ cur' \in Excs /\ cur'.id < nextStmt' /\ nextStmt <= nextStmt'
         /\ nextStmt' \in 1..MaxExc + 1 /\ nextInst' \in 1..MaxInst + 1
         /\ handling' = handling /\ bound' = bound /\ pc # "landed" /\ pc # "exit"
         /\ pendingCause' \in 0..MaxExc /\ pendingSuppress' \in BOOLEAN /\ boundary' \in BOOLEAN
         /\ ~boundary' => /\ ~boundary /\ OwnCause(cur')
                          /\ pendingCause' = 0 /\ pendingSuppress' = FALSE
                          /\ \A i \in DOMAIN ctl : Armed(i) => i = 1 /\ RaiseCustom
<1>0. /\ TypeOK /\ StmtOK /\ StackOK /\ IdsFresh /\ HandlingMatches /\ PendingOwned /\ CausesOwned
      /\ ctl \in Seq(Blocks) /\ Len(ctl) \in Nat /\ DOMAIN ctl = 1..Len(ctl)
      /\ ctl # <<>> => Head(ctl) = ctl[1] /\ 1 \in DOMAIN ctl
      /\ \A i \in DOMAIN ctl : ctl[i].exc \in 0..MaxExc /\ ctl[i].from \in Froms
  BY StackFacts DEF IInv
<1>1. /\ MaxExc \in Nat /\ MaxInst \in Nat /\ 0 \in 0..MaxInst /\ 0 \in 0..MaxExc
      /\ pendingCause \in 0..MaxExc /\ pendingSuppress \in BOOLEAN /\ boundary \in BOOLEAN
      /\ nextStmt \in 1..MaxExc + 1 /\ nextInst \in 1..MaxInst + 1 /\ cur \in Excs \cup {NoExc}
  BY <1>0 DEF TypeOK, ExceptionsAssumption
<1>2. InArmedCtor <=> \E i \in DOMAIN ctl : Armed(i)
  BY DEF InArmedCtor, Armed
<1>3. CASE RaiseBuiltin \/ RaiseInstance
  <2>1. stmt \in Stmts /\ stmt.id < nextStmt /\ pc = "armed"
    BY <1>0, <1>3 DEF RaiseBuiltin, RaiseInstance, StmtOK
  <2>2. stmt.id \in 1..MaxExc /\ stmt.from \in Froms /\ stmt.target \in bound \cup {NewTarget}
    BY <2>1 DEF Stmts
  <2>3. PICK id \in 1..MaxExc, inst \in 0..MaxInst :
          cur' = Built(id, inst, stmt.id, stmt.from) /\ id < nextStmt
    <3>1. CASE RaiseBuiltin
      BY <1>1, <2>1, <2>2, <3>1 DEF RaiseBuiltin
    <3>2. CASE RaiseInstance
      <4>1. stmt.target \in bound /\ bound \subseteq (1..MaxExc) \X (1..MaxInst)
        BY <1>0, <2>2, <3>2 DEF RaiseInstance, TypeOK
      <4>2. stmt.target[1] \in 1..MaxExc /\ stmt.target[2] \in 0..MaxInst /\ stmt.target[1] < nextStmt
        BY <1>0, <1>1, <4>1 DEF IdsFresh
      <4> QED BY <3>2, <4>2 DEF RaiseInstance
    <3> QED BY <1>3, <3>1, <3>2
  <2>4. /\ cur' \in Excs /\ cur'.id = id
        /\ Pending(stmt.from, stmt.id) => OwnCause(cur')
    BY <2>2, <2>3, BuiltExc
  <2>5. /\ nextStmt' = nextStmt /\ nextInst' = nextInst /\ handling' = handling /\ bound' = bound
        /\ boundary' = boundary /\ pendingCause' = 0 /\ pendingSuppress' = FALSE
    BY <1>3 DEF RaiseBuiltin, RaiseInstance, TakePending
  <2>6. ~boundary => ~InArmedCtor /\ Pending(stmt.from, stmt.id)
    BY <1>0, <2>1 DEF PendingOwned
  <2>7. /\ cur' \in Excs /\ cur'.id < nextStmt' /\ nextStmt <= nextStmt'
        /\ nextStmt' \in 1..MaxExc + 1 /\ nextInst' \in 1..MaxInst + 1
        /\ handling' = handling /\ bound' = bound
    BY <1>1, <2>3, <2>4, <2>5
  <2>8. /\ pc # "landed" /\ pc # "exit"
        /\ pendingCause' \in 0..MaxExc /\ pendingSuppress' \in BOOLEAN /\ boundary' \in BOOLEAN
    BY <1>1, <2>1, <2>5
  <2>9. ASSUME ~boundary'
        PROVE  /\ ~boundary /\ OwnCause(cur') /\ pendingCause' = 0 /\ pendingSuppress' = FALSE
               /\ \A i \in DOMAIN ctl : Armed(i) => i = 1 /\ RaiseCustom
    BY <1>2, <2>4, <2>5, <2>6, <2>9
  <2> QED BY <2>7, <2>8, <2>9
<1>4. CASE RaiseCustom
  <2>1. /\ ctl # <<>> /\ ctl[1].kind = "ctor" /\ pc = "run" /\ nextInst <= MaxInst
        /\ cur' = Built(ctl[1].exc, nextInst, ctl[1].exc, ctl[1].from)
        /\ nextStmt' = nextStmt /\ nextInst' = nextInst + 1 /\ handling' = handling /\ bound' = bound
        /\ boundary' = boundary /\ pendingCause' = 0 /\ pendingSuppress' = FALSE
    BY <1>0, <1>4 DEF RaiseCustom, Running, TakePending
  <2>2. /\ ctl[1].exc \in 1..MaxExc /\ ctl[1].from \in Froms /\ nextInst \in 0..MaxInst
        /\ ctl[1].exc < nextStmt
    BY <1>0, <1>1, <2>1 DEF StackOK, IdsFresh
  <2>3. /\ cur' \in Excs /\ cur'.id = ctl[1].exc
        /\ Pending(ctl[1].from, ctl[1].exc) => OwnCause(cur')
    BY <2>1, <2>2, BuiltExc
  <2>4. ~boundary => \A i \in DOMAIN ctl : Armed(i) => i = 1
    <3> SUFFICES ASSUME ~boundary, NEW i \in DOMAIN ctl, Armed(i), i # 1 PROVE FALSE
      OBVIOUS
    <3>1. 1 \in DOMAIN ctl /\ 1 < i
      BY <1>0
    <3> QED BY <1>0, <2>1, <3>1 DEF PendingOwned
  <2>5. ~boundary => Pending(ctl[1].from, ctl[1].exc)
    <3>1. CASE Armed(1)
      BY <1>0, <2>1, <3>1 DEF PendingOwned
    <3>2. CASE ~Armed(1)
      <4>1. ctl[1].from = "nothing"
        BY <2>1, <3>2 DEF Armed
      <4>2. ~boundary => Pending("nothing", 0)
        BY <1>0, <1>2, <2>1, <2>4, <3>2 DEF PendingOwned
      <4> QED BY <4>1, <4>2 DEF Pending
    <3> QED BY <3>1, <3>2
  <2>6. /\ cur' \in Excs /\ cur'.id < nextStmt' /\ nextStmt <= nextStmt'
        /\ nextStmt' \in 1..MaxExc + 1 /\ nextInst' \in 1..MaxInst + 1
        /\ handling' = handling /\ bound' = bound
    BY <1>1, <2>1, <2>2, <2>3
  <2>7. /\ pc # "landed" /\ pc # "exit"
        /\ pendingCause' \in 0..MaxExc /\ pendingSuppress' \in BOOLEAN /\ boundary' \in BOOLEAN
    BY <1>1, <2>1
  <2>8. ASSUME ~boundary'
        PROVE  /\ ~boundary /\ OwnCause(cur') /\ pendingCause' = 0 /\ pendingSuppress' = FALSE
               /\ \A i \in DOMAIN ctl : Armed(i) => i = 1 /\ RaiseCustom
    BY <1>4, <2>1, <2>3, <2>4, <2>5, <2>8
  <2> QED BY <2>6, <2>7, <2>8
<1>5. CASE Reraise
  <2>1. /\ cur' \in {cur, Handled} /\ cur' # NoExc /\ pc \in {"run", "reraise"}
        /\ nextStmt' = nextStmt /\ nextInst' = nextInst /\ handling' = handling /\ bound' = bound
        /\ pendingCause' = pendingCause /\ pendingSuppress' = pendingSuppress
        /\ boundary' = (boundary \/ InArmedCtor)
    BY <1>5 DEF Reraise, MarkBoundary
  <2>2. /\ cur' \in Excs /\ cur'.id < nextStmt
        /\ ~boundary => OwnCause(cur')
    <3>1. CASE cur' = cur
      BY <1>0, <1>1, <2>1, <3>1 DEF IdsFresh, CausesOwned
    <3>2. CASE cur' = Handled
      <4>1. handling # <<>> /\ cur' = handling[1] /\ 1 \in DOMAIN handling /\ cur' \in Excs
        BY <1>0, <2>1, <3>2, HandlingFacts, StackFacts
      <4>2. PICK p \in DOMAIN ctl : ctl[p].exc = cur'.id
        BY <4>1, HandlingFacts
      <4>3. cur'.id < nextStmt
        BY <1>0, <4>2 DEF IdsFresh
      <4>4. ~boundary => OwnCause(handling[1])
        BY <1>0, <4>1 DEF CausesOwned
      <4> QED BY <4>1, <4>3, <4>4
    <3> QED BY <2>1, <3>1, <3>2
  <2>3. ~boundary /\ ~InArmedCtor => pendingCause = 0 /\ pendingSuppress = FALSE
    BY <1>0, <2>1 DEF PendingOwned, Pending
  <2>4. /\ cur' \in Excs /\ cur'.id < nextStmt' /\ nextStmt <= nextStmt'
        /\ nextStmt' \in 1..MaxExc + 1 /\ nextInst' \in 1..MaxInst + 1
        /\ handling' = handling /\ bound' = bound
    BY <1>1, <2>1, <2>2
  <2>5. /\ pc # "landed" /\ pc # "exit"
        /\ pendingCause' \in 0..MaxExc /\ pendingSuppress' \in BOOLEAN /\ boundary' \in BOOLEAN
    BY <1>1, <2>1
  <2>6. ASSUME ~boundary'
        PROVE  /\ ~boundary /\ OwnCause(cur') /\ pendingCause' = 0 /\ pendingSuppress' = FALSE
               /\ \A i \in DOMAIN ctl : Armed(i) => i = 1 /\ RaiseCustom
    BY <1>2, <2>1, <2>2, <2>3, <2>6
  <2> QED BY <2>4, <2>5, <2>6
<1>6. CASE ReraiseNothing
  <2>1. /\ nextStmt <= MaxExc /\ pc \in {"run", "reraise"}
        /\ cur' = Built(nextStmt, 0, nextStmt, "nothing")
        /\ nextStmt' = nextStmt + 1 /\ nextInst' = nextInst /\ handling' = handling /\ bound' = bound
        /\ pendingCause' = 0 /\ pendingSuppress' = FALSE
        /\ boundary' = (boundary \/ InArmedCtor)
    BY <1>6 DEF ReraiseNothing, MarkBoundary, TakePending
  <2>2. nextStmt \in 1..MaxExc /\ "nothing" \in Froms
    BY <1>1, <2>1 DEF Froms
  <2>3. /\ cur' \in Excs /\ cur'.id = nextStmt
        /\ Pending("nothing", nextStmt) => OwnCause(cur')
    BY <1>1, <2>1, <2>2, BuiltExc
  <2>4. ~boundary /\ ~InArmedCtor => Pending("nothing", nextStmt)
    BY <1>0, <2>1 DEF PendingOwned, Pending
  <2>5. /\ cur' \in Excs /\ cur'.id < nextStmt' /\ nextStmt <= nextStmt'
        /\ nextStmt' \in 1..MaxExc + 1 /\ nextInst' \in 1..MaxInst + 1
        /\ handling' = handling /\ bound' = bound
    BY <1>1, <2>1, <2>2, <2>3
  <2>6. /\ pc # "landed" /\ pc # "exit"
        /\ pendingCause' \in 0..MaxExc /\ pendingSuppress' \in BOOLEAN /\ boundary' \in BOOLEAN
    BY <1>1, <2>1
  <2>7. ASSUME ~boundary'
        PROVE  /\ ~boundary /\ OwnCause(cur') /\ pendingCause' = 0 /\ pendingSuppress' = FALSE
               /\ \A i \in DOMAIN ctl : Armed(i) => i = 1 /\ RaiseCustom
    BY <1>2, <2>1, <2>3, <2>4, <2>7
  <2> QED BY <2>5, <2>6, <2>7
<1> QED BY <1>3, <1>4, <1>5, <1>6 DEF Raises

LEMMA RaiseKeeps ==
  ASSUME ExceptionsAssumption, IInv, Raises
  PROVE  IInv'
<1>0. /\ TypeOK /\ StmtOK /\ StackOK /\ IdsFresh /\ HandlingMatches /\ PendingOwned /\ CausesOwned
      /\ ctl \in Seq(Blocks) /\ Len(ctl) \in Nat /\ DOMAIN ctl = 1..Len(ctl)
      /\ handling \in Seq(Entries)
  BY StackFacts DEF IInv
<1>1. PICK n \in 0..Len(ctl) : Unwound(n) /\ (RaiseCustom => n > 0)
  BY RaiseUnwinds
<1>2. /\ cur' \in Excs /\ cur'.id < nextStmt' /\ nextStmt <= nextStmt'
      /\ nextStmt' \in 1..MaxExc + 1 /\ nextInst' \in 1..MaxInst + 1
      /\ handling' = handling /\ bound' = bound
      /\ pendingCause' \in 0..MaxExc /\ pendingSuppress' \in BOOLEAN /\ boundary' \in BOOLEAN
  BY RaiseCarries
<1>3. ~boundary' => /\ ~boundary /\ OwnCause(cur')
                    /\ pendingCause' = 0 /\ pendingSuppress' = FALSE
                    /\ \A i \in DOMAIN ctl : Armed(i) => i = 1 /\ RaiseCustom
  BY RaiseCarries
<1>4. /\ ctl' = Drop(ctl, n) /\ ctl' \in Seq(Blocks) /\ Len(ctl') = Len(ctl) - n
      /\ \A i \in DOMAIN ctl' : i + n \in DOMAIN ctl /\ i + n > n /\ ctl'[i] = ctl[i + n]
      /\ \A i \in 1..n : ~Protects(ctl[i])
      /\ DOMAIN ctl' = 1..Len(ctl) - n
  <2>1. /\ ctl' = Drop(ctl, n) /\ ctl' \in Seq(Blocks) /\ Len(ctl') = Len(ctl) - n
        /\ \A i \in 1..Len(ctl) - n : ctl'[i] = ctl[i + n]
        /\ \A i \in 1..n : ~Protects(ctl[i])
        /\ DOMAIN ctl' = 1..Len(ctl) - n
    <3>1. ctl' = Drop(ctl, n) /\ \A i \in 1..n : ~Protects(ctl[i])
      BY <1>1 DEF Unwound
    <3>2. /\ Drop(ctl, n) \in Seq(Blocks) /\ Len(Drop(ctl, n)) = Len(ctl) - n
          /\ DOMAIN Drop(ctl, n) = 1..Len(ctl) - n
          /\ \A i \in 1..Len(ctl) - n : Drop(ctl, n)[i] = ctl[i + n]
      BY ZenonT(60), <1>0, <1>1, DropLemma
    <3> QED BY <3>1, <3>2
  <2> QED BY <1>0, <2>1
<1>5. /\ pc' \in {"landed", "exit"}
      /\ pc' = "landed" => n < Len(ctl) /\ Protects(ctl[n + 1]) /\ shadow' = RootDepths(ctl')
      /\ shadow' \subseteq 1..MaxDepth
      /\ \A i \in n + 1..Len(ctl) : ctl[i].kind = "ctor" => ctl[i].exc # cur'.id
  <2>1. RootDepths(ctl') \subseteq 1..Len(ctl) - n
    BY <1>4, RootDepthsElement
  <2>2. Len(ctl) <= MaxDepth /\ MaxDepth \in Nat /\ shadow \subseteq 1..MaxDepth
    BY <1>0 DEF StackOK, ExceptionsAssumption, TypeOK
  <2>3. 1..Len(ctl) - n \subseteq 1..MaxDepth
    BY <1>0, <2>2
  <2> QED BY <1>1, <2>1, <2>2, <2>3 DEF Unwound
<1>6. TypeOK'
  BY <1>0, <1>2, <1>4, <1>5 DEF TypeOK, Entries
<1>7. StmtOK'
  BY <1>5 DEF StmtOK
<1>8. StackOK'
  <2>1. Len(ctl') <= MaxDepth
    BY <1>0, <1>4 DEF StackOK, ExceptionsAssumption
  <2>2. pc' = "landed" => ctl' # <<>> /\ Protects(ctl'[1])
    <3> SUFFICES ASSUME pc' = "landed" PROVE ctl' # <<>> /\ Protects(ctl'[1])
      OBVIOUS
    <3>0. n < Len(ctl) /\ n \in Nat /\ Len(ctl) \in Nat
      BY <1>0, <1>5
    <3>1. Len(ctl) - n # 0 /\ 1 \in 1..Len(ctl) - n
      BY <3>0
    <3>2. ctl'[1] = ctl[n + 1]
      BY <1>4, <3>1
    <3>3. ctl' # <<>>
      BY <1>4, <3>1
    <3> QED BY <1>5, <3>2, <3>3
  <2>3. \A i \in DOMAIN ctl' : ctl'[i].exc = 0 <=> ctl'[i].kind \notin {"ctor", "handler"}
    BY <1>0, <1>4 DEF StackOK
  <2> QED BY <2>1, <2>2, <2>3 DEF StackOK
<1>9. IdsFresh'
  <2>1. \A b \in bound : b[1] < nextStmt /\ b[1] \in 1..MaxExc
    BY <1>0 DEF IdsFresh, TypeOK
  <2>2. \A i \in DOMAIN ctl : ctl[i].exc < nextStmt /\ ctl[i].exc \in 0..MaxExc
    BY <1>0, StackFacts DEF IdsFresh
  <2>3. MaxExc \in Nat /\ nextStmt \in 1..MaxExc + 1
    BY <1>0 DEF ExceptionsAssumption, TypeOK
  <2>4. \A b \in bound' : b[1] < nextStmt'
    BY <1>2, <2>1, <2>3
  <2>5. \A i \in DOMAIN ctl' : ctl'[i].exc < nextStmt'
    BY <1>2, <1>4, <2>2, <2>3
  <2>6. ASSUME NEW i \in DOMAIN ctl', NEW j \in DOMAIN ctl', ctl'[i].kind = "ctor"
        PROVE  Unknown(ctl[i].exc)' /\ (i # j => ctl'[i].exc # ctl'[j].exc)
    <3>1. /\ i + n \in DOMAIN ctl /\ j + n \in DOMAIN ctl /\ i + n \in n + 1..Len(ctl)
          /\ (i # j => i + n # j + n)
      BY <1>0, <1>4
    <3>2. ctl'[i] = ctl[i + n] /\ ctl'[j] = ctl[j + n]
      BY <1>4
    <3>3. Unknown(ctl[i + n].exc) /\ (i # j => ctl[i + n].exc # ctl[j + n].exc)
      BY <1>0, <2>6, <3>1, <3>2 DEF IdsFresh
    <3>4. ctl[i + n].exc # cur'.id
      BY <1>5, <2>6, <3>1, <3>2
    <3> QED BY <1>2, <3>2, <3>3, <3>4 DEF Unknown
  <2> QED BY <1>2, <1>5, <2>4, <2>5, <2>6 DEF IdsFresh
<1>10. HandlingMatches'
  <2>1. \A i \in 1..n : ~IsHandler(ctl[i])
    BY <1>4 DEF Protects, IsHandler
  <2>2. Lists(handling', ctl')
    BY <1>0, <1>2, <1>4, <2>1, ListsDrop DEF HandlingMatches
  <2>3. cur' # NoExc
    BY <1>2 DEF Excs, NoExc
  <2> QED BY <1>5, <2>2, <2>3 DEF HandlingMatches
<1>11. ShadowMatches'
  BY <1>5 DEF ShadowMatches, RootDepths
<1>12. PendingOwned'
  <2> SUFFICES ASSUME ~boundary'
               PROVE  /\ Pending("nothing", 0)'
                      /\ \A i \in DOMAIN ctl' : ~Armed(i)'
    BY <1>5 DEF PendingOwned
  <2>1. ASSUME NEW i \in DOMAIN ctl' PROVE ~Armed(i)'
    <3>1. i + n \in DOMAIN ctl /\ ctl'[i] = ctl[i + n] /\ (RaiseCustom => i + n # 1)
      BY <1>0, <1>1, <1>4
    <3>2. ~Armed(i + n)
      BY <1>3, <3>1
    <3> QED BY <3>1, <3>2 DEF Armed
  <2> QED BY <1>3, <2>1 DEF Pending
<1>13. CausesOwned'
  BY <1>0, <1>2, <1>3 DEF CausesOwned
<1> QED BY <1>6, <1>7, <1>8, <1>9, <1>10, <1>11, <1>12, <1>13 DEF IInv
----------------------------------------------------------------------------
(* A block is left, or its pad passes the exception on.                      *)
Pops == Return \/ LeaveBody \/ LeaveHandler \/ NoMatch \/ CleanupPad

LEMMA PopFacts ==
  ASSUME IInv, Pops
  PROVE  /\ ctl # <<>> /\ ctl' = Tail(ctl) /\ ctl[1].kind # "ctor"
         /\ cur' = cur /\ pendingCause' = pendingCause /\ pendingSuppress' = pendingSuppress
         /\ stmt' = stmt /\ bound' = bound /\ nextStmt' = nextStmt /\ nextInst' = nextInst
         /\ boundary' = boundary
         /\ \/ pc = "run" /\ pc' = "run"
            \/ pc = "landed" /\ pc' = "reraise"
         /\ \/ ~IsHandler(ctl[1]) /\ handling' = handling
            \/ IsHandler(ctl[1]) /\ EndHandling
         /\ shadow' = RootDepths(ctl')
<1>1. /\ ctl # <<>> => Head(ctl) = ctl[1]
      /\ pc = "landed" => ctl # <<>>
      /\ pc # "exit" => shadow = RootDepths(ctl)
      /\ ctl \in Seq(Blocks)
  BY StackFacts DEF IInv, StackOK, ShadowMatches, RootDepths
<1>2. /\ ctl # <<>> /\ ctl' = Tail(ctl) /\ ctl[1].kind # "ctor"
      /\ cur' = cur /\ pendingCause' = pendingCause /\ pendingSuppress' = pendingSuppress
      /\ stmt' = stmt /\ bound' = bound /\ nextStmt' = nextStmt /\ nextInst' = nextInst
      /\ boundary' = boundary
      /\ \/ pc = "run" /\ pc' = "run"
         \/ pc = "landed" /\ pc' = "reraise"
      /\ \/ ~IsHandler(ctl[1]) /\ handling' = handling
         \/ IsHandler(ctl[1]) /\ EndHandling
      /\ shadow' = IF Rooted(ctl[1]) THEN PopFrame(shadow) ELSE shadow
  <2>1. CASE Return
    BY <1>1, <2>1 DEF Return, Running, IsHandler, state
  <2>2. CASE LeaveBody
    BY <1>1, <2>2 DEF LeaveBody, Running, IsHandler, state, Rooted
  <2>3. CASE LeaveHandler
    BY <1>1, <2>3 DEF LeaveHandler, Running, IsHandler, Rooted
  <2>4. CASE NoMatch
    BY <1>1, <2>4 DEF NoMatch, Landed, IsHandler, state, Rooted
  <2>5. CASE CleanupPad
    BY <1>1, <2>5 DEF CleanupPad, Landed, IsHandler, Rooted
  <2> QED BY <2>1, <2>2, <2>3, <2>4, <2>5 DEF Pops
<1>3. shadow' = RootDepths(ctl')
  <2>1. shadow = RootDepths(ctl)
    BY <1>1, <1>2
  <2> QED BY <1>1, <1>2, <2>1, RootDepthsPop
<1> QED BY <1>2, <1>3

LEMMA PopKeeps ==
  ASSUME ExceptionsAssumption, IInv, Pops
  PROVE  IInv'
<1>0. /\ TypeOK /\ StmtOK /\ StackOK /\ IdsFresh /\ HandlingMatches /\ PendingOwned /\ CausesOwned
      /\ ctl \in Seq(Blocks) /\ Len(ctl) \in Nat /\ DOMAIN ctl = 1..Len(ctl)
      /\ handling \in Seq(Entries)
  BY StackFacts DEF IInv
<1>1. /\ ctl # <<>> /\ ctl' = Tail(ctl) /\ ctl[1].kind # "ctor"
      /\ cur' = cur /\ pendingCause' = pendingCause /\ pendingSuppress' = pendingSuppress
      /\ stmt' = stmt /\ bound' = bound /\ nextStmt' = nextStmt /\ nextInst' = nextInst
      /\ boundary' = boundary
      /\ \/ pc = "run" /\ pc' = "run"
         \/ pc = "landed" /\ pc' = "reraise"
  BY PopFacts
<1>2. /\ shadow' = RootDepths(ctl')
      /\ \/ ~IsHandler(ctl[1]) /\ handling' = handling
         \/ IsHandler(ctl[1]) /\ EndHandling
  BY PopFacts
<1>3. /\ ctl' = Drop(ctl, 1) /\ ctl' \in Seq(Blocks) /\ Len(ctl) \in Nat \ {0}
      /\ Len(ctl') = Len(ctl) - 1 /\ DOMAIN ctl' = 1..Len(ctl) - 1
      /\ \A i \in DOMAIN ctl' : i + 1 \in DOMAIN ctl /\ i \in Nat /\ ctl'[i] = ctl[i + 1]
      /\ \A i \in DOMAIN ctl : i = 1 \/ (i - 1 \in DOMAIN ctl' /\ ctl'[i - 1] = ctl[i])
  <2>1. ctl' = Drop(ctl, 1) /\ Len(ctl) \in Nat \ {0}
    BY <1>0, <1>1, TailLemma
  <2>2. ctl' \in Seq(Blocks) /\ Len(ctl') = Len(ctl) - 1 /\ DOMAIN ctl' = 1..Len(ctl) - 1
    BY <1>0, <1>1, TailElements
  <2>3. /\ \A i \in DOMAIN ctl' : i + 1 \in DOMAIN ctl /\ i \in Nat /\ ctl'[i] = ctl[i + 1]
        /\ \A i \in DOMAIN ctl : i = 1 \/ (i - 1 \in DOMAIN ctl' /\ ctl'[i - 1] = ctl[i])
    BY <1>0, <1>1, TailElements
  <2> QED BY <2>1, <2>2, <2>3
<1>4. /\ handling' \in Seq(Entries) /\ Lists(handling', ctl')
      /\ \A i \in DOMAIN handling' : \E j \in DOMAIN handling : handling'[i] = handling[j]
  <2>1. CASE ~IsHandler(ctl[1]) /\ handling' = handling
    <3>1. 1 \in 0..Len(ctl) /\ \A i \in 1..1 : ~IsHandler(ctl[i])
      BY <1>3, <2>1
    <3> QED BY <1>0, <1>3, <2>1, <3>1, ListsDrop DEF HandlingMatches
  <2>2. CASE IsHandler(ctl[1]) /\ EndHandling
    <3>1. handling # <<>> /\ Lists(Tail(handling), Tail(ctl))
      BY <1>0, <1>1, <2>2, ListsPop DEF HandlingMatches
    <3>2. handling' = Tail(handling)
      BY <2>2, <3>1 DEF EndHandling
    <3>3. /\ handling' \in Seq(Entries)
          /\ \A i \in DOMAIN handling' : i + 1 \in DOMAIN handling /\ handling'[i] = handling[i + 1]
      BY <1>0, <3>1, <3>2, TailElements
    <3> QED BY <1>1, <3>1, <3>2, <3>3
  <2> QED BY <1>2, <2>1, <2>2
<1>5. TypeOK'
  <2>1. RootDepths(ctl') \subseteq 1..Len(ctl) - 1
    BY <1>3, RootDepthsElement
  <2>2. 1..Len(ctl) - 1 \subseteq 1..MaxDepth
    BY <1>0, <1>3 DEF StackOK, ExceptionsAssumption
  <2>3. shadow' \subseteq 1..MaxDepth
    BY <1>2, <2>1, <2>2
  <2> QED BY <1>0, <1>1, <1>3, <1>4, <2>3 DEF TypeOK, Entries
<1>6. StmtOK' /\ StackOK'
  <2>1. Len(ctl') <= MaxDepth
    BY <1>0, <1>3 DEF StackOK, ExceptionsAssumption
  <2> QED BY <1>0, <1>1, <1>3, <2>1 DEF StmtOK, StackOK
<1>7. IdsFresh'
  <2>1. ASSUME NEW i \in DOMAIN ctl', NEW j \in DOMAIN ctl', ctl'[i].kind = "ctor"
        PROVE  Unknown(ctl[i].exc)' /\ (i # j => ctl'[i].exc # ctl'[j].exc)
    <3>1. /\ i + 1 \in DOMAIN ctl /\ j + 1 \in DOMAIN ctl /\ (i # j => i + 1 # j + 1)
          /\ ctl'[i] = ctl[i + 1] /\ ctl'[j] = ctl[j + 1]
      BY SMTT(30), <1>3
    <3>2. Unknown(ctl[i + 1].exc) /\ (i # j => ctl[i + 1].exc # ctl[j + 1].exc)
      BY <1>0, <2>1, <3>1 DEF IdsFresh
    <3> QED BY <1>1, <3>1, <3>2 DEF Unknown
  <2>2. \A i \in DOMAIN ctl' : ctl'[i].exc < nextStmt
    BY <1>0, <1>3 DEF IdsFresh
  <2> QED BY <1>0, <1>1, <2>1, <2>2 DEF IdsFresh
<1>8. HandlingMatches' /\ ShadowMatches'
  BY <1>0, <1>1, <1>2, <1>4 DEF HandlingMatches, ShadowMatches, RootDepths
<1>9. PendingOwned'
  <2>1. \A i \in DOMAIN ctl' : Armed(i)' <=> Armed(i + 1)
    BY <1>3 DEF Armed
  <2>2. InArmedCtor' <=> InArmedCtor
    <3>1. ASSUME NEW i \in DOMAIN ctl, ctl[i].kind = "ctor" PROVE i - 1 \in DOMAIN ctl' /\ ctl'[i - 1] = ctl[i]
      BY <1>1, <1>3, <3>1
    <3> QED BY <1>3, <3>1 DEF InArmedCtor
  <2>3. ASSUME ~boundary, NEW i \in DOMAIN ctl', Armed(i)'
        PROVE  /\ Pending(ctl[i].from, ctl[i].exc)'
               /\ \A j \in DOMAIN ctl' : j < i => ctl'[j].kind # "ctor"
    <3>1. i + 1 \in DOMAIN ctl /\ ctl'[i] = ctl[i + 1] /\ Armed(i + 1)
      BY <1>3, <2>1, <2>3
    <3>2. /\ Pending(ctl[i + 1].from, ctl[i + 1].exc)
          /\ \A j \in DOMAIN ctl : j < i + 1 => ctl[j].kind # "ctor"
      BY <1>0, <2>3, <3>1 DEF PendingOwned
    <3>3. \A j \in DOMAIN ctl' : j < i => j + 1 \in DOMAIN ctl /\ j + 1 < i + 1 /\ ctl'[j] = ctl[j + 1]
      BY <1>3
    <3> QED BY <1>1, <3>1, <3>2, <3>3 DEF Pending
  <2>4. ~boundary /\ ~InArmedCtor => Pending("nothing", 0)
    BY <1>0, <1>1 DEF PendingOwned
  <2> QED BY <1>1, <2>2, <2>3, <2>4 DEF PendingOwned, Pending
<1>10. CausesOwned'
  BY <1>0, <1>1, <1>4 DEF CausesOwned
<1> QED BY <1>5, <1>6, <1>7, <1>8, <1>9, <1>10 DEF IInv
----------------------------------------------------------------------------
(* A clause, a finally or a with takes the exception.                        *)
Catches == CatchUnnamed \/ CatchNamed

LEMMA CatchFacts ==
  ASSUME ExceptionsAssumption, IInv, Catches
  PROVE  /\ pc = "landed" /\ pc' = "run" /\ cur \in Excs /\ cur' = NoExc
         /\ ctl # <<>> /\ ctl[1].kind \in {"try", "cleanup"} /\ ctl' = Cons(HandlerBlock, Tail(ctl))
         /\ \E exc \in Excs : /\ handling' = Cons(exc, handling) /\ exc.id = cur.id
                              /\ OwnCause(cur) => OwnCause(exc)
         /\ \/ bound' = bound
            \/ \E inst \in 1..MaxInst : bound' = bound \cup {<<cur.id, inst>>}
         /\ nextInst' \in 1..MaxInst + 1
         /\ pendingCause' = pendingCause /\ pendingSuppress' = pendingSuppress
         /\ stmt' = stmt /\ shadow' = shadow /\ nextStmt' = nextStmt /\ boundary' = boundary
<1>1. /\ ctl # <<>> => Head(ctl) = ctl[1]
      /\ pc = "landed" => ctl # <<>> /\ cur # NoExc
      /\ cur \in Excs \cup {NoExc} /\ nextInst \in 1..MaxInst + 1 /\ MaxInst \in Nat
  BY StackFacts DEF IInv, StackOK, HandlingMatches, TypeOK, ExceptionsAssumption
<1>2. CASE CatchUnnamed
  BY <1>1, <1>2 DEF CatchUnnamed, Landed, StartHandling
<1>3. CASE CatchNamed
  <2> DEFINE inst == IF cur.inst = 0 THEN nextInst ELSE cur.inst
             exc == [cur EXCEPT !.inst = inst]
  <2>1. /\ pc = "landed" /\ cur \in Excs /\ ctl # <<>> /\ ctl[1].kind \in {"try", "cleanup"}
        /\ cur.inst # 0 \/ nextInst <= MaxInst
    BY <1>1, <1>3 DEF CatchNamed, Landed
  <2>2. /\ nextInst' = IF cur.inst = 0 THEN nextInst + 1 ELSE nextInst
        /\ bound' = bound \cup {<<cur.id, inst>>}
        /\ handling' = Cons(exc, handling) /\ cur' = NoExc
        /\ ctl' = Cons(HandlerBlock, Tail(ctl)) /\ pc' = "run"
        /\ pendingCause' = pendingCause /\ pendingSuppress' = pendingSuppress
        /\ stmt' = stmt /\ shadow' = shadow /\ nextStmt' = nextStmt /\ boundary' = boundary
    BY <1>3 DEF CatchNamed, StartHandling
  <2>3. inst \in 1..MaxInst /\ nextInst' \in 1..MaxInst + 1
    <3>1. cur.inst \in 0..MaxInst
      BY <2>1 DEF Excs
    <3> QED BY <1>1, <2>1, <2>2, <3>1
  <2>4. exc \in Excs /\ exc.id = cur.id /\ (OwnCause(cur) => OwnCause(exc))
    <3> HIDE DEF inst
    <3>1. inst \in 0..MaxInst
      BY <2>3
    <3>2. /\ exc \in Excs /\ exc.id = cur.id /\ exc.cause = cur.cause /\ exc.from = cur.from
          /\ exc.stmt = cur.stmt /\ exc.suppress = cur.suppress
      BY <2>1, <3>1 DEF Excs
    <3> QED BY <3>2 DEF OwnCause
  <2> HIDE DEF inst, exc
  <2> QED BY <2>1, <2>2, <2>3, <2>4
<1> QED BY <1>2, <1>3 DEF Catches

LEMMA CatchKeeps ==
  ASSUME ExceptionsAssumption, IInv, Catches
  PROVE  IInv'
<1>0. /\ TypeOK /\ StmtOK /\ StackOK /\ IdsFresh /\ HandlingMatches /\ PendingOwned /\ CausesOwned
      /\ ctl \in Seq(Blocks) /\ Len(ctl) \in Nat /\ DOMAIN ctl = 1..Len(ctl)
      /\ handling \in Seq(Entries) /\ ShadowMatches
  BY StackFacts DEF IInv
<1>1. /\ pc = "landed" /\ pc' = "run" /\ cur \in Excs /\ cur' = NoExc
      /\ ctl # <<>> /\ ctl[1].kind \in {"try", "cleanup"} /\ ctl' = Cons(HandlerBlock, Tail(ctl))
      /\ nextInst' \in 1..MaxInst + 1
      /\ pendingCause' = pendingCause /\ pendingSuppress' = pendingSuppress
      /\ stmt' = stmt /\ shadow' = shadow /\ nextStmt' = nextStmt /\ boundary' = boundary
  BY CatchFacts
<1>2. PICK exc \in Excs : /\ handling' = Cons(exc, handling) /\ exc.id = cur.id
                          /\ OwnCause(cur) => OwnCause(exc)
  BY CatchFacts
<1>3. /\ bound' \subseteq (1..MaxExc) \X (1..MaxInst)
      /\ \A b \in bound' : b \in bound \/ b[1] = cur.id
  <2>1. cur.id \in 1..MaxExc
    BY <1>1 DEF Excs
  <2>2. bound \subseteq (1..MaxExc) \X (1..MaxInst)
    BY <1>0 DEF TypeOK
  <2>3. \/ bound' = bound
        \/ \E inst \in 1..MaxInst : bound' = bound \cup {<<cur.id, inst>>}
    BY CatchFacts
  <2> QED BY <2>1, <2>2, <2>3
<1>4. /\ HandlerBlock \in Blocks /\ HandlerBlock.kind = "handler" /\ HandlerBlock.exc = cur.id
      /\ cur.id \in 1..MaxExc
  BY <1>1 DEF HandlerBlock, Blocks, Kinds, Froms, Excs
<1>5. /\ Tail(ctl) \in Seq(Blocks) /\ Len(Tail(ctl)) = Len(ctl) - 1 /\ Tail(ctl) = Drop(ctl, 1)
      /\ \A i \in DOMAIN ctl : i = 1 \/ (i - 1 \in DOMAIN Tail(ctl) /\ Tail(ctl)[i - 1] = ctl[i])
      /\ Len(ctl) \in Nat \ {0}
  <2>1. Tail(ctl) = Drop(ctl, 1) /\ Len(ctl) \in Nat \ {0}
    BY <1>0, <1>1, TailLemma
  <2>2. Tail(ctl) \in Seq(Blocks) /\ Len(Tail(ctl)) = Len(ctl) - 1
    BY <1>0, <1>1, TailElements
  <2>3. \A i \in DOMAIN ctl : i = 1 \/ (i - 1 \in DOMAIN Tail(ctl) /\ Tail(ctl)[i - 1] = ctl[i])
    BY <1>0, <1>1, TailElements
  <2> QED BY <2>1, <2>2, <2>3
<1>6. /\ ctl' \in Seq(Blocks) /\ Len(ctl') = Len(ctl) /\ DOMAIN ctl' = DOMAIN ctl
      /\ ctl'[1] = HandlerBlock /\ ctl' # <<>>
      /\ \A i \in DOMAIN ctl : i # 1 => ctl'[i] = ctl[i]
  <2> DEFINE t == Tail(ctl)
  <2>1. /\ Cons(HandlerBlock, t) \in Seq(Blocks) /\ Len(Cons(HandlerBlock, t)) = Len(t) + 1
        /\ DOMAIN Cons(HandlerBlock, t) = 1..Len(t) + 1
        /\ Cons(HandlerBlock, t)[1] = HandlerBlock /\ Cons(HandlerBlock, t) # <<>>
        /\ \A i \in 2..Len(t) + 1 : Cons(HandlerBlock, t)[i] = t[i - 1]
    BY <1>4, <1>5, PushBlock
  <2>2. (Len(ctl) - 1) + 1 = Len(ctl)
    BY <1>5
  <2>3. \A i \in DOMAIN ctl : i # 1 => i \in 2..Len(t) + 1
    BY <1>0, <1>5, <2>2
  <2> QED BY <1>0, <1>1, <1>5, <2>1, <2>2, <2>3
<1>7. /\ handling' \in Seq(Entries)
      /\ \A i \in DOMAIN handling' : handling'[i] = exc \/ \E j \in DOMAIN handling : handling'[i] = handling[j]
  <2>1. exc \in Entries
    BY DEF Entries
  <2>2. handling' \in Seq(Entries) /\ handling'[1] = exc
    BY <1>0, <1>2, <2>1, ConsElements
  <2>3. \A i \in DOMAIN handling' : i = 1 \/ (i - 1 \in DOMAIN handling /\ handling'[i] = handling[i - 1])
    BY <1>0, <1>2, <2>1, ConsElements
  <2> QED BY <2>2, <2>3
<1>8. TypeOK'
  BY <1>0, <1>1, <1>3, <1>6, <1>7 DEF TypeOK, Entries
<1>9. StmtOK' /\ StackOK'
  <2>1. StmtOK'
    BY <1>1 DEF StmtOK
  <2>2. \A i \in DOMAIN ctl' : ctl'[i].exc = 0 <=> ctl'[i].kind \notin {"ctor", "handler"}
    BY <1>0, <1>4, <1>6 DEF StackOK
  <2> QED BY <1>0, <1>1, <1>6, <2>1, <2>2 DEF StackOK
<1>10. IdsFresh'
  <2>1. \A i \in DOMAIN ctl' : ctl'[i].exc < nextStmt
    BY <1>0, <1>4, <1>6 DEF IdsFresh
  <2>2. \A b \in bound' : b[1] < nextStmt
    BY <1>0, <1>3 DEF IdsFresh
  <2>3. cur'.id < nextStmt
    BY <1>0, <1>1 DEF TypeOK, NoExc, ExceptionsAssumption
  <2>4. ASSUME NEW i \in DOMAIN ctl', NEW j \in DOMAIN ctl', ctl'[i].kind = "ctor"
        PROVE  Unknown(ctl[i].exc)' /\ (i # j => ctl'[i].exc # ctl'[j].exc)
    <3>1. i # 1 /\ i \in DOMAIN ctl /\ ctl'[i] = ctl[i] /\ ctl[i].kind = "ctor"
      BY <1>4, <1>6, <2>4
    <3>2. Unknown(ctl[i].exc) /\ ctl[i].exc # 0
      BY <1>0, <3>1 DEF IdsFresh, StackOK
    <3>3. Unknown(ctl[i].exc)'
      BY <1>1, <1>3, <3>1, <3>2 DEF Unknown, NoExc
    <3>4. i # j => ctl'[i].exc # ctl'[j].exc
      <4>1. CASE j = 1
        BY <1>4, <1>6, <3>1, <3>2, <4>1 DEF Unknown
      <4>2. CASE j # 1
        BY <1>0, <1>6, <3>1, <4>2 DEF IdsFresh
      <4> QED BY <4>1, <4>2
    <3> QED BY <3>3, <3>4
  <2> QED BY <1>1, <2>1, <2>2, <2>3, <2>4 DEF IdsFresh
<1>11. HandlingMatches'
  <2>1. Lists(handling, Tail(ctl))
    <3>1. 1 \in 0..Len(ctl) /\ \A i \in 1..1 : ~IsHandler(ctl[i])
      BY <1>1, <1>5 DEF IsHandler
    <3> QED BY <1>0, <1>5, <3>1, ListsDrop DEF HandlingMatches
  <2>2. exc \in Entries /\ IsHandler(HandlerBlock) /\ exc.id = HandlerBlock.exc
    BY <1>2, <1>4 DEF IsHandler, Entries
  <2>3. Lists(Cons(exc, handling), Cons(HandlerBlock, Tail(ctl)))
    BY <1>0, <1>4, <1>5, <2>1, <2>2, ListsPushHandler
  <2> QED BY <1>1, <1>2, <2>3 DEF HandlingMatches
<1>12. ShadowMatches'
  <2>1. shadow = RootDepths(ctl)
    BY <1>0, <1>1 DEF ShadowMatches, RootDepths
  <2>2. RootDepths(ctl) = RootDepths(Tail(ctl))
    BY <1>0, <1>1, RootDepthsPop DEF Rooted
  <2>3. RootDepths(ctl') = RootDepths(Tail(ctl))
    BY <1>1, <1>4, <1>5, RootDepthsPush DEF Rooted
  <2>4. shadow' = RootDepths(ctl')
    BY <1>1, <2>1, <2>2, <2>3
  <2> QED BY <2>4 DEF ShadowMatches, RootDepths
<1>13. PendingOwned'
  <2>1. \A i \in DOMAIN ctl : ctl'[i].kind = "ctor" <=> ctl[i].kind = "ctor"
    BY <1>1, <1>4, <1>6
  <2>2. \A i \in DOMAIN ctl : Armed(i)' => Armed(i) /\ ctl'[i] = ctl[i]
    BY <1>4, <1>6 DEF Armed
  <2>3. \A i \in DOMAIN ctl : Armed(i) => Armed(i)'
    BY <1>1, <1>6 DEF Armed
  <2>4. InArmedCtor' <=> InArmedCtor
    BY <1>6, <2>2, <2>3 DEF InArmedCtor, Armed
  <2>5. ASSUME ~boundary, NEW i \in DOMAIN ctl', Armed(i)'
        PROVE  /\ Pending(ctl[i].from, ctl[i].exc)'
               /\ \A j \in DOMAIN ctl' : j < i => ctl'[j].kind # "ctor"
    <3>1. i \in DOMAIN ctl /\ Armed(i) /\ ctl'[i] = ctl[i]
      BY <1>6, <2>2, <2>5
    <3>2. /\ Pending(ctl[i].from, ctl[i].exc)
          /\ \A j \in DOMAIN ctl : j < i => ctl[j].kind # "ctor"
      BY <1>0, <2>5, <3>1 DEF PendingOwned
    <3> QED BY <1>1, <1>6, <2>1, <3>1, <3>2 DEF Pending
  <2>6. ~boundary /\ ~InArmedCtor => Pending("nothing", 0)
    BY <1>0, <1>1 DEF PendingOwned
  <2> QED BY <1>1, <2>4, <2>5, <2>6 DEF PendingOwned, Pending
<1>14. CausesOwned'
  <2>1. ~boundary => OwnCause(exc)
    BY <1>0, <1>1, <1>2 DEF CausesOwned, HandlingMatches
  <2> QED BY <1>0, <1>1, <1>7, <2>1 DEF CausesOwned
<1> QED BY <1>8, <1>9, <1>10, <1>11, <1>12, <1>13, <1>14 DEF IInv
----------------------------------------------------------------------------
(* A call or a block is entered; a raise is armed.                           *)
Pushes == (\E k \in Kinds : Enter(k)) \/ Construct

LEMMA PushFacts ==
  ASSUME ExceptionsAssumption, IInv, Pushes
  PROVE  \E b \in Blocks :
           /\ ctl' = Cons(b, ctl) /\ Len(ctl) < MaxDepth
           /\ shadow' = RootDepths(ctl') /\ shadow' \subseteq 1..MaxDepth
           /\ cur' = cur /\ handling' = handling
           /\ pendingCause' = pendingCause /\ pendingSuppress' = pendingSuppress
           /\ bound' = bound /\ nextStmt' = nextStmt /\ nextInst' = nextInst /\ boundary' = boundary
           /\ pc' = "run" /\ b.kind # "handler"
           /\ \/ pc = "run" /\ b.kind # "ctor" /\ b.exc = 0
              \/ /\ pc = "armed" /\ stmt.target = NewTarget
                 /\ b.kind = "ctor" /\ b.exc = stmt.id /\ b.from = stmt.from
<1>0. /\ TypeOK /\ StmtOK /\ StackOK
      /\ ctl \in Seq(Blocks) /\ Len(ctl) \in Nat /\ shadow \subseteq 1..MaxDepth
      /\ pc # "exit" => shadow = RootDepths(ctl)
      /\ MaxDepth \in Nat
  BY StackFacts DEF IInv, ShadowMatches, RootDepths, TypeOK, ExceptionsAssumption
<1>1. ASSUME NEW b \in Blocks, ctl' = Cons(b, ctl), Len(ctl) < MaxDepth, pc # "exit",
             shadow' = IF Rooted(b) THEN shadow \cup {Len(ctl) + 1} ELSE shadow
      PROVE  shadow' = RootDepths(ctl') /\ shadow' \subseteq 1..MaxDepth
  <2>1. Len(ctl) + 1 \in 1..MaxDepth
    BY <1>0, <1>1
  <2>2. shadow' = RootDepths(ctl')
    BY <1>0, <1>1, RootDepthsPush
  <2> QED BY <1>0, <1>1, <2>1, <2>2
<1>2. ASSUME NEW k \in Kinds PROVE Block(k) \in Blocks /\ Block(k).kind = k /\ Block(k).exc = 0
  <2>1. 0 \in 0..MaxExc /\ "nothing" \in Froms
    BY DEF ExceptionsAssumption, Froms
  <2> QED BY <2>1 DEF Block, Blocks
<1>3. CASE \E k \in Kinds : Enter(k)
  <2>1. PICK k \in Kinds : Enter(k)
    BY <1>3
  <2>2. Block(k) \in Blocks /\ Block(k).kind = k /\ Block(k).exc = 0
    BY <1>2, <2>1
  <2>3. /\ ctl' = Cons(Block(k), ctl) /\ Len(ctl) < MaxDepth /\ pc = "run" /\ pc' = "run"
        /\ shadow' = IF Rooted(Block(k)) THEN shadow \cup {Len(ctl) + 1} ELSE shadow
        /\ cur' = cur /\ handling' = handling
        /\ pendingCause' = pendingCause /\ pendingSuppress' = pendingSuppress
        /\ bound' = bound /\ nextStmt' = nextStmt /\ nextInst' = nextInst /\ boundary' = boundary
        /\ k # "handler" /\ k # "ctor"
    BY <2>1 DEF Enter, Running, state
  <2>4. shadow' = RootDepths(ctl') /\ shadow' \subseteq 1..MaxDepth
    BY <1>1, <2>2, <2>3
  <2> QED BY <2>2, <2>3, <2>4
<1>4. CASE Construct
  <2> DEFINE b == [kind |-> "ctor", exc |-> stmt.id, from |-> stmt.from]
  <2>1. stmt.id \in 0..MaxExc /\ stmt.from \in Froms
    BY <1>0, <1>4 DEF Construct, StmtOK, Stmts, ExceptionsAssumption
  <2>2. b \in Blocks /\ Rooted(b)
    BY <2>1 DEF Blocks, Kinds, Rooted
  <2>3. /\ ctl' = Cons(b, ctl) /\ Len(ctl) < MaxDepth /\ pc = "armed" /\ pc' = "run"
        /\ shadow' = shadow \cup {Len(ctl) + 1}
        /\ cur' = cur /\ handling' = handling
        /\ pendingCause' = pendingCause /\ pendingSuppress' = pendingSuppress
        /\ bound' = bound /\ nextStmt' = nextStmt /\ nextInst' = nextInst /\ boundary' = boundary
        /\ stmt.target = NewTarget
    BY <1>4 DEF Construct, state
  <2>4. shadow' = RootDepths(ctl') /\ shadow' \subseteq 1..MaxDepth
    <3> HIDE DEF b
    <3> QED BY <1>1, <2>2, <2>3
  <2> QED BY <2>2, <2>3, <2>4
<1> QED BY <1>3, <1>4 DEF Pushes

LEMMA PushKeeps ==
  ASSUME ExceptionsAssumption, IInv, Pushes
  PROVE  IInv'
<1>0. /\ TypeOK /\ StmtOK /\ StackOK /\ IdsFresh /\ HandlingMatches /\ PendingOwned /\ CausesOwned
      /\ ctl \in Seq(Blocks) /\ Len(ctl) \in Nat /\ DOMAIN ctl = 1..Len(ctl)
      /\ handling \in Seq(Entries) /\ MaxDepth \in Nat
  BY StackFacts DEF IInv, ExceptionsAssumption
<1>1. PICK b \in Blocks :
        /\ ctl' = Cons(b, ctl) /\ Len(ctl) < MaxDepth
        /\ shadow' = RootDepths(ctl') /\ shadow' \subseteq 1..MaxDepth
        /\ cur' = cur /\ handling' = handling
        /\ pendingCause' = pendingCause /\ pendingSuppress' = pendingSuppress
        /\ bound' = bound /\ nextStmt' = nextStmt /\ nextInst' = nextInst /\ boundary' = boundary
        /\ pc' = "run" /\ b.kind # "handler"
        /\ \/ pc = "run" /\ b.kind # "ctor" /\ b.exc = 0
           \/ /\ pc = "armed" /\ stmt.target = NewTarget
              /\ b.kind = "ctor" /\ b.exc = stmt.id /\ b.from = stmt.from
  BY PushFacts
<1>2. /\ ctl' \in Seq(Blocks) /\ Len(ctl') = Len(ctl) + 1 /\ ctl' # <<>>
      /\ DOMAIN ctl' = 1..Len(ctl) + 1 /\ ctl'[1] = b
  BY <1>0, <1>1, PushBlock
<1>3. /\ \A i \in DOMAIN ctl' : i = 1 \/ (i - 1 \in DOMAIN ctl /\ ctl'[i] = ctl[i - 1])
      /\ \A i \in DOMAIN ctl : i + 1 \in DOMAIN ctl' /\ ctl'[i + 1] = ctl[i]
  <2>1. \A i \in 1..Len(ctl) : ctl'[i + 1] = ctl[i]
    BY <1>0, <1>1, PushBlock
  <2>2. \A i \in 2..Len(ctl) + 1 : ctl'[i] = ctl[i - 1]
    BY <1>0, <1>1, PushBlock
  <2>3. \A i \in DOMAIN ctl' : i = 1 \/ (i \in 2..Len(ctl) + 1 /\ i - 1 \in DOMAIN ctl)
    BY <1>0, <1>2
  <2>4. \A i \in DOMAIN ctl : i + 1 \in DOMAIN ctl'
    BY <1>0, <1>2
  <2> QED BY <1>0, <2>1, <2>2, <2>3, <2>4
<1>4. pc = "armed" => /\ stmt.id \in 1..MaxExc /\ stmt.id < nextStmt /\ stmt.from \in Froms
  BY <1>0 DEF StmtOK, Stmts
<1>5. TypeOK'
  BY <1>0, <1>1, <1>2 DEF TypeOK
<1>6. StmtOK' /\ StackOK'
  <2>1. Len(ctl') <= MaxDepth
    BY <1>0, <1>1, <1>2
  <2>2. ASSUME NEW i \in DOMAIN ctl'
        PROVE  ctl'[i].exc = 0 <=> ctl'[i].kind \notin {"ctor", "handler"}
    <3>1. CASE i = 1
      BY <1>1, <1>2, <1>4, <3>1
    <3>2. CASE i # 1
      BY <1>0, <1>3, <3>2 DEF StackOK
    <3> QED BY <3>1, <3>2
  <2> QED BY <1>1, <2>1, <2>2 DEF StmtOK, StackOK
<1>7. IdsFresh'
  <2>1. b.exc < nextStmt
    BY <1>0, <1>1, <1>4 DEF TypeOK, ExceptionsAssumption
  <2>2. \A i \in DOMAIN ctl' : ctl'[i].exc < nextStmt
    BY <1>0, <1>2, <1>3, <2>1 DEF IdsFresh
  <2>3. b.kind = "ctor" => Unknown(b.exc) /\ \A j \in DOMAIN ctl : ctl[j].exc # b.exc
    BY <1>0, <1>1 DEF IdsFresh
  <2>4. ASSUME NEW i \in DOMAIN ctl', NEW j \in DOMAIN ctl', ctl'[i].kind = "ctor"
        PROVE  Unknown(ctl[i].exc)' /\ (i # j => ctl'[i].exc # ctl'[j].exc)
    <3>1. CASE i = 1
      <4>1. b.kind = "ctor"
        BY <1>2, <2>4, <3>1
      <4>2. Unknown(ctl[i].exc)'
        BY <1>1, <1>2, <2>3, <3>1, <4>1 DEF Unknown
      <4>3. i # j => ctl'[i].exc # ctl'[j].exc
        BY <1>2, <1>3, <2>3, <3>1, <4>1
      <4> QED BY <4>2, <4>3
    <3>2. CASE i # 1
      <4>1. i - 1 \in DOMAIN ctl /\ ctl'[i] = ctl[i - 1] /\ ctl[i - 1].kind = "ctor"
        BY <1>3, <2>4, <3>2
      <4>2. Unknown(ctl[i - 1].exc)
        BY <1>0, <4>1 DEF IdsFresh
      <4>3. Unknown(ctl[i].exc)'
        BY <1>1, <4>1, <4>2 DEF Unknown
      <4>4. CASE j = 1
        <5>1. b.exc # ctl[i - 1].exc
          <6>1. CASE b.kind = "ctor"
            BY <2>3, <4>1, <6>1
          <6>2. CASE b.kind # "ctor"
            BY <1>0, <1>1, <4>1, <6>2 DEF StackOK
          <6> QED BY <6>1, <6>2
        <5> QED BY <1>2, <4>1, <4>3, <4>4, <5>1
      <4>5. CASE j # 1
        <5>1. j - 1 \in DOMAIN ctl /\ ctl'[j] = ctl[j - 1] /\ (i # j => i - 1 # j - 1)
          BY <1>2, <1>3, <4>5
        <5>2. i # j => ctl[i - 1].exc # ctl[j - 1].exc
          BY <1>0, <4>1, <5>1 DEF IdsFresh
        <5> QED BY <4>1, <4>3, <5>1, <5>2
      <4> QED BY <4>4, <4>5
    <3> QED BY <3>1, <3>2
  <2> QED BY <1>0, <1>1, <2>2, <2>4 DEF IdsFresh
<1>8. HandlingMatches' /\ ShadowMatches'
  <2>1. ~IsHandler(b) /\ Lists(handling, ctl)
    BY <1>0, <1>1 DEF IsHandler, HandlingMatches
  <2>2. Lists(handling', ctl')
    BY <1>0, <1>1, <2>1, ListsPush
  <2>3. (cur' = NoExc) <=> pc' \in {"run", "armed"}
    BY <1>0, <1>1 DEF HandlingMatches
  <2> QED BY <1>1, <2>2, <2>3 DEF HandlingMatches, ShadowMatches, RootDepths
<1>9. PendingOwned'
  <2>1. ASSUME NEW i \in DOMAIN ctl', Armed(i)', i # 1
        PROVE  i - 1 \in DOMAIN ctl /\ Armed(i - 1) /\ ctl'[i] = ctl[i - 1]
    BY <1>3, <2>1 DEF Armed
  <2>2. InArmedCtor => InArmedCtor'
    BY <1>3 DEF InArmedCtor
  <2>3. CASE pc = "run" /\ b.kind # "ctor"
    <3>1. ASSUME ~boundary, NEW i \in DOMAIN ctl', Armed(i)'
          PROVE  /\ Pending(ctl[i].from, ctl[i].exc)'
                 /\ \A j \in DOMAIN ctl' : j < i => ctl'[j].kind # "ctor"
      <4>1. i # 1
        BY <1>2, <2>3, <3>1 DEF Armed
      <4>2. i - 1 \in DOMAIN ctl /\ Armed(i - 1) /\ ctl'[i] = ctl[i - 1]
        BY <2>1, <3>1, <4>1
      <4>3. /\ Pending(ctl[i - 1].from, ctl[i - 1].exc)
            /\ \A j \in DOMAIN ctl : j < i - 1 => ctl[j].kind # "ctor"
        BY <1>0, <3>1, <4>2 DEF PendingOwned
      <4>4. ASSUME NEW j \in DOMAIN ctl', j < i PROVE ctl'[j].kind # "ctor"
        <5>1. CASE j = 1
          BY <1>2, <2>3, <5>1
        <5>2. CASE j # 1
          <6>1. j - 1 \in DOMAIN ctl /\ ctl'[j] = ctl[j - 1] /\ j - 1 < i - 1
            BY <1>2, <1>3, <4>4, <5>2
          <6> QED BY <4>3, <6>1
        <5> QED BY <5>1, <5>2
      <4> QED BY <1>1, <4>2, <4>3, <4>4 DEF Pending
    <3>2. ~boundary /\ ~InArmedCtor' => Pending("nothing", 0)
      BY <1>0, <2>2, <2>3 DEF PendingOwned
    <3> QED BY <1>1, <3>1, <3>2 DEF PendingOwned, Pending
  <2>4. CASE pc = "armed" /\ b.kind = "ctor" /\ b.exc = stmt.id /\ b.from = stmt.from
    <3>1. ~boundary => ~InArmedCtor /\ Pending(b.from, b.exc)
      BY <1>0, <2>4 DEF PendingOwned
    <3>2. ~boundary => \A i \in DOMAIN ctl' : Armed(i)' => i = 1
      BY <2>1, <3>1 DEF InArmedCtor, Armed
    <3>3. 1 \in DOMAIN ctl' /\ ~\E j \in DOMAIN ctl' : j < 1
      BY <1>0, <1>2
    <3>4. ~boundary /\ ~InArmedCtor' => b.from = "nothing"
      BY <1>2, <2>4, <3>3 DEF InArmedCtor
    <3>5. ~boundary /\ ~InArmedCtor' => Pending("nothing", 0)
      BY <3>1, <3>4 DEF Pending
    <3>6. ASSUME ~boundary, NEW i \in DOMAIN ctl', Armed(i)'
          PROVE  /\ Pending(ctl[i].from, ctl[i].exc)'
                 /\ \A j \in DOMAIN ctl' : j < i => ctl'[j].kind # "ctor"
      <4>1. i = 1 /\ ctl'[i] = b
        BY <1>2, <3>2, <3>6
      <4> QED BY <1>1, <3>1, <3>3, <3>6, <4>1 DEF Pending
    <3> QED BY <1>1, <3>5, <3>6 DEF PendingOwned, Pending
  <2> QED BY <1>1, <2>3, <2>4
<1>10. CausesOwned'
  BY <1>0, <1>1 DEF CausesOwned
<1> QED BY <1>5, <1>6, <1>7, <1>8, <1>9, <1>10 DEF IInv

LEMMA ArmKeeps ==
  ASSUME ExceptionsAssumption, IInv, NEW target \in bound \cup {NewTarget}, NEW from \in Froms,
         Arm(target, from)
  PROVE  IInv'
<1>0. /\ TypeOK /\ StmtOK /\ StackOK /\ IdsFresh /\ HandlingMatches /\ PendingOwned /\ CausesOwned
      /\ ShadowMatches
  BY DEF IInv
<1>1. /\ pc = "run" /\ pc' = "armed" /\ nextStmt <= MaxExc
      /\ stmt' = [id |-> nextStmt, target |-> target, from |-> from]
      /\ nextStmt' = nextStmt + 1
      /\ pendingCause' = (IF from = "cause" THEN nextStmt ELSE pendingCause)
      /\ pendingSuppress' = (pendingSuppress \/ from = "none")
      /\ boundary' = (boundary \/ InArmedCtor)
      /\ ctl' = ctl /\ cur' = cur /\ handling' = handling /\ shadow' = shadow /\ bound' = bound
      /\ nextInst' = nextInst
  BY DEF Arm, Running, MarkBoundary
<1>2. /\ nextStmt \in 1..MaxExc + 1 /\ MaxExc \in Nat /\ nextStmt \in 1..MaxExc
      /\ nextStmt \in 0..MaxExc /\ nextStmt' \in 1..MaxExc + 1 /\ nextStmt < nextStmt'
      /\ bound \subseteq (1..MaxExc) \X (1..MaxInst)
  BY <1>0, <1>1 DEF TypeOK, ExceptionsAssumption
<1>3. TypeOK'
  <2>1. pendingCause' \in 0..MaxExc
    BY <1>0, <1>1, <1>2 DEF TypeOK
  <2>2. pendingSuppress' \in BOOLEAN /\ boundary' \in BOOLEAN
    BY <1>1
  <2> QED BY <1>0, <1>1, <1>2, <2>1, <2>2 DEF TypeOK
<1>4. StmtOK' /\ StackOK'
  BY <1>0, <1>1, <1>2 DEF StmtOK, StackOK, Stmts
<1>5. IdsFresh'
  <2>1. \A b \in bound : b[1] < nextStmt /\ b[1] \in 1..MaxExc
    BY <1>0, <1>2 DEF IdsFresh
  <2>2. \A i \in DOMAIN ctl : ctl[i].exc < nextStmt /\ ctl[i].exc \in 0..MaxExc
    BY <1>0, StackFacts DEF IdsFresh
  <2>3. cur.id < nextStmt /\ cur.id = 0
    BY <1>0, <1>1 DEF IdsFresh, HandlingMatches, NoExc
  <2>4. /\ \A b \in bound : b[1] < nextStmt' /\ b[1] # nextStmt
        /\ \A i \in DOMAIN ctl : ctl[i].exc < nextStmt' /\ ctl[i].exc # nextStmt
        /\ cur.id < nextStmt' /\ cur.id # nextStmt
    BY <1>1, <1>2, <2>1, <2>2, <2>3
  <2>5. \A i, j \in DOMAIN ctl' :
          ctl'[i].kind = "ctor" => Unknown(ctl[i].exc)' /\ (i # j => ctl'[i].exc # ctl'[j].exc)
    BY <1>0, <1>1 DEF IdsFresh, Unknown
  <2>6. stmt'.id = nextStmt
    BY <1>1
  <2>7. Unknown(stmt.id)' /\ \A i \in DOMAIN ctl' : ctl'[i].exc # stmt'.id
    BY <1>1, <2>4, <2>6 DEF Unknown
  <2>8. \A b \in bound' : b[1] < nextStmt'
    BY <1>1, <2>4
  <2>9. \A i \in DOMAIN ctl' : ctl'[i].exc < nextStmt'
    BY <1>1, <2>4
  <2> QED BY <1>1, <2>4, <2>5, <2>7, <2>8, <2>9 DEF IdsFresh
<1>6. HandlingMatches' /\ ShadowMatches'
  BY <1>0, <1>1 DEF HandlingMatches, ShadowMatches
<1>7. PendingOwned'
  <2>1. InArmedCtor' <=> InArmedCtor
    BY <1>1 DEF InArmedCtor
  <2>2. ~boundary' => ~boundary /\ ~InArmedCtor
    BY <1>1
  <2>3. ~boundary' => Pending("nothing", 0)
    BY <1>0, <1>1, <2>2 DEF PendingOwned
  <2>4. ~boundary' => pendingCause = 0 /\ pendingSuppress = FALSE
    BY <2>3 DEF Pending
  <2>5. stmt'.id = nextStmt /\ stmt'.from = from
    BY <1>1
  <2>6. ~boundary' => Pending(stmt.from, stmt.id)'
    BY <1>1, <2>4, <2>5 DEF Pending
  <2>7. ~boundary' => \A i \in DOMAIN ctl' : ~Armed(i)'
    BY <1>1, <2>2 DEF InArmedCtor, Armed
  <2> QED BY <1>1, <2>1, <2>2, <2>6, <2>7 DEF PendingOwned
<1>8. CausesOwned'
  <2>1. ~boundary' => ~boundary
    BY <1>1
  <2> QED BY <1>0, <1>1, <2>1 DEF CausesOwned
<1> QED BY <1>3, <1>4, <1>5, <1>6, <1>7, <1>8 DEF IInv
----------------------------------------------------------------------------
LEMMA InitHolds == ASSUME ExceptionsAssumption, Init PROVE IInv
<1>1. TypeOK /\ StmtOK /\ StackOK /\ IdsFresh
  <2>1. /\ 0 \in 0..MaxExc /\ 1 \in 1..MaxExc + 1 /\ 1 \in 1..MaxInst + 1 /\ 0 <= MaxDepth
        /\ <<>> \in Seq(Blocks) /\ <<>> \in Seq(Excs \cup {NoExc})
        /\ DOMAIN ctl = {} /\ Len(<<>>) = 0 /\ NoExc.id = 0
    BY DEF ExceptionsAssumption, Init, NoExc
  <2>2. TypeOK
    BY <2>1 DEF Init, TypeOK
  <2>3. StmtOK /\ StackOK
    BY <2>1 DEF Init, StmtOK, StackOK
  <2>4. IdsFresh
    BY <2>1 DEF Init, IdsFresh
  <2> QED BY <2>2, <2>3, <2>4
<1>2. HandlingMatches
  <2>1. Lists(<<>>, <<>>)
    <3> DEFINE pos == [i \in DOMAIN <<>> |-> 0]
    <3>1. DOMAIN <<>> = {}
      OBVIOUS
    <3>2. pos \in [DOMAIN <<>> -> DOMAIN <<>>]
      BY <3>1
    <3> QED BY <3>1, <3>2 DEF Lists
  <2> QED BY <2>1 DEF Init, HandlingMatches
<1>3. ShadowMatches
  <2>1. DOMAIN ctl = {}
    BY DEF Init
  <2> QED BY <2>1 DEF Init, ShadowMatches
<1>4. PendingOwned /\ CausesOwned
  <2>1. DOMAIN ctl = {} /\ DOMAIN handling = {}
    BY DEF Init
  <2> QED BY <2>1 DEF Init, PendingOwned, CausesOwned, Pending
<1> QED BY <1>1, <1>2, <1>3, <1>4 DEF IInv

LEMMA NextKeeps == ASSUME ExceptionsAssumption, IInv, [Next]_vars PROVE IInv'
<1>1. CASE Pushes
  BY <1>1, PushKeeps
<1>2. CASE Pops
  BY <1>2, PopKeeps
<1>3. CASE \E target \in bound \cup {NewTarget}, from \in Froms : Arm(target, from)
  BY <1>3, ArmKeeps
<1>4. CASE Raises
  BY <1>4, RaiseKeeps
<1>5. CASE Catches
  BY <1>5, CatchKeeps
<1>6. CASE UNCHANGED vars
  <2>1. /\ ctl' = ctl /\ cur' = cur /\ handling' = handling /\ pendingCause' = pendingCause
        /\ pendingSuppress' = pendingSuppress /\ pc' = pc /\ stmt' = stmt /\ shadow' = shadow
        /\ bound' = bound /\ nextStmt' = nextStmt /\ nextInst' = nextInst /\ boundary' = boundary
    BY <1>6 DEF vars
  <2>2. TypeOK' /\ StmtOK' /\ StackOK'
    BY <2>1 DEF IInv, TypeOK, StmtOK, StackOK, Stmts
  <2>3. IdsFresh' /\ HandlingMatches' /\ ShadowMatches'
    BY <2>1 DEF IInv, IdsFresh, Unknown, HandlingMatches, ShadowMatches
  <2>4. PendingOwned' /\ CausesOwned'
    BY <2>1 DEF IInv, PendingOwned, CausesOwned, Pending, Armed, InArmedCtor
  <2> QED BY <2>2, <2>3, <2>4 DEF IInv
<1> QED BY <1>1, <1>2, <1>3, <1>4, <1>5, <1>6 DEF Next, Pushes, Pops, Raises, Catches

THEOREM Invariant == ASSUME ExceptionsAssumption PROVE Spec => []IInv
<1>1. Init => IInv
  BY InitHolds
<1>2. IInv /\ [Next]_vars => IInv'
  BY NextKeeps
<1> QED BY <1>1, <1>2, PTL DEF Spec

(* The state is of its type, whatever the bounds.                            *)
THEOREM TypeCorrect == ASSUME ExceptionsAssumption PROVE Spec => []TypeOK
BY Invariant, PTL DEF IInv

(* However blocks are left, the handling stack is the active handlers, and   *)
(* no exception is left in flight while the program runs.                    *)
THEOREM HandlingIsNested == ASSUME ExceptionsAssumption PROVE Spec => []HandlingMatches
BY Invariant, PTL DEF IInv

(* The shadow stack has the frames that are active and no other.             *)
THEOREM ShadowIsActive == ASSUME ExceptionsAssumption PROVE Spec => []ShadowMatches
BY Invariant, PTL DEF IInv

(* The cause armed for a raise reaches that raise and no other, unless a     *)
(* constructor raised while its own raise was armed.                         *)
THEOREM CauseIsOwn == ASSUME ExceptionsAssumption PROVE Spec => []CauseOwnedToBoundary
<1>1. IInv => CauseOwnedToBoundary
  BY DEF IInv, HandlingMatches, CausesOwned, CauseOwnedToBoundary, CauseOwned
<1> QED BY <1>1, Invariant, PTL
----------------------------------------------------------------------------
(* The refinement: the program's blocks are Python's.                        *)
PyBlock(b) == [kind |-> IF b.kind \in {"leaf", "frame", "ctor"} THEN "call" ELSE b.kind,
               exc |-> IF IsHandler(b) THEN b.exc ELSE 0]
PyBlocks(c) == [i \in DOMAIN c |-> PyBlock(c[i])]
PyBound == {b[1] : b \in bound}
PyKinds == [kind : {"call", "try", "cleanup", "handler"}, exc : 0..MaxExc]

LEMMA PyStack ==
  ASSUME ExceptionsAssumption, NEW c \in Seq(Blocks)
  PROVE  /\ PyBlocks(c) \in Seq(PyKinds) /\ Len(PyBlocks(c)) = Len(c)
         /\ DOMAIN PyBlocks(c) = DOMAIN c
         /\ \A i \in DOMAIN c : PyBlocks(c)[i] = PyBlock(c[i])
<1>1. DOMAIN c = 1..Len(c) /\ Len(c) \in Nat /\ \A i \in DOMAIN c : c[i] \in Blocks
  BY LenProperties, ElementOfSeq
<1>2. \A b \in Blocks : PyBlock(b) \in PyKinds
  BY DEF PyBlock, PyKinds, Blocks, Kinds, ExceptionsAssumption, IsHandler
<1>3. \A i \in DOMAIN c : PyBlocks(c)[i] = PyBlock(c[i])
  BY DEF PyBlocks
<1>4. DOMAIN PyBlocks(c) = 1..Len(c)
  BY <1>1 DEF PyBlocks
<1>5. PyBlocks(c) \in [1..Len(c) -> PyKinds]
  BY <1>1, <1>2 DEF PyBlocks
<1>6. PyBlocks(c) \in Seq(PyKinds)
  BY <1>1, <1>5, SeqDef
<1>7. Len(PyBlocks(c)) = Len(c)
  BY <1>1, <1>4, <1>6, LenProperties
<1> QED BY <1>1, <1>3, <1>4, <1>6, <1>7

LEMMA PyPush ==
  ASSUME ExceptionsAssumption, NEW c \in Seq(Blocks), NEW b \in Blocks
  PROVE  PyBlocks(Cons(b, c)) = <<PyBlock(b)>> \o PyBlocks(c)
<1> DEFINE t == Cons(b, c)
           u == PyBlocks(c)
           v == <<PyBlock(b)>> \o u
<1>1. /\ t \in Seq(Blocks) /\ Len(t) = Len(c) + 1 /\ t[1] = b
      /\ Len(c) \in Nat /\ DOMAIN c = 1..Len(c)
  BY PushBlock, LenProperties
<1>2. \A i \in 2..Len(c) + 1 : t[i] = c[i - 1]
  BY PushBlock
<1>3. u \in Seq(PyKinds) /\ Len(u) = Len(c) /\ \A i \in DOMAIN c : u[i] = PyBlock(c[i])
  BY PyStack
<1>4. PyBlock(b) \in PyKinds
  BY DEF PyBlock, PyKinds, Blocks, Kinds, ExceptionsAssumption, IsHandler
<1>5. /\ v \in Seq(PyKinds) /\ Len(v) = Len(c) + 1
      /\ v[1] = PyBlock(b) /\ \A i \in 2..Len(c) + 1 : v[i] = u[i - 1]
  <2> HIDE DEF u
  <2>1. /\ <<PyBlock(b)>> \in Seq(PyKinds) /\ Len(<<PyBlock(b)>>) = 1
        /\ <<PyBlock(b)>>[1] = PyBlock(b)
    BY <1>4
  <2> QED BY <1>1, <1>3, <2>1, ConcatProperties
<1> HIDE DEF t, u, v
<1>6. /\ PyBlocks(t) \in Seq(PyKinds) /\ Len(PyBlocks(t)) = Len(c) + 1
      /\ \A i \in DOMAIN t : PyBlocks(t)[i] = PyBlock(t[i])
  BY <1>1, PyStack
<1>7. DOMAIN t = 1..Len(c) + 1
  BY <1>1, LenProperties
<1>8. ASSUME NEW i \in 1..Len(c) + 1 PROVE PyBlocks(t)[i] = v[i]
  <2>1. CASE i = 1
    BY <1>1, <1>5, <1>6, <1>7, <2>1
  <2>2. CASE i # 1
    <3>1. i \in 2..Len(c) + 1 /\ i - 1 \in DOMAIN c
      BY <1>1, <2>2
    <3> QED BY <1>2, <1>3, <1>5, <1>6, <1>7, <3>1
  <2> QED BY <2>1, <2>2
<1>9. PyBlocks(t) = v
  BY <1>5, <1>6, <1>8, SeqEqual
<1> QED BY <1>9 DEF t, u, v

LEMMA PyDrop ==
  ASSUME ExceptionsAssumption, NEW c \in Seq(Blocks), NEW n \in 0..Len(c)
  PROVE  PyBlocks(Drop(c, n)) = SubSeq(PyBlocks(c), n + 1, Len(PyBlocks(c)))
<1> DEFINE t == Drop(c, n)
           u == PyBlocks(c)
           v == Drop(u, n)
<1>1. /\ t \in Seq(Blocks) /\ Len(t) = Len(c) - n
      /\ Len(c) \in Nat /\ DOMAIN c = 1..Len(c) /\ DOMAIN t = 1..Len(c) - n
  BY DropLemma, LenProperties
<1>2. \A i \in 1..Len(c) - n : t[i] = c[i + n]
  BY DropLemma
<1>3. u \in Seq(PyKinds) /\ Len(u) = Len(c) /\ \A i \in DOMAIN c : u[i] = PyBlock(c[i])
  BY PyStack
<1> HIDE DEF t, u
<1>4. v \in Seq(PyKinds) /\ Len(v) = Len(c) - n
  BY <1>3, DropLemma
<1>5. \A i \in 1..Len(c) - n : v[i] = u[i + n]
  BY <1>3, DropLemma
<1>6. /\ PyBlocks(t) \in Seq(PyKinds) /\ Len(PyBlocks(t)) = Len(c) - n
      /\ \A i \in DOMAIN t : PyBlocks(t)[i] = PyBlock(t[i])
  BY <1>1, PyStack
<1> HIDE DEF v
<1>7. ASSUME NEW i \in 1..Len(c) - n PROVE PyBlocks(t)[i] = v[i]
  <2>1. i + n \in DOMAIN c
    BY <1>1
  <2> QED BY <1>1, <1>2, <1>3, <1>5, <1>6, <2>1
<1>8. PyBlocks(t) = v
  BY <1>4, <1>6, <1>7, SeqEqual
<1> QED BY <1>8 DEF t, u, v, Drop

LEMMA PyTail ==
  ASSUME ExceptionsAssumption, NEW c \in Seq(Blocks), c # <<>>
  PROVE  /\ PyBlocks(c) # <<>> /\ PyBlocks(Tail(c)) = Tail(PyBlocks(c))
         /\ Head(PyBlocks(c)) = PyBlock(c[1]) /\ 1 \in 0..Len(PyBlocks(c))
         /\ PyBlocks(c)[1] = PyBlock(c[1])
         /\ Tail(PyBlocks(c)) = SubSeq(PyBlocks(c), 2, Len(PyBlocks(c)))
<1> DEFINE u == PyBlocks(c)
<1>1. /\ Len(c) \in Nat \ {0} /\ 1 \in 0..Len(c) /\ Tail(c) = Drop(c, 1) /\ DOMAIN c = 1..Len(c)
  BY TailLemma
<1>2. u \in Seq(PyKinds) /\ Len(u) = Len(c) /\ u[1] = PyBlock(c[1])
  BY <1>1, PyStack
<1>3. PyBlocks(Tail(c)) = SubSeq(u, 1 + 1, Len(u))
  BY <1>1, PyDrop
<1> HIDE DEF u
<1>4. u # <<>>
  BY <1>1, <1>2
<1>5. Tail(u) = Drop(u, 1) /\ Head(u) = u[1]
  BY <1>2, <1>4, TailLemma
<1> QED BY <1>1, <1>2, <1>3, <1>4, <1>5 DEF u, Drop

(* Python's actions, in these terms.                                         *)
LEMMA PyActions ==
  /\ Py!Enter <=> /\ cur.id = 0
                  /\ \E k \in {"call", "try", "cleanup"} :
                       PyBlocks(ctl') = <<[kind |-> k, exc |-> 0]>> \o PyBlocks(ctl)
                  /\ cur'.id = cur.id /\ PyBound' = PyBound
  /\ Py!Leave <=> /\ cur.id = 0 /\ PyBlocks(ctl) # <<>>
                  /\ PyBlocks(ctl') = Tail(PyBlocks(ctl))
                  /\ cur'.id = cur.id /\ PyBound' = PyBound
  /\ Py!Abandon <=> \E n \in 0..Len(PyBlocks(ctl)) :
                      /\ \A i \in 1..n : PyBlocks(ctl)[i].kind # "cleanup"
                      /\ PyBlocks(ctl') = SubSeq(PyBlocks(ctl), n + 1, Len(PyBlocks(ctl)))
  /\ \A x : Py!Handling(x) <=>
       \E i \in DOMAIN PyBlocks(ctl) :
         /\ PyBlocks(ctl)[i] = [kind |-> "handler", exc |-> x]
         /\ \A j \in 1..i - 1 : PyBlocks(ctl)[j].kind # "handler"
  /\ \A x : Py!Unused(x) <=> x \notin PyBound /\ \A i \in DOMAIN PyBlocks(ctl) : PyBlocks(ctl)[i].exc # x
  /\ Py!Raise <=> /\ cur.id = 0
                  /\ \E x \in 1..MaxExc : /\ Py!Unused(x) \/ x \in PyBound \/ Py!Handling(x)
                                          /\ cur'.id = x
                  /\ Py!Abandon /\ PyBound' = PyBound
  /\ Py!Propagate <=> cur.id # 0 /\ Py!Abandon /\ cur'.id = cur.id /\ PyBound' = PyBound
  /\ Py!Catch <=> /\ cur.id # 0 /\ PyBlocks(ctl) # <<>>
                  /\ Head(PyBlocks(ctl)).kind \in {"try", "cleanup"}
                  /\ PyBlocks(ctl') = <<[kind |-> "handler", exc |-> cur.id]>> \o Tail(PyBlocks(ctl))
                  /\ PyBound' \in {PyBound, PyBound \cup {cur.id}}
                  /\ cur'.id = 0
  /\ UNCHANGED Py!vars <=> PyBlocks(ctl') = PyBlocks(ctl) /\ cur'.id = cur.id /\ PyBound' = PyBound
<1>1. Py!Enter <=> /\ cur.id = 0
                   /\ \E k \in {"call", "try", "cleanup"} :
                        PyBlocks(ctl') = <<[kind |-> k, exc |-> 0]>> \o PyBlocks(ctl)
                   /\ cur'.id = cur.id /\ PyBound' = PyBound
  BY DEF Py!Enter, Py!Block, PyBlocks, PyBlock, PyBound
<1>2. Py!Leave <=> /\ cur.id = 0 /\ PyBlocks(ctl) # <<>>
                   /\ PyBlocks(ctl') = Tail(PyBlocks(ctl))
                   /\ cur'.id = cur.id /\ PyBound' = PyBound
  BY DEF Py!Leave, PyBlocks, PyBlock, PyBound
<1>3. Py!Abandon <=> \E n \in 0..Len(PyBlocks(ctl)) :
                       /\ \A i \in 1..n : PyBlocks(ctl)[i].kind # "cleanup"
                       /\ PyBlocks(ctl') = SubSeq(PyBlocks(ctl), n + 1, Len(PyBlocks(ctl)))
  BY DEF Py!Abandon, PyBlocks, PyBlock
<1>4. \A x : Py!Handling(x) <=>
        \E i \in DOMAIN PyBlocks(ctl) :
          /\ PyBlocks(ctl)[i] = [kind |-> "handler", exc |-> x]
          /\ \A j \in 1..i - 1 : PyBlocks(ctl)[j].kind # "handler"
  BY DEF Py!Handling, PyBlocks, PyBlock
<1>5. \A x : Py!Unused(x) <=>
        x \notin PyBound /\ \A i \in DOMAIN PyBlocks(ctl) : PyBlocks(ctl)[i].exc # x
  BY DEF Py!Unused, PyBlocks, PyBlock, PyBound
<1>6. Py!Raise <=> /\ cur.id = 0
                   /\ \E x \in 1..MaxExc : /\ Py!Unused(x) \/ x \in PyBound \/ Py!Handling(x)
                                           /\ cur'.id = x
                   /\ Py!Abandon /\ PyBound' = PyBound
  BY DEF Py!Raise, PyBound
<1>7. Py!Propagate <=> cur.id # 0 /\ Py!Abandon /\ cur'.id = cur.id /\ PyBound' = PyBound
  BY DEF Py!Propagate, PyBound
<1>8. Py!Catch <=> /\ cur.id # 0 /\ PyBlocks(ctl) # <<>>
                   /\ Head(PyBlocks(ctl)).kind \in {"try", "cleanup"}
                   /\ PyBlocks(ctl') = <<[kind |-> "handler", exc |-> cur.id]>> \o Tail(PyBlocks(ctl))
                   /\ PyBound' \in {PyBound, PyBound \cup {cur.id}}
                   /\ cur'.id = 0
  BY DEF Py!Catch, PyBlocks, PyBlock, PyBound
<1>9. UNCHANGED Py!vars <=> PyBlocks(ctl') = PyBlocks(ctl) /\ cur'.id = cur.id /\ PyBound' = PyBound
  BY DEF Py!vars, PyBlocks, PyBlock, PyBound
<1> QED BY <1>1, <1>2, <1>3, <1>4, <1>5, <1>6, <1>7, <1>8, <1>9

LEMMA RaisesInFlight ==
  ASSUME IInv
  PROVE  /\ cur = NoExc <=> cur.id = 0
         /\ pc \in {"run", "armed"} <=> cur.id = 0
BY DEF IInv, HandlingMatches, TypeOK, Excs, NoExc

LEMMA PyPushStep ==
  ASSUME ExceptionsAssumption, IInv, Pushes
  PROVE  Py!Enter
<1>1. PICK b \in Blocks :
        /\ ctl' = Cons(b, ctl) /\ cur' = cur /\ bound' = bound /\ b.kind # "handler"
        /\ pc \in {"run", "armed"}
  BY PushFacts
<1>2. PyBlocks(ctl') = <<PyBlock(b)>> \o PyBlocks(ctl)
  BY <1>1, PyPush, StackFacts DEF IInv
<1>3. \E k \in {"call", "try", "cleanup"} : PyBlock(b) = [kind |-> k, exc |-> 0]
  BY <1>1 DEF PyBlock, IsHandler, Blocks, Kinds
<1>4. PyBound' = PyBound
  BY <1>1 DEF PyBound
<1>5. cur.id = 0 /\ cur'.id = cur.id
  BY <1>1, RaisesInFlight
<1> QED BY <1>2, <1>3, <1>4, <1>5, PyActions

LEMMA PyPopStep ==
  ASSUME ExceptionsAssumption, IInv, Pops
  PROVE  Py!Leave \/ Py!Propagate
<1>1. /\ ctl # <<>> /\ ctl' = Tail(ctl) /\ cur' = cur /\ bound' = bound
      /\ \/ pc = "run" /\ pc' = "run"
         \/ pc = "landed" /\ pc' = "reraise"
      /\ ctl \in Seq(Blocks)
  BY PopFacts, StackFacts DEF IInv
<1>2. /\ PyBlocks(ctl) # <<>> /\ PyBlocks(ctl') = Tail(PyBlocks(ctl))
      /\ 1 \in 0..Len(PyBlocks(ctl)) /\ PyBlocks(ctl)[1] = PyBlock(ctl[1])
      /\ Tail(PyBlocks(ctl)) = SubSeq(PyBlocks(ctl), 1 + 1, Len(PyBlocks(ctl)))
  BY <1>1, PyTail
<1>3. PyBound' = PyBound
  BY <1>1 DEF PyBound
<1>4. CASE pc = "run"
  <2>1. cur.id = 0 /\ cur'.id = cur.id
    BY <1>1, <1>4, RaisesInFlight
  <2> QED BY <1>2, <1>3, <2>1, PyActions
<1>5. CASE pc = "landed"
  <2>1. cur.id # 0 /\ cur'.id = cur.id
    BY <1>1, <1>5, RaisesInFlight
  <2>2. ctl[1].kind \in {"try", "handler"}
    BY <1>1, <1>5, StackFacts
       DEF IInv, Pops, Return, LeaveBody, LeaveHandler, NoMatch, CleanupPad, Landed, Running
  <2>3. \A i \in 1..1 : PyBlocks(ctl)[i].kind # "cleanup"
    BY <1>2, <2>2 DEF PyBlock
  <2>4. Py!Abandon
    BY <1>2, <2>3, PyActions
  <2> QED BY <1>3, <2>1, <2>4, PyActions
<1> QED BY <1>1, <1>4, <1>5

LEMMA PyCatchStep ==
  ASSUME ExceptionsAssumption, IInv, Catches
  PROVE  Py!Catch
<1>1. /\ cur \in Excs /\ cur' = NoExc /\ ctl # <<>> /\ ctl[1].kind \in {"try", "cleanup"}
      /\ ctl' = Cons(HandlerBlock, Tail(ctl)) /\ ctl \in Seq(Blocks)
  BY CatchFacts, StackFacts DEF IInv
<1>2. HandlerBlock \in Blocks /\ PyBlock(HandlerBlock) = [kind |-> "handler", exc |-> cur.id]
  BY <1>1 DEF HandlerBlock, Blocks, Kinds, Froms, Excs, PyBlock, IsHandler
<1>3. Tail(ctl) \in Seq(Blocks)
  BY <1>1, TailElements
<1>4. PyBlocks(ctl') = <<PyBlock(HandlerBlock)>> \o PyBlocks(Tail(ctl))
  BY <1>1, <1>2, <1>3, PyPush
<1>5. /\ PyBlocks(ctl) # <<>> /\ PyBlocks(Tail(ctl)) = Tail(PyBlocks(ctl))
      /\ Head(PyBlocks(ctl)).kind \in {"try", "cleanup"}
  <2>1. PyBlock(ctl[1]).kind = ctl[1].kind
    BY <1>1 DEF PyBlock
  <2>2. /\ PyBlocks(ctl) # <<>> /\ PyBlocks(Tail(ctl)) = Tail(PyBlocks(ctl))
        /\ Head(PyBlocks(ctl)) = PyBlock(ctl[1])
    BY <1>1, PyTail
  <2> QED BY <1>1, <2>1, <2>2
<1>6. PyBound' \in {PyBound, PyBound \cup {cur.id}}
  <2>1. CASE bound' = bound
    BY <2>1 DEF PyBound
  <2>2. ASSUME NEW inst \in 1..MaxInst, bound' = bound \cup {<<cur.id, inst>>}
        PROVE  PyBound' = PyBound \cup {cur.id}
    <3>1. <<cur.id, inst>> \in bound' /\ <<cur.id, inst>>[1] = cur.id
      BY <2>2
    <3>2. \A b \in bound' : b \in bound \/ b[1] = cur.id
      BY <2>2
    <3>3. bound \subseteq bound'
      BY <2>2
    <3>4. PyBound' \subseteq PyBound \cup {cur.id}
      BY <3>2 DEF PyBound
    <3>5. PyBound \cup {cur.id} \subseteq PyBound'
      BY <3>1, <3>3 DEF PyBound
    <3> QED BY <3>4, <3>5
  <2> QED BY <2>1, <2>2, CatchFacts
<1>7. cur.id # 0 /\ cur'.id = 0
  BY <1>1 DEF Excs, NoExc
<1> QED BY <1>2, <1>4, <1>5, <1>6, <1>7, PyActions

LEMMA PyRaiseStep ==
  ASSUME ExceptionsAssumption, IInv, Raises
  PROVE  Py!Raise \/ Py!Propagate
<1>0. /\ TypeOK /\ StmtOK /\ StackOK /\ IdsFresh /\ HandlingMatches
      /\ ctl \in Seq(Blocks) /\ Len(ctl) \in Nat /\ DOMAIN ctl = 1..Len(ctl)
      /\ ctl # <<>> => Head(ctl) = ctl[1] /\ 1 \in DOMAIN ctl
      /\ handling \in Seq(Entries)
  BY StackFacts DEF IInv
<1>1. PICK n \in 0..Len(ctl) : Unwound(n)
  BY RaiseUnwinds
<1>2. cur' \in Excs /\ cur'.id \in 1..MaxExc /\ bound' = bound /\ PyBound' = PyBound
  BY RaiseCarries DEF Excs, PyBound
<1>3. /\ Len(PyBlocks(ctl)) = Len(ctl) /\ DOMAIN PyBlocks(ctl) = DOMAIN ctl
      /\ \A i \in DOMAIN ctl : PyBlocks(ctl)[i] = PyBlock(ctl[i])
  BY <1>0, PyStack
<1>4. Py!Abandon
  <2>1. ctl' = Drop(ctl, n) /\ \A i \in 1..n : i \in DOMAIN ctl /\ ~Protects(ctl[i])
    BY <1>0, <1>1 DEF Unwound
  <2>2. PyBlocks(ctl') = SubSeq(PyBlocks(ctl), n + 1, Len(PyBlocks(ctl)))
    BY <1>0, <2>1, PyDrop
  <2>3. \A i \in 1..n : PyBlocks(ctl)[i].kind # "cleanup"
    BY <1>3, <2>1 DEF PyBlock, Protects
  <2> QED BY <1>3, <2>2, <2>3, PyActions
<1>5. ASSUME NEW x \in 1..MaxExc, \A b \in bound : b[1] # x,
             \A i \in DOMAIN ctl : IsHandler(ctl[i]) => ctl[i].exc # x
      PROVE  Py!Unused(x)
  <2>1. x \notin PyBound
    BY <1>5 DEF PyBound
  <2>2. \A i \in DOMAIN ctl : PyBlock(ctl[i]).exc # x
    BY <1>5 DEF PyBlock, ExceptionsAssumption
  <2> QED BY <1>3, <2>1, <2>2, PyActions
<1>6. CASE cur.id = 0
  <2>1. Py!Unused(cur'.id) \/ cur'.id \in PyBound \/ Py!Handling(cur'.id)
    <3>1. CASE RaiseBuiltin
      <4>1. cur'.id = stmt.id /\ pc = "armed" /\ stmt.target = NewTarget
        BY <3>1 DEF RaiseBuiltin, Built
      <4> QED BY <1>0, <1>2, <1>5, <4>1 DEF IdsFresh, Unknown
    <3>2. CASE RaiseInstance
      <4>1. cur'.id = stmt.target[1] /\ stmt.target \in bound
        BY <1>0, <3>2 DEF RaiseInstance, Built, StmtOK, Stmts
      <4> QED BY <4>1 DEF PyBound
    <3>3. CASE RaiseCustom
      <4>1. cur'.id = ctl[1].exc /\ ctl[1].kind = "ctor" /\ 1 \in DOMAIN ctl
        BY <1>0, <3>3 DEF RaiseCustom, Built
      <4>2. \A b \in bound : b[1] # cur'.id
        BY <1>0, <4>1 DEF IdsFresh, Unknown
      <4>3. \A i \in DOMAIN ctl : IsHandler(ctl[i]) => ctl[i].exc # cur'.id
        BY <1>0, <4>1 DEF IdsFresh, IsHandler
      <4> QED BY <1>2, <1>5, <4>2, <4>3
    <3>4. CASE Reraise
      <4>1. cur' = handling[1] /\ handling # <<>>
        BY <1>6, <3>4, HandlingFacts, RaisesInFlight DEF Reraise
      <4>2. PICK p \in DOMAIN ctl : /\ IsHandler(ctl[p]) /\ ctl[p].exc = cur'.id
                                    /\ \A j \in 1..p - 1 : ~IsHandler(ctl[j])
        BY <1>0, <4>1, ListsFirst DEF HandlingMatches
      <4>3. PyBlocks(ctl)[p] = [kind |-> "handler", exc |-> cur'.id]
        BY <1>3, <4>2 DEF PyBlock, IsHandler
      <4>4. ASSUME NEW j \in 1..p - 1 PROVE PyBlocks(ctl)[j].kind # "handler"
        <5>1. j \in DOMAIN ctl /\ ~IsHandler(ctl[j])
          BY <1>0, <4>2
        <5> QED BY <1>3, <5>1 DEF PyBlock, IsHandler
      <4>5. Py!Handling(cur'.id)
        BY <1>3, <4>2, <4>3, <4>4, PyActions
      <4> QED BY <4>5
    <3>5. CASE ReraiseNothing
      <4>1. cur'.id = nextStmt
        BY <3>5 DEF ReraiseNothing, Built
      <4>2. \A b \in bound : b[1] < nextStmt /\ b[1] \in 1..MaxExc
        BY <1>0 DEF IdsFresh, TypeOK
      <4>3. \A i \in DOMAIN ctl : ctl[i].exc < nextStmt /\ ctl[i].exc \in 0..MaxExc
        BY <1>0, StackFacts DEF IdsFresh
      <4>4. nextStmt \in 1..MaxExc + 1 /\ MaxExc \in Nat
        BY <1>0 DEF TypeOK, ExceptionsAssumption
      <4>5. /\ \A b \in bound : b[1] # nextStmt
            /\ \A i \in DOMAIN ctl : ctl[i].exc # nextStmt
        BY <4>2, <4>3, <4>4
      <4> QED BY <1>2, <1>5, <4>1, <4>5
    <3> QED BY <3>1, <3>2, <3>3, <3>4, <3>5 DEF Raises
  <2> QED BY <1>2, <1>4, <1>6, <2>1, PyActions
<1>7. CASE cur.id # 0
  <2>1. cur # NoExc /\ pc \notin {"run", "armed"}
    BY <1>7, RaisesInFlight
  <2>2. Reraise
    BY <2>1 DEF Raises, RaiseBuiltin, RaiseInstance, RaiseCustom, Running, ReraiseNothing
  <2>3. cur' = cur
    BY <2>1, <2>2 DEF Reraise
  <2> QED BY <1>2, <1>4, <1>7, <2>3, PyActions
<1> QED BY <1>6, <1>7

LEMMA PyStep ==
  ASSUME ExceptionsAssumption, IInv, [Next]_vars
  PROVE  [Py!Next]_(Py!vars)
<1>1. CASE Pushes
  BY <1>1, PyPushStep DEF Py!Next
<1>2. CASE Pops
  BY <1>2, PyPopStep DEF Py!Next
<1>3. CASE Raises
  BY <1>3, PyRaiseStep DEF Py!Next
<1>4. CASE Catches
  BY <1>4, PyCatchStep DEF Py!Next
<1>5. ASSUME ctl' = ctl, cur' = cur, bound' = bound PROVE UNCHANGED Py!vars
  <2>1. PyBlocks(ctl') = PyBlocks(ctl) /\ cur'.id = cur.id /\ PyBound' = PyBound
    BY <1>5 DEF PyBound
  <2> QED BY <2>1, PyActions
<1>6. CASE \E target \in bound \cup {NewTarget}, from \in Froms : Arm(target, from)
  BY <1>5, <1>6 DEF Arm
<1>7. CASE UNCHANGED vars
  BY <1>5, <1>7 DEF vars
<1> QED BY <1>1, <1>2, <1>3, <1>4, <1>6, <1>7 DEF Next, Pushes, Pops, Raises, Catches

(* Blocks and exceptions behave as Python's: no finally or with is skipped,  *)
(* a bare raise is the innermost handler's exception, and what is caught is  *)
(* what was raised.                                                          *)
THEOREM BehavesAsPython == ASSUME ExceptionsAssumption PROVE Spec => ImplementsPython
<1>1. Init => Py!Init
  BY DEF Init, Py!Init, NoExc
<1>2. IInv /\ [Next]_vars => [Py!Next]_(Py!vars)
  BY PyStep
<1> QED BY <1>1, <1>2, Invariant, PTL DEF Spec, ImplementsPython, Py!Spec
=============================================================================
