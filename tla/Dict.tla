-------------------------------- MODULE Dict --------------------------------
(* A dict, runtime/src/dict/: an index table probed by hash over a dense    *)
(* array of entries in insertion order, with the iterators over it          *)
(* (iterator/next.rs, dict_view.rs).                                        *)
(*                                                                          *)
(* A key is equal to itself only and hashing runs no user code.  Positions  *)
(* in the table and in the entries count from 0, as in the code; entries is *)
(* the array up to entries_len, cap is indices_capacity; entries_capacity is *)
(* always given the same value and is not kept apart.                       *)
EXTENDS Integers, SequencesExt, FiniteSetsExt, Probing

CONSTANTS Keys, Values,
          Hash,        \* hash_hashable_obj
          NoKey,       \* Value(0), in a deleted entry
          MinCap,      \* least capacity, a power of 2: 8 in the code
          Requests,    \* bound: capacities asked of rt_make_dict
          MaxEntries   \* bound: entries_len

DictAssumption == /\ Hash \in [Keys -> Nat] /\ NoKey \notin Keys
                  /\ MinCap \in Nat \ {0}
                  /\ Requests \subseteq Nat /\ MaxEntries \in Nat

EMPTY == -1
DUMMY == -2
Live(e) == e.key # NoKey
Living(es) ==
  LET kept[i \in 0..Len(es)] ==
        IF i = 0 THEN <<>>
        ELSE IF Live(es[i]) THEN Append(kept[i - 1], es[i]) ELSE kept[i - 1]
  IN kept[Len(es)]
LiveKeys(d) == LET es == Living(d.entries) IN [i \in DOMAIN es |-> es[i].key]

VARIABLES
  dict,     \* [cap, indices, entries, len]
  iter,     \* the iterator in use
  fixed,    \* history: no key came or went since it was made
  seen,     \* history: the keys it has yielded, while fixed
  rebuilt   \* history: the table was rebuilt since, while fixed

vars == <<dict, iter, seen, fixed, rebuilt>>

AtLeast(n) == NextPowerOf2(IF n < MinCap THEN MinCap ELSE n)
Fresh(cap) == [cap |-> cap, indices |-> [s \in 0..cap - 1 |-> EMPTY],
               entries |-> <<>>, len |-> 0]

NoIter == [index |-> 0]
Done == [index |-> -1]

(* rt_make_dict                                                             *)
Init == /\ \E n \in Requests :
             dict = Fresh(AtLeast((n * 3) \div 2))
        /\ iter = NoIter /\ seen = <<>>
        /\ fixed = TRUE /\ rebuilt = FALSE
-----------------------------------------------------------------------------
(* The probe sequence of a key: hash + i(i+1)/2, in a table of capacity c.  *)
Slot(c, k, i) == Probe(Hash[k], i, c)
At(d, k, i) == d.indices[Slot(d.cap, k, i)]
Probes(d) == 0..d.cap - 1

(* find_compact_slot_generic.  The probe ends at an empty slot, at the      *)
(* key's own, or after d.cap steps.                                         *)
Holds(d, j, k) == j \in 0..Len(d.entries) - 1 /\ d.entries[j + 1].key = k
Ends(d, k, i) == i = d.cap \/ At(d, k, i) = EMPTY \/ Holds(d, At(d, k, i), k)
End(d, k) == CHOOSE i \in 0..d.cap : /\ Ends(d, k, i)
                                     /\ \A h \in 0..i - 1 : ~Ends(d, k, h)

LookupEntry(d, k) == LET i == End(d, k)
                     IN IF i = d.cap \/ At(d, k, i) = EMPTY THEN -1 ELSE At(d, k, i)

InsertSlot(d, k) ==
  LET end == End(d, k)
      dummies == {i \in 0..end - 1 : At(d, k, i) = DUMMY}
  IN CASE dummies # {} -> Slot(d.cap, k, Min(dummies))
       [] dummies = {} /\ end < d.cap -> Slot(d.cap, k, end)
       [] OTHER -> 0

(* dict_resize: the live entries, compacted, in a table three times as      *)
(* large as their number.                                                   *)
Place(d, e) ==
  LET free == {i \in Probes(d) : At(d, e.key, i) = EMPTY}
  IN [cap |-> d.cap,
      indices |-> [d.indices EXCEPT ![Slot(d.cap, e.key, Min(free))] = Len(d.entries)],
      entries |-> Append(d.entries, e),
      len |-> d.len]

Resize(d) ==
  LET live == Living(d.entries)
      moved[i \in 0..Len(live)] ==
        IF i = 0 THEN [Fresh(AtLeast(3 * d.len)) EXCEPT !.len = d.len]
        ELSE Place(moved[i - 1], live[i])
  IN moved[Len(live)]

(* rt_dict_set *)
MakeRoom(d) == IF d.len * 3 >= d.cap * 2 THEN Resize(d) ELSE d

AddEntry(d, k, v) ==
  [cap |-> d.cap,
   indices |-> [d.indices EXCEPT ![InsertSlot(d, k)] = Len(d.entries)],
   entries |-> Append(d.entries, [key |-> k, value |-> v]),
   len |-> d.len + 1]

SetStaleIndex(d0, k, v) ==   \* mutant: looked up before the table is rebuilt
  LET d == MakeRoom(d0)
      j == LookupEntry(d0, k)
  IN CASE j >= 0 -> [d EXCEPT !.entries[j + 1].value = v]
       [] j < 0 /\ Len(d.entries) < d.cap -> AddEntry(d, k, v)
       [] OTHER -> AddEntry(Resize(d), k, v)

Set(d0, k, v) ==
  LET d == MakeRoom(d0)
      j == LookupEntry(d, k)
  IN CASE j >= 0 -> [d EXCEPT !.entries[j + 1].value = v]
       [] j < 0 /\ Len(d.entries) < d.cap -> AddEntry(d, k, v)
       [] OTHER -> AddEntry(Resize(d), k, v)

(* rt_dict_pop and rt_dict_delete of a key that is there.                   *)
Deleted == [key |-> NoKey, value |-> NoKey]
RemovedEmpty(d, k) ==   \* mutant: the slot becomes empty
  [d EXCEPT !.indices[Slot(d.cap, k, End(d, k))] = EMPTY,
            !.entries[LookupEntry(d, k) + 1] = Deleted,
            !.len = @ - 1]

Removed(d, k) ==
  [cap |-> d.cap,
   indices |-> [d.indices EXCEPT ![Slot(d.cap, k, End(d, k))] = DUMMY],
   entries |-> [d.entries EXCEPT ![LookupEntry(d, k) + 1] = Deleted],
   len |-> d.len - 1]

(* rt_dict_popitem.  The index of the entry is looked for along its hash,   *)
(* and entries_len shrinks past the deleted entries at the end.             *)
LastLiveForward(es) == Min({i \in DOMAIN es : Live(es[i])} \cup {Len(es)})  \* mutant
LastLive(es) == Max({i \in DOMAIN es : Live(es[i])} \cup {0})
PopLast(d) ==
  LET last == LastLive(d.entries)
      k == d.entries[last].key
      i == Min({p \in Probes(d) : At(d, k, p) \in {last - 1, EMPTY}})
      es == [d.entries EXCEPT ![last] = Deleted]
  IN [cap |-> d.cap,
      indices |-> IF At(d, k, i) = EMPTY THEN d.indices
                  ELSE [d.indices EXCEPT ![Slot(d.cap, k, i)] = DUMMY],
      entries |-> SubSeq(es, 1, LastLive(es)),
      len |-> d.len - 1]
-----------------------------------------------------------------------------
(* The program.  d is the dict after one of its calls.                      *)
Becomes(d) == /\ Len(d.entries) <= MaxEntries
              /\ dict' = d
              /\ fixed' = (fixed /\ ToSet(LiveKeys(d)) = ToSet(LiveKeys(dict)))
              /\ seen' = IF fixed' THEN seen ELSE <<>>
              /\ UNCHANGED iter

(* rt_dict_set, and rt_dict_setdefault of a key that is not there.           *)
Assign(k, v) == /\ Becomes(Set(dict, k, v))
                /\ rebuilt' = (fixed' /\ (rebuilt \/ MakeRoom(dict) # dict))

Delete(k) == /\ LookupEntry(dict, k) >= 0
             /\ Becomes(Removed(dict, k))
             /\ rebuilt' = (fixed' /\ rebuilt)

PopItem == /\ dict.len > 0
           /\ Becomes(PopLast(dict))
           /\ rebuilt' = (fixed' /\ rebuilt)

Clear == /\ Becomes(Fresh(dict.cap))
         /\ rebuilt' = (fixed' /\ rebuilt)

(* An iterator over values() or items() walks the entries and keeps the     *)
(* length.  (One over the dict or keys() walks a list of the keys.)         *)
Iterate(it) == /\ iter' = it
               /\ seen' = <<>> /\ fixed' = TRUE /\ rebuilt' = FALSE
               /\ UNCHANGED dict

MakeIter == Iterate([index |-> 0, expected |-> dict.len])

Iterating == iter \notin {NoIter, Done}
RestFromIndex ==   \* mutant: the entry just yielded is not passed
  {i \in DOMAIN dict.entries : i >= iter.index /\ Live(dict.entries[i])}
Rest == {i \in DOMAIN dict.entries : i > iter.index /\ Live(dict.entries[i])}

IterNext == /\ Iterating /\ dict.len = iter.expected
            /\ Rest # {}
            /\ iter' = [iter EXCEPT !.index = Min(Rest)]
            /\ seen' = IF fixed THEN Append(seen, dict.entries[Min(Rest)].key)
                                ELSE <<>>
            /\ UNCHANGED <<dict, fixed, rebuilt>>

IterEnd == /\ Iterating /\ dict.len = iter.expected
           /\ Rest = {}
           /\ iter' = Done
           /\ UNCHANGED <<dict, seen, fixed, rebuilt>>

(* The size changed: RuntimeError, and the program gives the iterator up.   *)
IterRaises == /\ Iterating /\ dict.len # iter.expected
              /\ Iterate(NoIter)

Next == \/ \E k \in Keys, v \in Values : Assign(k, v)
        \/ \E k \in Keys : Delete(k)
        \/ PopItem \/ Clear
        \/ MakeIter \/ IterNext \/ IterEnd \/ IterRaises

Spec == Init /\ [][Next]_vars
-----------------------------------------------------------------------------
TypeOK ==
  /\ PowerOf2(dict.cap)
  /\ DOMAIN dict.indices = 0..dict.cap - 1
  /\ \A s \in DOMAIN dict.indices : dict.indices[s] \in -2..MaxEntries - 1
  /\ dict.entries \in Seq([key : Keys \cup {NoKey}, value : Values \cup {NoKey}])
  /\ dict.len \in Nat
  /\ iter \in {NoIter, Done}
             \cup [index : 0..MaxEntries, expected : Nat]
  /\ seen \in Seq(Keys) /\ fixed \in BOOLEAN /\ rebuilt \in BOOLEAN

(* Whatever tombstones insertions, removals and popitem leave in the table, *)
(* full ones without an empty slot included: a lookup finds a key exactly   *)
(* when it is there, in the one entry that holds it, and the counters are   *)
(* those of the entries.                                                    *)
LookupExact ==
  /\ \A k \in Keys : LET j == LookupEntry(dict, k)
                     IN {i \in DOMAIN dict.entries : dict.entries[i].key = k}
                          = (IF j < 0 THEN {} ELSE {j + 1})
  /\ dict.len = Len(LiveKeys(dict))
  /\ Len(dict.entries) <= dict.cap

(* The dict is Python's: compaction and growth lose no entry and keep the   *)
(* order, popitem takes the newest.                                         *)
Items(d) == LET es == Living(d.entries)
            IN [i \in DOMAIN es |-> <<es[i].key, es[i].value>>]
Py == INSTANCE PyDict WITH items <- Items(dict)
ImplementsPyDict == Py!Spec

(* In every state the program may reach, an assignment would change the     *)
(* entry of its own key and no other, whatever is rebuilt on the way, and a *)
(* removal takes its own key only.                                          *)
CallsExact ==
  LET items == Items(dict)
  IN \A k \in Keys :
       /\ \A v \in Values : Items(Set(dict, k, v)) = Py!Updated(items, k, v)
       /\ Py!Has(items, k) => Items(Removed(dict, k)) = Py!Without(items, k)

(* While no key comes or goes, an iteration yields keys in order and none   *)
(* twice; and unless the table is rebuilt under one that walks the entries, *)
(* it has yielded them all when it ends.                                    *)
InOrder(s, t) == \A i, j \in DOMAIN s : i < j =>
                   \E m, n \in DOMAIN t : m < n /\ s[i] = t[m] /\ s[j] = t[n]
IterationSound ==
  fixed => /\ InOrder(seen, LiveKeys(dict))
           /\ iter = Done /\ ~rebuilt => seen = LiveKeys(dict)

(* Overwriting values during an iteration is allowed: it still yields every *)
(* key (corpus/test_dict_views.py:183).                                     *)
IterationComplete ==
  fixed /\ iter = Done => seen = LiveKeys(dict)
=============================================================================
