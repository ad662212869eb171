------------------------------- MODULE PyDict -------------------------------
(* What Python promises of a dict: a map from keys to values that keeps the *)
(* order in which its keys were inserted.                                   *)
EXTENDS Naturals, SequencesExt

CONSTANTS Keys, Values

VARIABLE items  \* <<key, value>> pairs, oldest first

Init == items = <<>>

Has(s, k) == \E i \in DOMAIN s : s[i][1] = k

(* The items s once k is assigned v, and without k.                         *)
Updated(s, k, v) ==
  IF Has(s, k) THEN [i \in DOMAIN s |-> IF s[i][1] = k THEN <<k, v>> ELSE s[i]]
               ELSE Append(s, <<k, v>>)
Without(s, k) == RemoveAt(s, CHOOSE i \in DOMAIN s : s[i][1] = k)

Assign(k, v) == items' = Updated(items, k, v)
Delete(k) == Has(items, k) /\ items' = Without(items, k)
PopItem == items # <<>> /\ items' = SubSeq(items, 1, Len(items) - 1)

Clear == items' = <<>>

Next == \/ \E k \in Keys, v \in Values : Assign(k, v)
        \/ \E k \in Keys : Delete(k)
        \/ PopItem \/ Clear

Spec == Init /\ [][Next]_items
=============================================================================
