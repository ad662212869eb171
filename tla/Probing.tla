------------------------------ MODULE Probing ------------------------------
(* What the hash tables of dict and set share: capacities are powers of 2,  *)
(* and a key is looked for along triangular numbers from its hash           *)
(* (runtime/src/hash_table_utils.rs).  Slots count from 0, as in the code.  *)
EXTENDS Integers, FiniteSetsExt

(* Every divisor of p but 1 is even.                                        *)
Divides(d, p) == \E k \in 0..p : d * k = p
PowerOf2(p) == \A d \in 2..p : Divides(d, p) => Divides(2, d)

NextPowerOf2(n) == Min({p \in n..2 * n : PowerOf2(p)})

Triangle(i) == (i * (i + 1)) \div 2
Probe(hash, i, cap) == (hash + Triangle(i)) % cap
=============================================================================
