---------------------------- MODULE MCIterators ----------------------------
(* Iterators in the programs of MCPrograms.                            *)
EXTENDS Iterators, MCPrograms
=============================================================================
