---------------------------- MODULE MCExceptions ----------------------------
(* Exceptions for programs of at most MaxExc raises and MaxDepth blocks.     *)
EXTENDS Exceptions
=============================================================================
