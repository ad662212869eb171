---------------------------- MODULE MCGenerator ----------------------------
(* Generator with two generators that call each other, in any order.        *)
EXTENDS Generator
=============================================================================
