----------------------------- MODULE MCClasses -----------------------------
(* Classes on small programs.                                               *)
EXTENDS Classes
=============================================================================
