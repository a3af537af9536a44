----------------------------- MODULE MCOverflow -----------------------------
(* Instance of ThreadOverflow for TLC. *)
EXTENDS ThreadOverflow
CONSTANTS t1, t2, t3, s1, s2
=============================================================================
