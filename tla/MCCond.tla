------------------------------- MODULE MCCond -------------------------------
(* Instances of ThreadCond for TLC. *)
EXTENDS ThreadCond, TLC
CONSTANTS t1, t2, t3, m1, m2, c1

(* Threads other than main, and mutexes, are interchangeable. *)
Symmetry == {p @@ q : p \in Permutations(Threads \ {main_thread}),
                      q \in Permutations(Mutexes)}
=============================================================================
