------------------------------ MODULE MCPreempt ------------------------------
(* Instance of ThreadPreempt for TLC. *)
EXTENDS ThreadPreempt, TLC
CONSTANTS t1, t2, t3, s1, s2

(* Struct and stack addresses are interchangeable. *)
Symmetry == {p @@ q : p \in Permutations(Threads \ {main_thread}),
                      q \in Permutations(Stacks)}
=============================================================================
