------------------------------- MODULE MCCore -------------------------------
(* Instances of ThreadCore for TLC. *)
EXTENDS ThreadCore, TLC
CONSTANTS t1, t2, t3, s1, s2

(* Struct and stack addresses are interchangeable. *)
Symmetry == {p @@ q : p \in Permutations(Threads \ {main_thread}),
                      q \in Permutations(Stacks)}
=============================================================================
