-------------------------------- MODULE MCSig --------------------------------
(* Instances of ThreadSig for TLC. *)
EXTENDS ThreadSig, TLC
CONSTANTS t1, t2, s1, s2

(* Struct and stack addresses are interchangeable. *)
Symmetry == {p @@ q : p \in Permutations(Threads \ {main_thread}),
                      q \in Permutations(Stacks)}
=============================================================================
