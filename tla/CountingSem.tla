---------------------------- MODULE CountingSem ----------------------------
(***************************************************************************)
(* What a semaphore promises: a unit is there for every post that has not  *)
(* been consumed, a wait consumes exactly one, and waiting threads are     *)
(* served in the order of their arrival.                                   *)
(***************************************************************************)
EXTENDS Integers, Sequences, Functions

CONSTANT Threads

VARIABLES units,                    \* units nobody has taken
          line                      \* threads waiting for a unit

SemInit == units \in Nat /\ line = <<>>

Take == units > 0 /\ line = <<>> /\ units' = units - 1 /\ UNCHANGED line

LineUp(t) ==
  /\ units = 0 /\ t \notin Range(line)
  /\ line' = Append(line, t)
  /\ UNCHANGED units

Give ==
  IF line = <<>> THEN units' = units + 1 /\ UNCHANGED line
  ELSE line' = Tail(line) /\ UNCHANGED units

\* The semaphore is withdrawn while nobody waits.
Withdraw == line = <<>> /\ units' = 0 /\ UNCHANGED line

SemNext == Take \/ Give \/ Withdraw \/ \E t \in Threads : LineUp(t)

SemSpec == SemInit /\ [][SemNext]_<<units, line>>
=============================================================================
