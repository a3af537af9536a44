---------------------------- MODULE MCScheduler ----------------------------
(* Instances of SchedulerSystem for TLC. *)
EXTENDS SchedulerSystem
CONSTANTS t1, t2, t3
=============================================================================
