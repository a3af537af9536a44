-------------------------------- MODULE MCSem --------------------------------
(* Instances of ThreadSem for TLC. *)
EXTENDS ThreadSem
CONSTANTS t1, t2, t3
=============================================================================
