-------------------------- MODULE SchedulerSystem --------------------------
(***************************************************************************)
(* The scheduler alone: main has created every other thread, and no thread *)
(* blocks or exits.  The client may yield, yield to a thread and change    *)
(* priorities (also out of range).                                         *)
(***************************************************************************)
EXTENDS Scheduler

ASSUME SystemAssumption == IsFiniteSet(Threads)

Init ==
  /\ current_thread = main_thread
  /\ state = [t \in Threads |-> IF t = main_thread THEN "RUNNING" ELSE "READY"]
  /\ ready_queue \in Orders(Threads \ {main_thread})
  /\ priority = [t \in Threads |-> THREAD_DEFAULT_PRIORITY]
  /\ context = [t \in Threads |-> "user"]

Yield == thread_yield("user")
YieldTo == \E t \in Threads : thread_yield_to(t)
SetPriority == \E t \in Threads, p \in THREAD_MIN_PRIORITY - 1 .. THREAD_MAX_PRIORITY + 1 :
                 thread_set_priority(t, p)

Next == Yield \/ YieldTo \/ SetPriority

Spec == Init /\ [][Next]_sched_vars

(***************************************************************************)
(* A thread that has the CPU keeps calling thread_yield: by the            *)
(* cooperative contract, or through the preemption timer whose handler     *)
(* does nothing else (thread.c:182-185).                                   *)
(***************************************************************************)
FairSpec == Spec /\ WF_sched_vars(Yield)

-----------------------------------------------------------------------------
TypeOK == SchedTypeOK /\ context \in [Threads -> {"user"}]

(* After a yield no ready thread outranks the thread that runs             *)
(* (scheduler.c:79-85).                                                    *)
YieldRunsHighest ==
  [][Yield /\ PRIO =>
       \A t \in Range(ready_queue') : priority'[t] <= priority'[current_thread']]_sched_vars

(* Aging prevents starvation under PRIO (thread.h:13-15): from whatever    *)
(* priorities the client has set, once it stops setting them every thread  *)
(* runs again and again.                                                   *)
AgingPreventsStarvation ==
  (<>[][Yield \/ YieldTo]_sched_vars) =>
     \A t \in Threads : []<>(state[t] = "RUNNING")
=============================================================================
