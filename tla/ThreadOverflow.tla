--------------------------- MODULE ThreadOverflow ---------------------------
(***************************************************************************)
(* Stack overflow detection (src/preemption.c, in the build with           *)
(* THREAD_ENABLE_OVERFLOW_DETECTION and guard pages) on top of the thread  *)
(* lifecycle: a thread may run into its guard page whenever it executes    *)
(* client code.                                                            *)
(*                                                                         *)
(* The SIGSEGV handler ends the thread from inside the handler.  It never  *)
(* returns, and a context switch does not touch the signal mask, so        *)
(* SIGSEGV stays blocked from then on; the kernel kills a process that     *)
(* faults while the signal is blocked.                                     *)
(***************************************************************************)
EXTENDS ThreadCore

VARIABLES stack_overflow,
          segv_blocked,             \* the signal mask of the process
          join_result,              \* what the join that just returned has reported
          victims                   \* history: threads that have overflowed their stack

overflow_vars == <<core_vars, stack_overflow, segv_blocked, join_result, victims>>

\* errno of a join whose target's flag is set, 0 otherwise.
Result(overflowed) == IF overflowed THEN "EFAULT" ELSE "0"

-----------------------------------------------------------------------------
\* Mutant: the handler switches away by itself instead of calling thread_exit.
sigsegv_handler_bare ==
  /\ Running("user") /\ stack_map[current_thread] # NULL
  /\ ~segv_blocked /\ ready_queue # <<>>
  /\ swap_thread([state EXCEPT ![current_thread] = "TERMINATED"], Head(ready_queue))
  /\ ready_queue' = Tail(ready_queue)
  /\ stack_overflow' = [stack_overflow EXCEPT ![current_thread] = TRUE]
  /\ segv_blocked' = TRUE
  /\ join_result' = "none" /\ victims' = victims \cup {current_thread}
  /\ UNCHANGED <<priority, context, mem_vars, join_vars, process, mis_woken>>

\* The fault is in the guard page of the running thread.
sigsegv_handler ==
  /\ stack_map[current_thread] # NULL
  /\ ~segv_blocked
  /\ thread_exit
  /\ stack_overflow' = [stack_overflow EXCEPT ![current_thread] = TRUE]
  /\ segv_blocked' = TRUE
  /\ join_result' = "none" /\ victims' = victims \cup {current_thread}

\* The main thread has no guard page of the library, or the signal is blocked:
\* the default action of SIGSEGV.
overflow_kills ==
  /\ Running("user")
  /\ stack_map[current_thread] = NULL \/ segv_blocked
  /\ process' = "killed"
  /\ join_result' = "none"
  /\ UNCHANGED <<sched_vars, mem_vars, join_vars, mis_woken, stack_overflow, segv_blocked, victims>>

-----------------------------------------------------------------------------
(***************************************************************************)
(* The lifecycle, with what it does to the flag.                           *)
(***************************************************************************)
\* Mutant: a recycled struct keeps the flag.
ResetOverflow_kept(t) == UNCHANGED stack_overflow

ResetOverflow(t) == stack_overflow' = [stack_overflow EXCEPT ![t] = FALSE]

overflow_create ==
  /\ create_publish \/ create_no_slot
  /\ ResetOverflow(newth[current_thread])
  /\ join_result' = "none" /\ victims' = victims \ {newth[current_thread]}
  /\ UNCHANGED segv_blocked

\* A join that blocked reports the flag; one that finds its target terminated
\* returns 0.
overflow_join_resume ==
  /\ join_resume
  /\ join_result' = Result(stack_overflow[waiting_for[current_thread]])
  /\ UNCHANGED <<stack_overflow, segv_blocked, victims>>

overflow_join_terminated ==
  /\ \E target \in Threads : join_terminated(target)
  /\ join_result' = "0"
  /\ UNCHANGED <<stack_overflow, segv_blocked, victims>>

overflow_other ==
  /\ \/ thread_create \/ create_retry \/ create_fail
     \/ thread_exit
     \/ \E target \in Threads : join_block(target) \/ join_abort(target)
     \/ yield \/ yield_to \/ set_priority
     \/ main_return \/ cleanup_ctx \/ exit_pool_free \/ exit_cleanup \/ ended
     \/ process = "killed" /\ UNCHANGED core_vars
  /\ join_result' = "none"
  /\ UNCHANGED <<stack_overflow, segv_blocked, victims>>

OverflowInit ==
  /\ CoreInit
  /\ stack_overflow = [t \in Threads |-> FALSE] /\ segv_blocked = FALSE
  /\ join_result = "none" /\ victims = {}

OverflowNext ==
  \/ sigsegv_handler \/ overflow_kills
  \/ overflow_create \/ overflow_join_resume \/ overflow_join_terminated
  \/ overflow_other

OverflowSpec == OverflowInit /\ [][OverflowNext]_overflow_vars

OverflowFairSpec == OverflowSpec /\ CoreFairness

-----------------------------------------------------------------------------
(* A thread whose overflow is handled ends like any other: it is dead, its *)
(* stack is in one place, and it has one keeper that will claim or free it *)
(* (preemption.c:88-95).  "terminating only the faulty thread without      *)
(* disturbing others" (preemption.h:32) goes further than the code: the    *)
(* handler leaves SIGSEGV blocked, so a second overflow, like one of main, *)
(* kills the process (overflow_kills), and nothing is said of what follows.*)
OverflowContained ==
  Live => \A t \in victims \cap handles :
    /\ state[t] = "TERMINATED"
    /\ stack_map[t] \notin Range(stack_pool \o deferred_stacks)
    /\ \A u \in Owners : stack_map[u] = stack_map[t] => u = t
    /\ ZombieKeeps(t) \/ JoinerKeeps(t)

(* A join that had to wait reports EFAULT exactly when the thread it       *)
(* waited for has overflowed its stack, not when an earlier thread with    *)
(* the same struct has ("EFAULT : thread was killed by a stack overflow",  *)
(* thread.h:57; thread.c:282, 506-508, 530-533).  The test of overflow     *)
(* detection asserts that such a join returns 0 (test/72-stack-overflow.c, *)
(* line 48).                                                               *)
OverflowReported ==
  [][\A t \in Threads :
       waiting_for[t] # NULL /\ waiting_for'[t] = NULL /\ context[t] = "join" =>
         (join_result' = "EFAULT" <=> waiting_for[t] \in victims)]_overflow_vars
=============================================================================
