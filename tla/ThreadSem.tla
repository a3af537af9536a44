----------------------------- MODULE ThreadSem -----------------------------
(***************************************************************************)
(* A counting semaphore (src/thread_sem.c) used by a fixed set of live     *)
(* threads, in the cooperative build.                                      *)
(*                                                                         *)
(* MAX_POSTS bounds the posts of a behaviour.  count is an int: it leaves  *)
(* its range only after 2^31 posts that nobody consumed, far beyond the    *)
(* bound.                                                                  *)
(***************************************************************************)
EXTENDS Scheduler

CONSTANTS InitialValues,            \* arguments of thread_sem_init
          MAX_POSTS

ASSUME SemAssumption ==
  IsFiniteSet(Threads) /\ InitialValues \subseteq Nat /\ MAX_POSTS \in Nat

VARIABLES count, sem_queue,         \* the semaphore
          given, taken              \* history: units put in, waits that returned 0

sem_vars == <<sched_vars, count, sem_queue, given, taken>>

\* Mutants: the wait does not test the count; it does not consume the unit.
sem_wait_untested ==
  /\ RunsAt("user")
  /\ count' = count - 1
  /\ taken' = taken + 1
  /\ UNCHANGED <<sched_vars, sem_queue, given>>
sem_wait_keeps ==
  /\ RunsAt("user")
  /\ count > 0
  /\ taken' = taken + 1
  /\ UNCHANGED <<sched_vars, count, sem_queue, given>>

sem_wait_take ==
  /\ RunsAt("user")
  /\ count > 0
  /\ count' = count - 1
  /\ taken' = taken + 1
  /\ UNCHANGED <<sched_vars, sem_queue, given>>

\* Mutant: the newcomer is put in front.
sem_wait_front ==
  /\ RunsAt("user")
  /\ count <= 0
  /\ BlockAndSwitch("sem_wait")
  /\ sem_queue' = <<current_thread>> \o sem_queue
  /\ UNCHANGED <<count, given, taken>>

\* No unit: park.  With nobody else to run the call fails without effect.
sem_wait_block ==
  /\ RunsAt("user")
  /\ count <= 0
  /\ BlockAndSwitch("sem_wait")
  /\ sem_queue' = Append(sem_queue, current_thread)
  /\ UNCHANGED <<count, given, taken>>

sem_wait_return ==
  /\ RunsAt("sem_wait")
  /\ context' = [context EXCEPT ![current_thread] = "user"]
  /\ taken' = taken + 1
  /\ UNCHANGED <<current_thread, state, ready_queue, priority, count, sem_queue, given>>

\* Mutants: the waiters are not looked at; the first one is unlinked and not
\* made runnable.
sem_post_no_wake ==
  /\ RunsAt("user") /\ given < MAX_POSTS
  /\ given' = given + 1
  /\ count' = count + 1
  /\ UNCHANGED <<sched_vars, sem_queue, taken>>

sem_post_lost ==
  /\ RunsAt("user") /\ given < MAX_POSTS
  /\ given' = given + 1
  /\ sem_queue # <<>>
  /\ sem_queue' = Tail(sem_queue)
  /\ UNCHANGED <<sched_vars, count, taken>>

\* The first waiter gets the unit, otherwise it is counted.
thread_sem_post ==
  /\ RunsAt("user") /\ given < MAX_POSTS
  /\ given' = given + 1
  /\ IF sem_queue = <<>>
     THEN count' = count + 1 /\ UNCHANGED <<sem_queue, state, ready_queue>>
     ELSE /\ sem_queue' = Tail(sem_queue)
          /\ state' = [state EXCEPT ![Head(sem_queue)] = "READY"]
          /\ ready_queue' = thread_scheduler_enqueue(ready_queue, Head(sem_queue), priority)
          /\ UNCHANGED count
  /\ UNCHANGED <<current_thread, priority, context, taken>>

\* Refused while threads wait; the units left are lost.
thread_sem_destroy ==
  /\ RunsAt("user")
  /\ sem_queue = <<>>
  /\ count' = 0
  /\ given' = given - count
  /\ UNCHANGED <<sched_vars, sem_queue, taken>>

sem_yield == RunsAt("user") /\ thread_yield("user") /\ UNCHANGED <<count, sem_queue, given, taken>>

-----------------------------------------------------------------------------
SemInit ==
  /\ current_thread = main_thread
  /\ state = [t \in Threads |-> IF t = main_thread THEN "RUNNING" ELSE "READY"]
  /\ ready_queue \in Orders(Threads \ {main_thread})
  /\ priority = [t \in Threads |-> THREAD_DEFAULT_PRIORITY]
  /\ context = [t \in Threads |-> "user"]
  /\ count \in InitialValues /\ sem_queue = <<>>             \* thread_sem_init
  /\ given = count /\ taken = 0

SemNext ==
  \/ sem_wait_take \/ sem_wait_block \/ sem_wait_return
  \/ thread_sem_post \/ thread_sem_destroy \/ sem_yield

SemSpec == SemInit /\ [][SemNext]_sem_vars

(***************************************************************************)
(* A thread that has the CPU yields again and again, and a wait goes on    *)
(* once its thread has the CPU.                                            *)
(***************************************************************************)
SemFairSpec == SemSpec /\ SF_sem_vars(sem_yield) /\ WF_sem_vars(sem_wait_return)

-----------------------------------------------------------------------------
SemTypeOK ==
  /\ SchedTypeOK
  /\ context \in [Threads -> {"user", "sem_wait"}]
  /\ count \in Nat /\ given \in Nat /\ taken \in Nat
  /\ sem_queue \in Seq(Threads)

\* The waiters a post has chosen and that have not run since.
Revived == {t \in Threads : context[t] = "sem_wait" /\ t \notin Range(sem_queue)}

(* No unit is lost or used twice: those put in are in the count, in the    *)
(* hands of a revived waiter on its way, or consumed by a wait that        *)
(* returned ("post() has already accounted for the resource",              *)
(* thread_sem.c:28-29, 65).                                                *)
UnitsConserved == given = taken + count + Cardinality(Revived)

(* A unit never lies idle while a thread waits for one, although the first *)
(* waiter is served without touching the count (thread_sem.c:39, 87-94).   *)
NoIdleUnit == sem_queue # <<>> => count = 0

(* A thread is BLOCKED exactly while it is linked in the semaphore's       *)
(* queue, once, and it is then inside thread_sem_wait                      *)
(* (thread_sem.c:58-59, 88-91).                                            *)
SemBlockedIsQueued ==
  /\ IsInjective(sem_queue)
  /\ \A t \in Threads : t \in Range(sem_queue) <=> state[t] = "BLOCKED"
  /\ \A t \in Range(sem_queue) : context[t] = "sem_wait"

Sem == INSTANCE CountingSem WITH units <- count, line <- sem_queue

(* The semaphore implements a counting semaphore that serves its waiters   *)
(* in the order of arrival (thread_sem.h:10).                              *)
ImplementsCountingSem == Sem!SemSpec

(* A waiter chosen by a post returns from thread_sem_wait.                 *)
RevivedReturns == \A t \in Threads : t \in Revived ~> context[t] = "user"
=============================================================================
