---------------------------- MODULE ThreadMutex ----------------------------
(***************************************************************************)
(* Mutexes (src/thread_mutex.c) used by a fixed set of live threads, in    *)
(* the cooperative build; ThreadCond adds condition variables and is the   *)
(* system that is checked.                                                 *)
(*                                                                         *)
(* The struct does not record its owner, so what the client has been       *)
(* promised is a history variable: holds[m] are the threads to which       *)
(* thread_mutex_lock(m) has returned 0 and that have not unlocked m since. *)
(* The client unlocks what it holds and does not lock it twice, but it may *)
(* destroy a mutex at any time; it reinitialises one only when nobody uses *)
(* it.                                                                     *)
(***************************************************************************)
EXTENDS Scheduler

CONSTANT Mutexes

ASSUME MutexAssumption == NULL \notin Mutexes /\ IsFiniteSet(Threads)

VARIABLES locked,                   \* 0 free, 1 held, -1 destroyed
          mutex_queue,              \* waiting_queue of each mutex
          mutex_arg,                \* the mutex of a lock call in progress
          holds                     \* history

mutex_vars == <<locked, mutex_queue, mutex_arg, holds>>

\* thread_mutex_init: only sound while nobody uses m.
mutex_init(m) ==
  /\ RunsAt("user")
  /\ holds[m] = {} /\ \A t \in Threads : mutex_arg[t] # m
  /\ locked' = [locked EXCEPT ![m] = 0]
  /\ mutex_queue' = [mutex_queue EXCEPT ![m] = <<>>]
  /\ UNCHANGED <<sched_vars, mutex_arg, holds>>

\* Mutant: waiting threads are ignored.
mutex_destroy_waiting(m) ==
  /\ RunsAt("user")
  /\ locked' = [locked EXCEPT ![m] = -1]
  /\ UNCHANGED <<sched_vars, mutex_queue, mutex_arg, holds>>

thread_mutex_destroy(m) ==
  /\ RunsAt("user")
  /\ mutex_queue[m] = <<>>
  /\ locked' = [locked EXCEPT ![m] = -1]
  /\ UNCHANGED <<sched_vars, mutex_queue, mutex_arg, holds>>

-----------------------------------------------------------------------------
(***************************************************************************)
(* thread_mutex_lock.  It fails without effect on a destroyed mutex, and   *)
(* on a held one when nobody else can run.                                 *)
(***************************************************************************)
lock_free(m) ==
  /\ RunsAt("user")
  /\ locked[m] = 0
  /\ locked' = [locked EXCEPT ![m] = 1]
  /\ holds' = [holds EXCEPT ![m] = @ \cup {current_thread}]
  /\ UNCHANGED <<sched_vars, mutex_queue, mutex_arg>>

\* Mutant: the newcomer is put in front.
ParkOn_front(m) ==
  /\ locked[m] = 1
  /\ BlockAndSwitch("lock")
  /\ mutex_queue' = [mutex_queue EXCEPT ![m] = <<current_thread>> \o @]
  /\ mutex_arg' = [mutex_arg EXCEPT ![current_thread] = m]

\* The slow path up to the switch.
ParkOn(m) ==
  /\ locked[m] = 1
  /\ BlockAndSwitch("lock")
  /\ mutex_queue' = [mutex_queue EXCEPT ![m] = Append(@, current_thread)]
  /\ mutex_arg' = [mutex_arg EXCEPT ![current_thread] = m]

lock_block(m) ==
  /\ RunsAt("user")
  /\ current_thread \notin holds[m]
  /\ ParkOn(m)
  /\ UNCHANGED <<locked, holds>>

\* The parked thread runs again: it owns the mutex.
lock_return ==
  /\ RunsAt("lock")
  /\ holds' = [holds EXCEPT ![mutex_arg[current_thread]] = @ \cup {current_thread}]
  /\ mutex_arg' = [mutex_arg EXCEPT ![current_thread] = NULL]
  /\ context' = [context EXCEPT ![current_thread] = "user"]
  /\ UNCHANGED <<current_thread, state, ready_queue, priority, locked, mutex_queue>>

-----------------------------------------------------------------------------
\* Mutants of the release: the mutex is marked free although a waiter takes
\* it over; the waiter is not made runnable.
PassOn_open(m, st, q) ==
  IF mutex_queue[m] = <<>>
  THEN [locked |-> 0, waiting |-> <<>>, st |-> st, rq |-> q]
  ELSE LET revived == Head(mutex_queue[m])
       IN  [locked |-> 0, waiting |-> Tail(mutex_queue[m]),
            st |-> [st EXCEPT ![revived] = "READY"],
            rq |-> thread_scheduler_enqueue(q, revived, priority)]
PassOn_lost(m, st, q) ==
  IF mutex_queue[m] = <<>>
  THEN [locked |-> 0, waiting |-> <<>>, st |-> st, rq |-> q]
  ELSE [locked |-> locked[m], waiting |-> Tail(mutex_queue[m]), st |-> st, rq |-> q]

\* The mutex is freed, or handed to its first waiter, which joins the ready
\* queue q; st are the states.
PassOn(m, st, q) ==
  IF mutex_queue[m] = <<>>
  THEN [locked |-> 0, waiting |-> <<>>, st |-> st, rq |-> q]
  ELSE LET revived == Head(mutex_queue[m])
       IN  [locked |-> locked[m], waiting |-> Tail(mutex_queue[m]),
            st |-> [st EXCEPT ![revived] = "READY"],
            rq |-> thread_scheduler_enqueue(q, revived, priority)]

thread_mutex_unlock(m) ==
  LET passed == PassOn(m, state, ready_queue) IN
  /\ RunsAt("user")
  /\ current_thread \in holds[m]
  /\ holds' = [holds EXCEPT ![m] = @ \ {current_thread}]
  /\ \/ /\ locked[m] = 1
        /\ locked' = [locked EXCEPT ![m] = passed.locked]
        /\ mutex_queue' = [mutex_queue EXCEPT ![m] = passed.waiting]
        /\ state' = passed.st
        /\ ready_queue' = passed.rq
     \/ /\ locked[m] # 1                       \* EINVAL
        /\ UNCHANGED <<locked, mutex_queue, state, ready_queue>>
  /\ UNCHANGED <<current_thread, priority, context, mutex_arg>>

-----------------------------------------------------------------------------
mutex_yield ==
  /\ RunsAt("user")
  /\ thread_yield("user")
  /\ UNCHANGED mutex_vars

mutex_yield_to ==
  /\ RunsAt("user")
  /\ \E t \in Threads : thread_yield_to(t)
  /\ UNCHANGED mutex_vars

-----------------------------------------------------------------------------
\* main has created every other thread.
MutexInit ==
  /\ current_thread = main_thread
  /\ state = [t \in Threads |-> IF t = main_thread THEN "RUNNING" ELSE "READY"]
  /\ ready_queue \in Orders(Threads \ {main_thread})
  /\ priority = [t \in Threads |-> THREAD_DEFAULT_PRIORITY]
  /\ context = [t \in Threads |-> "user"]
  /\ locked = [m \in Mutexes |-> 0]
  /\ mutex_queue = [m \in Mutexes |-> <<>>]
  /\ mutex_arg = [t \in Threads |-> NULL]
  /\ holds = [m \in Mutexes |-> {}]

MutexNext ==
  \/ \E m \in Mutexes :
       \/ mutex_init(m) \/ thread_mutex_destroy(m)
       \/ lock_free(m) \/ lock_block(m) \/ thread_mutex_unlock(m)
  \/ lock_return \/ mutex_yield \/ mutex_yield_to

-----------------------------------------------------------------------------
MutexTypeOK ==
  /\ SchedTypeOK
  /\ locked \in [Mutexes -> {-1, 0, 1}]
  /\ mutex_queue \in [Mutexes -> Seq(Threads)]
  /\ mutex_arg \in [Threads -> Mutexes \cup {NULL}]
  /\ holds \in [Mutexes -> SUBSET Threads]

\* The threads that may act as owner of m: it was granted to them, or handed
\* to them by an unlock whose effect they have yet to notice.
Claimants(m) ==
  holds[m] \cup {t \in Threads : /\ context[t] = "lock" /\ mutex_arg[t] = m
                                 /\ t \notin Range(mutex_queue[m])}

(* Mutual exclusion, hand-offs included: between an unlock and the moment  *)
(* the revived waiter runs nobody else gets the mutex ("no window where    *)
(* another thread could steal the mutex", thread_mutex.c:123-129).         *)
MutualExclusion ==
  \A m \in Mutexes : \A t, u \in Claimants(m) : t = u

(* A mutex with waiters has an owner that will pass it on; in particular a *)
(* destroyed or free mutex has none ("destroying under waiters would leave *)
(* them blocked forever", thread_mutex.c:19-20).                           *)
WaitersHaveOwner ==
  \A m \in Mutexes : mutex_queue[m] # <<>> => locked[m] = 1 /\ Claimants(m) # {}

OneOf(S) == IF S = {} THEN NULL ELSE CHOOSE t \in S : TRUE
Owner(m) == OneOf(Claimants(m))

Lock == INSTANCE FifoLock WITH owner <- [m \in Mutexes |-> Owner(m)], queue <- mutex_queue

(* The mutexes implement FIFO locks: arrival order is respected and        *)
(* destroying or reinitialising a mutex takes nothing from anybody.        *)
ImplementsFifoLock == Lock!LockSpec

(* A thread that waits for a mutex gets it, if holders unlock.             *)
LockGranted ==
  \A t \in Threads, m \in Mutexes : t \in Range(mutex_queue[m]) ~> t \in holds[m]
=============================================================================
