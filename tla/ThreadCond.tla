----------------------------- MODULE ThreadCond -----------------------------
(***************************************************************************)
(* Condition variables (src/thread_cond.c) on top of the mutexes.          *)
(*                                                                         *)
(* The caller of thread_cond_wait holds the mutex (thread_cond.h:17).      *)
(* thread_cond_init and thread_cond_destroy of an unused condition change  *)
(* nothing.  mutex_arg is also the mutex a waiting thread has to get back. *)
(***************************************************************************)
EXTENDS ThreadMutex

CONSTANT Conds

VARIABLE cond_queue                 \* waiting_queue of each condition

cond_vars == <<sched_vars, mutex_vars, cond_queue>>

-----------------------------------------------------------------------------
\* thread_cond_wait parks the caller.  The next thread is picked before the
\* mutex is released, so a waiter of the mutex is queued behind that pick.
wait_block(c, m) ==
  LET next == Head(ready_queue)
      passed == PassOn(m, [state EXCEPT ![current_thread] = "BLOCKED"], Tail(ready_queue))
  IN  /\ RunsAt("user") /\ current_thread \in holds[m]
      /\ ready_queue # <<>>
      /\ locked' = [locked EXCEPT ![m] = passed.locked]
      /\ mutex_queue' = [mutex_queue EXCEPT ![m] = passed.waiting]
      /\ ready_queue' = passed.rq
      /\ swap_thread(passed.st, next)
      /\ cond_queue' = [cond_queue EXCEPT ![c] = Append(@, current_thread)]
      /\ mutex_arg' = [mutex_arg EXCEPT ![current_thread] = m]
      /\ holds' = [holds EXCEPT ![m] = @ \ {current_thread}]
      /\ context' = [context EXCEPT ![current_thread] = "cond_wait"]
      /\ UNCHANGED priority

\* The ready queue is empty: the mutex is released and locked again, and the
\* call returns -1.  Without waiters the caller keeps the mutex; otherwise
\* the first waiter gets it and runs, and the caller waits for it in turn.
wait_refused(m) ==
  /\ RunsAt("user") /\ current_thread \in holds[m]
  /\ ready_queue = <<>>
  /\ \/ /\ mutex_queue[m] = <<>>
        /\ locked' = [locked EXCEPT ![m] = 1]
        /\ UNCHANGED <<sched_vars, mutex_queue, mutex_arg, holds>>
     \/ /\ mutex_queue[m] # <<>>
        /\ swap_thread([state EXCEPT ![current_thread] = "BLOCKED"], Head(mutex_queue[m]))
        /\ mutex_queue' = [mutex_queue EXCEPT ![m] = Append(Tail(@), current_thread)]
        /\ mutex_arg' = [mutex_arg EXCEPT ![current_thread] = m]
        /\ holds' = [holds EXCEPT ![m] = @ \ {current_thread}]
        /\ context' = [context EXCEPT ![current_thread] = "lock"]
        /\ UNCHANGED <<ready_queue, priority, locked>>
  /\ UNCHANGED cond_queue

-----------------------------------------------------------------------------
(***************************************************************************)
(* A woken waiter calls thread_mutex_lock and ignores its result.          *)
(***************************************************************************)
\* Mutant: the mutex is not locked again.
relock_free_skipped ==
  /\ RunsAt("cond_wait")
  /\ locked[mutex_arg[current_thread]] = 0
  /\ mutex_arg' = [mutex_arg EXCEPT ![current_thread] = NULL]
  /\ context' = [context EXCEPT ![current_thread] = "user"]
  /\ UNCHANGED <<current_thread, state, ready_queue, priority, locked, holds, mutex_queue,
                 cond_queue>>

relock_free ==
  LET m == mutex_arg[current_thread] IN
  /\ RunsAt("cond_wait")
  /\ locked[m] = 0
  /\ locked' = [locked EXCEPT ![m] = 1]
  /\ holds' = [holds EXCEPT ![m] = @ \cup {current_thread}]
  /\ mutex_arg' = [mutex_arg EXCEPT ![current_thread] = NULL]
  /\ context' = [context EXCEPT ![current_thread] = "user"]
  /\ UNCHANGED <<current_thread, state, ready_queue, priority, mutex_queue, cond_queue>>

relock_block ==
  /\ RunsAt("cond_wait")
  /\ ParkOn(mutex_arg[current_thread])
  /\ UNCHANGED <<locked, holds, cond_queue>>

\* The lock fails, on a destroyed mutex or because nobody else can run:
\* thread_cond_wait returns 0 all the same.
relock_failed ==
  LET m == mutex_arg[current_thread] IN
  /\ RunsAt("cond_wait")
  /\ locked[m] = -1 \/ (locked[m] = 1 /\ ready_queue = <<>>)
  /\ mutex_arg' = [mutex_arg EXCEPT ![current_thread] = NULL]
  /\ context' = [context EXCEPT ![current_thread] = "user"]
  /\ UNCHANGED <<current_thread, state, ready_queue, priority, locked, holds, mutex_queue,
                 cond_queue>>

-----------------------------------------------------------------------------
\* The threads ts become runnable, in their order.
Revive(ts) ==
  /\ state' = [t \in Threads |-> IF t \in Range(ts) THEN "READY" ELSE state[t]]
  /\ ready_queue' = EnqueueAll(ready_queue, ts, priority)

\* Mutant: the waiter stays in the queue of the condition.
signal_not_removed(c) ==
  /\ RunsAt("user")
  /\ cond_queue[c] # <<>>
  /\ Revive(<<Head(cond_queue[c])>>)
  /\ UNCHANGED <<current_thread, priority, context, mutex_vars, cond_queue>>

thread_cond_signal(c) ==
  /\ RunsAt("user")
  /\ cond_queue[c] # <<>>
  /\ Revive(<<Head(cond_queue[c])>>)
  /\ cond_queue' = [cond_queue EXCEPT ![c] = Tail(@)]
  /\ UNCHANGED <<current_thread, priority, context, mutex_vars>>

\* Mutant: only one waiter is woken.
broadcast_one(c) ==
  /\ RunsAt("user")
  /\ cond_queue[c] # <<>>
  /\ Revive(<<Head(cond_queue[c])>>)
  /\ cond_queue' = [cond_queue EXCEPT ![c] = <<>>]
  /\ UNCHANGED <<current_thread, priority, context, mutex_vars>>

thread_cond_broadcast(c) ==
  /\ RunsAt("user")
  /\ Revive(cond_queue[c])
  /\ cond_queue' = [cond_queue EXCEPT ![c] = <<>>]
  /\ UNCHANGED <<current_thread, priority, context, mutex_vars>>

-----------------------------------------------------------------------------
CondInit == MutexInit /\ cond_queue = [c \in Conds |-> <<>>]

Relock == relock_free \/ relock_block \/ relock_failed

CondNext ==
  \/ MutexNext /\ UNCHANGED cond_queue
  \/ \E m \in Mutexes : wait_refused(m) \/ \E c \in Conds : wait_block(c, m)
  \/ Relock
  \/ \E c \in Conds : thread_cond_signal(c) \/ thread_cond_broadcast(c)

CondSpec == CondInit /\ [][CondNext]_cond_vars

\* A client that destroys no mutex in use.
Careful ==
  \A m \in Mutexes :
    locked[m] # -1 /\ locked'[m] = -1 => holds[m] = {} /\ \A t \in Threads : mutex_arg[t] # m

CarefulSpec == CondInit /\ [][CondNext /\ Careful]_cond_vars

(***************************************************************************)
(* A client that has the CPU yields again and again, a thread that holds a *)
(* mutex unlocks it although it may yield first any number of times, and a *)
(* call in progress goes on once its thread has the CPU.                   *)
(***************************************************************************)
CondFairSpec ==
  /\ CarefulSpec
  /\ SF_cond_vars(mutex_yield /\ UNCHANGED cond_queue)
  /\ WF_cond_vars((lock_return /\ UNCHANGED cond_queue) \/ Relock)
  /\ \A m \in Mutexes : SF_cond_vars(thread_mutex_unlock(m) /\ UNCHANGED cond_queue)

-----------------------------------------------------------------------------
(* Every BLOCKED thread is linked in exactly one wait queue, once: of the  *)
(* mutex it is locking, or of a condition if it is in thread_cond_wait.    *)
(* So every wake-up has exactly one source, although a wait moves a thread *)
(* from a condition to a mutex (thread_cond.c:64-79).                      *)
BlockedInOneQueue ==
  LET Queues == {<<"lock", m>> : m \in Mutexes} \cup {<<"cond_wait", c>> : c \in Conds}
      Queue(k) == IF k[1] = "lock" THEN mutex_queue[k[2]] ELSE cond_queue[k[2]]
      Linked(t) == {k \in Queues : t \in Range(Queue(k))}
  IN  /\ \A k \in Queues : IsInjective(Queue(k))
      /\ \A t \in Threads :
           IF state[t] = "BLOCKED"
           THEN \E k \in Queues : Linked(t) = {k} /\ context[t] = k[1]
           ELSE Linked(t) = {}

(* "The mutex is reacquired before returning" (thread_cond.h:17): a thread *)
(* that returns from the resumed part of thread_cond_wait holds the mutex. *)
CondWaitReacquires ==
  [][\A t \in Threads :
       context[t] = "cond_wait" /\ context'[t] = "user" => t \in holds'[mutex_arg[t]]]_cond_vars

(* A thread taken off a condition by a signal or a broadcast returns from  *)
(* thread_cond_wait with the mutex, if holders unlock.                     *)
WokenWaiterReturns ==
  \A t \in Threads, m \in Mutexes :
    (/\ context[t] = "cond_wait" /\ mutex_arg[t] = m
     /\ \A c \in Conds : t \notin Range(cond_queue[c])) ~> t \in holds[m]
=============================================================================
