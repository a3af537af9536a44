----------------------------- MODULE Scheduler -----------------------------
(***************************************************************************)
(* The ready queue and the CPU hand-over of the library (src/scheduler.c,  *)
(* swap_thread of include/thread_internal.h).                              *)
(*                                                                         *)
(* The library multiplexes all its threads on one kernel thread, so at any *)
(* time exactly one thread, current_thread, executes.  A thread leaves the *)
(* CPU only inside a library call.  context[t] is the saved resume point   *)
(* of t: "user" in the client's code, otherwise the name of the library    *)
(* call that switched away and continues when t is picked again.           *)
(*                                                                         *)
(* A thread is identified with the address of its struct.  The flag        *)
(* in_ready_queue is membership in ready_queue: the code writes the flag   *)
(* and the link together.                                                  *)
(***************************************************************************)
EXTENDS Integers, Sequences, FiniteSets, FiniteSetsExt, Functions

CONSTANTS Threads,                  \* addresses of thread structs
          main_thread,              \* the static struct of the initial thread
          NULL,
          THREAD_SCHED_POLICY,      \* "FIFO" or "PRIO", chosen at build time
          THREAD_MIN_PRIORITY, THREAD_DEFAULT_PRIORITY, THREAD_MAX_PRIORITY,
          THREAD_AGING, THREAD_WAIT

ASSUME SchedulerAssumption ==
  /\ main_thread \in Threads
  /\ NULL \notin Threads
  /\ THREAD_SCHED_POLICY \in {"FIFO", "PRIO"}
  /\ THREAD_MIN_PRIORITY \in Int
  /\ THREAD_DEFAULT_PRIORITY \in Int
  /\ THREAD_MAX_PRIORITY \in Int
  /\ THREAD_MIN_PRIORITY <= THREAD_DEFAULT_PRIORITY
  /\ THREAD_DEFAULT_PRIORITY <= THREAD_MAX_PRIORITY
  /\ THREAD_AGING \in Nat
  /\ THREAD_WAIT \in Nat

VARIABLES current_thread,           \* the thread on the CPU
          state,                    \* lifecycle state of every struct
          ready_queue,              \* runnable threads, next one first
          priority,
          context                   \* where a thread continues

sched_vars == <<current_thread, state, ready_queue, priority, context>>

RunsAt(at) == context[current_thread] = at

PRIO == THREAD_SCHED_POLICY = "PRIO"
Priorities == THREAD_MIN_PRIORITY .. THREAD_MAX_PRIORITY
States == {"READY", "RUNNING", "BLOCKED", "TERMINATED"}

Clamp(p) == IF p > THREAD_MAX_PRIORITY THEN THREAD_MAX_PRIORITY
            ELSE IF p < THREAD_MIN_PRIORITY THEN THREAD_MIN_PRIORITY ELSE p

-----------------------------------------------------------------------------
(***************************************************************************)
(* Pure queue operations.  q is a ready queue, prio the priorities.  The   *)
(* list operations are written out: with SequencesExt in its context the   *)
(* proof system needs several times as long for every obligation.          *)
(***************************************************************************)

\* TAILQ_INSERT_BEFORE the k-th element, TAILQ_REMOVE of the k-th element,
\* and TAILQ_REMOVE of a thread that is in the queue.
InsertedAt(q, k, t) == SubSeq(q, 1, k - 1) \o <<t>> \o SubSeq(q, k, Len(q))
RemovedAt(q, k) == SubSeq(q, 1, k - 1) \o SubSeq(q, k + 1, Len(q))
Unlinked(q, t) ==
  IF t \in Range(q) THEN RemovedAt(q, Min({i \in 1..Len(q) : q[i] = t})) ELSE q

\* The ways to line up the threads of S.
Orders(S) == Bijection(1..Cardinality(S), S)

\* Mutants of the enqueue: no guard against double insertion; priorities
\* ignored; insertion at the wrong end.
enqueue_unguarded(q, t, prio) == Append(q, t)
enqueue_tail(q, t, prio) == IF t \in Range(q) THEN q ELSE Append(q, t)
enqueue_front(q, t, prio) == IF t \in Range(q) THEN q ELSE <<t>> \o q

thread_scheduler_enqueue(q, t, prio) ==
  IF t \in Range(q) THEN q
  ELSE LET lower == {i \in 1..Len(q) : PRIO /\ prio[t] > prio[q[i]]}
       IN  IF lower = {} THEN Append(q, t) ELSE InsertedAt(q, Min(lower), t)

\* The queue q when the threads ts have been enqueued one after the other.
EnqueueAll(q, ts, prio) ==
  LET after[i \in 0..Len(ts)] ==
        IF i = 0 THEN q ELSE thread_scheduler_enqueue(after[i - 1], ts[i], prio)
  IN  after[Len(ts)]

-----------------------------------------------------------------------------
(***************************************************************************)
(* Giving up the CPU.  st is the lifecycle state at the moment of the      *)
(* switch, with the fate of the thread that leaves already recorded.       *)
(***************************************************************************)
swap_thread(st, next) ==
  /\ current_thread' = next
  /\ state' = [st EXCEPT ![next] = "RUNNING"]

\* current_thread blocks at resume and the head of the ready queue runs.
BlockAndSwitch(resume) ==
  /\ ready_queue # <<>>
  /\ swap_thread([state EXCEPT ![current_thread] = "BLOCKED"], Head(ready_queue))
  /\ ready_queue' = Tail(ready_queue)
  /\ context' = [context EXCEPT ![current_thread] = resume]
  /\ UNCHANGED priority

\* Mutant: waiting threads are not aged.
Aged_no_wait ==
  [t \in Threads |->
     IF PRIO /\ t = current_thread
     THEN Clamp(priority[t] - THREAD_AGING) ELSE priority[t]]

\* Mutant: the bounds are not enforced.
Aged_unclamped ==
  [t \in Threads |->
     IF PRIO /\ t \in Range(ready_queue) THEN priority[t] + THREAD_WAIT
     ELSE IF PRIO /\ t = current_thread THEN priority[t] - THREAD_AGING
     ELSE priority[t]]

\* Aging at a yield.  The running thread's state is RUNNING whenever it
\* calls thread_yield (RunnablePartition), so line 103 needs no case.
Aged ==
  [t \in Threads |->
     IF PRIO /\ t \in Range(ready_queue) THEN Clamp(priority[t] + THREAD_WAIT)
     ELSE IF PRIO /\ t = current_thread THEN Clamp(priority[t] - THREAD_AGING)
     ELSE priority[t]]

\* thread_yield, called from a point that continues at resume.  The code's
\* test next == prev never succeeds: current_thread is not in the queue
\* (RunnablePartition).
thread_yield(resume) ==
  LET prev == current_thread
      next == Head(ready_queue)
      rest == Tail(ready_queue)
  IN  /\ priority' = Aged
      /\ context' = [context EXCEPT ![prev] = resume]
      /\ \/ /\ ready_queue = <<>>
            /\ UNCHANGED <<current_thread, state, ready_queue>>
         \/ /\ ready_queue # <<>>
            /\ PRIO /\ Aged[next] <= Aged[prev]
            /\ ready_queue' = thread_scheduler_enqueue(rest, next, Aged)
            /\ UNCHANGED <<current_thread, state>>
         \/ /\ ready_queue # <<>>
            /\ ~(PRIO /\ Aged[next] <= Aged[prev])
            /\ ready_queue' = thread_scheduler_enqueue(rest, prev, Aged)
            /\ swap_thread([state EXCEPT ![prev] = "READY"], next)

\* Mutant: the target stays in the queue.
SwitchTo_still_queued(q, prio, target) ==
  /\ ready_queue' = thread_scheduler_enqueue(q, current_thread, prio)
  /\ priority' = prio
  /\ swap_thread([state EXCEPT ![current_thread] = "READY"], target)
  /\ UNCHANGED context

\* The switch of thread_yield_to, on queue q and priorities prio.
SwitchTo(q, prio, target) ==
  /\ ready_queue' = Unlinked(thread_scheduler_enqueue(q, current_thread, prio), target)
  /\ priority' = prio
  /\ swap_thread([state EXCEPT ![current_thread] = "READY"], target)
  /\ UNCHANGED context

\* Mutant: the target is not required to be READY.
yield_to_unchecked(target) == SwitchTo(ready_queue, priority, target)

thread_yield_to(target) ==
  \/ state[target] # "READY" /\ thread_yield("user")
  \/ state[target] = "READY" /\ SwitchTo(ready_queue, priority, target)

\* Mutant: the thread keeps its place in the queue.
set_priority_in_place(t, p) ==
  /\ priority' = [priority EXCEPT ![t] = Clamp(p)]
  /\ UNCHANGED <<current_thread, state, ready_queue, context>>

thread_set_priority(t, p) ==
  LET prio == [priority EXCEPT ![t] = Clamp(p)]
      moved == thread_scheduler_enqueue(Unlinked(ready_queue, t), t, prio)
      requeue == PRIO /\ state[t] = "READY"
      outranks == prio[t] > prio[current_thread]
  IN  \/ /\ ~requeue
         /\ priority' = prio
         /\ UNCHANGED <<current_thread, state, ready_queue, context>>
      \/ /\ requeue /\ ~outranks
         /\ priority' = prio
         /\ ready_queue' = moved
         /\ UNCHANGED <<current_thread, state, context>>
      \/ /\ requeue /\ outranks
         /\ SwitchTo(moved, prio, t)

-----------------------------------------------------------------------------
SchedTypeOK ==
  /\ current_thread \in Threads
  /\ state \in [Threads -> States]
  /\ ready_queue \in Seq(Threads)
  /\ priority \in [Threads -> Priorities]

\* The CPU and the ready queue partition the runnable ones of the threads H:
\* the current thread is the only RUNNING one, and a thread is READY exactly
\* when it is queued, once.
Runnable(H) ==
  /\ current_thread \in H
  /\ \A t \in H : state[t] = "RUNNING" <=> t = current_thread
  /\ \A t \in H : state[t] = "READY" <=> t \in Range(ready_queue)
  /\ Range(ready_queue) \subseteq H
  /\ IsInjective(ready_queue)

Sorted(q, prio) ==
  \A i, j \in 1..Len(q) : i < j => prio[q[i]] >= prio[q[j]]

(* Under PRIO the queue is sorted by decreasing priority at every moment,  *)
(* although aging and thread_set_priority change the priorities of queued  *)
(* threads in place: pick_next takes the head and never compares           *)
(* (scheduler.c:65-72).                                                    *)
QueueSorted == PRIO => Sorted(ready_queue, priority)
=============================================================================
