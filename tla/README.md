# TLA+ verification of the user-level thread library

Models of the C library in `src/src` and `src/include`, checked with TLC on
small instances and proved with TLAPS for every value of the constants.

## The system and what is modelled

The library multiplexes its threads on one kernel thread. A thread gives up the
CPU only inside a library call, by `fast_swap_context` or `fast_restore_context`.
All blocking calls have the same shape: mark the caller `BLOCKED`, link it
somewhere, take the head of the ready queue and switch to it. All wake-ups mark
a thread `READY` and enqueue it. One link field (`entries`) serves the ready
queue, the zombie queue and every wait queue.

| part | source | state | operations | module | status |
|---|---|---|---|---|---|
| scheduler | `scheduler.c`, `thread_internal.h` | ready queue, states, priorities, current thread | enqueue, pick, yield with aging, yield_to, set_priority | `Scheduler`, `SchedulerSystem` | modelled |
| lifecycle | `thread.c` | structs, `joined_by`, `waiting_for`, return point of each thread | create (with its stack-waiting loop), exit, join | `ThreadCore` | modelled |
| join cycles | `thread.c` | `head_joiner` slots | chain test, chain update | `ThreadCore` | modelled |
| pools | `pool.c`, `thread.c` | stack pool, struct pool, deferred stacks | alloc, push, defer, reclaim | `ThreadCore` | modelled |
| process end | `thread_gc.c`, `thread.c` | zombie queue, atexit handlers | zombie add/remove, final cleanup, pool free | `ThreadCore` | modelled |
| mutexes | `thread_mutex.c` | `locked`, wait queue | init, destroy, lock, unlock | `ThreadMutex`, `FifoLock` | modelled |
| conditions | `thread_cond.c` | wait queue | wait, signal, broadcast | `ThreadCond` | modelled |
| semaphores | `thread_sem.c` | count, wait queue | init, wait, post, destroy | `ThreadSem`, `CountingSem` | modelled |
| signals | `thread_sig.c` | pending and waited sets, waiting flag | send, sigwait | `ThreadSig`, `SignalBox` | modelled |
| stack overflow | `preemption.c`, `thread.c` | overflow flag, SIGSEGV mask | fault handler, result of join | `ThreadOverflow` | modelled |
| preemption | `preemption.c`, `thread.c`, `scheduler.c` | timer mask, locals of interrupted calls | handler's yield at the unmasked points of yield, create and join | `ThreadPreempt` | partly |
| context switch | `context.S`, `context.h` | registers | save, restore | | not modelled |
| pthread macros | headers | none | renames | | not modelled |

All models but `ThreadPreempt` are of the **cooperative build** (no
`ENABLE_PREEMPTION`): a call is one step up to the point where it switches away,
and what it does after it is switched back to is another step.

## Modules

`Scheduler` holds the ready queue as a sequence, the lifecycle states, the
priorities and `context[t]`, the resume point of a thread: `"user"`, or the
library call in which it switched away. A thread is the address of its struct.
`in_ready_queue` is membership in the queue, because the code always writes the
flag together with the link. Its operators (`thread_scheduler_enqueue`,
`thread_yield`, `thread_yield_to`, `thread_set_priority`, `BlockAndSwitch`) are
used by all other modules. `SchedulerSystem` is a client that only uses these.

`ThreadCore` is the lifecycle. Actions and code:

| action | code |
|---|---|
| `thread_create` | `thread_create` up to its allocation loop |
| `create_publish` | the loop gets a stack, the thread is enqueued |
| `create_retry` | the loop yields and tries again |
| `create_fail`, `create_no_slot` | the two ENOMEM exits |
| `join_terminated` | fast path of `thread_join` |
| `join_block`, `join_resume` | blocking path, before and after the switch |
| `join_abort` | nobody to switch to: EDEADLK |
| `thread_exit` | `thread_exit`, including the switch |
| `yield`, `yield_to`, `set_priority` | the scheduling calls with any valid handle |
| `main_return`, `cleanup_ctx`, `exit_pool_free`, `exit_cleanup` | the two ways the process ends, and the atexit handlers in their order |

Calls that return an error without changing anything are not steps. The first
`thread_create` also needs a slot for `main`; when it gets none it fails with
ENOMEM (`thread.c:222-226`) and leaves nothing behind but the two atexit handlers,
which the next first call registers again; their second run finds everything
empty, so this failure is not a step either. Structs and
stacks are addresses that return to their pools and are handed out again, so
stale pointers denote later threads as in the code. `handles` are the structs a
client may name. `mis_woken` is a history variable: the threads that an exit
made runnable although they were not waiting for the dying thread. After such an
event structs are linked in two queues or recycled while alive, and the model
stops there; `core_stale_join` shows that it happens, and the other properties
speak of the behaviours up to it (`Live`).

`ThreadMutex` and `ThreadCond` have a fixed set of threads. The mutex struct
names no owner, so `holds[m]` records to whom the lock has been granted. Clients
unlock only what they hold, do not lock a mutex twice and pass `thread_cond_wait`
a mutex they hold; they may destroy a mutex at any time, and initialise again
one that nobody uses. `Careful` restricts the runs about `thread_cond_wait`
itself to clients that do not destroy a mutex in use. `FifoLock` is the abstract
lock: one owner, ownership passed on in order of arrival. The refinement mapping
takes the owner to be the thread that was granted the lock or was handed it and
has not run yet.

`ThreadSem` is one semaphore; `given` and `taken` are history variables.
`CountingSem` is its abstract specification.

`ThreadSig` adds the signals to `ThreadCore`, so that waiting threads are also
joined, recycled, and woken by what failed joins have left behind. A bitmask is a
set of signal numbers; `blocked_signals` is 0 in every thread for ever and is left
out, as are the atexit handlers. `sigwait_round` is one round of the loop of
`thread_sigwait`, entered by the call and again after each switch back. `stray`
is a history variable: the threads that an exit took out of `thread_sigwait`
because of a stale `joined_by`; their flag may stay set (see below). `SignalBox`
is the abstract specification: the owners there are come and go, each has a box
that is empty when the owner arrives, and nothing but a send fills a box and
nothing but the owner's own taking empties it. The owners are the valid handles,
a box is `pending_signals`, and an owner asks while it is inside `thread_sigwait`.

`ThreadOverflow` adds the SIGSEGV handler to `ThreadCore`. A thread may fault
whenever it executes client code. `segv_blocked` is the signal mask: the handler
leaves by a context switch, which does not restore it. `join_result` is what a
join reports, `victims` records who has overflowed.

`ThreadPreempt` splits the calls of `ThreadCore` at the points where SIGVTALRM is
not masked, with `preemption_handler` between any two steps:

| window | what was read before it and is used after it |
|---|---|
| `thread_yield` under PRIO, lines 124-126 | the thread taken off the queue (`picked`, a stack: handlers nest) |
| `thread_alloc`, lines 117-118 | the size of the struct pool; until the element is taken, the thread is inside the pool (`"pop"`) |
| `thread_free` on the error paths of `thread_create`, lines 126-127 | the same for a push (`"push"`) |
| `thread_create`'s loop, each yield | the number of retries, the struct in hand |
| `thread_join`, lines 402-413 | that the target is not joined and is alive (`join_arg`) |
| `thread_join`, lines 500-512 | the target about to be claimed |

Where another thread has invalidated what was read, the code goes on regardless:
a join whose target was joined or released after the tests (`join_late`), an unlink
of a thread that a yield holds (`unlink_unqueued`), a creation or a claim that
reaches the struct pool while another thread is inside (`pool_race`; any overlap
counts, whether or not the accesses really clash). The model records the step in
`stale` and stops; its properties speak of the behaviours up to there, and of
nothing after it. The stack pool, the deferred stacks and the chain slots are
worked on outside the mask too, and are taken as atomic.

`MCScheduler`, `MCCore`, `MCCond`, `MCSem`, `MCSig`, `MCOverflow` and `MCPreempt`
name the model values and the symmetries. `SchedulerLemmas`, `ThreadCoreLemmas`,
`ThreadLifeProofs`, `ThreadCoreProofs`, `ThreadSigProofs`, `ThreadPreemptProofs`,
`ThreadCondProofs` and `ThreadSyncProofs` hold the proofs.
Definitions marked *Mutant* are faulty versions of the definition that follows;
substituting one must violate the property it is listed with in `PROJECT.json`.

## Runs

| run | instance | shows |
|---|---|---|
| `scheduler_prio` | 4 threads, priorities 0..5 | queue sorted, priorities within bounds, a yield runs a highest-priority thread, aging prevents starvation |
| `core` | 4 structs, 2 stacks, pools of 1, 5 chain slots, FIFO | the safety properties of the lifecycle |
| `core_join_cycle` | as `core` | *violated*: two threads block in a join cycle |
| `core_stale_join` | as `core` | *violated*: a joiner is woken while its target is alive, by the exit of a thread it never joined |
| `cond` | 4 threads, 2 mutexes, 1 condition | mutual exclusion, FIFO lock refinement, one queue per blocked thread |
| `cond_live` | 4 threads, 1 mutex | a lock is granted, a woken waiter returns with its mutex |
| `cond_nested` | 3 threads, 2 mutexes | *violated*: `thread_cond_wait` returns 0 without the mutex |
| `sem` | 4 threads, initial value 0..2, 5 units | units conserved, FIFO counting semaphore refinement, a served waiter returns |
| `sig` | 3 structs, 2 stacks, 3 chain slots, signals 1 and 2, sets {1} and {1,2} | no signal is missed, delivered twice or inherited from a former thread, the waiting flag means what it says, refinement of `SignalBox` |
| `overflow` | 4 structs, 2 stacks, 3 chain slots, FIFO | an overflow that is handled ends its thread as an exit does and is reported to the joiner that waited; with fairness: ready threads run, joins and creates return, with or without overflows |
| `preempt` | 4 structs, 2 stacks, 3 chain slots, PRIO 0..2 | no thread is lost or duplicated by a preempted yield, an empty queue means that nobody else can run, the queue stays sorted, joins claim what they waited for; up to the first step that acts on something stale |
| `preempt_unlink` | as `preempt` | *violated*: a thread is unlinked from a queue it is not in |

The violated properties restate what a comment, a header or a test says; the
entries under `findings` quote the line.

In `core_stale_join` the counterexample is: `main` joins t1, t1 joins t2, and the
join of `main` by t2 finds nobody to run and returns EDEADLK, with
`main_thread.joined_by` left at t2. t2 exits, t1 claims it and creates a new thread,
which gets the struct of t2, and exits. The new thread creates t3 and blocks in its
join. `main` resumes and exits, finds the struct its `joined_by` names BLOCKED, and
wakes the new thread while t3 is alive. A registration left behind has a second
effect, which is no wrong wake-up: its target is refused by every later join
(`thread.c:402`), so once terminated it stays a zombie until the process ends.
`TerminatedHasOneKeeper` counts it as kept by the zombie queue.

**Bounds.** Pools of size 1 with 2 stacks and 3 heap structs make every table
overflow, `mmap` fail and every struct and stack be reused. `MAX_ALLOC_RETRIES`
is 1 instead of 4096: the loop is entered, repeated and given up.
`MAX_HEAD_REFS` (any natural number in the proofs, 0 included) bounds the threads ever created; slots are never reused, so it
also makes the models finite, and it stands for `malloc` failing in
`thread_head_ref_alloc`. 4 threads are the fewest for a cycle besides a third
ready thread, and for an owner, two waiters and a bystander. Priorities 0..5
with default 2 let aging reach both bounds from several distances.
`MAX_POSTS` allows more posts than threads. Two signals and two overlapping sets
are the fewest in which the order of delivery and a signal outside the set
matter; with 3 structs, one is recycled while another waits. 3 chain slots admit
two creations besides the main thread. In `preempt` priorities 0..2, aging by 1
on both sides and default 0 make yields keep the CPU and give it up, so that
`picked` nests; a struct that is released and taken again inside one
join window needs a fourth slot and is not reached there.

**Fairness.** The CPU is never idle, so what has to be assumed is about clients:
a thread that has the CPU yields again and again. It is strong fairness, because
a thread may make other calls in between. This is the contract of cooperative
threads; with preemption the timer's handler does it. A library call in progress
goes on once its thread has the CPU (weak fairness). Two threads that never yield
but to each other (`thread_yield_to`) are outside this assumption, and do keep the
CPU from the others. `cond_live` also assumes
that holders unlock. Nothing is assumed about exits, signals or overflows.

## Proofs

The theorems hold for any number of threads, stacks, mutexes, signals and posts,
any pool sizes, priority limits, aging steps and retry limits, and both policies.
They assume of the constants what the named `ASSUME`s say: that they have their
types, that the default priority lies within the limits, that NULL is no
address, that the threads are finitely many where threads are counted or
enumerated, and that signals are numbers from 1 to 32.

**Scheduler.** `SchedulerLemmas` proves what the queue operations do to the set of
queued threads, to injectivity and to the order of the queue, for every queue,
and that each scheduling call hands the CPU over properly (`Handover`): the
runnable threads stay the same, exactly one has the CPU, the others are queued
once, and nobody else's state changes. That the queue stays sorted rests on the
fact that aging moves all queued priorities by the same amount and clamps them
monotonically (`AgedSorted`), that nobody but a running thread ages down, and
that `thread_set_priority` inserts a queued thread anew. `ThreadSyncProofs` draws
the conclusions for the scheduler alone (`SystemTypeOK`, `SystemQueueSorted`,
`SystemYieldRunsHighest`). The invariant `SystemInv` adds that CPU and queue hold
all threads: `thread_yield_to` and `thread_set_priority` take a READY thread for a
queued one.

**Lifecycle.** `ThreadCoreProofs` proves `CoreSpec => []CoreInv({})`. The
properties themselves are not inductive: that an exit wakes the right thread needs
that a joiner and its target agree on each other at every moment (`JoinOK`); that
needs that a thread is inside a call exactly when the call's locals say so
(`ContextOK`), that a struct handed out by the pool is nobody's (`OwnOK`), and
that zombies are terminated (`ZombieOK`). `LiveInv(held)` is their conjunction
with `RunnableBut(held)`: one thread has the CPU, and the other runnable threads
are queued once each, except the threads of `held`, which are READY outside the
queue. Nobody is held in the cooperative build; the parameter is what preemption
needs (see below), and most lemmas are proved for any set. One lemma per action
shows that the invariant is preserved (`ThreadCoreLemmas` for the scheduling
calls, the creation and the joins that register, `ThreadLifeProofs` for the exit
and the claiming join, `ThreadCoreProofs` for the rest). The proof system slows
down with the number of obligations in a module and the definitions in its
context, hence the split. Directly from it follow `CoreTypeCorrect`,
`CoreRunnablePartition`, `CoreOneQueue`, `CoreWakeup`, `CoreJoinerRegistered` and
`CoreStructOwnership`. The others have an inductive invariant of their own on top
of it:

| theorem | invariant | why it is needed |
|---|---|---|
| `CoreQueueSorted` | `QueueSorted` | inductive with `CoreInv` |
| `CoreStackOwnership` | `StackOK` | `main` has no stack of the library, so the dying thread has one to give back; the pool stays within its array, so a reclaimed stack either fits or is unmapped |
| `CoreOneKeeper` | `ClaimOK` | `CoreClaims` shows it inductive with `CoreInv`: the thread an exit wakes is the one that will claim it. That the joiner is the only one, and that nobody is both a zombie and about to be claimed, follows with `JoinOK` (`OneKeeper`) |
| `CoreUnjoinedIsHead` | `HeadOK` | inductive with `CoreInv`: a slot names one thread, so the join that makes its caller the head dethrones only its target, which is joined by then |
| `CoreNothingLeaks` | `LeakOK` | before the end the same holds up to the queues and pools that the remaining phases of the exit empty; it follows from the ownership of structs and stacks at the moment the process begins to end |

**Signals and overflows.** Both systems contain all steps of the lifecycle, and
`CoreInv({})` is preserved by them and by the steps they add. What a lifecycle step
can do to a thread is stated once (`LifecycleFrame`, in `ThreadSigProofs`): it
puts nobody into `thread_sigwait` and takes nobody out, makes runnable at most one
thread that waits there, and brings at most one terminated struct back to life.
`SigInv` adds to `CoreInv` that no signal is missed, that the flag is only set in a
waiting thread, and that a thread has asked for signals exactly while it is inside
`thread_sigwait` (`AskedOK`): a wait resumed by something else must find the set it
was called with. `SignalsNotMissed`, `SignalsEndNoOtherWait` and
`SigRunnablePartition` follow. `SignalsImplementBoxes`
is the refinement of `SignalBox`, step by step: a send puts, a round of the loop
takes the lowest signal asked for, waits or gives up, a claim releases an owner,
which is not waiting for a signal then (`ReleaseBox`), a creation empties the box
of a struct that is no owner before it becomes one, and nothing else touches a box.
`OverflowInv` says that the threads that have overflowed are the ones whose flag is
set, are terminated, and are none of them `main`; with `CoreInv`, `ClaimInv` and the
ownership of the stacks it gives `OverflowsContained` and, step by step,
`OverflowsReported`.

**Preemption.** `ThreadPreemptProofs` proves `PreemptSpec => []PreemptInv`, which
is the lifecycle invariant with the threads that interrupted yields have taken off
the queue as `held` (`CoreInv(Taken)`), together with `HoldOK`: no thread is held
twice, a holder can still run, and no set of threads hold each other in a circle.
That there is no circle is what the proof turns on. A handler may interrupt a
yield, take another thread and switch to it, and that thread may itself hold
others. But the thread that takes one is running and so held by nobody, so what it
takes cannot close a circle; putting back only removes a link. Without it,
`EmptyMeansAlone` would fail: with an empty queue and a thread on the CPU that
holds nobody, the READY threads would have to be held by each other.
`PreemptQueuedOrHeld`, `PreemptEmptyMeansAlone`, `PreemptWakeup` and
`PreemptStructOwnership` follow from `PreemptInv`; `PreemptQueueSorted` is
inductive with it. A masked call is a step of `ThreadCore`, and the lemmas of the
lifecycle apply to it as they stand. All of these speak of the behaviours up to
the first step that acts on something stale (`join_late`, `unlink_unqueued`,
`pool_race`) or wakes a wrong thread, as the run does: `PreemptWakeup` says nothing
of a join whose target was claimed in the window of its tests, and
`PreemptStructOwnership` nothing of two threads inside the struct pool. The ownership
of stacks is not stated for this system, because the stack pool is not split in the
model.

**Mutexes and conditions.** `ThreadCondProofs` proves, for all mutex and condition
calls together, destruction of a mutex in use included: mutual exclusion, that a
mutex with waiters has an owner, and that a BLOCKED thread is in exactly one wait
queue. `ThreadSyncProofs` concludes from it that the mutexes refine `FifoLock`, and
that a wait ends with the mutex held (`CondReacquires`). Mutual exclusion alone is
not inductive: `MutexInv` adds that `locked` tells whether somebody has a claim on
the mutex, a thread it was handed to included, and that a linked thread is BLOCKED in the call
that linked it. A thread that goes on there is then the one an unlock has chosen.
`CondInv` adds that the condition queues divide the threads BLOCKED in
`thread_cond_wait` among them. The broadcast is a recursive function over the wait
queue; what it does to a queue of any length is shown with `UpTo` (induction over
the indices of a sequence, in `SchedulerLemmas`). `CondReacquires` needs more:
`CarefulInv` says that nobody holds, is promised, or waits to get back a destroyed
mutex, which holds for clients that do not destroy a mutex in use. With one mutex,
a woken waiter that finds it taken then always has someone to switch to; with two
it may not, as `cond_nested` shows.

**Semaphore.** `ThreadSyncProofs` proves that no unit is lost or used twice, that
none lies idle, that the BLOCKED threads are the queued ones, that the value is
never negative, and that the semaphore refines `CountingSem`. The inductive
invariant `SemInv` joins these with the partition of the runnable threads: a unit
is conserved at the return of a wait only because a thread that runs is not
queued, and a wait may take a unit in the abstract semaphore only because no one
is in line then.

**Only model-checked.** The liveness properties (`AgingPreventsStarvation`,
`LockGranted`, `WokenWaiterReturns`, `RevivedReturns`, `ReadyThreadRuns`,
`JoinReturns`, `CreateReturns`): fairness and ENABLED are outside the prover.
There is no liveness run for signals: that a waiter whose signal is sent returns
follows from `NoMissedSignal` (the sender makes it READY) and `ReadyThreadRuns`.
Every safety property that a passing run checks is also the subject of a theorem.

## Observations without a run

- `thread_sem.h:9` says of the count "negative means threads are waiting"; the
  code never lets it drop below 0 (`SemTypeOK`), and the queue alone tells.
- The second branch of `thread.c:464-470` is unreachable in the cooperative
  build: an unjoined target is always the head of its chain (`UnjoinedIsHead`).
- `thread.h:86` says "bit N = signal N"; the code uses bit N-1.
- A yield that is "a no-op" according to `scheduler.c:80-81` reorders the waiting
  threads: the head is put back behind its peers (`scheduler.c:126`).
- `thread_cond_wait` picks its successor before it releases the mutex
  (`thread_cond.c:42`, `57`), so it gives up with EDEADLK although the release
  makes the first waiter of the mutex runnable.
- A second overflow kills the process, because SIGSEGV stays blocked after the
  first, and so does one of `main`; `preemption.h:31-32` speaks of "terminating only
  the faulty thread without disturbing others". `overflow_kills` is that step.
  `OverflowContained` is about the overflow that is handled.
- `thread.h:56-57` lists "EFAULT : thread was killed by a stack overflow"; a join
  that finds its target already terminated returns 0 (`thread.c:416-437`), which
  is why `OverflowReported` speaks of joins that had to wait.
- `test/72-stack-overflow.c:47-48` asserts that the join of a thread that overflows
  returns 0. The target is still READY when `main` joins it, so the join waits, and
  by `thread.c:530-532` (and `OverflowReported`) it returns -1 with EFAULT: the test
  disagrees with the code and with `thread.h`. It is compiled in only with
  `THREAD_ENABLE_GUARD_PAGE` and `THREAD_ENABLE_OVERFLOW_DETECTION`.
- A thread resumed in `thread_sigwait` by a stale `joined_by`, with a signal
  pending, returns with `waiting_for_signal` still set; `thread_internal.h:61`
  says "1 while blocked inside thread_sigwait()". `FlagOnlyWhileWaiting` therefore
  excepts the threads in `stray`.
- `preemption.h:8-9` says that calls of `preem_block` "may be nested";
  `sigprocmask` does not count, so the inner `preem_unblock` unmasks.

## Not modelled

- The context switch (`context.S`) is register-level assembly whose correctness
  is a matter of the ABI; the models take it to save and restore a thread's
  resume point. The pthread macros have no state.
- Preemption: the stack pool, the deferred stacks and the chain slots are worked on
  by `thread_create` with the signal unmasked, like the struct pool, and are not
  split; the put-back of `scheduler.c:126` is one
  step, although the timer may strike between the links of the list; the window
  of `thread_mutex_destroy` (`thread_mutex.c:25`), the atexit handlers and the
  first call's initialisation are left out. `thread_set_priority` ends with a
  `thread_yield_to` that tests the state again; the window between the two
  (`scheduler.c:228-230`) is not split.
  The mutex, condition, semaphore and signal calls are masked from their first
  access to shared state to their switch, and are covered by the cooperative
  models.
- Mutexes, conditions, semaphores and joins are not composed in one model: each
  parks a thread in a queue of its own and meets the others only in the ready
  queue, whose operations are shared (`Scheduler`).
- The memory of the chain slots (`thread_head_ref_alloc`'s chunks, freed by
  `thread.c:101-110`): slots are never reused, so which chunk holds one makes no
  difference.
- Mapping memory, `madvise`, Valgrind registration, thread ids and return values
  carry no control.
