----------------------------- MODULE ThreadCore -----------------------------
(***************************************************************************)
(* Thread lifecycle and memory of the library (src/thread.c,               *)
(* src/thread_gc.c, src/pool.c on top of src/scheduler.c), in the          *)
(* cooperative build: a library call runs without interruption up to the   *)
(* point where it switches away.                                           *)
(*                                                                         *)
(* Any running thread may create, join, yield, yield to a thread, change a *)
(* priority or exit at any time, with any valid handle.  Structs and       *)
(* stacks are recycled, so a stale pointer may denote a later thread.      *)
(***************************************************************************)
EXTENDS Scheduler

CONSTANTS Stacks,                   \* addresses mmap can return
          MAX_POOLED_THREADS, MAX_POOLED_STACKS, MAX_DEFERRED_STACKS,
          MAX_ALLOC_RETRIES,        \* 4096 in thread_create
          MAX_HEAD_REFS             \* bound: chain slots malloc can provide

ASSUME CoreAssumption ==
  /\ NULL \notin Stacks
  /\ MAX_POOLED_THREADS \in Nat
  /\ MAX_POOLED_STACKS \in Nat
  /\ MAX_DEFERRED_STACKS \in Nat
  /\ MAX_ALLOC_RETRIES \in Nat
  /\ MAX_HEAD_REFS \in Nat

VARIABLES handles,                  \* structs of threads created and not yet released
          heap,                     \* structs obtained from malloc and not freed
          thread_pool,              \* recycled structs
          newth, alloc_retries,     \* locals of a thread_create in progress
          stack_map,                \* the stack each struct owns, or NULL
          mapped,                   \* stacks obtained from mmap and not unmapped
          stack_pool, deferred_stacks,
          zombie_queue,
          joined_by, waiting_for,
          head_joiner,              \* index of a chain slot, 0 for NULL
          head_ref,                 \* the chain slots: head thread of each
          process,                  \* "running" or "exited"
          mis_woken                 \* history: threads made runnable by the exit of a
                                    \* thread they were not waiting for

mem_vars == <<handles, heap, thread_pool, newth, alloc_retries, stack_map,
              mapped, stack_pool, deferred_stacks, zombie_queue>>
join_vars == <<joined_by, waiting_for, head_joiner, head_ref>>
core_vars == <<sched_vars, mem_vars, join_vars, process, mis_woken>>

(***************************************************************************)
(* Nothing is claimed once a thread has been woken by mistake: its struct  *)
(* is linked into two queues or its stack is in use by another thread.     *)
(***************************************************************************)
Running(at) ==
  /\ process = "running"
  /\ mis_woken = {}
  /\ context[current_thread] = at

-----------------------------------------------------------------------------
(***************************************************************************)
(* Stack pool and deferred stacks.                                         *)
(***************************************************************************)
\* The pools are arrays used as stacks.
Last(pool) == pool[Len(pool)]
Front(pool) == SubSeq(pool, 1, Len(pool) - 1)
Reverse(list) == [i \in 1..Len(list) |-> list[Len(list) - i + 1]]

StackOf(t) == IF stack_map[t] = NULL THEN <<>> ELSE <<stack_map[t]>>

\* How many of the stacks ss the pool still takes; the others are unmapped.
Fit(pool, ss) ==
  IF Len(ss) <= MAX_POOLED_STACKS - Len(pool) THEN Len(ss)
  ELSE MAX_POOLED_STACKS - Len(pool)

\* Pushing the stacks ss one after the other.
stack_pool_push(ss) ==
  /\ stack_pool' = stack_pool \o SubSeq(ss, 1, Fit(stack_pool, ss))
  /\ mapped' = mapped \ {ss[i] : i \in Fit(stack_pool, ss) + 1 .. Len(ss)}

reclaim_deferred_stacks_all ==
  /\ stack_pool_push(Reverse(deferred_stacks))
  /\ deferred_stacks' = <<>>

\* Mutant: the struct keeps its reference to the deferred stack.
defer_keeps_owner(t) ==
  /\ stack_map' = stack_map
  /\ deferred_stacks' = deferred_stacks \o StackOf(t)

defer_stack_reclaim(t) ==
  IF Len(deferred_stacks) < MAX_DEFERRED_STACKS
  THEN /\ deferred_stacks' = deferred_stacks \o StackOf(t)
       /\ stack_map' = [stack_map EXCEPT ![t] = NULL]
  ELSE UNCHANGED <<deferred_stacks, stack_map>>

(***************************************************************************)
(* Thread structs and chain slots.                                         *)
(***************************************************************************)
thread_alloc == IF thread_pool # <<>> THEN {Last(thread_pool)}
                ELSE Threads \ (heap \cup {main_thread})

thread_free(t) ==
  IF Len(thread_pool) < MAX_POOLED_THREADS
  THEN thread_pool' = Append(thread_pool, t) /\ UNCHANGED heap
  ELSE heap' = heap \ {t} /\ UNCHANGED thread_pool

\* Releases a struct other than main's.
thread_obj_release(t) ==
  /\ head_joiner' = [head_joiner EXCEPT ![t] = 0]
  /\ handles' = handles \ {t}
  /\ thread_free(t)

thread_zombie_add(t) == Append(zombie_queue, t)
thread_zombie_remove(t) == Unlinked(zombie_queue, t)

-----------------------------------------------------------------------------
(***************************************************************************)
(* thread_create.  The call is split where it reaches its allocation loop, *)
(* which a thread may re-enter after yielding; no other thread can run     *)
(* between the two parts unless the loop yields.  A first call that cannot *)
(* allocate main's chain slot returns ENOMEM before it has allocated       *)
(* anything and is not a step: it only registers thread_pool_free_all once *)
(* more, whose second run at exit finds the pools empty.                   *)
(***************************************************************************)
thread_create ==
  /\ Running("user")
  /\ head_joiner[main_thread] = 0 => Len(head_ref) < MAX_HEAD_REFS
  /\ \E t \in thread_alloc :
       /\ newth' = [newth EXCEPT ![current_thread] = t]
       /\ IF thread_pool # <<>>
          THEN thread_pool' = Front(thread_pool) /\ UNCHANGED heap
          ELSE heap' = heap \cup {t} /\ UNCHANGED thread_pool
  /\ IF head_joiner[main_thread] = 0           \* first call: scheduler_initialized is 0
     THEN /\ head_ref' = Append(head_ref, main_thread)
          /\ head_joiner' = [head_joiner EXCEPT ![main_thread] = Len(head_ref) + 1]
     ELSE UNCHANGED <<head_ref, head_joiner>>
  /\ IF stack_pool = <<>> THEN reclaim_deferred_stacks_all
     ELSE UNCHANGED <<stack_pool, mapped, deferred_stacks>>
  /\ context' = [context EXCEPT ![current_thread] = "create"]
  /\ UNCHANGED <<alloc_retries, current_thread, state, ready_queue, priority, handles, stack_map,
                 zombie_queue, joined_by, waiting_for, process, mis_woken>>

\* stack_pool_alloc returns s.  It fails when the pool is empty and mmap has
\* nothing left to give.
stack_pool_alloc(s) ==
  \/ /\ stack_pool # <<>> /\ s = Last(stack_pool)
     /\ stack_pool' = Front(stack_pool)
     /\ UNCHANGED mapped
  \/ /\ stack_pool = <<>> /\ s \in Stacks \ mapped
     /\ mapped' = mapped \cup {s}
     /\ UNCHANGED stack_pool

stack_pool_alloc_fails == stack_pool = <<>> /\ Stacks \subseteq mapped

\* Lines 270-288: the fields of the new thread that later code reads.
InitFields(t, s) ==
  /\ state' = [state EXCEPT ![t] = "READY"]
  /\ stack_map' = [stack_map EXCEPT ![t] = s]
  /\ priority' = [priority EXCEPT ![t] = THREAD_DEFAULT_PRIORITY]
  /\ joined_by' = [joined_by EXCEPT ![t] = NULL]
  /\ waiting_for' = [waiting_for EXCEPT ![t] = NULL]

\* thread_create returns: its locals are gone.
create_return ==
  /\ newth' = [newth EXCEPT ![current_thread] = NULL]
  /\ alloc_retries' = [alloc_retries EXCEPT ![current_thread] = 0]

\* The loop obtains a stack and a chain slot: the thread exists.
create_publish ==
  LET t == newth[current_thread] IN
  /\ Running("create")
  /\ Len(head_ref) < MAX_HEAD_REFS
  /\ \E s \in Stacks : stack_pool_alloc(s) /\ InitFields(t, s)
  /\ head_ref' = Append(head_ref, t)
  /\ head_joiner' = [head_joiner EXCEPT ![t] = Len(head_ref) + 1]
  /\ ready_queue' = thread_scheduler_enqueue(ready_queue, t, priority')
  /\ handles' = handles \cup {t}
  /\ context' = [context EXCEPT ![t] = "user", ![current_thread] = "user"]
  /\ create_return
  /\ UNCHANGED <<current_thread, heap, thread_pool, deferred_stacks,
                 zombie_queue, process, mis_woken>>

\* The chain slot cannot be allocated: struct and stack go back to the pools.
create_no_slot ==
  LET t == newth[current_thread] IN
  /\ Running("create")
  /\ Len(head_ref) >= MAX_HEAD_REFS
  /\ \E s \in Stacks :
       /\ InitFields(t, s)
       /\ \/ /\ stack_pool # <<>> /\ s = Last(stack_pool)
             /\ UNCHANGED <<stack_pool, mapped>>
          \/ /\ stack_pool = <<>> /\ s \in Stacks \ mapped
             /\ stack_pool' = SubSeq(<<s>>, 1, Fit(<<>>, <<s>>))
             /\ mapped' = mapped \cup Range(stack_pool')
  /\ thread_obj_release(t)
  /\ context' = [context EXCEPT ![current_thread] = "user"]
  /\ create_return
  /\ UNCHANGED <<current_thread, ready_queue, head_ref, deferred_stacks,
                 zombie_queue, process, mis_woken>>

\* Mutants of the retry: no limit on the attempts; attempts not counted.
create_retry_unlimited ==
  /\ Running("create")
  /\ stack_pool_alloc_fails
  /\ ready_queue # <<>>
  /\ reclaim_deferred_stacks_all
  /\ alloc_retries' = [alloc_retries EXCEPT ![current_thread] = @ + 1]
  /\ thread_yield("create")
  /\ UNCHANGED <<handles, heap, thread_pool, newth, stack_map, zombie_queue,
                 join_vars, process, mis_woken>>
create_retry_uncounted ==
  /\ Running("create")
  /\ stack_pool_alloc_fails
  /\ ready_queue # <<>> /\ alloc_retries[current_thread] < MAX_ALLOC_RETRIES
  /\ reclaim_deferred_stacks_all
  /\ thread_yield("create")
  /\ UNCHANGED <<handles, heap, thread_pool, newth, alloc_retries, stack_map,
                 zombie_queue, join_vars, process, mis_woken>>

\* No stack: let another thread run, which may exit and give up its own.
create_retry ==
  /\ Running("create")
  /\ stack_pool_alloc_fails
  /\ ready_queue # <<>> /\ alloc_retries[current_thread] < MAX_ALLOC_RETRIES
  /\ reclaim_deferred_stacks_all
  /\ alloc_retries' = [alloc_retries EXCEPT ![current_thread] = @ + 1]
  /\ thread_yield("create")
  /\ UNCHANGED <<handles, heap, thread_pool, newth, stack_map, zombie_queue,
                 join_vars, process, mis_woken>>

\* Mutant: the struct is not released on the error path.
create_fail_leak ==
  /\ Running("create")
  /\ stack_pool_alloc_fails
  /\ ready_queue = <<>> \/ alloc_retries[current_thread] >= MAX_ALLOC_RETRIES
  /\ reclaim_deferred_stacks_all
  /\ context' = [context EXCEPT ![current_thread] = "user"]
  /\ create_return
  /\ UNCHANGED <<current_thread, state, ready_queue, priority, handles, heap,
                 thread_pool, stack_map, zombie_queue, join_vars, process, mis_woken>>

\* No stack and nobody to wait for, or too many attempts: ENOMEM.
create_fail ==
  /\ Running("create")
  /\ stack_pool_alloc_fails
  /\ ready_queue = <<>> \/ alloc_retries[current_thread] >= MAX_ALLOC_RETRIES
  /\ reclaim_deferred_stacks_all
  /\ thread_obj_release(newth[current_thread])
  /\ context' = [context EXCEPT ![current_thread] = "user"]
  /\ create_return
  /\ UNCHANGED <<current_thread, state, ready_queue, priority, stack_map,
                 zombie_queue, joined_by, waiting_for, head_ref, process, mis_woken>>

-----------------------------------------------------------------------------
(***************************************************************************)
(* thread_exit.                                                            *)
(***************************************************************************)

\* Mutant: a registered joiner is taken to be blocked.
Zombifies_unregistered(dying) == dying # main_thread /\ joined_by[dying] = NULL

\* The dying thread goes to the zombie queue unless a blocked joiner will
\* claim its struct.
Zombifies(dying) ==
  /\ dying # main_thread
  /\ \/ joined_by[dying] = NULL
     \/ state[joined_by[dying]] # "BLOCKED"

\* Mutant: the joiner is marked ready but not enqueued.
WakeJoiner_lost(dying) ==
  LET joiner == joined_by[dying]
      died == [state EXCEPT ![dying] = "TERMINATED"]
  IN  [st |-> IF joiner = NULL THEN died ELSE [died EXCEPT ![joiner] = "READY"],
       rq |-> ready_queue, wrong |-> {}]

\* The joiner is made ready whatever it is doing by now.
WakeJoiner(dying) ==
  LET joiner == joined_by[dying]
      died == [state EXCEPT ![dying] = "TERMINATED"]
  IN  IF joiner = NULL
      THEN [st |-> died, rq |-> ready_queue, wrong |-> {}]
      ELSE [st |-> [died EXCEPT ![joiner] = "READY"],
            rq |-> thread_scheduler_enqueue(ready_queue, joiner, priority),
            wrong |-> IF \/ waiting_for[joiner] = dying
                         \/ joiner \in Range(ready_queue)
                         \/ context[joiner] = "sigwait"       \* it checks again
                      THEN {} ELSE {joiner}]

thread_exit ==
  LET dying == current_thread
      woken == WakeJoiner(dying)
  IN  /\ Running("user")
      /\ IF dying # main_thread THEN defer_stack_reclaim(dying)
         ELSE UNCHANGED <<deferred_stacks, stack_map>>
      /\ zombie_queue' = IF Zombifies(dying) THEN thread_zombie_add(dying) ELSE zombie_queue
      /\ mis_woken' = woken.wrong
      /\ \/ /\ woken.rq # <<>>
            /\ swap_thread(woken.st, Head(woken.rq))
            /\ ready_queue' = Tail(woken.rq)
            /\ UNCHANGED process
         \/ /\ woken.rq = <<>>
            /\ state' = woken.st
            /\ process' = "cleanup_ctx"            \* thread_switch_to_cleanup
            /\ UNCHANGED <<current_thread, ready_queue>>
      /\ UNCHANGED <<priority, context, handles, heap, thread_pool, newth, alloc_retries,
                     mapped, stack_pool, join_vars>>

-----------------------------------------------------------------------------
(***************************************************************************)
(* thread_join.  Calls refused with EINVAL or EDEADLK change nothing and   *)
(* are not steps.                                                          *)
(***************************************************************************)
target_is_head(target) == head_ref[head_joiner[target]] = target
same_chain(target) == head_joiner[current_thread] = head_joiner[target]

ChainRefuses(target) == target_is_head(target) /\ same_chain(target)

\* The claim of a terminated target: fast path and end of the blocking path.
claim(target) ==
  IF target = main_thread
  THEN UNCHANGED <<zombie_queue, stack_pool, mapped, handles, heap, thread_pool, head_joiner>>
  ELSE /\ zombie_queue' = thread_zombie_remove(target)
       /\ stack_pool_push(StackOf(target))
       /\ thread_obj_release(target)

\* Mutant: no check for an earlier joiner.
Joinable_again(target) ==
  /\ Running("user")
  /\ target \in handles \ {current_thread}

\* Checks before the target's state is looked at.
Joinable(target) ==
  /\ Running("user")
  /\ target \in handles
  /\ joined_by[target] = NULL
  /\ target # current_thread

join_terminated(target) ==
  /\ Joinable(target)
  /\ state[target] = "TERMINATED"
  /\ claim(target)
  /\ UNCHANGED <<sched_vars, newth, alloc_retries, stack_map, deferred_stacks,
                 joined_by, waiting_for, head_ref, process, mis_woken>>

\* Mutant: the joiner does not become the head.
join_link_same_head(target) ==
  /\ Joinable(target)
  /\ state[target] # "TERMINATED"
  /\ ~ChainRefuses(target)
  /\ joined_by' = [joined_by EXCEPT ![target] = current_thread]
  /\ head_joiner' = [head_joiner EXCEPT ![current_thread] = head_joiner[target]]
  /\ UNCHANGED head_ref

\* Registers the caller as joiner and enters the target's chain.
join_link(target) ==
  /\ Joinable(target)
  /\ state[target] # "TERMINATED"
  /\ head_joiner[target] # 0 /\ head_joiner[current_thread] # 0
  /\ ~ChainRefuses(target)
  /\ joined_by' = [joined_by EXCEPT ![target] = current_thread]
  /\ head_joiner' = [head_joiner EXCEPT ![current_thread] = head_joiner[target]]
  /\ head_ref' = IF target_is_head(target)
                 THEN [head_ref EXCEPT ![head_joiner[target]] = current_thread]
                 ELSE head_ref

join_block(target) ==
  /\ join_link(target)
  /\ BlockAndSwitch("join")
  /\ waiting_for' = [waiting_for EXCEPT ![current_thread] = target]
  /\ UNCHANGED <<mem_vars, process, mis_woken>>

\* Nobody else can run: EDEADLK, but the registration stays.
join_abort(target) ==
  /\ join_link(target)
  /\ ready_queue = <<>>
  /\ UNCHANGED <<sched_vars, mem_vars, waiting_for, process, mis_woken>>

\* The joiner runs again.
join_resume ==
  LET target == waiting_for[current_thread] IN
  /\ Running("join")
  /\ waiting_for' = [waiting_for EXCEPT ![current_thread] = NULL]
  /\ claim(target)
  /\ context' = [context EXCEPT ![current_thread] = "user"]
  /\ UNCHANGED <<current_thread, state, ready_queue, priority, newth, alloc_retries,
                 stack_map, deferred_stacks, joined_by, head_ref, process, mis_woken>>

-----------------------------------------------------------------------------
(***************************************************************************)
(* Scheduling calls, with valid handles.                                   *)
(***************************************************************************)
yield == /\ Running("user")
         /\ thread_yield("user")
         /\ UNCHANGED <<mem_vars, join_vars, process, mis_woken>>

yield_to == /\ Running("user")
            /\ \E t \in handles : thread_yield_to(t)
            /\ UNCHANGED <<mem_vars, join_vars, process, mis_woken>>

set_priority == /\ Running("user")
                /\ \E t \in handles, p \in Priorities : thread_set_priority(t, p)
                /\ UNCHANGED <<mem_vars, join_vars, process, mis_woken>>

-----------------------------------------------------------------------------
(***************************************************************************)
(* End of the process.  main returns: exit() runs the atexit handlers, the *)
(* last registered first.  The last thread exits: do_final_cleanup runs on *)
(* its own stack, and returning from it calls exit().                      *)
(***************************************************************************)
do_final_cleanup ==
  /\ heap' = heap \ Range(zombie_queue)
  /\ mapped' = mapped \ (Range(stack_pool) \cup {stack_map[t] : t \in Range(zombie_queue)})
  /\ zombie_queue' = <<>>
  /\ stack_pool' = <<>>

\* Mutant: the deferred stacks are forgotten.
pool_free_structs_only ==
  /\ heap' = heap \ Range(thread_pool)
  /\ thread_pool' = <<>>
  /\ UNCHANGED <<stack_pool, mapped, deferred_stacks>>

thread_pool_free_all ==
  /\ reclaim_deferred_stacks_all
  /\ heap' = heap \ Range(thread_pool)
  /\ thread_pool' = <<>>

main_return ==
  /\ Running("user") /\ current_thread = main_thread
  /\ process' = "exit"
  /\ UNCHANGED <<sched_vars, mem_vars, join_vars, mis_woken>>

cleanup_ctx ==
  /\ process = "cleanup_ctx" /\ mis_woken = {}
  /\ do_final_cleanup
  /\ process' = "exit"
  /\ UNCHANGED <<sched_vars, handles, thread_pool, newth, alloc_retries, stack_map,
                 deferred_stacks, join_vars, mis_woken>>

exit_pool_free ==
  /\ process = "exit"
  /\ thread_pool_free_all
  /\ process' = "exit_cleanup"
  /\ UNCHANGED <<sched_vars, handles, newth, alloc_retries, stack_map, zombie_queue,
                 join_vars, mis_woken>>

exit_cleanup ==
  /\ process = "exit_cleanup"
  /\ do_final_cleanup
  /\ process' = "exited"
  /\ UNCHANGED <<sched_vars, handles, thread_pool, newth, alloc_retries, stack_map,
                 deferred_stacks, join_vars, mis_woken>>

\* The process has ended, or what follows is undefined.
ended == (process = "exited" \/ mis_woken # {}) /\ UNCHANGED core_vars

-----------------------------------------------------------------------------
CoreInit ==
  /\ current_thread = main_thread
  /\ state = [t \in Threads |-> IF t = main_thread THEN "RUNNING" ELSE "TERMINATED"]
  /\ ready_queue = <<>>
  /\ priority = [t \in Threads |-> THREAD_DEFAULT_PRIORITY]
  /\ context = [t \in Threads |-> "user"]
  /\ handles = {main_thread}
  /\ heap = {} /\ thread_pool = <<>>
  /\ newth = [t \in Threads |-> NULL] /\ alloc_retries = [t \in Threads |-> 0]
  /\ stack_map = [t \in Threads |-> NULL]
  /\ mapped = {} /\ stack_pool = <<>> /\ deferred_stacks = <<>>
  /\ zombie_queue = <<>>
  /\ joined_by = [t \in Threads |-> NULL] /\ waiting_for = [t \in Threads |-> NULL]
  /\ head_joiner = [t \in Threads |-> 0] /\ head_ref = <<>>
  /\ process = "running" /\ mis_woken = {}

CoreNext ==
  \/ thread_create \/ create_publish \/ create_no_slot \/ create_retry \/ create_fail
  \/ thread_exit
  \/ \E target \in Threads :
       join_terminated(target) \/ join_block(target) \/ join_abort(target)
  \/ join_resume
  \/ yield \/ yield_to \/ set_priority
  \/ main_return \/ cleanup_ctx \/ exit_pool_free \/ exit_cleanup
  \/ ended

CoreSpec == CoreInit /\ [][CoreNext]_core_vars

(***************************************************************************)
(* A client that runs for ever yields again and again, whatever other      *)
(* calls it makes in between: by the cooperative contract, or through the  *)
(* preemption timer.  A library call in progress goes on once its thread   *)
(* has the CPU.                                                            *)
(***************************************************************************)
CoreFairness ==
  /\ SF_core_vars(yield)
  /\ WF_core_vars(create_publish \/ create_no_slot \/ create_retry \/ create_fail)
  /\ WF_core_vars(join_resume)

-----------------------------------------------------------------------------
(***************************************************************************)
(* Properties.                                                             *)
(***************************************************************************)
\* The shape of the state in the lifecycle alone and in the modules built on it.
Contexts == {"user", "create", "join", "sigwait"}
CoreShape ==
  /\ SchedTypeOK
  /\ context \in [Threads -> Contexts]
  /\ handles \subseteq Threads /\ main_thread \in handles
  /\ heap \subseteq Threads \ {main_thread}
  /\ thread_pool \in Seq(Threads)
  /\ newth \in [Threads -> Threads \cup {NULL}]
  /\ alloc_retries \in [Threads -> 0..MAX_ALLOC_RETRIES]
  /\ stack_map \in [Threads -> Stacks \cup {NULL}]
  /\ mapped \subseteq Stacks
  /\ stack_pool \in Seq(Stacks) /\ deferred_stacks \in Seq(Stacks)
  /\ zombie_queue \in Seq(Threads)
  /\ joined_by \in [Threads -> Threads \cup {NULL}]
  /\ waiting_for \in [Threads -> Threads \cup {NULL}]
  /\ head_ref \in Seq(Threads)
  /\ head_joiner \in [Threads -> 0..Len(head_ref)]
  /\ mis_woken \subseteq Threads

CoreTypeOK ==
  /\ CoreShape
  /\ context \in [Threads -> Contexts \ {"sigwait"}]
  /\ process \in {"running", "cleanup_ctx", "exit", "exit_cleanup", "exited"}

\* The process runs and nobody has been woken by mistake.
Sound == mis_woken = {}
Live == process = "running" /\ Sound

(* The CPU and the ready queue partition the runnable threads.             *)
(* thread_yield_to and thread_set_priority unlink a thread from the ready  *)
(* queue on the sole evidence of its state (scheduler.c:168-179, 219-220), *)
(* and thread_exit enqueues a thread without looking at its state.         *)
RunnablePartition == Live => Runnable(handles)

(* A thread is in at most one queue, once: ready, zombie and wait queues   *)
(* share the single link field `entries` (thread_internal.h:31).           *)
OneQueue == Live => IsInjective(ready_queue \o zombie_queue)

(* The wakeup invariant of thread_join (thread.c:493-494): a joiner that   *)
(* may run again finds its target terminated, still allocated, and not     *)
(* claimed by anybody else.                                                *)
JoinerWakesAfterExit ==
  \A t \in handles :
    context[t] = "join" /\ state[t] \in {"READY", "RUNNING"} =>
       /\ state[waiting_for[t]] = "TERMINATED"
       /\ waiting_for[t] \in handles
       /\ joined_by[waiting_for[t]] = t

(* The same, as long as no thread has been woken by a stale registration.  *)
WakeupInvariant == Live => JoinerWakesAfterExit

(* A blocked joiner is registered with a target that has not terminated,   *)
(* so the exit of the target will find it (thread.c:361).  A target whose  *)
(* join was aborted may name the same struct (thread.c:461, 479-486).      *)
BlockedJoinerRegistered ==
  Live => \A t \in handles :
             context[t] = "join" /\ state[t] = "BLOCKED" =>
               /\ waiting_for[t] \in handles \ {t}
               /\ joined_by[waiting_for[t]] = t
               /\ state[waiting_for[t]] # "TERMINATED"

(* Every mapped stack has exactly one owner: a thread, the pool or the     *)
(* deferred table; and a thread that can still run owns a stack.  So no    *)
(* two threads ever run on the same stack, no stack is pushed twice and    *)
(* none is lost (thread.c:65-66, 80-82).                                   *)
Owners == {t \in handles : stack_map[t] # NULL}
StackOwnership ==
  Live =>
    LET Free == stack_pool \o deferred_stacks
    IN  /\ IsInjective(Free)
        /\ \A t, u \in Owners : stack_map[t] = stack_map[u] => t = u
        /\ \A t \in Owners : stack_map[t] \notin Range(Free)
        /\ mapped = Range(Free) \cup {stack_map[t] : t \in Owners}
        /\ \A t \in handles \ {main_thread} : state[t] # "TERMINATED" => t \in Owners

(* Every allocated struct is in exactly one place: a thread handed to the  *)
(* client, the pool, or the local of one thread_create in progress.        *)
OwnOK ==
  /\ IsInjective(thread_pool)
  /\ \A t, u \in Threads : newth[t] # NULL /\ newth[t] = newth[u] => t = u
  /\ handles \cap Range(thread_pool) = {}
  /\ \A t \in Threads : newth[t] \notin handles \cup Range(thread_pool)
  /\ \A t \in Threads : t \in heap <=>
       \/ t \in handles \ {main_thread}
       \/ t \in Range(thread_pool)
       \/ \E u \in Threads : newth[u] = t
StructOwnership == Live => OwnOK

(* A terminated thread has exactly one keeper.  Either it is linked in the *)
(* zombie queue and no join is under way, or it is not linked and a single *)
(* joiner, registered with it and already runnable, is on its way back to  *)
(* claim it (thread.c:345-357, 515-523).  So no struct is freed twice, by  *)
(* a joiner and by the cleanup at exit, and none is lost to both.          *)
(* Nothing is said of joins still to come: a zombie that an aborted join   *)
(* left registered is refused by each of them (thread.c:402-405) and stays *)
(* in the queue until the process ends.                                    *)
Joiners(t) == {j \in handles : context[j] = "join" /\ waiting_for[j] = t}
ZombieKeeps(t) == t \in Range(zombie_queue) /\ Joiners(t) = {}
JoinerKeeps(t) ==
  /\ t \notin Range(zombie_queue)
  /\ \E j \in handles : /\ Joiners(t) = {j} /\ joined_by[t] = j
                        /\ state[j] \in {"READY", "RUNNING"}
TerminatedHasOneKeeper ==
  Live => \A t \in handles \ {main_thread} :
             state[t] = "TERMINATED" => ZombieKeeps(t) \/ JoinerKeeps(t)

(* The inductive form: the zombie queue holds exactly the terminated       *)
(* threads nobody waits for.                                               *)
Awaited(t) == \E j \in handles : context[j] = "join" /\ waiting_for[j] = t
ClaimOK ==
  \A t \in handles \ {main_thread} :
    (t \in Range(zombie_queue) <=> state[t] = "TERMINATED" /\ ~Awaited(t))
ClaimInv == Live => ClaimOK

(* A thread nobody has joined is the head of its join chain, so a join     *)
(* that is not refused makes its caller the head: the second branch of     *)
(* thread.c:464-470 is never taken.                                        *)
HeadOK ==
  \A t \in handles : head_joiner[t] # 0 /\ joined_by[t] = NULL => target_is_head(t)
UnjoinedIsHead == Live => HeadOK

(* The inductive invariant behind the lifecycle theorems.  A thread is     *)
(* inside a call exactly when the call's record says so (ContextOK), and a *)
(* joiner, its target and their states agree at every moment of the        *)
(* protocol (JoinOK).                                                      *)
ContextOK ==
  /\ \A t \in Threads : context[t] = "join" <=> waiting_for[t] # NULL
  /\ \A t \in Threads : context[t] = "create" <=> newth[t] # NULL
  /\ \A t \in Threads : t \notin handles \/ state[t] = "TERMINATED" => context[t] = "user"

ZombieOK ==
  /\ IsInjective(zombie_queue)
  /\ \A t \in Range(zombie_queue) : t \in handles \ {main_thread} /\ state[t] = "TERMINATED"

JoinOK ==
  \A t \in handles : context[t] = "join" =>
    /\ waiting_for[t] \in handles \ {t}
    /\ joined_by[waiting_for[t]] = t
    /\ state[t] = "BLOCKED" <=> state[waiting_for[t]] # "TERMINATED"

(* Runnable(handles), but for READY threads that are held outside the      *)
(* queue: there are none in the cooperative build.                         *)
RunnableBut(held) ==
  /\ current_thread \in handles
  /\ \A t \in handles : state[t] = "RUNNING" <=> t = current_thread
  /\ \A t \in handles : state[t] = "READY" <=> t \in Range(ready_queue) \cup held
  /\ Range(ready_queue) \cup held \subseteq handles
  /\ Range(ready_queue) \cap held = {}
  /\ IsInjective(ready_queue)

LiveInv(held) == RunnableBut(held) /\ ContextOK /\ ZombieOK /\ JoinOK /\ OwnOK

CoreInv(held) == CoreShape /\ (Live => LiveInv(held))

(* The inductive form of StackOwnership: the pool does not outgrow its     *)
(* array, and main never runs on a stack of the library.                   *)
StackOK ==
  /\ Len(stack_pool) <= MAX_POOLED_STACKS
  /\ IsInjective(stack_pool) /\ IsInjective(deferred_stacks)
  /\ Range(stack_pool) \cap Range(deferred_stacks) = {}
  /\ stack_map[main_thread] = NULL
  /\ \A t, u \in Owners : stack_map[t] = stack_map[u] => t = u
  /\ \A t \in Owners : stack_map[t] \notin Range(stack_pool) \cup Range(deferred_stacks)
  /\ mapped = Range(stack_pool) \cup Range(deferred_stacks) \cup {stack_map[t] : t \in Owners}
  /\ \A t \in handles \ {main_thread} : state[t] # "TERMINATED" => t \in Owners
StackInv == Live => StackOK

(* At the end of the process what is still allocated belongs to a thread   *)
(* that had not terminated, or to a join or create it had in progress:     *)
(* the zombies, the pools and the deferred stacks are all released,        *)
(* whichever way the process ends (thread_gc.c:61-114).                    *)
Alive == {t \in handles : state[t] # "TERMINATED"}
Held == Alive \cup ({waiting_for[t] : t \in Alive} \ {NULL})
NothingLeaksAtExit ==
  Sound /\ process = "exited" =>
    /\ heap \subseteq Held \cup {newth[t] : t \in Alive}
    /\ mapped \subseteq {stack_map[t] : t \in Held}

(* Before the end, the same up to the queues and pools that the remaining  *)
(* phases of the exit will empty.                                          *)
LeakOK ==
  /\ heap \subseteq Held \cup {newth[t] : t \in Alive}
                        \cup Range(thread_pool) \cup Range(zombie_queue)
  /\ mapped \subseteq {stack_map[t] : t \in Held \cup Range(zombie_queue)}
                        \cup Range(stack_pool) \cup Range(deferred_stacks)
  /\ Len(stack_pool) <= MAX_POOLED_STACKS
  /\ process \in {"exit_cleanup", "exited"} => thread_pool = <<>> /\ deferred_stacks = <<>>
  /\ process = "exited" => zombie_queue = <<>> /\ stack_pool = <<>>
LeakInv == Sound => LeakOK

(* Joins never close a cycle of threads waiting for each other ("EDEADLK — *)
(* join cycle detected", thread.h:55).                                     *)
NoJoinCycle ==
  ~ \E C \in SUBSET handles :
      C # {} /\ \A t \in C : context[t] = "join" /\ state[t] = "BLOCKED" /\ waiting_for[t] \in C

(* A runnable thread gets the CPU, unless the process ends first: FIFO     *)
(* order is not upset by creations, exits, wake-ups and directed yields.   *)
ReadyThreadRuns ==
  \A t \in Threads :
    (t \in handles /\ state[t] = "READY") ~> (state[t] = "RUNNING" \/ ~Live)

(* A join returns once its target has terminated (thread.c:359-365,        *)
(* 489-497), unless the process ends first.                                *)
JoinReturns ==
  \A t \in Threads :
    (waiting_for[t] # NULL /\ state[waiting_for[t]] = "TERMINATED")
      ~> (waiting_for[t] = NULL \/ ~Live)

(* thread_create returns: the loop that waits for a stack is bounded even  *)
(* if every other thread keeps yielding (thread.c:259-268).                *)
CreateReturns ==
  \A t \in Threads : context[t] = "create" ~> (context[t] = "user" \/ ~Live)
=============================================================================
