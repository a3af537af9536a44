-------------------------- MODULE ThreadCoreProofs --------------------------
(***************************************************************************)
(* The lifecycle invariants of ThreadCore, for any number of threads,      *)
(* stacks and chain slots, any pool sizes and either scheduling policy.    *)
(***************************************************************************)
EXTENDS ThreadLifeProofs

-----------------------------------------------------------------------------
(* The end of the process.                                                 *)
LEMMA CleanupType ==
  ASSUME CoreShape, do_final_cleanup, UNCHANGED <<sched_vars, handles, thread_pool, newth,
           alloc_retries, stack_map, deferred_stacks, join_vars, mis_woken>>,
         process' \in {"exit", "exited"}
  PROVE  CoreShape' /\ ~Live'
<1>1. /\ heap' \subseteq Threads \ {main_thread} /\ mapped' \subseteq Stacks
      /\ zombie_queue' \in Seq(Threads) /\ stack_pool' \in Seq(Stacks)
  BY EmptySeq DEF do_final_cleanup, CoreShape
<1> QED BY <1>1, Zenon DEF CoreShape, SchedTypeOK, sched_vars, join_vars, Live

\* The steps that end the process.
LEMMA EndInv ==
  ASSUME NEW held, CoreInv(held), main_return \/ cleanup_ctx \/ exit_pool_free \/ exit_cleanup
  PROVE  CoreInv(held)'
<1>1. CASE main_return
  BY <1>1, Zenon DEF main_return, CoreInv, CoreShape, SchedTypeOK, sched_vars, mem_vars, join_vars, Live
<1>2. CASE cleanup_ctx
  BY <1>2, CleanupType, Zenon DEF cleanup_ctx, CoreInv
<1>3. CASE exit_pool_free
  <2>1. heap' \subseteq Threads \ {main_thread} /\ thread_pool' \in Seq(Threads)
    BY <1>3, EmptySeq DEF exit_pool_free, thread_pool_free_all, CoreInv, CoreShape
  <2>2. /\ stack_pool' \in Seq(Stacks) /\ mapped' \subseteq Stacks
        /\ deferred_stacks' \in Seq(Stacks)
    BY <1>3, ReclaimType DEF exit_pool_free, thread_pool_free_all, CoreInv, CoreShape
  <2> QED BY ZenonT(30), <1>3, <2>1, <2>2 DEF exit_pool_free, CoreInv, CoreShape, SchedTypeOK, sched_vars,
                                  join_vars, Live
<1>4. CASE exit_cleanup
  BY <1>4, CleanupType DEF exit_cleanup, CoreInv
<1> QED BY <1>1, <1>2, <1>3, <1>4, Zenon

-----------------------------------------------------------------------------
(* The invariant is inductive.                                             *)
LEMMA CoreInitInv ==
  ASSUME CoreInit
  PROVE  CoreInv({})
<1> USE DEF CoreInit
<1>1. main_thread \in Threads /\ NULL \notin Threads
  BY SchedulerAssumption
<1>2. <<>> \in Seq(Threads) /\ <<>> \in Seq(Stacks) /\ Len(<<>>) = 0
  BY EmptySeq
<1>3. Range(<<>>) = {} /\ IsInjective(<<>>)
  BY DEF Range, IsInjective
<1>4. SchedTypeOK
  BY <1>1, <1>2, DefaultsOK, Zenon DEF SchedTypeOK, States
<1>5. CoreShape
  <2>1. alloc_retries \in [Threads -> 0..MAX_ALLOC_RETRIES] /\ head_joiner \in [Threads -> 0..Len(head_ref)]
    BY <1>2, CoreAssumption, SMTT(30)
  <2> QED BY <1>1, <1>2, <1>4, <2>1, Zenon DEF CoreShape, Contexts
<1>6. RunnableBut({}) /\ ContextOK /\ ZombieOK /\ JoinOK
  BY <1>1, <1>3 DEF RunnableBut, ContextOK, ZombieOK, JoinOK
<1>7. OwnOK
  BY <1>1, <1>3 DEF OwnOK
<1> QED BY <1>5, <1>6, <1>7 DEF CoreInv, LiveInv

LEMMA CoreStutter ==
  ASSUME NEW held, CoreInv(held), UNCHANGED core_vars
  PROVE  CoreInv(held)'
<1>1. CoreShape' <=> CoreShape
  BY Zenon DEF core_vars, sched_vars, mem_vars, join_vars, CoreShape, SchedTypeOK
<1>2. (Live' <=> Live) /\ (RunnableBut(held)' <=> RunnableBut(held)) /\ (ContextOK' <=> ContextOK)
  BY Zenon DEF core_vars, sched_vars, mem_vars, join_vars, Live, Sound, RunnableBut, ContextOK
<1>3. (ZombieOK' <=> ZombieOK) /\ (JoinOK' <=> JoinOK) /\ (OwnOK' <=> OwnOK)
  BY DEF core_vars, sched_vars, mem_vars, join_vars, ZombieOK, JoinOK, OwnOK
<1> QED BY <1>1, <1>2, <1>3, Zenon DEF CoreInv, LiveInv

\* Every step keeps the invariant.
LEMMA CoreNextInv ==
  ASSUME CoreInv({}), [CoreNext]_core_vars
  PROVE  CoreInv({})'
<1>1. CASE thread_create
  BY <1>1, CreateInv
<1>2. CASE create_publish
  BY <1>2, CreatePublishInv
<1>3. CASE create_no_slot
  BY <1>3, CreateNoSlotInv
<1>4. CASE create_retry
  BY <1>4, CreateRetryInv
<1>5. CASE create_fail
  BY <1>5, CreateFailInv
<1>6. CASE thread_exit
  BY <1>6, ExitInv
<1>7. ASSUME NEW target \in Threads,
             join_terminated(target) \/ join_block(target) \/ join_abort(target)
      PROVE  CoreInv({})'
  BY <1>7, JoinTerminatedInv, JoinBlockInv, JoinAbortInv
<1>8. CASE join_resume
  BY <1>8, JoinResumeInv
<1>9. CASE yield
  BY <1>9, YieldInv
<1>10. CASE yield_to
  BY <1>10, YieldToInv
<1>11. CASE set_priority
  BY <1>11, SetPriorityInv
<1>12. CASE main_return \/ cleanup_ctx \/ exit_pool_free \/ exit_cleanup
  BY <1>12, EndInv
<1>13. CASE UNCHANGED core_vars
  BY <1>13, CoreStutter
<1> QED BY <1>1, <1>2, <1>3, <1>4, <1>5, <1>6, <1>7, <1>8, <1>9, <1>10, <1>11, <1>12, <1>13, Zenon
        DEF CoreNext, ended

(* Every reachable state satisfies the lifecycle invariant.                *)
THEOREM CoreInvariant == CoreSpec => []CoreInv({})
BY CoreInitInv, CoreNextInv, PTL DEF CoreSpec

-----------------------------------------------------------------------------
\* No step of the lifecycle waits for a signal.
LEMMA CoreNextContext ==
  ASSUME context \in [Threads -> Contexts \ {"sigwait"}], [CoreNext]_core_vars
  PROVE  context' \in [Threads -> Contexts \ {"sigwait"}]
<1>1. CASE \/ context' = context
           \/ \E at \in Contexts \ {"sigwait"} :
                context' = [context EXCEPT ![current_thread] = at]
  BY <1>1, Zenon
<1>2. CASE thread_create \/ create_no_slot \/ create_fail \/ join_resume
  BY <1>1, <1>2, Zenon DEF thread_create, create_no_slot, create_fail, join_resume, Contexts
<1>3. CASE create_publish
  BY <1>3, Zenon DEF create_publish, Contexts
<1>4. CASE create_retry \/ yield \/ yield_to \/ set_priority
  BY <1>1, <1>4, Zenon DEF create_retry, yield, yield_to, set_priority, thread_yield, thread_yield_to,
                    thread_set_priority, SwitchTo, Contexts
<1>5. CASE \E target \in Threads :
             join_terminated(target) \/ join_block(target) \/ join_abort(target)
  BY <1>1, <1>5 DEF join_terminated, join_block, join_abort, BlockAndSwitch, sched_vars, Contexts
<1>6. CASE thread_exit \/ main_return \/ cleanup_ctx \/ exit_pool_free \/ exit_cleanup
  BY <1>1, <1>6 DEF thread_exit, main_return, cleanup_ctx, exit_pool_free, exit_cleanup, sched_vars
<1>7. CASE UNCHANGED core_vars
  BY <1>1, <1>7 DEF core_vars, sched_vars
<1> QED BY <1>2, <1>3, <1>4, <1>5, <1>6, <1>7 DEF CoreNext, ended

(* The pools, queues, counters and link fields keep their types; in        *)
(* particular a thread_create never counts beyond MAX_ALLOC_RETRIES.       *)
THEOREM CoreTypeCorrect == CoreSpec => []CoreTypeOK
<1> DEFINE InCore == context \in [Threads -> Contexts \ {"sigwait"}]
           Phase == process \in {"running", "cleanup_ctx", "exit", "exit_cleanup", "exited"}
<1>1. CoreInit => InCore /\ Phase
  BY DEF CoreInit, Contexts
<1>2. Phase /\ [CoreNext]_core_vars => Phase'
  <2> SUFFICES ASSUME Phase, [CoreNext]_core_vars PROVE Phase'
    OBVIOUS
  <2>1. CASE thread_create \/ create_publish \/ create_no_slot \/ create_retry \/ create_fail
    BY <2>1 DEF thread_create, create_publish, create_no_slot, create_retry, create_fail
  <2>2. CASE \E target \in Threads :
               join_terminated(target) \/ join_block(target) \/ join_abort(target)
    BY <2>2 DEF join_terminated, join_block, join_abort
  <2>3. CASE join_resume \/ yield \/ yield_to \/ set_priority
    BY <2>3 DEF join_resume, yield, yield_to, set_priority
  <2>4. CASE thread_exit \/ main_return \/ cleanup_ctx \/ exit_pool_free \/ exit_cleanup
    BY <2>4 DEF thread_exit, main_return, cleanup_ctx, exit_pool_free, exit_cleanup
  <2>5. CASE UNCHANGED core_vars
    BY <2>5 DEF core_vars
  <2> QED BY <2>1, <2>2, <2>3, <2>4, <2>5, Zenon DEF CoreNext, ended
<1>3. InCore /\ [CoreNext]_core_vars => InCore'
  BY CoreNextContext
<1>4. CoreInv({}) /\ InCore /\ Phase => CoreTypeOK
  BY DEF CoreInv, CoreTypeOK
<1> QED BY <1>1, <1>2, <1>3, <1>4, CoreInvariant, PTL DEF CoreSpec

LEMMA NoneHeld == RunnableBut({}) => Runnable(handles)
BY Zenon DEF RunnableBut, Runnable

(* The current thread is the only RUNNING one and the READY threads are    *)
(* exactly the queued ones, whatever the order of creations, joins, exits  *)
(* and yields.                                                             *)
THEOREM CoreRunnablePartition == CoreSpec => []RunnablePartition
<1>1. CoreInv({}) => RunnablePartition
  BY NoneHeld, Zenon DEF CoreInv, LiveInv, RunnablePartition
<1> QED BY <1>1, CoreInvariant, PTL

(* No thread is linked twice through its only link field.                  *)
THEOREM CoreOneQueue == CoreSpec => []OneQueue
<1>1. ASSUME CoreShape, LiveInv({}) PROVE IsInjective(ready_queue \o zombie_queue)
  <2>1. ready_queue \in Seq(Threads) /\ zombie_queue \in Seq(Threads)
    BY <1>1 DEF CoreShape, SchedTypeOK
  <2>2. /\ IsInjective(ready_queue) /\ IsInjective(zombie_queue)
        /\ Range(ready_queue) \cap Range(zombie_queue) = {}
    BY <1>1 DEF LiveInv, RunnableBut, ZombieOK
  <2> QED BY <2>1, <2>2, ConcatInjective
<1>2. CoreInv({}) => OneQueue
  BY <1>1, Zenon DEF CoreInv, OneQueue
<1> QED BY <1>2, CoreInvariant, PTL

(* A joiner that runs again finds its target terminated, allocated and     *)
(* unclaimed.                                                              *)
THEOREM CoreWakeup == CoreSpec => []WakeupInvariant
<1>1. CoreInv({}) => WakeupInvariant
  BY Zenon DEF CoreInv, LiveInv, JoinOK, WakeupInvariant, JoinerWakesAfterExit
<1> QED BY <1>1, CoreInvariant, PTL

(* No blocked joiner is forgotten: its target is alive and names it.       *)
THEOREM CoreJoinerRegistered == CoreSpec => []BlockedJoinerRegistered
<1>1. ASSUME CoreInv({}), Live, NEW t \in handles, context[t] = "join", state[t] = "BLOCKED"
      PROVE  /\ waiting_for[t] \in handles \ {t}
             /\ joined_by[waiting_for[t]] = t
             /\ state[waiting_for[t]] # "TERMINATED"
  BY <1>1, Zenon DEF CoreInv, LiveInv, JoinOK
<1>2. CoreInv({}) => BlockedJoinerRegistered
  BY <1>1 DEF BlockedJoinerRegistered
<1> QED BY <1>2, CoreInvariant, PTL

(* A struct is never both live and free, and none is lost.                 *)
THEOREM CoreStructOwnership == CoreSpec => []StructOwnership
<1>1. CoreInv({}) => StructOwnership
  BY DEF CoreInv, LiveInv, StructOwnership
<1> QED BY <1>1, CoreInvariant, PTL

-----------------------------------------------------------------------------
\* A new thread gets its priority while it is in no queue.
LEMMA CreateSorted ==
  ASSUME NEW held, CoreInv(held), QueueSorted, create_publish \/ create_no_slot
  PROVE  QueueSorted'
<1> SUFFICES ASSUME PRIO PROVE Sorted(ready_queue', priority')
  BY Zenon DEF QueueSorted
<1> DEFINE t == newth[current_thread]
<1>1. Running("create")
  BY DEF create_publish, create_no_slot
<1>2. CoreShape /\ Live /\ LiveInv(held)
  BY <1>1, Zenon DEF CoreInv, Running, Live, Sound
<1>3. t \in Threads /\ t \notin handles
  <2>1. context[current_thread] = "create"
    BY <1>1, Zenon DEF Running
  <2> QED BY <1>2, <2>1, CreatingFacts
<1>4. /\ ready_queue \in Seq(Threads) /\ priority \in [Threads -> Priorities]
      /\ Sorted(ready_queue, priority) /\ t \notin Range(ready_queue)
      /\ Range(ready_queue) \subseteq Threads
  BY <1>2, <1>3, RangeOfSeq, Zenon DEF CoreShape, SchedTypeOK, LiveInv, RunnableBut, QueueSorted
<1>5. priority' = [priority EXCEPT ![t] = THREAD_DEFAULT_PRIORITY]
  BY Zenon DEF create_publish, create_no_slot, InitFields
<1> HIDE DEF t
<1>6. priority' \in [Threads -> Int] /\ \A s \in Range(ready_queue) : priority'[s] = priority[s]
  BY <1>4, <1>5, PrioritiesInt, SchedulerAssumption, Zenon
<1>7. Sorted(ready_queue, priority')
  BY <1>4, <1>6, SortedSame
<1>8. CASE create_publish
  <2>1. ready_queue' = thread_scheduler_enqueue(ready_queue, t, priority')
    BY <1>8, Zenon DEF create_publish, t
  <2> QED BY <1>3, <1>4, <1>6, <1>7, <2>1, EnqueueSorted, Zenon
<1>9. CASE create_no_slot
  BY <1>7, <1>9, Zenon DEF create_no_slot
<1> QED BY <1>8, <1>9

\* An exit enqueues the joiner, whatever it does, and takes the head.
LEMMA ExitSorted ==
  ASSUME CoreShape, QueueSorted, thread_exit
  PROVE  QueueSorted'
<1> SUFFICES ASSUME PRIO PROVE Sorted(ready_queue', priority)
  BY DEF QueueSorted, thread_exit
<1> DEFINE woken == WakeJoiner(current_thread)
           joiner == joined_by[current_thread]
<1>1. /\ ready_queue \in Seq(Threads) /\ priority \in [Threads -> Int]
      /\ Sorted(ready_queue, priority) /\ joiner \in Threads \cup {NULL}
  BY PrioritiesInt, Zenon DEF CoreShape, SchedTypeOK, QueueSorted
<1>2. woken.rq \in Seq(Threads) /\ Sorted(woken.rq, priority)
  <2>1. CASE joiner = NULL
    BY <1>1, <2>1 DEF WakeJoiner
  <2>2. CASE joiner # NULL
    <3>1. woken.rq = thread_scheduler_enqueue(ready_queue, joiner, priority)
      BY <2>2, Zenon DEF WakeJoiner
    <3> QED BY <1>1, <2>2, <3>1, EnqueueRange, EnqueueSorted
  <2> QED BY <2>1, <2>2
<1>3. \/ woken.rq # <<>> /\ ready_queue' = Tail(woken.rq)
      \/ ready_queue' = ready_queue
  BY Zenon DEF thread_exit
<1> HIDE DEF woken
<1> QED BY <1>1, <1>2, <1>3, TailSorted, Zenon

\* Every step of the lifecycle keeps the queue sorted.
LEMMA CoreNextSorted ==
  ASSUME NEW held, CoreInv(held), QueueSorted, [CoreNext]_core_vars
  PROVE  QueueSorted'
<1>1. CoreShape /\ SchedTypeOK
  BY DEF CoreInv, CoreShape
<1>2. CASE create_publish \/ create_no_slot
  BY <1>2, CreateSorted, Zenon
<1>3. CASE thread_exit
  BY <1>1, <1>3, ExitSorted, Zenon
<1>4. CASE create_retry \/ yield
  <2>1. \E resume \in {"create", "user"} : thread_yield(resume)
    BY <1>4 DEF create_retry, yield
  <2> QED BY <1>1, <2>1, YieldSorted, Zenon
<1>5. CASE yield_to
  BY <1>1, <1>5, YieldToSorted DEF yield_to
<1>6. CASE set_priority
  <2>1. PICK t \in handles, p \in Priorities : thread_set_priority(t, p)
    BY <1>6, Zenon DEF set_priority
  <2>2. LiveInv(held)
    BY <1>6, Zenon DEF CoreInv, set_priority, Running, Live, Sound
  <2>3. CpuOK
    BY <1>1, <2>2, RunnableCpu, Zenon DEF LiveInv
  <2>4. t \in Threads /\ p \in Int
    BY <1>1, <2>1, SchedulerAssumption DEF CoreShape, Priorities
  <2> QED BY <1>1, <2>1, <2>3, <2>4, SetPrioritySorted, Zenon
<1>7. ASSUME NEW target \in Threads, join_block(target)
      PROVE  QueueSorted'
  <2>1. ready_queue # <<>> /\ ready_queue' = Tail(ready_queue) /\ priority' = priority
    BY <1>7 DEF join_block, BlockAndSwitch
  <2> QED BY <1>1, <2>1, TailSorted, Zenon DEF QueueSorted, SchedTypeOK
<1>8. ASSUME UNCHANGED <<ready_queue, priority>>
      PROVE  QueueSorted'
  BY <1>8, Zenon DEF QueueSorted
<1>9. ASSUME NEW target \in Threads, join_terminated(target) \/ join_abort(target)
      PROVE  UNCHANGED <<ready_queue, priority>>
  BY <1>9, Zenon DEF join_terminated, join_abort, sched_vars
<1>10. ASSUME \/ thread_create \/ create_fail \/ join_resume \/ main_return \/ cleanup_ctx
              \/ exit_pool_free \/ exit_cleanup \/ ended \/ UNCHANGED core_vars
       PROVE  UNCHANGED <<ready_queue, priority>>
  BY <1>10, Zenon DEF thread_create, create_fail, join_resume, main_return, cleanup_ctx, exit_pool_free,
               exit_cleanup, ended, core_vars, sched_vars
<1> QED BY <1>2, <1>3, <1>4, <1>5, <1>6, <1>7, <1>8, <1>9, <1>10, Zenon DEF CoreNext

(* Under PRIO the ready queue is sorted at every moment, although it is    *)
(* never sorted again after a change of priorities (scheduler.c:39-57,     *)
(* 95-108).                                                                *)
THEOREM CoreQueueSorted == CoreSpec => []QueueSorted
<1>1. CoreInit => QueueSorted
  BY DEF CoreInit, QueueSorted, Sorted
<1>2. CoreInv({}) /\ QueueSorted /\ [CoreNext]_core_vars => QueueSorted'
  BY CoreNextSorted
<1> QED BY <1>1, <1>2, CoreInvariant, PTL DEF CoreSpec

-----------------------------------------------------------------------------
(* Stacks.                                                                 *)

\* A join that waits, or gives up, neither allocates nor releases nor ends
\* anybody.
LEMMA WaitFrame ==
  ASSUME NEW held, CoreInv(held), NEW target \in Threads, join_block(target) \/ join_abort(target)
  PROVE  /\ UNCHANGED mem_vars
         /\ \A t \in handles : state'[t] = "TERMINATED" <=> state[t] = "TERMINATED"
<1>1. CASE join_block(target)
  <2>1. CoreShape /\ LiveInv(held)
    BY <1>1, Zenon DEF CoreInv, join_block, join_link, Joinable, Running, Live, Sound
  <2>2. BlockAndSwitch("join") /\ UNCHANGED mem_vars /\ UNCHANGED handles
    BY <1>1, Zenon DEF join_block, mem_vars
  <2> QED BY <2>1, <2>2, BlockStates, Zenon
<1>2. CASE join_abort(target)
  BY <1>2, Zenon DEF join_abort, sched_vars
<1> QED BY <1>1, <1>2, Zenon

\* The steps that neither allocate nor release, and end nobody.
LEMMA QuietFrame ==
  ASSUME CoreInv({}),
         \/ yield \/ yield_to \/ set_priority
         \/ \E target \in Threads : join_block(target) \/ join_abort(target)
  PROVE  /\ UNCHANGED mem_vars
         /\ \A t \in handles : state'[t] = "TERMINATED" <=> state[t] = "TERMINATED"
<1>1. CASE yield \/ yield_to \/ set_priority
  BY <1>1, SchedulingFrame, Zenon
<1>2. CASE \E target \in Threads : join_block(target) \/ join_abort(target)
  BY <1>2, WaitFrame, Zenon
<1> QED BY <1>1, <1>2, Zenon

\* The end of main and the destructors leave no thread running
\* (thread.c:219-220, thread_gc.c:93-114).
LEMMA EndNotLive ==
  ASSUME main_return \/ cleanup_ctx \/ exit_pool_free \/ exit_cleanup
  PROVE  ~Live'
  BY Zenon DEF main_return, cleanup_ctx, exit_pool_free, exit_cleanup, Live

\* Every step of the lifecycle keeps every stack with one owner.
LEMMA CoreNextStack ==
  ASSUME CoreInv({}), StackInv, [CoreNext]_core_vars
  PROVE  StackInv'
<1>1. CASE thread_create \/ create_retry \/ create_fail
  BY <1>1, CreateStack
<1>2. CASE create_publish
  BY <1>2, PublishStack
<1>3. CASE create_no_slot
  BY <1>3, NoSlotStack
<1>4. CASE thread_exit
  BY <1>4, ExitStack DEF StackInv, Live, Sound
<1>5. CASE (\E target \in Threads : join_terminated(target)) \/ join_resume
  BY <1>5, JoinStack, Zenon
<1>6. CASE \/ yield \/ yield_to \/ set_priority
           \/ \E target \in Threads : join_block(target) \/ join_abort(target)
  <2>1. StackOK
    BY <1>6, Zenon DEF StackInv, Live, Sound, Running, yield, yield_to, set_priority, join_block, join_abort,
                join_link, Joinable
  <2>2. /\ UNCHANGED <<handles, stack_map, mapped, stack_pool, deferred_stacks>>
        /\ \A t \in handles : state[t] = "TERMINATED" => state'[t] = "TERMINATED"
    BY <1>6, QuietFrame, Zenon DEF mem_vars
  <2> QED BY <2>1, <2>2, StackFrame, Zenon DEF StackInv
<1>7. CASE main_return \/ cleanup_ctx \/ exit_pool_free \/ exit_cleanup
  BY <1>7, EndNotLive, Zenon DEF StackInv
<1>8. CASE UNCHANGED core_vars
  BY <1>8, StackFrame, Zenon DEF StackInv, Live, Sound, core_vars, mem_vars, sched_vars
<1> QED BY <1>1, <1>2, <1>3, <1>4, <1>5, <1>6, <1>7, <1>8 DEF CoreNext, ended

\* The state at the start of main.
LEMMA CoreInitStack ==
  ASSUME CoreInit
  PROVE  StackInv
<1>1. main_thread \in Threads /\ Len(<<>>) = 0 /\ 0 <= MAX_POOLED_STACKS
  BY SchedulerAssumption, CoreAssumption
<1>2. Range(<<>>) = {} /\ IsInjective(<<>>)
  BY DEF Range, IsInjective
<1>3. Owners = {}
  BY <1>1, Zenon DEF CoreInit, Owners
<1> QED BY <1>1, <1>2, <1>3 DEF CoreInit, StackInv, StackOK

LEMMA StackOwned ==
  ASSUME NEW held, CoreInv(held), StackInv
  PROVE  StackOwnership
<1> SUFFICES ASSUME Live PROVE StackOwnership
  BY Zenon DEF StackOwnership
<1>1. StackOK /\ stack_pool \in Seq(Stacks) /\ deferred_stacks \in Seq(Stacks)
  BY DEF CoreInv, StackInv, CoreShape
<1>2. Range(stack_pool \o deferred_stacks) = Range(stack_pool) \cup Range(deferred_stacks)
  BY <1>1, ConcatRange
<1>3. IsInjective(stack_pool \o deferred_stacks)
  BY <1>1, ConcatInjective, Zenon DEF StackOK
<1> QED BY <1>1, <1>2, <1>3, Zenon DEF StackOwnership, StackOK

(* Every mapped stack has exactly one owner at every moment, and every     *)
(* thread that can still run has one: no two threads share a stack, and    *)
(* none is pushed twice or lost, whatever the sizes of the pools           *)
(* (thread.c:65-66, 80-82, 347-357, 499-503).                              *)
THEOREM CoreStackOwnership == CoreSpec => []StackOwnership
<1>1. CoreInv({}) /\ StackInv => StackOwnership
  BY StackOwned
<1> QED BY <1>1, CoreInitStack, CoreNextStack, CoreInvariant, PTL DEF CoreSpec

-----------------------------------------------------------------------------
(* The claim of terminated threads and the heads of the join chains.       *)

\* A join that blocks makes one more thread awaited, and it is still alive.
LEMMA JoinBlockClaim ==
  ASSUME NEW held, CoreInv(held), ClaimInv, NEW target \in Threads, join_block(target)
  PROVE  ClaimInv'
<1>1. CoreShape /\ LiveInv(held) /\ ClaimOK
  BY Zenon DEF CoreInv, ClaimInv, join_block, join_link, Joinable, Running, Live, Sound
<1>2. /\ target \in handles /\ state[target] # "TERMINATED" /\ context[current_thread] = "user"
      /\ current_thread \in handles /\ current_thread \in Threads /\ handles \subseteq Threads
  BY <1>1, LinkFacts, Zenon DEF join_block
<1>3. /\ context' = [context EXCEPT ![current_thread] = "join"]
      /\ waiting_for' = [waiting_for EXCEPT ![current_thread] = target]
      /\ UNCHANGED <<handles, zombie_queue>>
  BY DEF join_block, BlockAndSwitch, mem_vars
<1>4. \A t \in handles : state'[t] = "TERMINATED" <=> state[t] = "TERMINATED"
  BY WaitFrame, Zenon
<1>5. \A x \in Threads \ {current_thread} : context'[x] = context[x] /\ waiting_for'[x] = waiting_for[x]
  BY <1>1, <1>3, Zenon DEF CoreShape
<1>6. context'[current_thread] = "join" /\ waiting_for'[current_thread] = target
  BY <1>1, <1>2, <1>3, Zenon DEF CoreShape
<1>7. \A t \in handles \ {target} : Awaited(t)' <=> Awaited(t)
  BY <1>2, <1>3, <1>5, <1>6, Zenon DEF Awaited
<1>8. target \notin Range(zombie_queue)
  BY <1>1, <1>2, Zenon DEF LiveInv, ZombieOK
<1>9. ClaimOK'
  BY <1>1, <1>2, <1>3, <1>4, <1>7, <1>8 DEF ClaimOK
<1> QED BY <1>9, Zenon DEF ClaimInv

\* Every step keeps a terminated thread in exactly one pair of hands.
LEMMA CoreNextClaim ==
  ASSUME CoreInv({}), context \in [Threads -> Contexts \ {"sigwait"}], ClaimInv,
         [CoreNext]_core_vars
  PROVE  ClaimInv'
<1>1. CASE thread_create \/ create_publish \/ create_no_slot \/ create_retry \/ create_fail
  BY <1>1, CreateClaim
<1>2. CASE thread_exit
  BY <1>2, ExitClaim, Zenon DEF ClaimInv, Live, Sound
<1>3. CASE (\E target \in Threads : join_terminated(target)) \/ join_resume
  BY <1>3, JoinClaim
<1>4. CASE \E target \in Threads : join_block(target)
  BY <1>4, JoinBlockClaim, Zenon
<1>5. CASE yield \/ yield_to \/ set_priority \/ \E target \in Threads : join_abort(target)
  <2>1. ClaimOK
    BY <1>5, Zenon DEF ClaimInv, Live, Sound, Running, yield, yield_to, set_priority, join_abort,
                join_link, Joinable
  <2>2. UNCHANGED <<handles, zombie_queue>> /\ \A t \in handles : state'[t] = "TERMINATED" <=> state[t] = "TERMINATED"
    BY <1>5, QuietFrame, Zenon DEF mem_vars
  <2>3. UNCHANGED <<context, waiting_for>>
    BY <1>5, SchedulingFrame, Zenon DEF join_abort, join_vars, sched_vars
  <2> QED BY <2>1, <2>2, <2>3, ClaimFrame, Zenon DEF ClaimInv
<1>6. CASE main_return \/ cleanup_ctx \/ exit_pool_free \/ exit_cleanup
  BY <1>6, EndNotLive, Zenon DEF ClaimInv
<1>7. CASE UNCHANGED core_vars
  BY <1>7, ClaimFrame, Zenon DEF ClaimInv, Live, Sound, core_vars, mem_vars, sched_vars, join_vars
<1> QED BY <1>1, <1>2, <1>3, <1>4, <1>5, <1>6, <1>7, Zenon DEF CoreNext, ended

LEMMA CoreInitClaim ==
  ASSUME CoreInit
  PROVE  ClaimInv /\ UnjoinedIsHead
BY SchedulerAssumption DEF CoreInit, ClaimInv, ClaimOK, UnjoinedIsHead, HeadOK

(* The zombie queue holds exactly the terminated threads nobody waits for. *)
THEOREM CoreClaims == CoreSpec => []ClaimInv
<1>1. CoreInv({}) /\ CoreTypeOK /\ ClaimInv /\ [CoreNext]_core_vars => ClaimInv'
  BY CoreNextClaim DEF CoreTypeOK
<1> QED BY <1>1, CoreInitClaim, CoreInvariant, CoreTypeCorrect, PTL DEF CoreSpec

\* A terminated thread that is not a zombie is awaited, and by nobody but its
\* registered joiner.
LEMMA OneKeeper ==
  ASSUME CoreInv({}), ClaimInv
  PROVE  TerminatedHasOneKeeper
<1>1. ASSUME Live, NEW t \in handles \ {main_thread},
             state[t] = "TERMINATED", t \notin Range(zombie_queue)
      PROVE  JoinerKeeps(t)
  <2>1. CoreShape /\ JoinOK /\ ClaimOK /\ handles \subseteq Threads
    BY <1>1, Zenon DEF CoreInv, LiveInv, ClaimInv, CoreShape
  <2>2. PICK j \in handles : context[j] = "join" /\ waiting_for[j] = t
    BY <1>1, <2>1, Zenon DEF ClaimOK, Awaited
  <2>3. joined_by[t] = j /\ state[j] # "BLOCKED"
    BY <1>1, <2>1, <2>2, Zenon DEF JoinOK
  <2>4. Joiners(t) = {j}
    <3>1. \A k \in handles : context[k] = "join" /\ waiting_for[k] = t => k = j
      <4>1. \A k \in handles : context[k] = "join" => joined_by[waiting_for[k]] = k
        BY <2>1, Zenon DEF JoinOK
      <4> QED BY <2>3, <4>1, SMT
    <3> QED BY <2>2, <3>1, SMT DEF Joiners
  <2>5. state[j] # "TERMINATED"
    <3>1. ContextOK /\ j \in Threads /\ "user" # "join"
      BY <1>1, <2>1, Zenon DEF CoreInv, LiveInv
    <3> QED BY <2>2, <3>1, Zenon DEF ContextOK
  <2>6. state[j] \in {"READY", "RUNNING"}
    <3>1. state[j] \in {"RUNNING", "READY", "BLOCKED", "TERMINATED"}
      BY <2>1, Zenon DEF CoreShape, SchedTypeOK, States
    <3> QED BY <2>3, <2>5, <3>1, Zenon
  <2> QED BY <1>1, <2>3, <2>4, <2>6, Zenon DEF JoinerKeeps
<1>2. ASSUME Live, NEW t \in handles \ {main_thread}, t \in Range(zombie_queue)
      PROVE  ZombieKeeps(t)
  BY <1>2, Zenon DEF ClaimInv, ClaimOK, Awaited, ZombieKeeps, Joiners
<1> QED BY <1>1, <1>2, Zenon DEF TerminatedHasOneKeeper

(* A terminated thread has exactly one keeper: the zombie queue, or the    *)
(* one joiner, registered and runnable, that is on its way back to claim   *)
(* it (thread.c:345-357, 515-523).                                         *)
THEOREM CoreOneKeeper == CoreSpec => []TerminatedHasOneKeeper
BY OneKeeper, CoreInvariant, CoreClaims, PTL

\* The joiner enters the chain of its target, and becomes its head if the
\* target was.  Nobody else who is head by then has no joiner.
LEMMA LinkHead ==
  ASSUME CoreInv({}), UnjoinedIsHead, NEW target \in Threads, join_link(target), UNCHANGED handles
  PROVE  UnjoinedIsHead'
<1> DEFINE c == current_thread
           slot == head_joiner[target]
<1>1. CoreShape /\ LiveInv({}) /\ HeadOK
  BY Zenon DEF CoreInv, UnjoinedIsHead, join_link, Joinable, Running, Live, Sound
<1>2. /\ target \in handles /\ target # c /\ c \in Threads /\ handles \subseteq Threads
      /\ joined_by'[target] = c /\ \A u \in Threads \ {target} : joined_by'[u] = joined_by[u]
  BY <1>1, LinkFacts, Zenon
<1>3. /\ joined_by[target] = NULL /\ slot # 0
      /\ head_joiner' = [head_joiner EXCEPT ![c] = slot]
      /\ head_ref' = IF target_is_head(target) THEN [head_ref EXCEPT ![slot] = c] ELSE head_ref
  BY Zenon DEF join_link, Joinable
<1>4. head_ref[slot] = target /\ head_ref' = [head_ref EXCEPT ![slot] = c]
  BY <1>1, <1>2, <1>3, Zenon DEF HeadOK, target_is_head
<1>5. /\ head_joiner \in [Threads -> 0..Len(head_ref)] /\ head_ref \in Seq(Threads)
      /\ DOMAIN head_ref = 1..Len(head_ref) /\ Len(head_ref) \in Nat
      /\ slot \in DOMAIN head_ref
  <2>1. head_joiner \in [Threads -> 0..Len(head_ref)] /\ head_ref \in Seq(Threads)
    BY <1>1, Zenon DEF CoreShape
  <2>2. DOMAIN head_ref = 1..Len(head_ref) /\ Len(head_ref) \in Nat
    BY <2>1, LenProperties, Zenon
  <2> QED BY <1>3, <2>1, <2>2
<1>6. head_joiner'[c] = slot /\ \A u \in Threads \ {c} : head_joiner'[u] = head_joiner[u]
  BY <1>2, <1>3, <1>5, Zenon
<1>7. head_ref'[slot] = c /\ \A i \in DOMAIN head_ref \ {slot} : head_ref'[i] = head_ref[i]
  BY <1>4, <1>5, Zenon
<1> HIDE DEF c, slot
<1>8. ASSUME NEW u \in handles, head_joiner'[u] # 0, joined_by'[u] = NULL
      PROVE  head_ref'[head_joiner'[u]] = u
  <2>1. CASE u = c
    BY <1>6, <1>7, <2>1, Zenon
  <2>2. CASE u # c
    <3>1. u # target
      BY <1>2, <1>8, SchedulerAssumption, Zenon
    <3>2. joined_by[u] = NULL /\ head_joiner'[u] = head_joiner[u] /\ head_joiner[u] # 0
      BY <1>2, <1>6, <1>8, <2>2, <3>1, Zenon
    <3>3. head_ref[head_joiner[u]] = u
      BY <1>1, <3>2, Zenon DEF HeadOK, target_is_head
    <3>4. head_joiner[u] # slot
      BY <1>4, <3>1, <3>3, Zenon
    <3>5. head_joiner[u] \in DOMAIN head_ref
      BY <1>2, <1>5, <3>2
    <3> QED BY <1>7, <3>2, <3>3, <3>4, <3>5, Zenon
  <2> QED BY <2>1, <2>2, Zenon
<1> QED BY <1>8, Zenon DEF UnjoinedIsHead, HeadOK, target_is_head

\* Every step keeps the unjoined threads at the head of their chains.
LEMMA CoreNextHead ==
  ASSUME CoreInv({}), UnjoinedIsHead, [CoreNext]_core_vars
  PROVE  UnjoinedIsHead'
<1>1. CASE thread_create \/ create_publish \/ create_no_slot \/ create_retry \/ create_fail
  BY <1>1, CreateHead, Zenon
<1>2. CASE (\E target \in Threads : join_terminated(target)) \/ join_resume
  BY <1>2, JoinHead, Zenon
<1>3. ASSUME NEW target \in Threads, join_block(target) \/ join_abort(target)
      PROVE  UnjoinedIsHead'
  BY <1>3, LinkHead, Zenon DEF join_block, join_abort, mem_vars
<1>4. CASE thread_exit \/ yield \/ yield_to \/ set_priority
  <2>1. HeadOK
    BY <1>4, Zenon DEF UnjoinedIsHead, Live, Sound, Running, thread_exit, yield, yield_to, set_priority
  <2>2. UNCHANGED <<handles, joined_by, head_joiner, head_ref>>
    BY <1>4, Zenon DEF thread_exit, yield, yield_to, set_priority, mem_vars, join_vars
  <2> QED BY <2>1, <2>2, HeadFrame, Zenon DEF UnjoinedIsHead
<1>5. CASE main_return \/ cleanup_ctx \/ exit_pool_free \/ exit_cleanup
  BY <1>5, EndNotLive, Zenon DEF UnjoinedIsHead
<1>6. CASE UNCHANGED core_vars
  BY <1>6, HeadFrame DEF UnjoinedIsHead, Live, Sound, core_vars, mem_vars, join_vars
<1> QED BY <1>1, <1>2, <1>3, <1>4, <1>5, <1>6, Zenon DEF CoreNext, ended

(* A thread nobody has joined is the head of its join chain, so the second *)
(* branch of thread.c:464-470 is never taken.                              *)
THEOREM CoreUnjoinedIsHead == CoreSpec => []UnjoinedIsHead
BY CoreInitClaim, CoreNextHead, CoreInvariant, PTL DEF CoreSpec

-----------------------------------------------------------------------------
(* What is left at the end of the process.                                 *)

\* While threads run, everything allocated is within reach of a thread that
\* has not terminated, of a queue or of a pool.
LEMMA ReachableMemory ==
  ASSUME CoreShape, ContextOK, OwnOK, StackOK, ClaimOK
  PROVE  /\ heap \subseteq Held \cup {newth[t] : t \in Alive}
                                \cup Range(thread_pool) \cup Range(zombie_queue)
         /\ mapped \subseteq {stack_map[t] : t \in Held \cup Range(zombie_queue)}
                                \cup Range(stack_pool) \cup Range(deferred_stacks)
<1>1. \A t \in handles \ {main_thread} : t \in Held \cup Range(zombie_queue)
  <2> SUFFICES ASSUME NEW t \in handles \ {main_thread}, t \notin Range(zombie_queue),
                      state[t] = "TERMINATED"
               PROVE  t \in Held
    BY Zenon DEF Held, Alive
  <2>1. PICK j \in handles : context[j] = "join" /\ waiting_for[j] = t
    BY Zenon DEF ClaimOK, Awaited
  <2>2. j \in Alive
    BY <2>1, Zenon DEF ContextOK, CoreShape, Alive
  <2>3. t # NULL
    BY SchedulerAssumption, Zenon DEF CoreShape
  <2> QED BY <2>1, <2>2, <2>3, Zenon DEF Held
<1>2. \A u \in Threads : newth[u] # NULL => u \in Alive
  BY Zenon DEF ContextOK, Alive
<1>3. heap \subseteq Held \cup {newth[t] : t \in Alive} \cup Range(thread_pool) \cup Range(zombie_queue)
  <2> SUFFICES ASSUME NEW t \in heap, t \notin Range(thread_pool), t \notin Range(zombie_queue),
                      t \notin Held
               PROVE  t \in {newth[u] : u \in Alive}
    OBVIOUS
  <2>1. t \in Threads /\ t # NULL
    BY SchedulerAssumption, Zenon DEF CoreShape
  <2>2. PICK u \in Threads : newth[u] = t
    BY <1>1, <2>1, Zenon DEF OwnOK
  <2> QED BY <1>2, <2>1, <2>2, Zenon
<1>4. \A t \in Owners : t \in handles \ {main_thread}
  BY Zenon DEF StackOK, Owners
<1>5. mapped = Range(stack_pool) \cup Range(deferred_stacks) \cup {stack_map[t] : t \in Owners}
  BY Zenon DEF StackOK
<1> QED BY <1>1, <1>3, <1>4, <1>5, Zenon

LEMMA ReachableLeak ==
  /\ CoreShape /\ ContextOK /\ OwnOK /\ StackOK /\ ClaimOK
  /\ process \in {"running", "cleanup_ctx"}
  => LeakOK
BY ReachableMemory DEF LeakOK, StackOK

\* The same of the state after a step.
LEMMA ReachableLeakNext ==
  (/\ CoreShape /\ ContextOK /\ OwnOK /\ StackOK /\ ClaimOK
   /\ process \in {"running", "cleanup_ctx"}
   => LeakOK)'
BY ReachableLeak, PTL

\* The last thread exits: nobody is left to claim its struct but the cleanup.
LEMMA ExitLeak ==
  ASSUME CoreInv({}), CoreInv({})', CoreTypeOK, StackInv, ClaimInv, thread_exit,
         mis_woken' = {}, process' = "cleanup_ctx"
  PROVE  LeakOK'
<1>1. /\ LiveInv({}) /\ context[current_thread] = "user" /\ current_thread \in handles
      /\ handles \subseteq Threads
      /\ \A x \in handles : state'[x] = "TERMINATED" <=> state[x] = "TERMINATED" \/ x = current_thread
  BY ExitStates, ZenonT(30)
<1>2. UNCHANGED <<context, handles, heap, thread_pool, newth, waiting_for>>
  BY Zenon DEF thread_exit, join_vars
<1>3. ContextOK' /\ OwnOK'
  <2>1. ContextOK'
    BY <1>1, <1>2, Zenon DEF LiveInv, ContextOK
  <2>2. OwnOK'
    BY <1>1, <1>2 DEF LiveInv, OwnOK
  <2> QED BY <2>1, <2>2, Zenon
<1>4. StackOK'
  BY ExitStack
<1>5. ClaimOK'
  <2>1. context \in [Threads -> Contexts \ {"sigwait"}]
    BY DEF CoreTypeOK
  <2> QED BY <2>1, ExitClaim
<1>6. CoreShape'
  BY Zenon DEF CoreInv
<1> QED BY <1>3, <1>4, <1>5, <1>6, ReachableLeakNext, Zenon

\* do_final_cleanup releases the zombies with their stacks, and the pool.
LEMMA CleanupLeak ==
  ASSUME LeakOK, do_final_cleanup, process' \in {"exit", "exited"},
         process' = "exited" => process = "exit_cleanup",
         UNCHANGED <<sched_vars, handles, thread_pool, newth, stack_map, deferred_stacks, join_vars>>
  PROVE  LeakOK'
<1>1. UNCHANGED <<state, handles, thread_pool, newth, stack_map, deferred_stacks, waiting_for>>
  BY Zenon DEF sched_vars, join_vars
<1>2. Alive' = Alive /\ Held' = Held
  BY <1>1, Zenon DEF Alive, Held
<1>3. /\ heap' = heap \ Range(zombie_queue) /\ zombie_queue' = <<>> /\ stack_pool' = <<>>
      /\ mapped' = mapped \ (Range(stack_pool) \cup {stack_map[t] : t \in Range(zombie_queue)})
  BY Zenon DEF do_final_cleanup
<1>4. heap' \subseteq Held' \cup {newth'[t] : t \in Alive'} \cup Range(thread_pool')
  BY <1>1, <1>2, <1>3, Zenon DEF LeakOK
<1>5. mapped' \subseteq {stack_map'[t] : t \in Held'} \cup Range(deferred_stacks')
  BY <1>1, <1>2, <1>3, Zenon DEF LeakOK
<1>6. Len(stack_pool') <= MAX_POOLED_STACKS
  BY <1>3, CoreAssumption
<1>7. process' \in {"exit_cleanup", "exited"} => thread_pool' = <<>> /\ deferred_stacks' = <<>>
  BY <1>1, Zenon DEF LeakOK
<1> QED BY <1>3, <1>4, <1>5, <1>6, <1>7, Zenon DEF LeakOK

\* thread_pool_free_all: the deferred stacks go to the pool or are unmapped.
LEMMA PoolFreeLeak ==
  ASSUME CoreShape, LeakOK, exit_pool_free
  PROVE  LeakOK'
<1> DEFINE ss == Reverse(deferred_stacks)
<1>1. UNCHANGED <<state, handles, newth, stack_map, zombie_queue, waiting_for>>
  BY Zenon DEF exit_pool_free, sched_vars, join_vars
<1>2. Alive' = Alive /\ Held' = Held
  BY <1>1, Zenon DEF Alive, Held
<1>3. /\ heap' = heap \ Range(thread_pool) /\ thread_pool' = <<>> /\ deferred_stacks' = <<>>
      /\ stack_pool_push(ss) /\ process' = "exit_cleanup"
  BY Zenon DEF exit_pool_free, thread_pool_free_all, reclaim_deferred_stacks_all
<1>4. ss \in Seq(Stacks) /\ Range(ss) = Range(deferred_stacks)
  BY ReverseSeq, ReverseRange, Zenon DEF CoreShape
<1> HIDE DEF ss
<1>5. /\ Len(stack_pool') <= MAX_POOLED_STACKS /\ Range(stack_pool) \subseteq Range(stack_pool')
      /\ mapped' \subseteq mapped
      /\ \A s \in Range(ss) : s \in Range(stack_pool') \/ s \notin mapped'
  BY <1>3, <1>4, PushRange, Zenon DEF CoreShape, LeakOK
<1>6. heap' \subseteq Held' \cup {newth'[t] : t \in Alive'} \cup Range(zombie_queue')
  BY <1>1, <1>2, <1>3, Zenon DEF LeakOK
<1>7. mapped' \subseteq {stack_map'[t] : t \in Held' \cup Range(zombie_queue')} \cup Range(stack_pool')
  BY <1>1, <1>2, <1>4, <1>5 DEF LeakOK
<1> QED BY <1>3, <1>5, <1>6, <1>7, Zenon DEF LeakOK

LEMMA CoreNextLeak ==
  ASSUME CoreInv({}), CoreInv({})', CoreTypeOK, StackInv, StackInv', ClaimInv,
         ClaimInv', LeakInv, [CoreNext]_core_vars
  PROVE  LeakInv'
<1> SUFFICES ASSUME Sound' PROVE LeakOK'
  BY DEF LeakInv
<1>1. CASE process' = "running"
  <2>1. Live' /\ CoreShape' /\ ContextOK' /\ OwnOK' /\ StackOK' /\ ClaimOK'
    BY <1>1 DEF CoreInv, LiveInv, StackInv, ClaimInv, Live
  <2> QED BY <1>1, <2>1, ReachableLeakNext
<1>2. CASE thread_exit /\ process' = "cleanup_ctx"
  BY <1>2, ExitLeak, Zenon DEF Sound
<1>3. CASE UNCHANGED <<sched_vars, mem_vars, join_vars>> /\ LeakOK /\ process' \in {"exit", process}
  <2>1. UNCHANGED <<state, handles, heap, thread_pool, newth, stack_map, mapped, stack_pool,
                    deferred_stacks, zombie_queue, waiting_for>>
    BY <1>3, Zenon DEF sched_vars, mem_vars, join_vars
  <2>2. Alive' = Alive /\ Held' = Held
    BY <2>1, Zenon DEF Alive, Held
  <2>3. /\ heap' \subseteq Held \cup {newth[t] : t \in Alive}
                             \cup Range(thread_pool) \cup Range(zombie_queue)
        /\ mapped' \subseteq {stack_map[t] : t \in Held \cup Range(zombie_queue)}
                              \cup Range(stack_pool) \cup Range(deferred_stacks)
    BY <1>3, <2>1, Zenon DEF LeakOK
  <2>4. /\ Len(stack_pool') <= MAX_POOLED_STACKS
        /\ process' \in {"exit_cleanup", "exited"} => thread_pool' = <<>> /\ deferred_stacks' = <<>>
        /\ process' = "exited" => zombie_queue' = <<>> /\ stack_pool' = <<>>
    BY <1>3, <2>1 DEF LeakOK
  <2> QED BY <2>1, <2>2, <2>3, <2>4 DEF LeakOK
<1>4. CASE main_return
  BY <1>3, <1>4, Zenon DEF main_return, Running, LeakInv, Sound
<1>5. CASE cleanup_ctx
  BY <1>5, CleanupLeak, Zenon DEF cleanup_ctx, LeakInv, Sound
<1>6. CASE exit_pool_free
  BY <1>6, PoolFreeLeak, Zenon DEF exit_pool_free, LeakInv, Sound, CoreInv
<1>7. CASE exit_cleanup
  BY <1>7, CleanupLeak DEF exit_cleanup, LeakInv, Sound
<1>8. CASE UNCHANGED core_vars
  BY <1>3, <1>8, Zenon DEF core_vars, LeakInv, Sound
<1>9. ASSUME \/ thread_create \/ create_publish \/ create_no_slot \/ create_retry \/ create_fail
             \/ join_resume \/ yield \/ yield_to \/ set_priority
      PROVE  process' = "running"
  BY <1>9, Zenon DEF thread_create, create_publish, create_no_slot, create_retry, create_fail, join_resume,
              yield, yield_to, set_priority, Running
<1>10. ASSUME NEW target \in Threads,
              join_terminated(target) \/ join_block(target) \/ join_abort(target)
       PROVE  process' = "running"
  BY <1>10, Zenon DEF join_terminated, join_block, join_abort, join_link, Joinable, Running
<1>11. ASSUME thread_exit PROVE process' \in {"running", "cleanup_ctx"}
  BY <1>11, Zenon DEF thread_exit, Running
<1> QED BY <1>1, <1>2, <1>4, <1>5, <1>6, <1>7, <1>8, <1>9, <1>10, <1>11, Zenon DEF CoreNext, ended

(* When the process has ended, what is still allocated belongs to a thread *)
(* that had not terminated or to a call it was in: the two clean-ups, in   *)
(* whichever order the ways to exit run them, release everything else      *)
(* (thread_gc.c:61-114).                                                   *)
THEOREM CoreNothingLeaks == CoreSpec => []NothingLeaksAtExit
<1>1. CoreInit => LeakInv
  BY SchedulerAssumption, CoreAssumption DEF CoreInit, LeakInv, LeakOK
<1>2. LeakInv => NothingLeaksAtExit
  <2>1. Range(<<>>) = {}
    BY DEF Range
  <2> QED BY <2>1, Zenon DEF LeakInv, LeakOK, NothingLeaksAtExit
<1>3. CoreSpec => []StackInv
  BY CoreInitStack, CoreNextStack, CoreInvariant, PTL DEF CoreSpec
<1> QED BY <1>1, <1>2, <1>3, CoreNextLeak, CoreInvariant, CoreTypeCorrect, CoreClaims, PTL
        DEF CoreSpec
=============================================================================
