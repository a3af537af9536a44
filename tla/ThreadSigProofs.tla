--------------------------- MODULE ThreadSigProofs ---------------------------
(***************************************************************************)
(* What a step of the lifecycle leaves alone, and, on top of it, two parts *)
(* of the library for any number of threads, stacks and signals: the       *)
(* handling of stack overflows, and signals between threads, of which none *)
(* is missed, none ends another wait, and which together implement boxes   *)
(* of signals.                                                             *)
(***************************************************************************)
EXTENDS ThreadCoreProofs, ThreadOverflow, ThreadSig

-----------------------------------------------------------------------------
(* What a step of the lifecycle does to a thread that waits for a signal,  *)
(* or that has terminated: it puts nobody into thread_sigwait, takes       *)
(* nobody out, makes runnable only the one it rouses and brings back to    *)
(* life only the one it revives.                                           *)
LifecycleFrame(t, revived, roused) ==
  /\ context'[t] = "sigwait" <=> context[t] = "sigwait"
  /\ context[t] = "sigwait" /\ state'[t] = "BLOCKED" => state[t] = "BLOCKED"
  /\ Sound' => /\ state[t] = "TERMINATED" => state'[t] = "TERMINATED" \/ t = revived
               /\ context[t] = "sigwait" /\ state[t] = "BLOCKED" =>
                    state'[t] = "BLOCKED" \/ t = roused

\* The thread under construction: not yet in any call, nor known to anybody.
LEMMA NewThread ==
  ASSUME CoreInv({}), Running("create"), NEW t, t = newth[current_thread]
  PROVE  /\ t \in Threads \ handles /\ context[t] = "user" /\ t # current_thread
         /\ current_thread \in Threads
<1>1. CoreShape /\ LiveInv({})
  BY Zenon DEF CoreInv, Running, Live, Sound
<1>2. current_thread \in handles /\ current_thread \in Threads
  BY <1>1, Zenon DEF CoreShape, SchedTypeOK, LiveInv, RunnableBut
<1>3. t # NULL /\ t \in Threads \cup {NULL}
  BY <1>1, <1>2, Zenon DEF LiveInv, ContextOK, CoreShape, Running
<1>4. t \notin handles
  BY <1>1, <1>2, Zenon DEF LiveInv, OwnOK
<1> QED BY <1>1, <1>2, <1>3, <1>4, Zenon DEF LiveInv, ContextOK

\* thread_create up to the new thread's first entry into the queue.
LEMMA CreateFrame ==
  ASSUME CoreInv({}), create_publish \/ create_no_slot, NEW t \in Threads
  PROVE  LifecycleFrame(t, newth[current_thread], NULL)
<1> DEFINE n == newth[current_thread]
<1>1. /\ n \in Threads \ handles /\ context[n] = "user" /\ n # current_thread
      /\ context[current_thread] = "create" /\ current_thread \in Threads
  BY NewThread, Zenon DEF create_publish, create_no_slot, Running
<1>2. state \in [Threads -> States] /\ context \in [Threads -> Contexts]
  BY Zenon DEF CoreInv, CoreShape, SchedTypeOK
<1>3. /\ state' = [state EXCEPT ![n] = "READY"]
      /\ \/ context' = [context EXCEPT ![n] = "user", ![current_thread] = "user"]
         \/ context' = [context EXCEPT ![current_thread] = "user"]
  BY Zenon DEF create_publish, create_no_slot, InitFields
<1> HIDE DEF n
<1>4. CASE t = n
  <2>1. context'[t] = "user" /\ context[t] = "user"
    BY <1>1, <1>2, <1>3, <1>4, Zenon
  <2> QED BY <1>4, <2>1 DEF LifecycleFrame, n
<1>5. CASE t # n
  <2>1. state'[t] = state[t]
    BY <1>2, <1>3, <1>5
  <2>2. context'[t] = context[t] \/ (context'[t] = "user" /\ context[t] = "create")
    BY <1>1, <1>2, <1>3, <1>5
  <2> QED BY <2>1, <2>2 DEF LifecycleFrame
<1> QED BY <1>4, <1>5

\* thread_exit wakes one thread at most.
LEMMA ExitFrame ==
  ASSUME CoreInv({}), thread_exit, NEW t \in Threads
  PROVE  LifecycleFrame(t, NULL, joined_by[current_thread])
<1> DEFINE woken == WakeJoiner(current_thread)
<1>1. state \in [Threads -> States] /\ context[current_thread] = "user"
  BY Zenon DEF CoreInv, CoreShape, SchedTypeOK, thread_exit, Running
<1>2. woken.st[t] = "BLOCKED" => state[t] = "BLOCKED"
  BY <1>1 DEF WakeJoiner
<1>3. woken.st \in [Threads -> States]
  BY <1>1, Zenon DEF States, WakeJoiner
<1>4. /\ context' = context
      /\ \/ state' = woken.st
         \/ \E next : state' = [woken.st EXCEPT ![next] = "RUNNING"]
  BY Zenon DEF thread_exit, swap_thread
<1> HIDE DEF woken
<1>5. state'[t] = "BLOCKED" => state[t] = "BLOCKED"
  BY <1>2, <1>3, <1>4
<1>6. ASSUME Sound'
      PROVE  /\ state[t] = "TERMINATED" => state'[t] = "TERMINATED"
             /\ context[t] = "sigwait" /\ state[t] = "BLOCKED" =>
                  state'[t] = "BLOCKED" \/ t = joined_by[current_thread]
  <2>0. mis_woken' = {}
    BY <1>6, Zenon DEF Sound
  <2>1. /\ \A x \in handles : state'[x] = "TERMINATED" <=> state[x] = "TERMINATED" \/ x = current_thread
        /\ \A x \in handles : state'[x] = "BLOCKED" <=> state[x] = "BLOCKED" /\ x # joined_by[current_thread]
        /\ \A x \in Threads \ handles : state'[x] = state[x]
    BY <2>0, ExitStates
  <2> QED BY <2>1, Zenon
<1> QED BY <1>4, <1>5, <1>6, Zenon DEF LifecycleFrame

\* The other steps of the lifecycle.
LEMMA OtherFrame ==
  ASSUME CoreInv({}), NEW t \in Threads,
         \/ thread_create \/ create_retry \/ create_fail
         \/ \E target \in Threads :
              join_terminated(target) \/ join_block(target) \/ join_abort(target)
         \/ join_resume \/ yield \/ yield_to \/ set_priority
         \/ main_return \/ cleanup_ctx \/ exit_pool_free \/ exit_cleanup
         \/ UNCHANGED core_vars
  PROVE  LifecycleFrame(t, NULL, NULL)
<1>1. ASSUME Running("user") \/ Running("create") \/ Running("join")
      PROVE  /\ CoreShape /\ LiveInv({}) /\ context \in [Threads -> Contexts]
             /\ current_thread \in Threads /\ context[current_thread] # "sigwait"
  BY <1>1, Zenon DEF CoreInv, CoreShape, SchedTypeOK, Running, Live, Sound
<1>2. ASSUME UNCHANGED <<state, context>> PROVE LifecycleFrame(t, NULL, NULL)
  BY <1>2, Zenon DEF LifecycleFrame
<1>3. ASSUME state'[t] = state[t], Running("user") \/ Running("create") \/ Running("join"),
             NEW at \in {"user", "create"}, context' = [context EXCEPT ![current_thread] = at]
      PROVE  LifecycleFrame(t, NULL, NULL)
  <2>1. context'[t] = context[t] \/ (context'[t] # "sigwait" /\ context[t] # "sigwait")
    BY <1>1, <1>3
  <2> QED BY <1>3, <2>1, Zenon DEF LifecycleFrame
<1>4. CASE thread_create \/ create_fail \/ join_resume
  BY <1>3, <1>4, Zenon DEF thread_create, create_fail, join_resume
<1>5. CASE create_retry
  <2>1. /\ Running("create") /\ thread_yield("create")
        /\ context' = [context EXCEPT ![current_thread] = "create"]
    BY <1>5, Zenon DEF create_retry, thread_yield
  <2>2. CoreShape /\ LiveInv({}) /\ SchedTypeOK /\ CpuOK
    BY <1>1, <2>1, RunnableCpu, Zenon DEF LiveInv
  <2>3. Handover
    BY <2>1, <2>2, YieldHandover, Zenon
  <2>4. context' = context
    BY <1>1, <2>1 DEF Running
  <2>5. /\ \A x \in handles : /\ state'[x] = "TERMINATED" <=> state[x] = "TERMINATED"
                              /\ state'[x] = "BLOCKED" <=> state[x] = "BLOCKED"
        /\ \A x \in Threads \ handles : state'[x] = state[x]
    BY <2>2, <2>3, HandoverStates, Zenon
  <2> QED BY <2>4, <2>5, Zenon DEF LifecycleFrame
<1>6. CASE yield \/ yield_to \/ set_priority
  <2>1. /\ context' = context
        /\ \A x \in handles : /\ state'[x] = "TERMINATED" <=> state[x] = "TERMINATED"
                              /\ state'[x] = "BLOCKED" <=> state[x] = "BLOCKED"
        /\ \A x \in Threads \ handles : state'[x] = state[x]
    BY <1>6, SchedulingFrame, Zenon
  <2> QED BY <2>1, Zenon DEF LifecycleFrame
<1>7. ASSUME NEW target \in Threads, join_block(target)
      PROVE  LifecycleFrame(t, NULL, NULL)
  <2>1. /\ Running("user") /\ BlockAndSwitch("join") /\ UNCHANGED handles
        /\ context' = [context EXCEPT ![current_thread] = "join"]
    BY <1>7, Zenon DEF join_block, join_link, Joinable, BlockAndSwitch, mem_vars
  <2>2. /\ \A x \in handles : /\ state'[x] = "TERMINATED" <=> state[x] = "TERMINATED"
                              /\ state'[x] = "BLOCKED" <=> state[x] = "BLOCKED" \/ x = current_thread
        /\ \A x \in Threads \ handles : state'[x] = state[x]
    BY <1>1, <2>1, BlockStates, Zenon
  <2>3. context'[t] = context[t] \/ (t = current_thread /\ context'[t] = "join")
    BY <1>1, <2>1
  <2> QED BY <1>1, <2>1, <2>2, <2>3, Zenon DEF LifecycleFrame
<1>8. CASE \/ \E target \in Threads : join_terminated(target) \/ join_abort(target)
            \/ main_return \/ cleanup_ctx \/ exit_pool_free \/ exit_cleanup \/ UNCHANGED core_vars
  BY <1>2, <1>8, Zenon DEF join_terminated, join_abort, main_return, cleanup_ctx, exit_pool_free,
                            exit_cleanup, core_vars, sched_vars
<1> QED BY <1>4, <1>5, <1>6, <1>7, <1>8, Zenon

-----------------------------------------------------------------------------
(* Stack overflows.                                                        *)

\* The flag of a struct is that of the thread in it, and a thread that has
\* overflowed its stack is dead until the struct is used again.
OverflowInv ==
  /\ CoreInv({}) /\ StackInv /\ ClaimInv
  /\ context \in [Threads -> Contexts \ {"sigwait"}]
  /\ stack_overflow \in [Threads -> BOOLEAN] /\ victims \subseteq Threads \ {main_thread}
  /\ \A t \in Threads : stack_overflow[t] <=> t \in victims
  /\ Live => \A t \in victims : state[t] = "TERMINATED"

\* What a step does to the lifecycle, and to the terminated threads.
LEMMA OverflowFrame ==
  ASSUME OverflowInv, [OverflowNext]_overflow_vars
  PROVE  /\ CoreInv({})' /\ StackInv' /\ ClaimInv' /\ (Live' => Live)
         /\ context' \in [Threads -> Contexts \ {"sigwait"}]
         /\ Live' => \A t \in victims \cap victims' : state'[t] = "TERMINATED"
<1>1. CASE overflow_kills
  <2>1. /\ process = "running" /\ process' = "killed"
        /\ UNCHANGED <<sched_vars, mem_vars, join_vars, mis_woken>>
    BY <1>1, Zenon DEF overflow_kills, Running
  <2>2. ~Live'
    BY <2>1 DEF Live
  <2>3. CoreShape'
    BY <2>1, Zenon DEF OverflowInv, CoreInv, CoreShape, SchedTypeOK, sched_vars, mem_vars, join_vars
  <2> QED BY <2>1, <2>2, <2>3, Zenon DEF OverflowInv, CoreInv, StackInv, ClaimInv, sched_vars
<1>2. CASE ~overflow_kills
  <2> DEFINE Quiet ==
        \/ thread_create \/ create_retry \/ create_fail
        \/ \E target \in Threads :
             join_terminated(target) \/ join_block(target) \/ join_abort(target)
        \/ join_resume \/ yield \/ yield_to \/ set_priority
        \/ main_return \/ cleanup_ctx \/ exit_pool_free \/ exit_cleanup
        \/ UNCHANGED core_vars
  <2>1. /\ [CoreNext]_core_vars
        /\ \/ thread_exit
           \/ /\ create_publish \/ create_no_slot
              /\ newth[current_thread] \notin victims'
           \/ Quiet
    BY <1>2, Zenon DEF OverflowNext, sigsegv_handler, overflow_create, overflow_join_resume,
         overflow_join_terminated, overflow_other, overflow_vars, CoreNext, ended
  <2>2. CoreInv({})' /\ StackInv' /\ ClaimInv' /\ context' \in [Threads -> Contexts \ {"sigwait"}]
    BY <2>1, CoreNextInv, CoreNextStack, CoreNextClaim, CoreNextContext, Zenon DEF OverflowInv
  <2>3. ASSUME NEW t \in victims \cap victims', NULL \notin Threads
        PROVE  \E u, v : LifecycleFrame(t, u, v) /\ t # u
    <3>1. t \in Threads /\ t # NULL
      BY <2>3, Zenon DEF OverflowInv
    <3>2. CASE thread_exit
      BY <3>1, <3>2, ExitFrame, Zenon DEF OverflowInv
    <3>3. CASE (create_publish \/ create_no_slot) /\ newth[current_thread] \notin victims'
      BY <2>3, <3>1, <3>3, CreateFrame, Zenon DEF OverflowInv
    <3>4. CASE Quiet
      BY <3>1, <3>4, OtherFrame, Zenon DEF OverflowInv
    <3> QED BY <2>1, <3>2, <3>3, <3>4, Zenon
  <2>4. Live' => Live
    BY <2>1, Zenon DEF Live, Sound, thread_create, create_publish, create_no_slot, create_retry,
         create_fail, thread_exit, join_terminated, join_block, join_link, Joinable, join_abort,
         join_resume, yield, yield_to, set_priority, main_return, cleanup_ctx, exit_pool_free,
         exit_cleanup, Running, core_vars
  <2> QED BY <2>2, <2>3, <2>4, SchedulerAssumption, Zenon DEF OverflowInv, LifecycleFrame, Live
<1> QED BY <1>1, <1>2

\* Every step keeps the invariant.
LEMMA OverflowNextInv ==
  ASSUME OverflowInv, [OverflowNext]_overflow_vars
  PROVE  OverflowInv'
<1> DEFINE c == current_thread
           n == newth[current_thread]
           FlagOK == /\ stack_overflow \in [Threads -> BOOLEAN]
                     /\ victims \subseteq Threads \ {main_thread}
                     /\ \A t \in Threads : stack_overflow[t] <=> t \in victims
<1>1. /\ CoreInv({})' /\ StackInv' /\ ClaimInv' /\ (Live' => Live)
      /\ context' \in [Threads -> Contexts \ {"sigwait"}]
      /\ CoreInv({}) /\ c \in Threads /\ FlagOK
      /\ Live' => \A t \in victims \cap victims' : state'[t] = "TERMINATED"
  BY OverflowFrame, Zenon DEF OverflowInv, CoreInv, CoreShape, SchedTypeOK
<1>2. ASSUME FlagOK', Live' => \A t \in victims' \ victims : state'[t] = "TERMINATED"
      PROVE  OverflowInv'
  BY <1>1, <1>2, Zenon DEF OverflowInv
<1>3. CASE sigsegv_handler
  <2>1. /\ stack_overflow' = [stack_overflow EXCEPT ![c] = TRUE]
        /\ victims' = victims \cup {c} /\ thread_exit
    BY <1>3, Zenon DEF sigsegv_handler
  <2>2. Live' => state'[c] = "TERMINATED"
    BY <1>1, <2>1, ExitStates, Zenon DEF Live, Sound
  <2>3. c # main_thread
    <3>1. Live /\ stack_map[c] # NULL
      BY <1>3, Zenon DEF sigsegv_handler, thread_exit, Running, Live, Sound
    <3> QED BY <3>1, Zenon DEF OverflowInv, StackInv, StackOK
  <2>4. FlagOK'
    <3> HIDE DEF c
    <3> QED BY <1>1, <2>1, <2>3, Zenon
  <2> QED BY <1>2, <2>1, <2>2, <2>4, Zenon
<1>4. CASE overflow_create
  <2>1. /\ stack_overflow' = [stack_overflow EXCEPT ![n] = FALSE]
        /\ victims' = victims \ {n} /\ Running("create")
    BY <1>4, Zenon DEF overflow_create, ResetOverflow, create_publish, create_no_slot
  <2>2. n \in Threads
    BY <1>1, <2>1, NewThread, Zenon
  <2>3. FlagOK'
    <3> HIDE DEF n
    <3> QED BY <1>1, <2>1, <2>2, Zenon
  <2> QED BY <1>2, <2>1, <2>3, Zenon
<1>5. CASE UNCHANGED <<stack_overflow, victims>>
  BY <1>1, <1>2, <1>5, Zenon
<1> QED BY <1>3, <1>4, <1>5, Zenon DEF OverflowNext, overflow_kills, overflow_join_resume,
        overflow_join_terminated, overflow_other, overflow_vars

\* The invariant behind the theorems on stack overflows.
THEOREM OverflowInvariant == OverflowSpec => []OverflowInv
<1>1. OverflowInit => OverflowInv
  <2>1. CoreInit => context \in [Threads -> Contexts \ {"sigwait"}]
    BY DEF CoreInit, Contexts
  <2> QED BY <2>1, CoreInitInv, CoreInitStack, CoreInitClaim, Zenon DEF OverflowInit, OverflowInv
<1> QED BY <1>1, OverflowNextInv, PTL DEF OverflowSpec

(* A thread whose overflow is handled ends like any other: it is dead, its *)
(* stack is in one place, and it has one keeper that will claim or free it *)
(* (preemption.c:88-95, thread.c:334-380).                                 *)
THEOREM OverflowsContained == OverflowSpec => []OverflowContained
<1>1. ASSUME OverflowInv PROVE OverflowContained
  <2> SUFFICES ASSUME Live, NEW t \in victims \cap handles
               PROVE  /\ state[t] = "TERMINATED"
                      /\ stack_map[t] \notin Range(stack_pool \o deferred_stacks)
                      /\ \A u \in Owners : stack_map[u] = stack_map[t] => u = t
                      /\ ZombieKeeps(t) \/ JoinerKeeps(t)
    BY Zenon DEF OverflowContained
  <2>1. /\ t \in handles /\ state[t] = "TERMINATED" /\ CoreShape /\ StackOK
    BY <1>1, Zenon DEF OverflowInv, CoreInv, StackInv
  <2>2. stack_map[t] \notin Range(stack_pool \o deferred_stacks)
    <3>1. stack_pool \in Seq(Stacks) /\ deferred_stacks \in Seq(Stacks)
      BY <2>1, Zenon DEF CoreShape
    <3>2. Range(stack_pool) \subseteq Stacks /\ Range(deferred_stacks) \subseteq Stacks
      BY <3>1 DEF Range
    <3>3. Range(stack_pool \o deferred_stacks) = Range(stack_pool) \cup Range(deferred_stacks)
      BY <3>1, ConcatRange
    <3>4. stack_map[t] # NULL => stack_map[t] \notin Range(stack_pool) \cup Range(deferred_stacks)
      BY <2>1, Zenon DEF StackOK, Owners
    <3>5. NULL \notin Stacks
      BY CoreAssumption
    <3> QED BY <3>2, <3>3, <3>4, <3>5, Zenon
  <2>3. ASSUME NEW u \in Owners, stack_map[u] = stack_map[t] PROVE u = t
    <3>1. t \in Owners
      BY <2>1, <2>3, Zenon DEF Owners
    <3> QED BY <2>1, <2>3, <3>1, Zenon DEF StackOK
  <2>4. t # main_thread
    BY <1>1, Zenon DEF OverflowInv
  <2>5. ZombieKeeps(t) \/ JoinerKeeps(t)
    BY <1>1, <2>1, <2>4, OneKeeper, Zenon DEF OverflowInv, TerminatedHasOneKeeper
  <2> QED BY <2>1, <2>2, <2>3, <2>5, Zenon
<1> QED BY <1>1, OverflowInvariant, PTL

(* A join that had to wait reports EFAULT exactly when the thread it       *)
(* waited for has overflowed its stack (thread.c:282, 506-508, 530-533).   *)
THEOREM OverflowsReported == OverflowSpec => OverflowReported
<1> DEFINE Reports == \A t \in Threads :
             waiting_for[t] # NULL /\ waiting_for'[t] = NULL /\ context[t] = "join" =>
               (join_result' = "EFAULT" <=> waiting_for[t] \in victims)
<1>1. ASSUME OverflowInv, [OverflowNext]_overflow_vars
      PROVE  Reports
  <2> SUFFICES ASSUME NEW t \in Threads, waiting_for[t] # NULL, waiting_for'[t] = NULL,
                      context[t] = "join"
               PROVE  join_result' = "EFAULT" <=> waiting_for[t] \in victims
    BY Zenon
  <2>1. /\ CoreInv({}) /\ waiting_for \in [Threads -> Threads \cup {NULL}]
        /\ \A u \in Threads : stack_overflow[u] <=> u \in victims
    BY <1>1, Zenon DEF OverflowInv, CoreInv, CoreShape
  <2>2. CASE overflow_join_resume
    <3>1. /\ waiting_for' = [waiting_for EXCEPT ![current_thread] = NULL]
          /\ join_result' = Result(stack_overflow[waiting_for[current_thread]])
      BY <2>2, Zenon DEF overflow_join_resume, join_resume
    <3>2. t = current_thread /\ waiting_for[t] \in Threads
      BY <2>1, <3>1, Zenon
    <3>3. stack_overflow[waiting_for[t]] <=> waiting_for[t] \in victims
      BY <2>1, <3>2, Zenon
    <3>4. "EFAULT" # "0"
      OBVIOUS
    <3> QED BY <3>1, <3>2, <3>3, <3>4, Zenon DEF Result
  <2>3. CASE overflow_create
    <3>1. /\ Running("create")
          /\ waiting_for' = [waiting_for EXCEPT ![newth[current_thread]] = NULL]
      BY <2>3, Zenon DEF overflow_create, create_publish, create_no_slot, InitFields
    <3>2. context[newth[current_thread]] = "user"
      BY <2>1, <3>1, NewThread, Zenon
    <3> QED BY <2>1, <3>1, <3>2
  <2>4. ASSUME NEW target \in Threads, join_block(target) PROVE FALSE
    <3>1. waiting_for' = [waiting_for EXCEPT ![current_thread] = target]
      BY <2>4, Zenon DEF join_block
    <3> QED BY <2>1, <3>1, SchedulerAssumption
  <2>5. CASE UNCHANGED waiting_for
    BY <2>5
  <2> QED BY <1>1, <2>2, <2>3, <2>4, <2>5, Zenon DEF OverflowNext, sigsegv_handler, overflow_kills,
             overflow_join_terminated, overflow_other, thread_create, create_retry, create_fail,
             thread_exit, join_terminated, join_abort, yield, yield_to, set_priority, main_return,
             cleanup_ctx, exit_pool_free, exit_cleanup, ended, overflow_vars, core_vars, join_vars
<1> QED BY <1>1, OverflowInvariant, PTL DEF OverflowSpec, OverflowReported

-----------------------------------------------------------------------------
(* Signals between threads.                                                *)

SigType ==
  /\ pending_signals \in [Threads -> SUBSET Signals]
  /\ waited_signals \in [Threads -> SUBSET Signals]
  /\ waiting_for_signal \in [Threads -> BOOLEAN]
  /\ sig_set \in [Threads -> SUBSET Signals]

\* A thread has asked for signals exactly while it is inside thread_sigwait.
AskedOK == \A t \in Threads : sig_set[t] # {} <=> context[t] = "sigwait"

SigInv == CoreInv({}) /\ SigType /\ AskedOK /\ NoMissedSignal /\ FlagOnlyWhileWaiting

\* A step of the lifecycle that leaves the signals of the waiting threads
\* alone misses no signal.
LEMMA LifecycleSig ==
  ASSUME SigInv, [CoreNext]_core_vars, SigType', UNCHANGED sig_set,
         \A t \in Threads : context[t] = "sigwait" =>
           /\ pending_signals'[t] = pending_signals[t] /\ waited_signals'[t] = waited_signals[t]
           /\ waiting_for_signal'[t] = waiting_for_signal[t],
         \A t \in Threads : \E u, v : LifecycleFrame(t, u, v)
  PROVE  CoreInv({})' /\ AskedOK' /\ NoMissedSignal'
<1>1. CoreInv({})'
  BY CoreNextInv, Zenon DEF SigInv
<1>2. AskedOK'
  BY Zenon DEF SigInv, AskedOK, LifecycleFrame
<1>3. NoMissedSignal'
  BY Zenon DEF SigInv, NoMissedSignal, LifecycleFrame
<1> QED BY <1>1, <1>2, <1>3

\* The steps of the lifecycle that do not touch the signals.
LEMMA OtherSigInv ==
  ASSUME SigInv, sig_other
  PROVE  SigInv'
<1>1. /\ [CoreNext]_core_vars /\ UNCHANGED <<sig_fields, sig_set, stray>>
      /\ \/ thread_create \/ create_retry \/ create_fail
         \/ \E target \in Threads :
              join_terminated(target) \/ join_block(target) \/ join_abort(target)
         \/ join_resume \/ yield \/ yield_to \/ main_return \/ UNCHANGED core_vars
  BY Zenon DEF sig_other, CoreNext
<1>2. \A t \in Threads : LifecycleFrame(t, NULL, NULL)
  BY <1>1, OtherFrame, Zenon DEF SigInv
<1>3. SigType' /\ CoreInv({})' /\ AskedOK' /\ NoMissedSignal'
  <2>1. SigType'
    BY <1>1, Zenon DEF SigInv, SigType, sig_fields
  <2> QED BY <1>1, <1>2, <2>1, LifecycleSig, Zenon DEF sig_fields
<1>4. handles' \subseteq handles
  BY <1>1, Zenon DEF thread_create, create_retry, create_fail, join_terminated, join_block, join_abort,
                     join_resume, yield, yield_to, main_return, core_vars, mem_vars, claim,
                     thread_obj_release
<1>5. FlagOnlyWhileWaiting'
  <2> SUFFICES ASSUME Live', NEW t \in handles', t \notin stray', waiting_for_signal'[t]
               PROVE  context'[t] = "sigwait" /\ state'[t] = "BLOCKED"
    BY Zenon DEF FlagOnlyWhileWaiting
  <2>1. Live
    BY <1>1, Zenon DEF Live, Sound, thread_create, create_retry, create_fail, join_terminated, join_block,
                       join_link, Joinable, join_abort, join_resume, yield, yield_to, main_return,
                       Running, core_vars
  <2>2. t \in Threads /\ context[t] = "sigwait" /\ state[t] = "BLOCKED"
    BY <1>1, <1>4, <2>1, Zenon DEF SigInv, FlagOnlyWhileWaiting, sig_fields, CoreInv, CoreShape
  <2>3. t # NULL
    BY <2>2, SchedulerAssumption, Zenon
  <2> QED BY <1>2, <2>2, <2>3, Zenon DEF LifecycleFrame, Live
<1> QED BY <1>3, <1>5, Zenon DEF SigInv

\* A new thread starts with no signals, and is not waiting.
LEMMA CreateSigInv ==
  ASSUME SigInv, sig_create
  PROVE  SigInv'
<1> DEFINE n == newth[current_thread]
<1>1. /\ [CoreNext]_core_vars /\ UNCHANGED sig_set /\ stray' = stray \ {n}
      /\ create_publish \/ create_no_slot
      /\ Running("create") /\ handles' \subseteq handles \cup {n}
  BY Zenon DEF sig_create, CoreNext, create_publish, create_no_slot, thread_obj_release
<1>2. n \in Threads \ handles /\ context[n] = "user"
  BY <1>1, NewThread, Zenon DEF SigInv
<1>3. /\ pending_signals' = [pending_signals EXCEPT ![n] = {}]
      /\ waited_signals' = [waited_signals EXCEPT ![n] = {}]
      /\ waiting_for_signal' = [waiting_for_signal EXCEPT ![n] = FALSE]
  BY Zenon DEF sig_create, ResetSignals
<1>4. \A t \in Threads : LifecycleFrame(t, n, NULL)
  BY <1>1, CreateFrame, Zenon DEF SigInv
<1> HIDE DEF n
<1>5. /\ pending_signals' \in [Threads -> SUBSET Signals]
      /\ waited_signals' \in [Threads -> SUBSET Signals]
      /\ \A t \in Threads \ {n} : /\ pending_signals'[t] = pending_signals[t]
                                  /\ waited_signals'[t] = waited_signals[t]
  BY <1>2, <1>3 DEF SigInv, SigType
<1>6. /\ waiting_for_signal' \in [Threads -> BOOLEAN]
      /\ ~waiting_for_signal'[n]
      /\ \A t \in Threads \ {n} : waiting_for_signal'[t] = waiting_for_signal[t]
  BY <1>2, <1>3, Zenon DEF SigInv, SigType
<1>7. SigType' /\ CoreInv({})' /\ AskedOK' /\ NoMissedSignal'
  <2>1. SigType'
    BY <1>1, <1>5, <1>6, Zenon DEF SigInv, SigType
  <2>2. \A t \in Threads : context[t] = "sigwait" => t # n
    BY <1>2, Zenon
  <2> QED BY <1>1, <1>4, <1>5, <1>6, <2>1, <2>2, LifecycleSig, Zenon
<1>8. FlagOnlyWhileWaiting'
  <2> SUFFICES ASSUME Live', NEW t \in handles', t \notin stray', waiting_for_signal'[t]
               PROVE  context'[t] = "sigwait" /\ state'[t] = "BLOCKED"
    BY Zenon DEF FlagOnlyWhileWaiting
  <2>1. t # n /\ t \in handles \ stray /\ t \in Threads /\ t # NULL
    BY <1>1, <1>6, SchedulerAssumption, Zenon DEF SigInv, CoreInv, CoreShape
  <2>2. context[t] = "sigwait" /\ state[t] = "BLOCKED"
    BY <1>1, <1>6, <2>1, Zenon DEF SigInv, FlagOnlyWhileWaiting, Live, Sound, Running
  <2> QED BY <1>4, <2>1, <2>2, Zenon DEF LifecycleFrame, Live
<1> QED BY <1>7, <1>8, Zenon DEF SigInv

\* The thread an exit takes out of thread_sigwait is recorded as a stray one.
LEMMA ExitSigInv ==
  ASSUME SigInv, sig_exit
  PROVE  SigInv'
<1> DEFINE j == joined_by[current_thread]
<1>1. /\ [CoreNext]_core_vars /\ UNCHANGED <<sig_fields, sig_set>>
      /\ thread_exit /\ Running("user") /\ handles' = handles
      /\ stray' = IF j # NULL /\ state[j] = "BLOCKED" /\ context[j] = "sigwait"
                  THEN stray \cup {j} ELSE stray
  BY Zenon DEF sig_exit, CoreNext, thread_exit
<1>2. \A t \in Threads : LifecycleFrame(t, NULL, j)
  BY <1>1, ExitFrame, Zenon DEF SigInv
<1> HIDE DEF j
<1>3. SigType' /\ CoreInv({})' /\ AskedOK' /\ NoMissedSignal'
  <2>1. SigType'
    BY <1>1, Zenon DEF SigInv, SigType, sig_fields
  <2> QED BY <1>1, <1>2, <2>1, LifecycleSig, Zenon DEF sig_fields
<1>4. FlagOnlyWhileWaiting'
  <2> SUFFICES ASSUME Live', NEW t \in handles', t \notin stray', waiting_for_signal'[t]
               PROVE  context'[t] = "sigwait" /\ state'[t] = "BLOCKED"
    BY Zenon DEF FlagOnlyWhileWaiting
  <2>1. t \in handles \ stray /\ t \in Threads /\ t # NULL
    BY <1>1, SchedulerAssumption, Zenon DEF SigInv, CoreInv, CoreShape
  <2>2. context[t] = "sigwait" /\ state[t] = "BLOCKED"
    BY <1>1, <2>1, Zenon DEF SigInv, FlagOnlyWhileWaiting, Live, Sound, Running, sig_fields
  <2>3. t # j
    BY <1>1, <2>1, <2>2, Zenon
  <2> QED BY <1>2, <2>1, <2>2, <2>3, Zenon DEF LifecycleFrame, Live
<1> QED BY <1>3, <1>4, Zenon DEF SigInv

\* A thread that waits for a signal is made runnable like any other.
LEMMA RouseCore ==
  ASSUME CoreInv({}), Live, NEW target \in handles, state[target] = "BLOCKED",
         state' = [state EXCEPT ![target] = "READY"],
         ready_queue' = thread_scheduler_enqueue(ready_queue, target, priority),
         mis_woken' = IF context[target] = "sigwait" THEN {} ELSE {target},
         UNCHANGED <<current_thread, priority, context, mem_vars, join_vars, process>>
  PROVE  CoreInv({})'
<1>1. CoreShape /\ LiveInv({}) /\ target \in Threads
  BY Zenon DEF CoreInv, CoreShape
<1>2. /\ state \in [Threads -> States] /\ ready_queue \in Seq(Threads)
      /\ handles \subseteq Threads /\ "READY" \in States
  BY <1>1, Zenon DEF CoreShape, SchedTypeOK, States
<1>3. /\ state' \in [Threads -> States] /\ state'[target] = "READY"
      /\ \A t \in Threads \ {target} : state'[t] = state[t]
  BY <1>1, <1>2
<1>4. /\ ready_queue' \in Seq(Threads) /\ Range(ready_queue') = Range(ready_queue) \cup {target}
      /\ IsInjective(ready_queue) => IsInjective(ready_queue')
  BY <1>1, <1>2, EnqueueRange, Zenon
<1>5. mis_woken' \subseteq Threads /\ (mis_woken' = {} => context[target] = "sigwait")
  BY <1>1
<1>6. CoreShape'
  BY <1>1, <1>3, <1>4, <1>5, Zenon DEF CoreShape, SchedTypeOK, mem_vars, join_vars
<1> SUFFICES ASSUME Live' PROVE LiveInv({})'
  BY <1>6, Zenon DEF CoreInv
<1>7. /\ context[target] = "sigwait"
      /\ UNCHANGED <<current_thread, context, handles, heap, thread_pool, newth, zombie_queue,
                     joined_by, waiting_for>>
  BY <1>5, Zenon DEF Live, Sound, mem_vars, join_vars
<1>8. RunnableBut({})'
  BY <1>1, <1>2, <1>3, <1>4, <1>7, Zenon DEF LiveInv, RunnableBut
<1>9. \A t \in Threads : /\ state'[t] = "TERMINATED" <=> state[t] = "TERMINATED"
                         /\ context[t] # "sigwait" => state'[t] = state[t]
  BY <1>3, <1>7
<1>10. ContextOK' /\ ZombieOK' /\ OwnOK'
  <2>1. ContextOK /\ ZombieOK /\ OwnOK /\ handles \subseteq Threads
    BY <1>1, <1>2, Zenon DEF LiveInv, CoreShape
  <2>2. ContextOK'
    BY <1>7, <1>9, <2>1 DEF ContextOK
  <2>3. ZombieOK'
    BY <1>7, <1>9, <2>1, Zenon DEF ZombieOK
  <2>4. OwnOK'
    BY <1>7, <2>1, Zenon DEF OwnOK
  <2> QED BY <2>2, <2>3, <2>4, Zenon
<1>11. JoinOK'
  <2>1. JoinOK /\ \A t \in handles : context[t] = "join" => state'[t] = state[t]
    BY <1>1, <1>2, <1>9, Zenon DEF LiveInv
  <2> QED BY <1>2, <1>7, <1>9, <2>1 DEF JoinOK
<1> QED BY <1>8, <1>10, <1>11, Zenon DEF LiveInv

\* The sender finds every thread that waits for its signal.
LEMMA SendSigInv ==
  ASSUME SigInv, NEW target \in Threads, NEW sig \in Signals, thread_signal_send(target, sig)
  PROVE  SigInv'
<1>1. /\ Running("user") /\ target \in handles /\ Live /\ CoreInv({}) /\ SigType
      /\ pending_signals' = [pending_signals EXCEPT ![target] = @ \cup {sig}]
      /\ UNCHANGED <<current_thread, priority, context, mem_vars, join_vars, process, sig_set, stray>>
  BY Zenon DEF SigInv, thread_signal_send, Running, Live, Sound
<1>2. /\ pending_signals' \in [Threads -> SUBSET Signals]
      /\ pending_signals'[target] = pending_signals[target] \cup {sig}
      /\ \A t \in Threads \ {target} : pending_signals'[t] = pending_signals[t]
  BY <1>1 DEF SigType
<1>3. AskedOK'
  BY <1>1, Zenon DEF SigInv, AskedOK
<1>4. CASE /\ state[target] = "BLOCKED" /\ waiting_for_signal[target]
           /\ sig \in waited_signals[target]
  <2>1. /\ waiting_for_signal' = [waiting_for_signal EXCEPT ![target] = FALSE]
        /\ waited_signals' = [waited_signals EXCEPT ![target] = {}]
        /\ state' = [state EXCEPT ![target] = "READY"]
        /\ ready_queue' = thread_scheduler_enqueue(ready_queue, target, priority)
        /\ mis_woken' = IF context[target] = "sigwait" THEN {} ELSE {target}
    BY <1>4, Zenon DEF thread_signal_send, Rouse
  <2>2. CoreInv({})'
    BY <1>1, <1>4, <2>1, RouseCore, Zenon
  <2>3. /\ state'[target] = "READY" /\ \A t \in Threads \ {target} : state'[t] = state[t]
        /\ waited_signals' \in [Threads -> SUBSET Signals]
        /\ \A t \in Threads \ {target} : waited_signals'[t] = waited_signals[t]
    BY <1>1, <2>1, Zenon DEF SigType, CoreInv, CoreShape, SchedTypeOK
  <2>4. /\ waiting_for_signal' \in [Threads -> BOOLEAN] /\ ~waiting_for_signal'[target]
        /\ \A t \in Threads \ {target} : waiting_for_signal'[t] = waiting_for_signal[t]
    BY <1>1, <2>1, Zenon DEF SigType
  <2>5. NoMissedSignal'
    BY <1>1, <1>2, <2>3, <2>4, Zenon DEF SigInv, NoMissedSignal
  <2>6. FlagOnlyWhileWaiting'
    BY <1>1, <2>3, <2>4, Zenon DEF SigInv, FlagOnlyWhileWaiting, mem_vars, CoreInv, CoreShape
  <2> QED BY <1>1, <1>2, <1>3, <2>2, <2>3, <2>4, <2>5, <2>6, Zenon DEF SigInv, SigType
<1>5. CASE ~(/\ state[target] = "BLOCKED" /\ waiting_for_signal[target]
             /\ sig \in waited_signals[target])
  <2>1. UNCHANGED <<waiting_for_signal, waited_signals, state, ready_queue, mis_woken>>
    BY <1>5, Zenon DEF thread_signal_send
  <2>2. CoreInv({})'
    BY <1>1, <2>1, CoreNextInv, Zenon DEF core_vars, sched_vars
  <2>3. NoMissedSignal'
    <3> SUFFICES ASSUME NEW t \in Threads, context'[t] = "sigwait", state'[t] = "BLOCKED"
                 PROVE  /\ pending_signals'[t] \cap sig_set'[t] = {}
                        /\ waiting_for_signal'[t] /\ waited_signals'[t] = sig_set'[t]
      BY Zenon DEF NoMissedSignal
    <3>1. /\ pending_signals[t] \cap sig_set[t] = {}
          /\ waiting_for_signal[t] /\ waited_signals[t] = sig_set[t]
          /\ context[t] = "sigwait" /\ state[t] = "BLOCKED"
      BY <1>1, <2>1, Zenon DEF SigInv, NoMissedSignal
    <3>2. t = target => sig \notin sig_set[t]
      BY <1>5, <3>1, Zenon
    <3>3. pending_signals'[t] \cap sig_set[t] = {}
      BY <1>2, <3>1, <3>2
    <3> QED BY <1>1, <2>1, <3>1, <3>3, Zenon
  <2>4. FlagOnlyWhileWaiting'
    BY <1>1, <2>1, Zenon DEF SigInv, FlagOnlyWhileWaiting, mem_vars
  <2> QED BY <1>1, <1>2, <1>3, <2>1, <2>2, <2>3, <2>4, Zenon DEF SigInv, SigType
<1> QED BY <1>4, <1>5, Zenon

\* The caller of thread_sigwait returns, or blocks and switches.
LEMMA WaitCore ==
  ASSUME CoreInv({}), Live, context[current_thread] \in {"user", "sigwait"},
         \/ /\ context' = [context EXCEPT ![current_thread] = "user"]
            /\ UNCHANGED <<current_thread, state, ready_queue, priority>>
         \/ BlockAndSwitch("sigwait"),
         UNCHANGED <<mem_vars, join_vars, process, mis_woken>>
  PROVE  /\ CoreInv({})' /\ current_thread \in Threads /\ handles' = handles
         /\ context' \in [Threads -> Contexts]
         /\ \A t \in Threads \ {current_thread} :
              /\ context'[t] = context[t]
              /\ context[t] = "sigwait" => (state'[t] = "BLOCKED" <=> state[t] = "BLOCKED")
         /\ BlockAndSwitch("sigwait") =>
              context'[current_thread] = "sigwait" /\ state'[current_thread] = "BLOCKED"
<1> DEFINE c == current_thread
<1>1. /\ CoreShape /\ LiveInv({}) /\ c \in handles /\ c \in Threads /\ state[c] = "RUNNING"
      /\ handles \subseteq Threads /\ context \in [Threads -> Contexts]
      /\ ContextOK /\ NULL \notin Threads
  BY SchedulerAssumption, Zenon DEF CoreInv, CoreShape, LiveInv, RunnableBut
<1>2. /\ UNCHANGED <<handles, heap, thread_pool, newth, alloc_retries, stack_map, mapped, stack_pool,
                     deferred_stacks, zombie_queue, joined_by, waiting_for, head_joiner, head_ref>>
      /\ BlockAndSwitch("sigwait") => context' = [context EXCEPT ![c] = "sigwait"]
  BY Zenon DEF mem_vars, join_vars, BlockAndSwitch
<1>3. /\ SchedTypeOK' /\ RunnableBut({})'
      /\ \A t \in handles : /\ state'[t] = "TERMINATED" <=> state[t] = "TERMINATED"
                            /\ t # c => (state'[t] = "BLOCKED" <=> state[t] = "BLOCKED")
      /\ \A t \in Threads \ handles : state'[t] = state[t]
      /\ BlockAndSwitch("sigwait") => state'[c] = "BLOCKED"
  <2>1. CASE BlockAndSwitch("sigwait")
    BY <1>1, <1>2, <2>1, BlockStates, Zenon
  <2>2. CASE UNCHANGED <<current_thread, state, ready_queue, priority>> /\ ~BlockAndSwitch("sigwait")
    BY <1>1, <1>2, <2>2, Zenon DEF CoreShape, SchedTypeOK, LiveInv, RunnableBut
  <2> QED BY <2>1, <2>2, Zenon
<1> HIDE DEF c
<1>4. /\ context' \in [Threads -> Contexts] /\ context'[c] \in {"user", "sigwait"}
      /\ \A t \in Threads \ {c} : context'[t] = context[t]
      /\ BlockAndSwitch("sigwait") => context'[c] = "sigwait"
  BY <1>1, <1>2, Zenon DEF Contexts, c
<1>5. CoreShape'
  BY <1>1, <1>2, <1>3, <1>4, Zenon DEF CoreShape
<1>6. ContextOK'
  <2>1. waiting_for[c] = NULL /\ newth[c] = NULL
    BY <1>1, Zenon DEF ContextOK, c
  <2>2. \A t \in Threads : t \notin handles \/ state'[t] = "TERMINATED" => t # c
    BY <1>1, <1>3, Zenon
  <2>3. /\ ContextOK /\ UNCHANGED <<waiting_for, newth, handles>> /\ handles \subseteq Threads
        /\ \A t \in Threads \ {c} : context'[t] = context[t]
        /\ context'[c] \notin {"join", "create"}
    BY <1>1, <1>2, <1>4, Zenon
  <2>4. \A t \in Threads : t \notin handles \/ state'[t] = "TERMINATED" =>
                             t \notin handles \/ state[t] = "TERMINATED"
    BY <1>3, Zenon
  <2> QED BY <2>1, <2>2, <2>3, <2>4 DEF ContextOK
<1>7. ZombieOK' /\ OwnOK'
  <2>1. ZombieOK'
    BY <1>1, <1>2, <1>3, Zenon DEF LiveInv, ZombieOK
  <2>2. OwnOK'
    BY <1>1, <1>2, Zenon DEF LiveInv, OwnOK
  <2> QED BY <2>1, <2>2, Zenon
<1>8. JoinOK'
  <2>1. \A t \in handles : context'[t] = "join" => t # c /\ context[t] = "join"
    BY <1>1, <1>4, Zenon
  <2> QED BY <1>1, <1>2, <1>3, <2>1 DEF LiveInv, JoinOK
<1>9. CoreInv({})'
  BY <1>3, <1>5, <1>6, <1>7, <1>8, Zenon DEF CoreInv, LiveInv
<1> QED BY <1>1, <1>2, <1>3, <1>4, <1>9, Zenon DEF c, ContextOK

\* A thread blocks in thread_sigwait only after it has found nothing, and
\* with its registration in force.
LEMMA RoundSigInv ==
  ASSUME SigInv, NEW set \in SUBSET Signals, set # {},
         Running("user") \/ Running("sigwait"), sigwait_round(set)
  PROVE  SigInv'
<1> DEFINE c == current_thread
           available == pending_signals[c] \cap set
           blocks == BlockAndSwitch("sigwait")
<1>1. CoreInv({}) /\ SigType /\ Live /\ context[c] \in {"user", "sigwait"}
  BY Zenon DEF SigInv, Running, Live, Sound
<1>2. /\ UNCHANGED <<mem_vars, join_vars, process, mis_woken, stray>>
      /\ \/ /\ \E s : pending_signals' = [pending_signals EXCEPT ![c] = @ \ {s}]
            /\ context' = [context EXCEPT ![c] = "user"]
            /\ sig_set' = [sig_set EXCEPT ![c] = {}]
            /\ UNCHANGED <<waiting_for_signal, waited_signals, current_thread, state,
                           ready_queue, priority>>
         \/ /\ blocks /\ available = {}
            /\ waiting_for_signal' = [waiting_for_signal EXCEPT ![c] = TRUE]
            /\ waited_signals' = [waited_signals EXCEPT ![c] = set]
            /\ sig_set' = [sig_set EXCEPT ![c] = set]
            /\ UNCHANGED pending_signals
         \/ /\ context' = [context EXCEPT ![c] = "user"]
            /\ waiting_for_signal' = [waiting_for_signal EXCEPT ![c] = FALSE]
            /\ waited_signals' = [waited_signals EXCEPT ![c] = {}]
            /\ sig_set' = [sig_set EXCEPT ![c] = {}]
            /\ UNCHANGED <<pending_signals, current_thread, state, ready_queue, priority>>
  BY Zenon DEF sigwait_round, Goes, SetWait
<1>3. /\ CoreInv({})' /\ c \in Threads /\ handles' = handles
      /\ context' \in [Threads -> Contexts]
      /\ \A t \in Threads \ {c} :
           /\ context'[t] = context[t]
           /\ context[t] = "sigwait" => (state'[t] = "BLOCKED" <=> state[t] = "BLOCKED")
      /\ blocks => context'[c] = "sigwait" /\ state'[c] = "BLOCKED"
  BY <1>1, <1>2, WaitCore, Zenon
<1> HIDE DEF c, blocks
<1>4. /\ pending_signals' \in [Threads -> SUBSET Signals]
      /\ waited_signals' \in [Threads -> SUBSET Signals]
      /\ sig_set' \in [Threads -> SUBSET Signals]
      /\ \A t \in Threads \ {c} : /\ pending_signals'[t] = pending_signals[t]
                                  /\ waited_signals'[t] = waited_signals[t]
                                  /\ sig_set'[t] = sig_set[t]
  BY <1>1, <1>2, <1>3 DEF SigType
<1>5. /\ waiting_for_signal' \in [Threads -> BOOLEAN]
      /\ \A t \in Threads \ {c} : waiting_for_signal'[t] = waiting_for_signal[t]
  BY <1>1, <1>2, <1>3, Zenon DEF SigType
<1>6. \/ /\ blocks /\ context'[c] = "sigwait" /\ waited_signals'[c] = set /\ sig_set'[c] = set
         /\ pending_signals'[c] \cap set = {}
      \/ context'[c] = "user" /\ sig_set'[c] = {}
  <2>1. /\ [context EXCEPT ![c] = "user"][c] = "user"
        /\ [sig_set EXCEPT ![c] = {}][c] = {} /\ [sig_set EXCEPT ![c] = set][c] = set
        /\ [waited_signals EXCEPT ![c] = set][c] = set
    BY <1>1, <1>3, Zenon DEF SigType, CoreInv, CoreShape
  <2> QED BY <1>2, <1>3, <2>1, Zenon
<1>7. blocks /\ context'[c] = "sigwait" => waiting_for_signal'[c]
  <2>1. [context EXCEPT ![c] = "user"][c] # "sigwait"
    BY <1>1, <1>3, Zenon DEF CoreInv, CoreShape
  <2> QED BY <1>1, <1>2, <1>3, <2>1, Zenon DEF SigType
<1>8. ~blocks /\ c \notin stray => ~waiting_for_signal'[c]
  <2>1. c \in handles /\ state[c] # "BLOCKED"
    <3>1. c \in handles /\ state[c] = "RUNNING"
      BY <1>1, Zenon DEF CoreInv, LiveInv, RunnableBut, c
    <3> QED BY <3>1, Zenon
  <2>2. c \notin stray => ~waiting_for_signal[c]
    BY <1>1, <2>1, Zenon DEF SigInv, FlagOnlyWhileWaiting
  <2> QED BY <1>1, <1>2, <1>3, <2>2, Zenon DEF SigType
<1>9. AskedOK'
  BY <1>3, <1>4, <1>6, Zenon DEF SigInv, AskedOK
<1>10. NoMissedSignal'
  <2> SUFFICES ASSUME NEW t \in Threads, context'[t] = "sigwait", state'[t] = "BLOCKED"
               PROVE  /\ pending_signals'[t] \cap sig_set'[t] = {}
                      /\ waiting_for_signal'[t] /\ waited_signals'[t] = sig_set'[t]
    BY Zenon DEF NoMissedSignal
  <2>1. CASE t = c
    <3>1. "user" # "sigwait"
      OBVIOUS
    <3> QED BY <1>6, <1>7, <2>1, <3>1, Zenon
  <2>2. CASE t # c
    BY <1>3, <1>4, <1>5, <2>2, Zenon DEF SigInv, NoMissedSignal
  <2> QED BY <2>1, <2>2
<1>11. FlagOnlyWhileWaiting'
  <2> SUFFICES ASSUME NEW t \in handles, t \notin stray, waiting_for_signal'[t]
               PROVE  context'[t] = "sigwait" /\ state'[t] = "BLOCKED"
    BY <1>2, <1>3, Zenon DEF FlagOnlyWhileWaiting
  <2>1. CASE t = c
    BY <1>3, <1>8, <2>1, Zenon
  <2>2. CASE t # c
    <3>1. t \in Threads /\ context[t] = "sigwait" /\ state[t] = "BLOCKED"
      BY <1>1, <1>5, <2>2, Zenon DEF SigInv, FlagOnlyWhileWaiting, CoreInv, CoreShape
    <3> QED BY <1>3, <2>2, <3>1, Zenon
  <2> QED BY <2>1, <2>2, Zenon
<1> QED BY <1>3, <1>4, <1>5, <1>9, <1>10, <1>11, Zenon DEF SigInv, SigType

\* Every step keeps the invariant.
LEMMA SigNextInv ==
  ASSUME SigInv, [SigNext]_sig_vars
  PROVE  SigInv'
<1>1. CASE \E target \in Threads, sig \in Signals : thread_signal_send(target, sig)
  BY <1>1, SendSigInv, Zenon
<1>2. CASE \E set \in Masks : thread_sigwait(set)
  BY <1>2, RoundSigInv, SigAssumption DEF thread_sigwait
<1>3. CASE sigwait_resume
  <2>1. Running("sigwait") /\ sigwait_round(sig_set[current_thread]) /\ current_thread \in Threads
    BY <1>3, Zenon DEF sigwait_resume, SigInv, CoreInv, CoreShape, SchedTypeOK
  <2>2. sig_set[current_thread] \in SUBSET Signals /\ sig_set[current_thread] # {}
    BY <2>1, Zenon DEF SigInv, SigType, AskedOK, Running
  <2> QED BY <2>1, <2>2, RoundSigInv, Zenon
<1>4. CASE sig_create
  BY <1>4, CreateSigInv, Zenon
<1>5. CASE sig_exit
  BY <1>5, ExitSigInv, Zenon
<1>6. CASE sig_other
  BY <1>6, OtherSigInv, Zenon
<1>7. CASE UNCHANGED sig_vars
  <2>1. UNCHANGED <<core_vars, pending_signals, waited_signals, waiting_for_signal, sig_set, stray>>
    BY <1>7, Zenon DEF sig_vars, sig_fields
  <2>2. CoreInv({})' /\ UNCHANGED <<context, state, handles, process, mis_woken>>
    BY <2>1, CoreNextInv, Zenon DEF SigInv, core_vars, sched_vars, mem_vars
  <2>3. SigType' /\ AskedOK' /\ NoMissedSignal' /\ FlagOnlyWhileWaiting'
    BY <2>1, <2>2, Zenon DEF SigInv, SigType, AskedOK, NoMissedSignal, FlagOnlyWhileWaiting, Live, Sound
  <2> QED BY <2>2, <2>3, Zenon DEF SigInv
<1> QED BY <1>1, <1>2, <1>3, <1>4, <1>5, <1>6, <1>7, Zenon DEF SigNext

\* The invariant behind the theorems on signals between threads.
THEOREM SigInvariant == SigSpec => []SigInv
<1>1. SigInit => SigInv
  <2> SUFFICES ASSUME SigInit PROVE SigInv
    OBVIOUS
  <2>1. CoreInv({})
    BY CoreInitInv, Zenon DEF SigInit
  <2>2. SigType /\ AskedOK /\ NoMissedSignal
    BY DEF SigInit, CoreInit, SigType, AskedOK, NoMissedSignal
  <2>3. FlagOnlyWhileWaiting
    BY <2>1, Zenon DEF SigInit, FlagOnlyWhileWaiting, CoreInv, CoreShape
  <2> QED BY <2>1, <2>2, <2>3, Zenon DEF SigInv
<1> QED BY <1>1, SigNextInv, PTL DEF SigSpec

(* A thread blocked in thread_sigwait has no signal of its set pending and *)
(* the sender's test finds it, in every state, for every number of threads *)
(* and signals and both policies (thread_sig.c:53-59, 114-116).            *)
THEOREM SignalsNotMissed == SigSpec => []NoMissedSignal
<1>1. SigInv => NoMissedSignal
  BY Zenon DEF SigInv
<1> QED BY <1>1, SigInvariant, PTL

(* waiting_for_signal is set only while its thread is blocked inside       *)
(* thread_sigwait, in every thread that no stale join registration has     *)
(* taken out of there (thread_sig.c:53-59, 99-131).                        *)
THEOREM SignalsEndNoOtherWait == SigSpec => []FlagOnlyWhileWaiting
<1>1. SigInv => FlagOnlyWhileWaiting
  BY DEF SigInv
<1> QED BY <1>1, SigInvariant, PTL

(* The CPU and the ready queue partition the runnable threads also while   *)
(* signals make threads runnable (thread_sig.c:53-59).                     *)
THEOREM SigRunnablePartition == SigSpec => []RunnablePartition
<1>1. SigInv => RunnablePartition
  BY NoneHeld, Zenon DEF SigInv, CoreInv, LiveInv, RunnablePartition
<1> QED BY <1>1, SigInvariant, PTL

-----------------------------------------------------------------------------
(* Signals implement boxes.                                                *)

\* One round of thread_sigwait asks, takes, gives up, or goes on waiting.
LEMMA RoundBox ==
  ASSUME NEW set \in SUBSET Signals, current_thread \in handles, handles \subseteq Threads,
         sig_set \in [Threads -> SUBSET Signals],
         sig_set[current_thread] \in {{}, set}, sigwait_round(set)
  PROVE  Box!BoxNext \/ UNCHANGED <<handles, pending_signals, sig_set>>
<1> DEFINE c == current_thread
           available == pending_signals[c] \cap set
<1>0. UNCHANGED handles
  BY Zenon DEF sigwait_round, mem_vars
<1>1. CASE available # {}
  <2>1. /\ pending_signals' = [pending_signals EXCEPT ![c] = @ \ {Min(@ \cap set)}]
        /\ sig_set' = [sig_set EXCEPT ![c] = {}]
    BY <1>1, Zenon DEF sigwait_round, Goes, thread_signal_pick_one
  <2>2. Box!Take(c, set)
    BY <1>0, <1>1, <2>1, Zenon DEF Box!Take, Min, Box!Min
  <2> QED BY <2>2, Zenon DEF Box!BoxNext
<1>2. CASE available = {}
  <2>1. /\ UNCHANGED pending_signals
        /\ \/ sig_set' = [sig_set EXCEPT ![c] = set]
           \/ sig_set' = [sig_set EXCEPT ![c] = {}]
    BY <1>2, Zenon DEF sigwait_round, Goes
  <2>2. CASE sig_set' = [sig_set EXCEPT ![c] = set] /\ sig_set[c] = {}
    BY <1>0, <1>2, <2>1, <2>2, Zenon DEF Box!BoxNext, Box!Ask
  <2>3. CASE sig_set' = [sig_set EXCEPT ![c] = set] /\ sig_set[c] = set
    <3>1. [sig_set EXCEPT ![c] = set] = sig_set
      BY <2>3
    <3> QED BY <1>0, <2>1, <2>3, <3>1, Zenon
  <2>4. CASE sig_set' = [sig_set EXCEPT ![c] = {}]
    <3>1. Box!GiveUp(c)
      BY <1>0, <1>2, <2>1, <2>4, Zenon DEF Box!GiveUp
    <3> QED BY <3>1, Zenon DEF Box!BoxNext
  <2> QED BY <2>1, <2>2, <2>3, <2>4, Zenon
<1> QED BY <1>1, <1>2, Zenon

\* The other steps of the lifecycle release at most one thread, and nobody
\* who waits for a signal.
LEMMA ReleaseBox ==
  ASSUME SigInv, sig_exit \/ sig_other
  PROVE  /\ UNCHANGED <<pending_signals, sig_set>>
         /\ \/ UNCHANGED handles
            \/ \E t \in handles : handles' = handles \ {t} /\ sig_set[t] = {}
<1>1. UNCHANGED <<pending_signals, sig_set>>
  BY Zenon DEF sig_exit, sig_other, sig_fields
<1>2. ASSUME NEW t, t \in handles, state[t] = "TERMINATED", Live
      PROVE  sig_set[t] = {}
  <2>1. t \in Threads /\ context[t] = "user" /\ "user" # "sigwait"
    BY <1>2, Zenon DEF SigInv, CoreInv, CoreShape, LiveInv, ContextOK
  <2> QED BY <2>1, Zenon DEF SigInv, AskedOK
<1>3. ASSUME NEW t, claim(t), state[t] = "TERMINATED", Live
      PROVE  \/ UNCHANGED handles
             \/ \E u \in handles : handles' = handles \ {u} /\ sig_set[u] = {}
  <2>1. handles' = handles \/ handles' = handles \ {t}
    BY <1>3, Zenon DEF claim, thread_obj_release
  <2>2. t \notin handles => handles \ {t} = handles
    BY Zenon
  <2> QED BY <1>2, <1>3, <2>1, <2>2, Zenon
<1>4. CASE \E target \in Threads : join_terminated(target)
  BY <1>1, <1>3, <1>4, Zenon DEF join_terminated, Joinable, Running, Live, Sound
<1>5. CASE join_resume
  <2> DEFINE c == current_thread
  <2>1. Live /\ context[c] = "join" /\ claim(waiting_for[c])
    BY <1>5, Zenon DEF join_resume, Running, Live, Sound
  <2>2. c \in handles /\ state[c] = "RUNNING" /\ JoinOK
    BY <2>1, Zenon DEF SigInv, CoreInv, LiveInv, RunnableBut
  <2>3. state[waiting_for[c]] = "TERMINATED"
    <3>1. state[c] # "BLOCKED"
      BY <2>2
    <3> QED BY <2>1, <2>2, <3>1, Zenon DEF JoinOK
  <2> QED BY <1>1, <1>3, <2>1, <2>3, Zenon
<1>6. CASE create_fail
  <2>1. Running("create") /\ handles' = handles \ {newth[current_thread]}
    BY <1>6, Zenon DEF create_fail, thread_obj_release
  <2>2. newth[current_thread] \notin handles
    BY <2>1, NewThread, Zenon DEF SigInv
  <2> QED BY <1>1, <2>1, <2>2, Zenon
<1>7. CASE UNCHANGED handles
  BY <1>1, <1>7
<1>8. \/ \E target \in Threads : join_terminated(target)
      \/ join_resume \/ create_fail \/ UNCHANGED handles
  BY Zenon DEF sig_exit, sig_other, thread_exit, thread_create, create_retry, join_block, join_abort,
               yield, yield_to, main_return, core_vars, mem_vars
<1> QED BY <1>1, <1>4, <1>5, <1>6, <1>7, <1>8, Zenon

(* Signals implement boxes: a signal sent to a thread stays pending until  *)
(* the thread takes it or its struct is released, the lowest one asked for *)
(* is taken and no other, a wait gives up only when none is there, and a   *)
(* new thread finds no signals of the thread that had its struct before    *)
(* (thread_sig.c:90-135, thread.c:283-288).                                *)
THEOREM SignalsImplementBoxes == SigSpec => ImplementsSignalBox
<1>1. SigInit => Box!BoxInit
  BY Zenon DEF SigInit, CoreInit, Box!BoxInit
<1>2. ASSUME SigInv, [SigNext]_sig_vars
      PROVE  Box!BoxNext \/ UNCHANGED <<handles, pending_signals, sig_set>>
  <2>1. /\ SigType /\ CoreInv({}) /\ current_thread \in Threads /\ handles \subseteq Threads
        /\ sig_set[current_thread] # {} <=> context[current_thread] = "sigwait"
    BY <1>2, Zenon DEF SigInv, CoreInv, CoreShape, SchedTypeOK, AskedOK
  <2>2. ASSUME Running("user") \/ Running("sigwait") PROVE current_thread \in handles
    BY <2>1, <2>2, Zenon DEF CoreInv, LiveInv, RunnableBut, Running, Live, Sound
  <2>3. CASE \E target \in Threads, sig \in Signals : thread_signal_send(target, sig)
    BY <2>3, Zenon DEF thread_signal_send, mem_vars, Box!BoxNext, Box!Send
  <2>4. CASE \E set \in Masks : thread_sigwait(set)
    <3>1. PICK set \in Masks : thread_sigwait(set)
      BY <2>4
    <3>2. set \in SUBSET Signals /\ "user" # "sigwait"
      BY SigAssumption, Zenon
    <3>3. sigwait_round(set) /\ sig_set[current_thread] = {} /\ current_thread \in handles
      BY <2>1, <2>2, <3>1, <3>2, Zenon DEF thread_sigwait, Running
    <3> QED BY <2>1, <3>2, <3>3, RoundBox, Zenon DEF SigType
  <2>5. CASE sigwait_resume
    <3>1. /\ sigwait_round(sig_set[current_thread]) /\ sig_set[current_thread] \in SUBSET Signals
          /\ current_thread \in handles
      BY <2>1, <2>2, <2>5, Zenon DEF sigwait_resume, SigType
    <3> QED BY <2>1, <3>1, RoundBox, Zenon DEF SigType
  <2>6. CASE sig_create
    <3> DEFINE n == newth[current_thread]
    <3>1. n \in Threads \ handles
      BY <2>1, <2>6, NewThread, Zenon DEF sig_create, create_publish, create_no_slot
    <3>2. handles' = handles \/ handles' = handles \cup {n}
      <4>1. handles \ {n} = handles
        BY <3>1, Zenon
      <4> QED BY <2>6, <4>1, Zenon DEF sig_create, create_publish, create_no_slot, thread_obj_release
    <3>3. Box!Arrive(n)
      BY <2>6, <3>2, Zenon DEF Box!Arrive, sig_create, ResetSignals
    <3> QED BY <3>1, <3>3, Zenon DEF Box!BoxNext
  <2>7. CASE sig_exit \/ sig_other
    <3>1. /\ UNCHANGED <<pending_signals, sig_set>>
          /\ \/ UNCHANGED handles
             \/ \E t \in handles : handles' = handles \ {t} /\ sig_set[t] = {}
      BY <1>2, <2>7, ReleaseBox, Zenon
    <3> QED BY <3>1, Zenon DEF Box!BoxNext, Box!Release
  <2>8. CASE UNCHANGED sig_vars
    BY <2>8, Zenon DEF sig_vars, sig_fields, core_vars, mem_vars
  <2> QED BY <1>2, <2>3, <2>4, <2>5, <2>6, <2>7, <2>8, Zenon DEF SigNext
<1> QED BY <1>1, <1>2, SigInvariant, PTL DEF SigSpec, ImplementsSignalBox, Box!BoxSpec
=============================================================================
