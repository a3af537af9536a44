-------------------------- MODULE ThreadLifeProofs --------------------------
(***************************************************************************)
(* The steps of thread_exit and of the thread_join that claims an exited   *)
(* thread keep the lifecycle invariant of ThreadCore; what they and the    *)
(* steps of thread_create do to stacks, claims and join chains.            *)
(***************************************************************************)
EXTENDS ThreadCoreLemmas

-----------------------------------------------------------------------------
(* Where the stacks are.                                                   *)

\* The steps of thread_create before it has a stack.
LEMMA CreateStack ==
  ASSUME NEW held, CoreInv(held), StackInv, thread_create \/ create_retry \/ create_fail
  PROVE  StackInv'
<1>1. CoreShape /\ LiveInv(held) /\ StackOK
  BY DEF CoreInv, StackInv, thread_create, create_retry, create_fail, Running, Live, Sound
<1>2. CASE thread_create
  <2>1. UNCHANGED <<handles, stack_map, state>>
    BY <1>2 DEF thread_create
  <2>2. CASE reclaim_deferred_stacks_all
    BY <1>1, <2>1, <2>2, ReclaimStack DEF StackInv
  <2>3. CASE UNCHANGED <<stack_pool, mapped, deferred_stacks>>
    BY <1>1, <2>1, <2>3, StackFrame DEF StackInv
  <2> QED BY <1>2, <2>2, <2>3 DEF thread_create
<1>3. CASE create_retry
  <2>1. SchedTypeOK /\ CpuOK /\ thread_yield("create")
    BY <1>1, <1>3, RunnableCpu DEF create_retry, LiveInv
  <2>2. Handover
    BY <2>1, YieldHandover
  <2>3. \A t \in handles : state[t] = "TERMINATED" => state'[t] = "TERMINATED"
    BY <1>1, <2>2, HandoverStates
  <2> QED BY <1>1, <1>3, <2>3, ReclaimStack DEF create_retry, StackInv
<1>4. CASE create_fail
  <2>1. handles' = handles
    BY <1>1, <1>4, CreatingFacts DEF create_fail, thread_obj_release, Running
  <2> QED BY <1>1, <1>4, <2>1, ReclaimStack, Zenon DEF create_fail, StackInv
<1> QED BY <1>2, <1>3, <1>4

\* The new thread takes a stack that nobody has: the last of the pool, or one
\* from mmap.
LEMMA PublishStack ==
  ASSUME NEW held, CoreInv(held), StackInv, create_publish
  PROVE  StackInv'
<1> DEFINE t == newth[current_thread]
<1>1. CoreShape /\ LiveInv(held) /\ StackOK /\ context[current_thread] = "create"
  BY DEF CoreInv, StackInv, create_publish, Running, Live, Sound
<1>2. t \in Threads \ handles /\ t # main_thread /\ main_thread \in handles
  BY <1>1, CreatingFacts, Zenon DEF CoreShape
<1>3. PICK s \in Stacks : stack_pool_alloc(s) /\ InitFields(t, s)
  BY Zenon DEF create_publish, t
<1>4. handles' = handles \cup {t} /\ deferred_stacks' = deferred_stacks
  BY Zenon DEF create_publish
<1> HIDE DEF t
<1>5. /\ stack_map'[t] = s /\ \A u \in Threads \ {t} : stack_map'[u] = stack_map[u]
      /\ \A u \in Threads \ {t} : state'[u] = state[u]
      /\ s # NULL /\ handles \subseteq Threads
  BY <1>1, <1>2, <1>3, CoreAssumption, Zenon DEF InitFields, CoreShape, SchedTypeOK
<1>6. /\ Owners' = Owners \cup {t} /\ t \notin Owners
      /\ \A u \in Owners : u # t /\ stack_map'[u] = stack_map[u]
  BY <1>2, <1>4, <1>5 DEF Owners
<1>7. {stack_map'[u] : u \in Owners'} = {stack_map[u] : u \in Owners} \cup {s}
  BY <1>5, <1>6
<1>8. /\ Len(stack_pool') <= MAX_POOLED_STACKS /\ IsInjective(stack_pool')
      /\ s \notin Range(stack_pool') /\ s \notin Range(deferred_stacks)
      /\ \A u \in Owners : stack_map[u] # s
      /\ Range(stack_pool') \subseteq Range(stack_pool)
      /\ mapped' = Range(stack_pool') \cup Range(deferred_stacks) \cup {stack_map[u] : u \in Owners} \cup {s}
  <2>1. CASE /\ stack_pool # <<>> /\ s = Last(stack_pool) /\ stack_pool' = Front(stack_pool)
             /\ UNCHANGED mapped
    <3>1. /\ stack_pool \in Seq(Stacks) /\ IsInjective(stack_pool)
          /\ Len(stack_pool) <= MAX_POOLED_STACKS
      BY <1>1 DEF CoreShape, StackOK
    <3>2. /\ Range(stack_pool) = Range(stack_pool') \cup {s}
          /\ IsInjective(stack_pool') /\ s \notin Range(stack_pool')
      BY <2>1, <3>1, FrontLastRange
    <3>3. Len(stack_pool') <= MAX_POOLED_STACKS
      BY <2>1, <3>1, CoreAssumption, FrontLen
    <3> QED BY <1>1, <2>1, <3>2, <3>3, SMTT(30) DEF StackOK
  <2>2. CASE /\ stack_pool = <<>> /\ s \in Stacks \ mapped /\ mapped' = mapped \cup {s}
             /\ UNCHANGED stack_pool
    BY <1>1, <2>2, Zenon DEF StackOK
  <2> QED BY <1>3, <2>1, <2>2, Zenon DEF stack_pool_alloc
<1>9. \A u, v \in Owners' : stack_map'[u] = stack_map'[v] => u = v
  BY <1>1, <1>5, <1>6, <1>8, SMTT(30) DEF StackOK
<1>10. \A u \in Owners' : stack_map'[u] \notin Range(stack_pool') \cup Range(deferred_stacks')
  BY <1>1, <1>4, <1>5, <1>6, <1>8, Zenon DEF StackOK
<1>11. \A u \in handles' \ {main_thread} : state'[u] # "TERMINATED" => u \in Owners'
  BY <1>1, <1>4, <1>5, <1>6, Zenon DEF StackOK
<1>12. stack_map'[main_thread] = NULL
  BY <1>1, <1>2, <1>5, Zenon DEF StackOK
<1>13. /\ IsInjective(deferred_stacks') /\ Range(stack_pool') \cap Range(deferred_stacks') = {}
  BY <1>1, <1>4, <1>8, Zenon DEF StackOK
<1>14. mapped' = Range(stack_pool') \cup Range(deferred_stacks') \cup {stack_map'[u] : u \in Owners'}
  BY <1>4, <1>7, <1>8, Zenon
<1> QED BY <1>8, <1>9, <1>10, <1>11, <1>12, <1>13, <1>14, Zenon DEF StackInv, StackOK

\* The stack of a creation that gets no chain slot goes back to the pool.
LEMMA NoSlotStack ==
  ASSUME NEW held, CoreInv(held), StackInv, create_no_slot
  PROVE  StackInv'
<1> DEFINE t == newth[current_thread]
<1>1. CoreShape /\ LiveInv(held) /\ StackOK /\ context[current_thread] = "create"
  BY Zenon DEF CoreInv, StackInv, create_no_slot, Running, Live, Sound
<1>2. t \in Threads \ handles /\ main_thread \in handles /\ handles \subseteq Threads
  BY <1>1, CreatingFacts, Zenon DEF CoreShape
<1>3. PICK s \in Stacks :
        /\ InitFields(t, s)
        /\ \/ UNCHANGED <<stack_pool, mapped>>
           \/ /\ stack_pool = <<>> /\ s \in Stacks \ mapped
              /\ stack_pool' = SubSeq(<<s>>, 1, Fit(<<>>, <<s>>))
              /\ mapped' = mapped \cup Range(stack_pool')
  BY DEF create_no_slot, t
<1>4. handles' = handles /\ deferred_stacks' = deferred_stacks
  BY <1>2 DEF create_no_slot, thread_obj_release
<1> HIDE DEF t
<1>5. \A u \in handles : stack_map'[u] = stack_map[u] /\ state'[u] = state[u]
  BY <1>1, <1>2, <1>3, Zenon DEF InitFields, CoreShape, SchedTypeOK
<1>6. Owners' = Owners /\ \A u \in Owners : stack_map'[u] = stack_map[u]
  BY <1>4, <1>5 DEF Owners
<1>7. {stack_map'[u] : u \in Owners'} = {stack_map[u] : u \in Owners}
  BY <1>6
<1>8. /\ Len(stack_pool') <= MAX_POOLED_STACKS /\ IsInjective(stack_pool')
      /\ Range(stack_pool') \cap Range(deferred_stacks) = {}
      /\ \A u \in Owners : stack_map[u] \notin Range(stack_pool')
      /\ mapped' = Range(stack_pool') \cup Range(deferred_stacks) \cup {stack_map[u] : u \in Owners}
  <2>1. CASE UNCHANGED <<stack_pool, mapped>>
    BY <1>1, <2>1, Zenon DEF StackOK
  <2>2. CASE /\ stack_pool = <<>> /\ s \in Stacks \ mapped
             /\ stack_pool' = SubSeq(<<s>>, 1, Fit(<<>>, <<s>>))
             /\ mapped' = mapped \cup Range(stack_pool')
    <3> DEFINE one == <<s>>
               n == Fit(<<>>, one)
    <3>1. /\ one \in Seq(Stacks) /\ Len(one) = 1 /\ Len(<<>>) = 0
          /\ Range(one) = {s} /\ IsInjective(one)
      BY DEF Range, IsInjective
    <3>2. stack_pool' = SubSeq(one, 1, n)
      BY <2>2
    <3> HIDE DEF one
    <3>3. n \in 0..Len(one) /\ n <= MAX_POOLED_STACKS
      BY <3>1, CoreAssumption DEF Fit
    <3> HIDE DEF n
    <3>4. /\ Len(stack_pool') = n /\ IsInjective(stack_pool')
          /\ Range(stack_pool') \subseteq Range(one)
      <4>1. ASSUME NEW q \in Seq(Stacks), NEW k \in 0..Len(q), IsInjective(q)
            PROVE  /\ Len(SubSeq(q, 1, k)) = k /\ IsInjective(SubSeq(q, 1, k))
                   /\ Range(SubSeq(q, 1, k)) \subseteq Range(q)
        BY <4>1, PrefixRange
      <4> QED BY <3>1, <3>2, <3>3, <4>1, Zenon
    <3>5. Range(stack_pool') \subseteq {s} /\ Range(stack_pool) = {}
      <4>1. Range(stack_pool) = {}
        BY <2>2 DEF Range
      <4> QED BY <3>1, <3>4, <4>1, Zenon
    <3>6. mapped = Range(deferred_stacks) \cup {stack_map[u] : u \in Owners}
      BY <1>1, <3>5, Zenon DEF StackOK
    <3>7. /\ Range(stack_pool') \cap Range(deferred_stacks) = {}
          /\ \A u \in Owners : stack_map[u] \notin Range(stack_pool')
      BY <2>2, <3>5, <3>6, Zenon
    <3>8. mapped' = Range(stack_pool') \cup Range(deferred_stacks) \cup {stack_map[u] : u \in Owners}
      BY <2>2, <3>6, Zenon
    <3> QED BY <3>3, <3>4, <3>7, <3>8
  <2> QED BY <1>3, <2>1, <2>2
<1>9. /\ \A u, v \in Owners' : stack_map'[u] = stack_map'[v] => u = v
      /\ \A u \in Owners' : stack_map'[u] \notin Range(stack_pool') \cup Range(deferred_stacks')
  BY <1>1, <1>4, <1>6, <1>8, Zenon DEF StackOK
<1>10. /\ \A u \in handles' \ {main_thread} : state'[u] # "TERMINATED" => u \in Owners'
       /\ stack_map'[main_thread] = NULL
  BY <1>1, <1>2, <1>4, <1>5, <1>6, Zenon DEF StackOK
<1>11. /\ IsInjective(deferred_stacks') /\ Range(stack_pool') \cap Range(deferred_stacks') = {}
       /\ mapped' = Range(stack_pool') \cup Range(deferred_stacks') \cup {stack_map'[u] : u \in Owners'}
  BY <1>1, <1>4, <1>7, <1>8, Zenon DEF StackOK
<1> QED BY <1>8, <1>9, <1>10, <1>11, Zenon DEF StackInv, StackOK

-----------------------------------------------------------------------------
(* Who can be claimed, and the join chains.                                *)

\* A creation terminates nobody and claims nobody.
LEMMA CreateClaim ==
  ASSUME NEW held, CoreInv(held), ClaimInv,
         thread_create \/ create_publish \/ create_no_slot \/ create_retry \/ create_fail
  PROVE  ClaimInv'
<1>1. CoreShape /\ LiveInv(held) /\ ClaimOK
  BY Zenon DEF CoreInv, ClaimInv, thread_create, create_publish, create_no_slot, create_retry,
         create_fail, Running, Live, Sound
<1>2. /\ current_thread \in handles /\ current_thread \in Threads /\ handles \subseteq Threads
      /\ context \in [Threads -> Contexts] /\ state \in [Threads -> States]
  BY <1>1, Zenon DEF LiveInv, RunnableBut, CoreShape, SchedTypeOK
<1>3. CASE thread_create \/ create_fail
  <2>1. UNCHANGED <<zombie_queue, waiting_for, state>>
    BY <1>3, Zenon DEF thread_create, create_fail
  <2>2. handles' = handles
    <3>1. CASE thread_create
      BY <3>1, Zenon DEF thread_create
    <3>2. CASE create_fail
      <4>1. context[current_thread] = "create" /\ handles' = handles \ {newth[current_thread]}
        BY <3>2, Zenon DEF create_fail, thread_obj_release, Running
      <4>2. newth[current_thread] \notin handles
        BY <1>1, <4>1, CreatingFacts, Zenon
      <4> QED BY <4>1, <4>2
    <3> QED BY <1>3, <3>1, <3>2
  <2>3. /\ context[current_thread] \in {"user", "create"}
        /\ \E at \in {"user", "create"} : context' = [context EXCEPT ![current_thread] = at]
    BY <1>3, Zenon DEF thread_create, create_fail, Running
  <2>4. \A t \in handles : context'[t] = "join" <=> context[t] = "join"
    BY <1>2, <2>3, Zenon
  <2> QED BY <1>1, <2>1, <2>2, <2>4, ClaimFrame, Zenon DEF ClaimInv
<1>4. CASE create_retry
  <2>1. SchedTypeOK /\ CpuOK /\ thread_yield("create") /\ context[current_thread] = "create"
    BY <1>1, <1>4, RunnableCpu DEF create_retry, LiveInv, Running
  <2>2. Handover
    BY <2>1, YieldHandover
  <2>3. \A t \in handles : state'[t] = "TERMINATED" <=> state[t] = "TERMINATED"
    BY <1>1, <2>2, HandoverStates, Zenon
  <2>4. context' = context
    BY <1>2, <2>1, Zenon DEF thread_yield
  <2>5. UNCHANGED <<handles, zombie_queue, waiting_for>>
    BY <1>4 DEF create_retry, join_vars
  <2> QED BY <1>1, <2>3, <2>4, <2>5, ClaimFrame, Zenon DEF ClaimInv
<1>5. CASE create_publish \/ create_no_slot
  <2> DEFINE t == newth[current_thread]
  <2>1. context[current_thread] = "create"
    BY <1>5, Zenon DEF create_publish, create_no_slot, Running
  <2>2. /\ t \in Threads \ handles /\ t # current_thread /\ context[t] = "user"
        /\ t \notin Range(zombie_queue) /\ waiting_for[t] = NULL
    BY <1>1, <2>1, CreatingFacts, Zenon
  <2>3. /\ state' = [state EXCEPT ![t] = "READY"] /\ zombie_queue' = zombie_queue
        /\ waiting_for' = [waiting_for EXCEPT ![t] = NULL]
        /\ \/ context' = [context EXCEPT ![t] = "user", ![current_thread] = "user"]
           \/ context' = [context EXCEPT ![current_thread] = "user"]
        /\ handles' = handles \cup {t} \/ handles' = handles \ {t}
    BY <1>5, ZenonT(30) DEF create_publish, create_no_slot, InitFields, thread_obj_release
  <2> HIDE DEF t
  <2>4. waiting_for' = waiting_for /\ \A u \in handles : state'[u] = state[u]
    BY <1>1, <1>2, <2>2, <2>3, Zenon DEF CoreShape
  <2>5. /\ \A u \in handles : context'[u] = "join" <=> context[u] = "join"
        /\ context'[t] = "user" /\ state'[t] = "READY"
    BY <1>2, <2>1, <2>2, <2>3, Zenon
  <2>6. \A u : Awaited(u)' <=> Awaited(u)
    BY <2>3, <2>4, <2>5 DEF Awaited
  <2>7. \A u \in handles' : u \in handles \/ u = t
    BY <2>3, Zenon
  <2>8. ClaimOK'
    BY <1>1, <2>2, <2>3, <2>4, <2>5, <2>6, <2>7, Zenon DEF ClaimOK
  <2> QED BY <2>8, Zenon DEF ClaimInv
<1> QED BY <1>3, <1>4, <1>5, Zenon

\* Main enters its chain at the first creation, a new thread at its own.
LEMMA CreateHead ==
  ASSUME NEW held, CoreInv(held), UnjoinedIsHead,
         thread_create \/ create_publish \/ create_no_slot \/ create_retry \/ create_fail
  PROVE  UnjoinedIsHead'
<1>1. CoreShape /\ LiveInv(held) /\ HeadOK
  BY Zenon DEF CoreInv, UnjoinedIsHead, thread_create, create_publish, create_no_slot, create_retry,
         create_fail, Running, Live, Sound
<1>2. /\ head_ref \in Seq(Threads) /\ head_joiner \in [Threads -> 0..Len(head_ref)]
      /\ handles \subseteq Threads /\ main_thread \in Threads
      /\ joined_by \in [Threads -> Threads \cup {NULL}]
  BY <1>1, SchedulerAssumption, Zenon DEF CoreShape
<1>3. CASE thread_create
  <2>1. UNCHANGED <<handles, joined_by>>
    BY <1>3, Zenon DEF thread_create
  <2>2. CASE head_joiner[main_thread] = 0
    <3>1. /\ head_ref' = Append(head_ref, main_thread)
          /\ head_joiner' = [head_joiner EXCEPT ![main_thread] = Len(head_ref) + 1]
      BY <1>3, <2>2 DEF thread_create
    <3> QED BY <1>1, <1>2, <2>1, <3>1, HeadAppend, Zenon DEF UnjoinedIsHead
  <2>3. CASE head_joiner[main_thread] # 0
    BY <1>1, <1>3, <2>1, <2>3, HeadFrame DEF thread_create, UnjoinedIsHead
  <2> QED BY <2>2, <2>3, Zenon
<1>4. CASE create_retry
  BY <1>1, <1>4, HeadFrame, Zenon DEF create_retry, join_vars, UnjoinedIsHead
<1>5. CASE create_publish \/ create_no_slot \/ create_fail
  <2> DEFINE t == newth[current_thread]
  <2>1. context[current_thread] = "create"
    BY <1>5, Zenon DEF create_publish, create_no_slot, create_fail, Running
  <2>2. t \in Threads \ handles
    BY <1>1, <2>1, CreatingFacts, Zenon
  <2>3. joined_by' = [joined_by EXCEPT ![t] = NULL] \/ joined_by' = joined_by
    BY <1>5, Zenon DEF create_publish, create_no_slot, create_fail, InitFields
  <2>4. CASE create_publish
    <3>1. /\ head_ref' = Append(head_ref, t) /\ handles' = handles \cup {t}
          /\ head_joiner' = [head_joiner EXCEPT ![t] = Len(head_ref) + 1]
      BY <2>4, Zenon DEF create_publish
    <3> HIDE DEF t
    <3>2. handles' \subseteq Threads /\ \A u \in handles' \ {t} : u \in handles /\ joined_by'[u] = joined_by[u]
      BY <1>2, <2>2, <2>3, <3>1, Zenon
    <3> QED BY <1>1, <1>2, <2>2, <3>1, <3>2, HeadAppend, Zenon DEF UnjoinedIsHead
  <2>5. CASE create_no_slot \/ create_fail
    <3>1. /\ head_ref' = head_ref /\ handles' = handles \ {t}
          /\ head_joiner' = [head_joiner EXCEPT ![t] = 0]
      BY <2>5, Zenon DEF create_no_slot, create_fail, thread_obj_release
    <3> HIDE DEF t
    <3>2. \A u \in handles' : /\ u \in handles /\ joined_by'[u] = joined_by[u]
                              /\ head_joiner'[u] = head_joiner[u]
      BY <1>2, <2>2, <2>3, <3>1, Zenon
    <3> QED BY <1>1, <3>1, <3>2, HeadFrame, Zenon DEF UnjoinedIsHead
  <2> QED BY <1>5, <2>4, <2>5, Zenon
<1> QED BY <1>3, <1>4, <1>5, Zenon

-----------------------------------------------------------------------------
(* thread_exit.                                                            *)
LEMMA ExitType ==
  ASSUME CoreShape, thread_exit
  PROVE  CoreShape'
<1> DEFINE dying == current_thread
           joiner == joined_by[dying]
           woken == WakeJoiner(dying)
<1>1. /\ dying \in Threads /\ joiner \in Threads \cup {NULL} /\ ready_queue \in Seq(Threads)
      /\ state \in [Threads -> States] /\ {"TERMINATED", "READY", "RUNNING"} \subseteq States
  BY Zenon DEF CoreShape, SchedTypeOK, States
<1>2. /\ woken.st \in [Threads -> States] /\ woken.rq \in Seq(Threads)
      /\ woken.wrong \subseteq Threads
  <2>1. CASE joiner = NULL
    BY <1>1, <2>1, Zenon DEF WakeJoiner
  <2>2. CASE joiner # NULL
    <3>1. joiner \in Threads /\ thread_scheduler_enqueue(ready_queue, joiner, priority) \in Seq(Threads)
      BY <1>1, <2>2, EnqueueRange, Zenon
    <3> QED BY <1>1, <2>2, <3>1, Zenon DEF WakeJoiner
  <2> QED BY <2>1, <2>2, ZenonT(30)
<1> HIDE DEF woken
<1>3. SchedTypeOK'
  <2>1. CASE /\ woken.rq # <<>> /\ swap_thread(woken.st, Head(woken.rq))
             /\ ready_queue' = Tail(woken.rq)
    <3>1. Head(woken.rq) \in Threads /\ Tail(woken.rq) \in Seq(Threads)
      BY <1>2, <2>1, HeadTailRange, Zenon
    <3> QED BY <1>1, <1>2, <2>1, <3>1, ZenonT(30) DEF swap_thread, CoreShape, SchedTypeOK, thread_exit
  <2>2. CASE state' = woken.st /\ UNCHANGED <<current_thread, ready_queue>>
    BY <1>2, <2>2, ZenonT(30) DEF CoreShape, SchedTypeOK, thread_exit
  <2> QED BY <2>1, <2>2, Zenon DEF thread_exit, woken
<1>4. deferred_stacks' \in Seq(Stacks) /\ stack_map' \in [Threads -> Stacks \cup {NULL}]
  <2>1. StackOf(dying) \in Seq(Stacks)
    BY <1>1 DEF StackOf, CoreShape
  <2>2. deferred_stacks \o StackOf(dying) \in Seq(Stacks)
    BY <2>1, ConcatProperties, Zenon DEF CoreShape
  <2> QED BY <1>1, <2>2, ZenonT(30) DEF thread_exit, defer_stack_reclaim, CoreShape
<1>5. zombie_queue' \in Seq(Threads)
  BY <1>1, AppendProperties, ZenonT(30) DEF thread_exit, thread_zombie_add, CoreShape
<1>6. mis_woken' \subseteq Threads
  BY <1>2, Zenon DEF thread_exit, woken
<1> QED BY <1>3, <1>4, <1>5, <1>6, Zenon DEF CoreShape, thread_exit, join_vars

\* The wake-up at the end of a thread.  If it hits the right thread, the
\* runnable threads are the queued ones, and only the joiner was added.
LEMMA WakeFacts ==
  ASSUME NEW held, CoreShape, LiveInv(held), context[current_thread] = "user",
         \A x \in held : context[x] # "sigwait",
         NEW w, w = WakeJoiner(current_thread), w.wrong = {},
         NEW j, j = joined_by[current_thread]
  PROVE  /\ w.rq \in Seq(Threads) /\ IsInjective(w.rq)
         /\ Range(w.rq) \subseteq handles \ {current_thread}
         /\ w.st \in [Threads -> States]
         /\ Range(w.rq) \cap held = {}
         /\ \A x \in handles : w.st[x] = "READY" <=> x \in Range(w.rq) \cup held
         /\ \A x \in handles : w.st[x] # "RUNNING"
         /\ \A x \in handles : w.st[x] = "TERMINATED" <=> state[x] = "TERMINATED" \/ x = current_thread
         /\ \A x \in handles : w.st[x] = "BLOCKED" <=> state[x] = "BLOCKED" /\ x # j
         /\ \A x \in Threads \ handles : w.st[x] = state[x]
         /\ j # NULL /\ state[j] = "BLOCKED" =>
              waiting_for[j] = current_thread \/ context[j] = "sigwait"
<1> DEFINE d == current_thread
           died == [state EXCEPT ![d] = "TERMINATED"]
<1>1. /\ d \in handles /\ handles \subseteq Threads /\ j \in Threads \cup {NULL}
      /\ ready_queue \in Seq(Threads) /\ state \in [Threads -> States]
      /\ {"TERMINATED", "READY", "RUNNING"} \subseteq States /\ NULL \notin Threads
  BY SchedulerAssumption, ZenonT(30) DEF CoreShape, SchedTypeOK, States, LiveInv, RunnableBut
<1>2. /\ \A x \in handles : state[x] = "RUNNING" <=> x = d
      /\ \A x \in handles : state[x] = "READY" <=> x \in Range(ready_queue) \cup held
      /\ Range(ready_queue) \cup held \subseteq handles /\ IsInjective(ready_queue)
      /\ Range(ready_queue) \cap held = {}
  BY Zenon DEF LiveInv, RunnableBut
<1>3. /\ died \in [Threads -> States] /\ died[d] = "TERMINATED"
      /\ \A x \in Threads \ {d} : died[x] = state[x]
  BY <1>1, Zenon
<1>4. CASE j = NULL
  <2>1. w.st = died /\ w.rq = ready_queue
    BY <1>4, Zenon DEF WakeJoiner
  <2> HIDE DEF died
  <2>2. d \notin Range(ready_queue) \cup held
    BY <1>1, <1>2
  <2>3. \A x \in handles : died[x] = "READY" <=> x \in Range(ready_queue) \cup held
    BY <1>1, <1>2, <1>3, <2>2, Zenon
  <2> QED BY <1>1, <1>2, <1>3, <1>4, <2>1, <2>2, <2>3, SMTT(30)
<1>5. CASE j # NULL
  <2>1. /\ w.st = [died EXCEPT ![j] = "READY"]
        /\ w.rq = thread_scheduler_enqueue(ready_queue, j, priority)
        /\ waiting_for[j] = d \/ j \in Range(ready_queue) \/ context[j] = "sigwait"
    <3> HIDE DEF died
    <3>1. /\ w.st = [died EXCEPT ![j] = "READY"]
          /\ w.rq = thread_scheduler_enqueue(ready_queue, j, priority)
          /\ w.wrong = IF \/ waiting_for[j] = d
                          \/ j \in Range(ready_queue)
                          \/ context[j] = "sigwait"
                       THEN {} ELSE {j}
      BY <1>5, ZenonT(30) DEF WakeJoiner, died
    <3> QED BY <3>1
  <2>2. /\ j \in Threads /\ j \in handles /\ j # d /\ j \notin held
        /\ \/ state[j] = "READY"
           \/ state[j] = "BLOCKED" /\ (waiting_for[j] = d \/ context[j] = "sigwait")
    <3>1. CASE j \in Range(ready_queue)
      BY <1>1, <1>2, <3>1, Zenon
    <3>2. CASE waiting_for[j] = d
      <4>1. j \in Threads
        BY <1>1, <1>5, Zenon
      <4>2. context[j] = "join" /\ j \in handles
        BY <1>1, <3>2, <4>1, SMTT(30) DEF LiveInv, ContextOK
      <4>3. state[j] = "BLOCKED"
        BY <1>1, <1>2, <3>2, <4>2, Zenon DEF LiveInv, JoinOK
      <4> QED BY <1>1, <1>2, <3>2, <4>1, <4>2, <4>3, Zenon
    <3>3. CASE context[j] = "sigwait"
      <4>1. j \in Threads /\ j # d
        BY <1>1, <1>5, <3>3
      <4>2. j \in handles /\ state[j] # "TERMINATED"
        BY <3>3, <4>1, Zenon DEF LiveInv, ContextOK
      <4>3. state[j] \in {"READY", "RUNNING", "BLOCKED", "TERMINATED"}
        BY <1>1, <4>1, Zenon DEF States
      <4> QED BY <1>2, <3>3, <4>1, <4>2, <4>3, Zenon
    <3> QED BY <2>1, <3>1, <3>2, <3>3, ZenonT(30)
  <2>3. /\ w.rq \in Seq(Threads) /\ Range(w.rq) = Range(ready_queue) \cup {j}
        /\ IsInjective(w.rq)
    BY <1>1, <1>2, <2>1, <2>2, EnqueueRange, SMTT(60)
  <2>4. /\ w.st \in [Threads -> States] /\ w.st[j] = "READY"
        /\ \A x \in Threads \ {j} : w.st[x] = died[x]
    BY <1>1, <1>3, <2>1, <2>2
  <2> HIDE DEF died
  <2> QED BY <1>1, <1>2, <1>3, <2>2, <2>3, <2>4
<1> QED BY <1>4, <1>5, Zenon

\* thread_exit, with the joiner it wakes and the thread it switches to.
LEMMA ExitInv ==
  ASSUME NEW held, CoreInv(held), \A x \in held : context[x] # "sigwait", thread_exit
  PROVE  CoreInv(held)'
<1> DEFINE d == current_thread
           w == WakeJoiner(d)
           j == joined_by[d]
           next == Head(w.rq)
<1>1. CoreShape /\ Live /\ LiveInv(held) /\ context[d] = "user" /\ d \in Threads /\ handles \subseteq Threads
  BY Zenon DEF CoreInv, thread_exit, Running, Live, Sound, CoreShape, SchedTypeOK
<1>2. CoreShape'
  BY <1>1, ExitType
<1>3. SUFFICES ASSUME Live' PROVE LiveInv(held)'
  BY <1>2, Zenon DEF CoreInv
<1>4. /\ w.wrong = {} /\ w.rq # <<>>
      /\ current_thread' = next /\ state' = [w.st EXCEPT ![next] = "RUNNING"]
      /\ ready_queue' = Tail(w.rq)
      /\ zombie_queue' = IF Zombifies(d) THEN Append(zombie_queue, d) ELSE zombie_queue
      /\ UNCHANGED <<context, handles, heap, thread_pool, newth, joined_by, waiting_for>>
  BY <1>3, ZenonT(30) DEF thread_exit, Live, Sound, swap_thread, join_vars, thread_zombie_add
<1> HIDE DEF w
<1>5. /\ w.rq \in Seq(Threads) /\ IsInjective(w.rq)
      /\ Range(w.rq) \subseteq handles \ {d}
      /\ w.st \in [Threads -> States]
      /\ Range(w.rq) \cap held = {}
      /\ \A x \in handles : w.st[x] = "READY" <=> x \in Range(w.rq) \cup held
      /\ \A x \in handles : w.st[x] # "RUNNING"
      /\ \A x \in handles : w.st[x] = "TERMINATED" <=> state[x] = "TERMINATED" \/ x = d
      /\ \A x \in handles : w.st[x] = "BLOCKED" <=> state[x] = "BLOCKED" /\ x # j
      /\ j # NULL /\ state[j] = "BLOCKED" => waiting_for[j] = d \/ context[j] = "sigwait"
  <2>1. w = WakeJoiner(d) /\ w.wrong = {} /\ CoreShape /\ LiveInv(held) /\ context[d] = "user"
    BY <1>1, <1>4, Zenon DEF w
  <2>2. j = joined_by[d]
    OBVIOUS
  <2> HIDE DEF j
  <2> QED BY <2>1, <2>2, WakeFacts
<1>6. /\ next \in Threads /\ next \in Range(w.rq) /\ Range(w.rq) = {next} \cup Range(Tail(w.rq))
      /\ IsInjective(Tail(w.rq)) /\ next \notin Range(Tail(w.rq))
  BY <1>4, <1>5, HeadTailRange, Zenon
<1>7. state'[next] = "RUNNING" /\ \A x \in Threads \ {next} : state'[x] = w.st[x]
  BY <1>4, <1>5, <1>6, Zenon
<1> HIDE DEF next
<1>8. /\ \A x \in handles : state'[x] = "TERMINATED" <=> state[x] = "TERMINATED" \/ x = d
      /\ \A x \in handles : state'[x] = "BLOCKED" <=> state[x] = "BLOCKED" /\ x # j
  BY <1>1, <1>5, <1>6, <1>7, SMTT(30)
<1>9. RunnableBut(held)'
  <2>1. d \notin held /\ held \subseteq handles
    BY <1>1, Zenon DEF LiveInv, RunnableBut
  <2> QED BY <1>1, <1>4, <1>5, <1>6, <1>7, <2>1, ZenonT(30) DEF RunnableBut
<1>10. ContextOK'
  <2>1. ContextOK
    BY <1>1 DEF LiveInv
  <2> QED BY <1>1, <1>4, <1>8, <2>1, ZenonT(30) DEF ContextOK
<1>11. ZombieOK'
  <2>1. ZombieOK /\ zombie_queue \in Seq(Threads) /\ d \in handles /\ state[d] = "RUNNING"
    BY <1>1, Zenon DEF LiveInv, RunnableBut, CoreShape
  <2>2. \A x \in Range(zombie_queue) : x \in handles \ {main_thread} /\ state'[x] = "TERMINATED"
    BY <1>8, <2>1, ZenonT(30) DEF ZombieOK
  <2>3. CASE Zombifies(d)
    <3>1. Range(zombie_queue') = Range(zombie_queue) \cup {d} /\ IsInjective(zombie_queue')
      BY <1>1, <1>4, <2>1, <2>3, AppendRange DEF ZombieOK
    <3>2. d # main_thread /\ state'[d] = "TERMINATED"
      BY <1>8, <2>1, <2>3, Zenon DEF Zombifies
    <3> QED BY <1>4, <2>1, <2>2, <3>1, <3>2, Zenon DEF ZombieOK
  <2>4. CASE ~Zombifies(d)
    BY <1>4, <2>1, <2>2, <2>4, Zenon DEF ZombieOK
  <2> QED BY <2>3, <2>4
<1>12. JoinOK'
  <2>1. JoinOK /\ ContextOK /\ NULL \notin Threads
    BY <1>1, SchedulerAssumption, Zenon DEF LiveInv
  <2> SUFFICES ASSUME NEW x \in handles, context[x] = "join"
               PROVE  /\ waiting_for[x] \in handles \ {x}
                      /\ joined_by[waiting_for[x]] = x
                      /\ state'[x] = "BLOCKED" <=> state'[waiting_for[x]] # "TERMINATED"
    BY <1>4 DEF JoinOK
  <2>2. /\ waiting_for[x] \in handles \ {x} /\ joined_by[waiting_for[x]] = x
        /\ state[x] = "BLOCKED" <=> state[waiting_for[x]] # "TERMINATED"
    BY <2>1, Zenon DEF JoinOK
  <2>3. CASE waiting_for[x] = d
    BY <1>8, <2>2, <2>3, Zenon
  <2>4. CASE waiting_for[x] # d
    BY <1>1, <1>5, <1>8, <2>1, <2>2, <2>4
  <2> QED BY <2>2, <2>3, <2>4, Zenon
<1>13. OwnOK'
  BY <1>1, <1>4, Zenon DEF LiveInv, OwnOK
<1> QED BY <1>9, <1>10, <1>11, <1>12, <1>13, Zenon DEF LiveInv

-----------------------------------------------------------------------------
(* thread_join.                                                            *)

\* Claiming a terminated target that nobody waits for any more.
LEMMA ClaimLive ==
  ASSUME NEW held, CoreShape, LiveInv(held), NEW target \in handles, target # current_thread,
         state[target] = "TERMINATED", claim(target),
         newth[current_thread] = NULL,
         \A u \in Threads : waiting_for'[u] # target,
         \A u \in Threads \ {current_thread} : context'[u] = context[u] /\ waiting_for'[u] = waiting_for[u],
         context'[current_thread] = "user", waiting_for'[current_thread] = NULL,
         UNCHANGED <<current_thread, state, ready_queue, newth, joined_by, head_ref>>
  PROVE  /\ LiveInv(held)'
         /\ handles' \subseteq Threads /\ main_thread \in handles'
         /\ heap' \subseteq Threads \ {main_thread} /\ thread_pool' \in Seq(Threads)
         /\ zombie_queue' \in Seq(Threads)
         /\ head_joiner' \in [Threads -> 0..Len(head_ref')]
         /\ stack_pool' \in Seq(Stacks) /\ mapped' \subseteq Stacks
<1>1. /\ handles \subseteq Threads /\ main_thread \in handles /\ target \in Threads
      /\ zombie_queue \in Seq(Threads) /\ heap \subseteq Threads \ {main_thread}
      /\ current_thread \in handles /\ target \notin Range(ready_queue)
  BY Zenon DEF CoreShape, LiveInv, RunnableBut
<1>2. RunnableBut(held) /\ ContextOK /\ ZombieOK /\ JoinOK /\ OwnOK
  BY Zenon DEF LiveInv
<1>3. CASE target = main_thread
  <2>1. UNCHANGED <<zombie_queue, stack_pool, mapped, handles, heap, thread_pool, head_joiner>>
    BY <1>3, ZenonT(30) DEF claim
  <2>2. RunnableBut(held)' /\ ZombieOK' /\ OwnOK'
    BY <1>2, <2>1, ZenonT(30) DEF RunnableBut, ZombieOK, OwnOK
  <2>3. ContextOK'
    BY <1>1, <1>2, <2>1, SMTT(30) DEF ContextOK
  <2>4. JoinOK'
    <3>1. \A t \in handles : context'[t] = "join" =>
             t # current_thread /\ context[t] = "join" /\ waiting_for'[t] = waiting_for[t]
      BY <1>1, Zenon
    <3>2. \A t \in handles : context'[t] = "join" =>
             /\ waiting_for'[t] \in handles \ {t} /\ joined_by[waiting_for'[t]] = t
             /\ state[t] = "BLOCKED" <=> state[waiting_for'[t]] # "TERMINATED"
      BY <1>2, <3>1 DEF JoinOK
    <3>3. handles' = handles /\ state' = state /\ joined_by' = joined_by
      BY <2>1, Zenon
    <3> QED BY <3>2, <3>3 DEF JoinOK
  <2> QED BY <2>1, <2>2, <2>3, <2>4, Zenon DEF LiveInv, CoreShape
<1>4. CASE target # main_thread
  <2>1. /\ zombie_queue' = Unlinked(zombie_queue, target)
        /\ stack_pool_push(StackOf(target))
        /\ head_joiner' = [head_joiner EXCEPT ![target] = 0]
        /\ handles' = handles \ {target} /\ thread_free(target)
    BY <1>4, ZenonT(30) DEF claim, thread_obj_release, thread_zombie_remove, Unlinked
  <2>2. target \in heap /\ target \notin Range(thread_pool) /\ \A u \in Threads : newth[u] # target
    BY <1>1, <1>2, <1>4, SMTT(30) DEF OwnOK
  <2>3. OwnOK' /\ thread_pool' \in Seq(Threads) /\ heap' \subseteq Threads \ {main_thread}
    BY <1>1, <1>2, <1>4, <2>1, <2>2, FreeOwn, ZenonT(30)
  <2>4. /\ zombie_queue' \in Seq(Threads) /\ IsInjective(zombie_queue')
        /\ Range(zombie_queue') \subseteq Range(zombie_queue) \ {target}
    <3>1. zombie_queue \in Seq(Threads) /\ IsInjective(zombie_queue)
      BY <1>1, <1>2, Zenon DEF ZombieOK
    <3> DEFINE q == Unlinked(zombie_queue, target)
    <3>2. q \in Seq(Threads) /\ IsInjective(q) /\ Range(q) \subseteq Range(zombie_queue) /\ target \notin Range(q)
      BY <3>1, UnlinkedRange, Zenon
    <3> HIDE DEF q
    <3>3. zombie_queue' = q
      BY <2>1, Zenon DEF q
    <3> QED BY <3>2, <3>3, Zenon
  <2>5. stack_pool' \in Seq(Stacks) /\ mapped' \subseteq Stacks
    <3>1. StackOf(target) \in Seq(Stacks)
      BY <1>1, SMTT(30) DEF StackOf, CoreShape
    <3> QED BY <2>1, <3>1, PushType, Zenon DEF CoreShape
  <2>6. head_joiner' \in [Threads -> 0..Len(head_ref')]
    BY <1>1, <2>1, ZeroInRange, ZenonT(30) DEF CoreShape
  <2>7. RunnableBut(held)'
    BY <1>1, <1>2, <2>1, Zenon DEF RunnableBut
  <2>8. ContextOK'
    <3>1. \A t \in Threads : t \notin handles' => t \notin handles \/ t = target
      BY <2>1, Zenon
    <3> QED BY <1>1, <1>2, <3>1, ZenonT(30) DEF ContextOK
  <2>9. ZombieOK'
    BY <1>2, <2>1, <2>4, ZenonT(30) DEF ZombieOK
  <2>10. JoinOK'
    <3>1. \A t \in handles : context'[t] = "join" =>
             t # current_thread /\ context[t] = "join" /\ waiting_for'[t] = waiting_for[t]
      BY <1>1, Zenon
    <3>2. \A t \in handles : context'[t] = "join" =>
             /\ waiting_for'[t] \in handles \ {t} /\ joined_by[waiting_for'[t]] = t
             /\ state[t] = "BLOCKED" <=> state[waiting_for'[t]] # "TERMINATED"
      BY <1>2, <3>1 DEF JoinOK
    <3>3. \A t \in handles' : t \in handles /\ waiting_for'[t] # target
      BY <1>1, <2>1, Zenon
    <3>4. handles' = handles \ {target} /\ state' = state /\ joined_by' = joined_by
      BY <2>1, Zenon
    <3> QED BY <3>2, <3>3, <3>4 DEF JoinOK
  <2> QED BY <1>1, <1>4, <2>1, <2>3, <2>4, <2>5, <2>6, <2>7, <2>8, <2>9, <2>10, ZenonT(30) DEF LiveInv
<1> QED BY <1>3, <1>4, ZenonT(30)

\* thread_join of a thread that has already exited.
LEMMA JoinTerminatedInv ==
  ASSUME NEW held, CoreInv(held), NEW target \in Threads, join_terminated(target)
  PROVE  CoreInv(held)'
<1>1. CoreShape /\ Live /\ LiveInv(held) /\ context[current_thread] = "user" /\ current_thread \in Threads
  BY Zenon DEF CoreInv, join_terminated, Joinable, Running, Live, Sound, CoreShape, SchedTypeOK
<1>2. /\ target \in handles /\ target # current_thread /\ state[target] = "TERMINATED"
      /\ joined_by[target] = NULL /\ claim(target)
      /\ UNCHANGED <<sched_vars, newth, alloc_retries, stack_map, deferred_stacks, joined_by,
                     waiting_for, head_ref, process, mis_woken>>
  BY ZenonT(30) DEF join_terminated, Joinable
<1>3. newth[current_thread] = NULL /\ waiting_for[current_thread] = NULL
  BY <1>1, Zenon DEF LiveInv, ContextOK
<1>4. \A u \in Threads : waiting_for[u] # target
  BY <1>1, <1>2, SchedulerAssumption, SMTT(60) DEF LiveInv, ContextOK, JoinOK
<1>5. /\ LiveInv(held)'
      /\ handles' \subseteq Threads /\ main_thread \in handles'
      /\ heap' \subseteq Threads \ {main_thread} /\ thread_pool' \in Seq(Threads)
      /\ zombie_queue' \in Seq(Threads)
      /\ head_joiner' \in [Threads -> 0..Len(head_ref')]
      /\ stack_pool' \in Seq(Stacks) /\ mapped' \subseteq Stacks
  BY <1>1, <1>2, <1>3, <1>4, ClaimLive, Zenon DEF sched_vars
<1>6. CoreShape'
  BY <1>1, <1>2, <1>5, Zenon DEF CoreShape, SchedTypeOK, sched_vars
<1> QED BY <1>5, <1>6 DEF CoreInv

\* thread_join after its target woke it.
LEMMA JoinResumeInv ==
  ASSUME NEW held, CoreInv(held), join_resume
  PROVE  CoreInv(held)'
<1> DEFINE target == waiting_for[current_thread]
<1>1. CoreShape /\ Live /\ LiveInv(held) /\ context[current_thread] = "join" /\ current_thread \in Threads
  BY Zenon DEF CoreInv, join_resume, Running, Live, Sound, CoreShape, SchedTypeOK
<1>2. /\ waiting_for' = [waiting_for EXCEPT ![current_thread] = NULL]
      /\ claim(target)
      /\ context' = [context EXCEPT ![current_thread] = "user"]
      /\ UNCHANGED <<current_thread, state, ready_queue, priority, newth, alloc_retries,
                     stack_map, deferred_stacks, joined_by, head_ref, process, mis_woken>>
  BY Zenon DEF join_resume
<1>3. current_thread \in handles /\ state[current_thread] = "RUNNING"
  BY <1>1 DEF LiveInv, RunnableBut
<1>4. /\ target \in handles /\ joined_by[target] = current_thread
      /\ state[target] = "TERMINATED" /\ newth[current_thread] = NULL
  BY <1>1, <1>3, Zenon DEF LiveInv, JoinOK, ContextOK
<1>5. target # current_thread /\ target \in Threads
  BY <1>1, <1>3, <1>4, Zenon DEF CoreShape
<1> HIDE DEF target
<1>6. /\ context'[current_thread] = "user" /\ waiting_for'[current_thread] = NULL
      /\ \A u \in Threads \ {current_thread} : context'[u] = context[u] /\ waiting_for'[u] = waiting_for[u]
  BY <1>1, <1>2 DEF CoreShape
<1>7. \A u \in Threads : waiting_for'[u] # target
  BY <1>1, <1>4, <1>5, <1>6, SchedulerAssumption DEF LiveInv, ContextOK, JoinOK
<1>8. /\ LiveInv(held)'
      /\ handles' \subseteq Threads /\ main_thread \in handles'
      /\ heap' \subseteq Threads \ {main_thread} /\ thread_pool' \in Seq(Threads)
      /\ zombie_queue' \in Seq(Threads)
      /\ head_joiner' \in [Threads -> 0..Len(head_ref')]
      /\ stack_pool' \in Seq(Stacks) /\ mapped' \subseteq Stacks
  BY <1>1, <1>2, <1>4, <1>5, <1>6, <1>7, ClaimLive, ZenonT(30)
<1>9. CoreShape'
  BY <1>1, <1>2, <1>8, ZenonT(30) DEF CoreShape, Contexts, SchedTypeOK
<1> QED BY <1>8, <1>9 DEF CoreInv

-----------------------------------------------------------------------------
(* Where the stacks are, and who can be claimed.                           *)

\* What an exit does to the states, if it wakes the right thread or nobody.
LEMMA ExitStates ==
  ASSUME NEW held, CoreInv(held), \A x \in held : context[x] # "sigwait", thread_exit, mis_woken' = {},
         NEW d, d = current_thread, NEW j, j = joined_by[d]
  PROVE  /\ CoreShape /\ LiveInv(held) /\ Live /\ context[d] = "user"
         /\ d \in handles /\ d \in Threads /\ handles \subseteq Threads /\ state[d] = "RUNNING"
         /\ \A x \in handles : state'[x] = "TERMINATED" <=> state[x] = "TERMINATED" \/ x = d
         /\ \A x \in handles : state'[x] = "BLOCKED" <=> state[x] = "BLOCKED" /\ x # j
         /\ \A x \in Threads \ handles : state'[x] = state[x]
         /\ j # NULL /\ state[j] = "BLOCKED" => waiting_for[j] = d \/ context[j] = "sigwait"
<1> DEFINE w == WakeJoiner(d)
           next == Head(w.rq)
<1>1. /\ CoreShape /\ LiveInv(held) /\ Live /\ context[d] = "user"
      /\ d \in handles /\ d \in Threads /\ handles \subseteq Threads /\ state[d] = "RUNNING"
  BY Zenon DEF CoreInv, thread_exit, Running, Live, Sound, CoreShape, SchedTypeOK, LiveInv, RunnableBut
<1>2. /\ w.wrong = {}
      /\ \/ w.rq # <<>> /\ state' = [w.st EXCEPT ![next] = "RUNNING"]
         \/ state' = w.st
  BY ZenonT(30) DEF thread_exit, swap_thread
<1> HIDE DEF w
<1>3. /\ w.rq \in Seq(Threads) /\ Range(w.rq) \subseteq handles \ {d}
      /\ w.st \in [Threads -> States]
      /\ \A x \in handles : w.st[x] = "READY" <=> x \in Range(w.rq) \cup held
      /\ \A x \in handles : w.st[x] = "TERMINATED" <=> state[x] = "TERMINATED" \/ x = d
      /\ \A x \in handles : w.st[x] = "BLOCKED" <=> state[x] = "BLOCKED" /\ x # j
      /\ \A x \in Threads \ handles : w.st[x] = state[x]
      /\ j # NULL /\ state[j] = "BLOCKED" => waiting_for[j] = d \/ context[j] = "sigwait"
  <2>1. w = WakeJoiner(d) /\ w.wrong = {} /\ j = joined_by[current_thread]
    BY <1>2, Zenon DEF w
  <2> HIDE DEF w
  <2> QED BY <1>1, <2>1, WakeFacts
<1>4. CASE state' = w.st
  BY <1>1, <1>3, <1>4, Zenon
<1>5. CASE w.rq # <<>> /\ state' = [w.st EXCEPT ![next] = "RUNNING"]
  <2>1. next \in Range(w.rq) /\ next \in handles /\ w.st[next] = "READY"
    BY <1>3, <1>5, HeadTailRange, Zenon
  <2>2. \A x \in Threads \ {next} : state'[x] = w.st[x]
    BY <1>1, <1>3, <1>5, <2>1, Zenon
  <2>3. state'[next] = "RUNNING"
    BY <1>1, <1>3, <1>5, <2>1, Zenon
  <2> HIDE DEF next
  <2> QED BY <1>1, <1>3, <2>1, <2>2, <2>3, SMTT(30)
<1> QED BY <1>2, <1>4, <1>5, Zenon

\* The stack of the dying thread is deferred, or stays with its struct.
LEMMA ExitStack ==
  ASSUME NEW held, CoreInv(held), StackInv, \A x \in held : context[x] # "sigwait", thread_exit, mis_woken' = {}
  PROVE  StackOK'
<1> DEFINE d == current_thread
           s == stack_map[d]
<1>1. /\ CoreShape /\ StackOK /\ d \in handles /\ d \in Threads /\ handles \subseteq Threads
      /\ state[d] = "RUNNING"
      /\ \A x \in handles : state'[x] = "TERMINATED" <=> state[x] = "TERMINATED" \/ x = d
  <2>1. d = current_thread /\ StackOK
    BY Zenon DEF StackInv, thread_exit, Running, Live, Sound
  <2> HIDE DEF d
  <2> QED BY <2>1, ExitStates
<1>2. UNCHANGED <<handles, mapped, stack_pool>>
  BY DEF thread_exit
<1>3. CASE UNCHANGED <<deferred_stacks, stack_map>>
  BY <1>1, <1>2, <1>3, StackFrame, Zenon
<1>4. CASE /\ d # main_thread /\ deferred_stacks' = deferred_stacks \o StackOf(d)
           /\ stack_map' = [stack_map EXCEPT ![d] = NULL]
  <2>1. d \in Owners /\ s # NULL /\ s \in Stacks
    BY <1>1, <1>4 DEF StackOK, Owners, CoreShape
  <2> DEFINE one == <<s>>
  <2>2. /\ deferred_stacks \in Seq(Stacks) /\ one \in Seq(Stacks)
        /\ Range(one) = {s} /\ IsInjective(one) /\ StackOf(d) = one
    BY <1>1, <2>1 DEF StackOf, Range, IsInjective, CoreShape
  <2> HIDE DEF one
  <2>3. /\ Range(deferred_stacks') = Range(deferred_stacks) \cup {s}
        /\ IsInjective(deferred_stacks')
    <3>1. Range(deferred_stacks) \cap Range(one) = {} /\ IsInjective(deferred_stacks)
      BY <1>1, <2>1, <2>2, Zenon DEF StackOK
    <3>2. IsInjective(deferred_stacks \o one)
      BY <2>2, <3>1, ConcatInjective, Zenon
    <3>3. Range(deferred_stacks \o one) = Range(deferred_stacks) \cup {s}
      BY <2>2, ConcatRange, SMTT(30)
    <3> QED BY <1>4, <2>2, <3>2, <3>3, Zenon
  <2>4. /\ stack_map'[d] = NULL /\ \A u \in handles \ {d} : stack_map'[u] = stack_map[u]
    BY <1>1, <1>4, Zenon DEF CoreShape
  <2>5. Owners' = Owners \ {d} /\ \A u \in Owners' : stack_map'[u] = stack_map[u]
    BY <1>1, <1>2, <2>4 DEF Owners
  <2> HIDE DEF d, s
  <2>6. /\ Range(stack_pool) \cap Range(deferred_stacks') = {}
        /\ \A u \in Owners' : stack_map'[u] \notin Range(stack_pool) \cup Range(deferred_stacks')
    BY <1>1, <2>1, <2>3, <2>5, Zenon DEF StackOK, s
  <2>7. \A u, v \in Owners' : stack_map'[u] = stack_map'[v] => u = v
    BY <1>1, <2>5, SMTT(30) DEF StackOK
  <2>8. mapped = Range(stack_pool) \cup Range(deferred_stacks') \cup {stack_map'[u] : u \in Owners'}
    <3>1. {stack_map[u] : u \in Owners} = {stack_map'[u] : u \in Owners'} \cup {s}
      BY <2>1, <2>5, Zenon DEF s
    <3> QED BY <1>1, <2>3, <3>1, Zenon DEF StackOK
  <2>9. /\ stack_map'[main_thread] = NULL
        /\ \A u \in handles \ {main_thread} : state'[u] # "TERMINATED" => u \in Owners'
    <3>1. main_thread \in handles \ {d} /\ stack_map[main_thread] = NULL
      BY <1>1, <1>4 DEF StackOK, CoreShape
    <3>2. \A u \in handles \ {main_thread} : state[u] # "TERMINATED" => u \in Owners
      BY <1>1, Zenon DEF StackOK
    <3> QED BY <1>1, <2>4, <2>5, <3>1, <3>2
  <2>10. Len(stack_pool) <= MAX_POOLED_STACKS /\ IsInjective(stack_pool)
    BY <1>1 DEF StackOK
  <2> QED BY <1>2, <2>3, <2>6, <2>7, <2>8, <2>9, <2>10, Zenon DEF StackOK
<1> QED BY <1>3, <1>4, Zenon DEF thread_exit, defer_stack_reclaim

\* A claim gives the stack that the struct still owns, if any, to the pool.
LEMMA ClaimStack ==
  ASSUME CoreShape, StackOK, NEW target \in handles, state[target] = "TERMINATED",
         claim(target), UNCHANGED <<state, stack_map, deferred_stacks>>
  PROVE  StackOK'
<1>1. CASE target = main_thread
  <2>1. UNCHANGED <<handles, mapped, stack_pool>>
    BY <1>1, Zenon DEF claim
  <2> QED BY <2>1, StackFrame, Zenon
<1>2. CASE target # main_thread
  <2> DEFINE ss == StackOf(target)
             s == stack_map[target]
  <2>1. stack_pool_push(ss) /\ handles' = handles \ {target}
    BY <1>2, ZenonT(30) DEF claim, thread_obj_release
  <2>2. s \in Stacks \cup {NULL} /\ stack_pool \in Seq(Stacks) /\ main_thread \in handles
    BY Zenon DEF CoreShape
  <2>3. /\ ss \in Seq(Stacks) /\ IsInjective(ss)
        /\ Range(ss) = IF target \in Owners THEN {s} ELSE {}
    BY <2>2 DEF StackOf, Range, IsInjective, Owners
  <2> HIDE DEF ss, s
  <2>4. target \in Owners => s \notin Range(stack_pool) \cup Range(deferred_stacks)
    BY Zenon DEF StackOK, s
  <2>5. /\ Len(stack_pool) <= MAX_POOLED_STACKS /\ IsInjective(stack_pool)
        /\ Range(stack_pool) \cap Range(ss) = {}
    BY <2>3, <2>4 DEF StackOK
  <2>6. /\ Len(stack_pool') <= MAX_POOLED_STACKS /\ IsInjective(stack_pool')
        /\ Range(stack_pool) \subseteq Range(stack_pool')
        /\ Range(stack_pool') \subseteq Range(stack_pool) \cup Range(ss)
        /\ mapped' = mapped \ (Range(ss) \ Range(stack_pool'))
    BY <2>1, <2>2, <2>3, <2>5, PushRange, Zenon
  <2>7. Owners' = Owners \ {target} /\ stack_map' = stack_map
    BY <2>1, Zenon DEF Owners
  <2>8. \A u \in Owners' : stack_map[u] \notin Range(ss)
    BY <2>3, <2>7 DEF StackOK, s
  <2>9. /\ Range(stack_pool') \cap Range(deferred_stacks) = {}
        /\ \A u \in Owners' : stack_map[u] \notin Range(stack_pool') \cup Range(deferred_stacks)
    BY <2>3, <2>4, <2>6, <2>7, <2>8, SMTT(30) DEF StackOK
  <2>10. mapped' = Range(stack_pool') \cup Range(deferred_stacks) \cup {stack_map[u] : u \in Owners'}
    <3>1. {stack_map[u] : u \in Owners} = {stack_map[u] : u \in Owners'} \cup Range(ss)
      BY <2>3, <2>7, Zenon DEF s
    <3>2. {stack_map[u] : u \in Owners'} \cap Range(ss) = {} /\ Range(deferred_stacks) \cap Range(ss) = {}
      BY <2>3, <2>4, <2>8, Zenon
    <3>3. mapped = Range(stack_pool) \cup Range(deferred_stacks) \cup {stack_map[u] : u \in Owners}
      BY DEF StackOK
    <3> QED BY <2>6, <3>1, <3>2, <3>3, Zenon
  <2>11. /\ stack_map[main_thread] = NULL /\ IsInjective(deferred_stacks)
         /\ \A u, v \in Owners' : stack_map[u] = stack_map[v] => u = v
         /\ \A u \in handles' \ {main_thread} : state[u] # "TERMINATED" => u \in Owners'
    BY <2>1, <2>7, Zenon DEF StackOK
  <2> QED BY <2>6, <2>7, <2>9, <2>10, <2>11, SMTT(30) DEF StackOK
<1> QED BY <1>1, <1>2, Zenon

\* Joining a terminated thread, at once or after waiting for it.
LEMMA JoinStack ==
  ASSUME NEW held, CoreInv(held), StackInv, (\E target \in Threads : join_terminated(target)) \/ join_resume
  PROVE  StackInv'
<1>1. CASE \E target \in Threads : join_terminated(target)
  <2>1. PICK target \in Threads : join_terminated(target)
    BY <1>1, Zenon
  <2>2. CoreShape /\ StackOK
    BY <2>1, Zenon DEF join_terminated, Joinable, Running, CoreInv, StackInv, Live, Sound
  <2>3. /\ target \in handles /\ state[target] = "TERMINATED" /\ claim(target)
        /\ UNCHANGED <<state, stack_map, deferred_stacks>>
    BY <2>1, Zenon DEF join_terminated, Joinable, sched_vars
  <2> QED BY <2>2, <2>3, ClaimStack, Zenon DEF StackInv
<1>2. CASE join_resume
  <2> DEFINE target == waiting_for[current_thread]
  <2>1. CoreShape /\ StackOK /\ LiveInv(held) /\ context[current_thread] = "join"
    BY <1>2, Zenon DEF join_resume, Running, CoreInv, StackInv, Live, Sound
  <2>2. current_thread \in handles /\ state[current_thread] = "RUNNING"
    BY <2>1, Zenon DEF LiveInv, RunnableBut
  <2>3. target \in handles /\ state[target] = "TERMINATED"
    BY <2>1, <2>2 DEF LiveInv, JoinOK
  <2>4. claim(target) /\ UNCHANGED <<state, stack_map, deferred_stacks>>
    BY <1>2, Zenon DEF join_resume
  <2> HIDE DEF target
  <2> QED BY <2>1, <2>3, <2>4, ClaimStack, Zenon DEF StackInv
<1> QED BY <1>1, <1>2

\* The dying thread can be claimed: by its joiner if that is blocked, from the
\* zombie queue otherwise.
LEMMA ExitClaim ==
  ASSUME NEW held, CoreInv(held), ClaimInv, context \in [Threads -> Contexts \ {"sigwait"}],
         thread_exit, mis_woken' = {}
  PROVE  ClaimOK'
<1> DEFINE d == current_thread
           j == joined_by[d]
<1>1. /\ CoreShape /\ LiveInv(held) /\ ClaimOK /\ d \in handles /\ d \in Threads
      /\ handles \subseteq Threads /\ state[d] = "RUNNING" /\ context[d] = "user"
      /\ \A x \in handles : state'[x] = "TERMINATED" <=> state[x] = "TERMINATED" \/ x = d
      /\ j # NULL /\ state[j] = "BLOCKED" => waiting_for[j] = d \/ context[j] = "sigwait"
  <2>1. \A x \in held : context[x] # "sigwait"
    BY Zenon DEF CoreInv, LiveInv, RunnableBut, CoreShape, thread_exit, Running, Live, Sound
  <2>2. ClaimOK
    BY DEF ClaimInv, thread_exit, Running, Live, Sound
  <2>3. d = current_thread /\ j = joined_by[d]
    OBVIOUS
  <2> HIDE DEF d, j
  <2> QED BY <2>1, <2>2, <2>3, ExitStates
<1>2. /\ UNCHANGED <<handles, context, waiting_for>>
      /\ zombie_queue' = IF Zombifies(d) THEN Append(zombie_queue, d) ELSE zombie_queue
  BY Zenon DEF thread_exit, join_vars, thread_zombie_add
<1>3. Zombifies(d) <=> d # main_thread /\ ~Awaited(d)
  <2>1. ASSUME Awaited(d) PROVE j # NULL /\ state[j] = "BLOCKED"
    <3>1. PICK u \in handles : context[u] = "join" /\ waiting_for[u] = d
      BY <2>1, Zenon DEF Awaited
    <3>2. j = u /\ state[u] = "BLOCKED"
      BY <1>1, <3>1, Zenon DEF LiveInv, JoinOK
    <3> QED BY <1>1, <3>1, <3>2, SchedulerAssumption, Zenon
  <2>2. ASSUME j # NULL, state[j] = "BLOCKED" PROVE Awaited(d)
    <3>1. j \in Threads
      BY <1>1, <2>2, Zenon DEF CoreShape
    <3>2. waiting_for[j] = d
      BY <1>1, <2>2, <3>1, Zenon DEF Contexts
    <3>3. context[j] = "join" /\ j \in handles
      BY <1>1, <3>1, <3>2, SchedulerAssumption DEF LiveInv, ContextOK
    <3> QED BY <3>2, <3>3, Zenon DEF Awaited
  <2> QED BY <2>1, <2>2, Zenon DEF Zombifies
<1>4. Range(zombie_queue') = IF Zombifies(d) THEN Range(zombie_queue) \cup {d} ELSE Range(zombie_queue)
  <2>1. zombie_queue \in Seq(Threads)
    BY <1>1, Zenon DEF CoreShape
  <2>2. Range(Append(zombie_queue, d)) = Range(zombie_queue) \cup {d}
    BY <1>1, <2>1, AppendRange
  <2> QED BY <1>2, <2>2, Zenon
<1>5. \A t : Awaited(t)' <=> Awaited(t)
  BY <1>2, Zenon DEF Awaited
<1>6. d \notin Range(zombie_queue)
  BY <1>1, Zenon DEF LiveInv, ZombieOK
<1> HIDE DEF d
<1>7. ASSUME NEW t \in handles \ {main_thread}
      PROVE  t \in Range(zombie_queue') <=> state'[t] = "TERMINATED" /\ ~Awaited(t)
  BY <1>1, <1>3, <1>4, <1>6, Zenon DEF ClaimOK
<1> QED BY <1>2, <1>5, <1>7, Zenon DEF ClaimOK

\* A claim takes one terminated thread out.
LEMMA ClaimClaim ==
  ASSUME NEW held, CoreShape, LiveInv(held), ClaimOK, NEW target \in handles, state[target] = "TERMINATED",
         claim(target), UNCHANGED state,
         \A u \in handles, t \in handles \ {target} :
            context'[u] = "join" /\ waiting_for'[u] = t <=> context[u] = "join" /\ waiting_for[u] = t
  PROVE  ClaimOK'
<1>1. CASE target = main_thread
  <2>1. UNCHANGED <<handles, zombie_queue>>
    BY <1>1, Zenon DEF claim
  <2>2. \A t \in handles \ {main_thread} : Awaited(t)' <=> Awaited(t)
    BY <1>1, <2>1, Zenon DEF Awaited
  <2> QED BY <2>1, <2>2, Zenon DEF ClaimOK
<1>2. CASE target # main_thread
  <2>1. zombie_queue' = Unlinked(zombie_queue, target) /\ handles' = handles \ {target}
    BY <1>2, ZenonT(30) DEF claim, thread_obj_release, thread_zombie_remove, Unlinked
  <2>2. Range(zombie_queue') = Range(zombie_queue) \ {target}
    <3>1. zombie_queue \in Seq(Threads) /\ IsInjective(zombie_queue)
      BY Zenon DEF CoreShape, LiveInv, ZombieOK
    <3> QED BY <2>1, <3>1, UnlinkedRange, Zenon
  <2>3. context[target] = "user" /\ target \in Threads
    BY DEF LiveInv, ContextOK, CoreShape
  <2>4. \A t \in handles' : Awaited(t)' <=> Awaited(t)
    BY <2>1, <2>3, Zenon DEF Awaited
  <2> QED BY <2>1, <2>2, <2>4, Zenon DEF ClaimOK
<1> QED BY <1>1, <1>2, Zenon

LEMMA JoinClaim ==
  ASSUME NEW held, CoreInv(held), ClaimInv,
         (\E target \in Threads : join_terminated(target)) \/ join_resume
  PROVE  ClaimInv'
<1>1. CASE \E target \in Threads : join_terminated(target)
  <2>1. PICK target \in Threads : join_terminated(target)
    BY <1>1, Zenon
  <2>2. CoreShape /\ LiveInv(held) /\ ClaimOK
    BY <2>1, Zenon DEF join_terminated, Joinable, Running, CoreInv, ClaimInv, Live, Sound
  <2>3. /\ target \in handles /\ state[target] = "TERMINATED" /\ claim(target)
        /\ UNCHANGED <<state, context, waiting_for>>
    BY <2>1, Zenon DEF join_terminated, Joinable, sched_vars
  <2> QED BY <2>2, <2>3, ClaimClaim, Zenon DEF ClaimInv
<1>2. CASE join_resume
  <2> DEFINE target == waiting_for[current_thread]
  <2>1. CoreShape /\ ClaimOK /\ LiveInv(held) /\ context[current_thread] = "join"
    BY <1>2, Zenon DEF join_resume, Running, CoreInv, ClaimInv, Live, Sound
  <2>2. current_thread \in handles /\ state[current_thread] = "RUNNING" /\ handles \subseteq Threads
    BY <2>1, Zenon DEF LiveInv, RunnableBut, CoreShape
  <2>3. target \in handles /\ state[target] = "TERMINATED"
    BY <2>1, <2>2, Zenon DEF LiveInv, JoinOK
  <2>4. /\ claim(target) /\ UNCHANGED state
        /\ context' = [context EXCEPT ![current_thread] = "user"]
        /\ waiting_for' = [waiting_for EXCEPT ![current_thread] = NULL]
    BY <1>2, Zenon DEF join_resume
  <2>5. \A u \in handles, t \in handles \ {target} :
           context'[u] = "join" /\ waiting_for'[u] = t <=> context[u] = "join" /\ waiting_for[u] = t
    BY <2>1, <2>2, <2>4, Zenon DEF CoreShape
  <2> HIDE DEF target
  <2> QED BY <2>1, <2>3, <2>4, <2>5, ClaimClaim, Zenon DEF ClaimInv
<1> QED BY <1>1, <1>2

\* A claim releases one chain reference.
LEMMA JoinHead ==
  ASSUME NEW held, CoreInv(held), UnjoinedIsHead,
         (\E target \in Threads : join_terminated(target)) \/ join_resume
  PROVE  UnjoinedIsHead'
<1>1. PICK target : claim(target) /\ UNCHANGED <<joined_by, head_ref>>
  BY Zenon DEF join_terminated, join_resume
<1>2. HeadOK /\ head_joiner \in [Threads -> 0..Len(head_ref)] /\ handles \subseteq Threads
  BY Zenon DEF join_terminated, Joinable, join_resume, Running, CoreInv, UnjoinedIsHead, Live, Sound, CoreShape
<1>3. \A u \in handles' : u \in handles /\ head_joiner'[u] = head_joiner[u]
  BY <1>1, <1>2 DEF claim, thread_obj_release
<1> QED BY <1>1, <1>2, <1>3, HeadFrame, Zenon DEF UnjoinedIsHead
=============================================================================
