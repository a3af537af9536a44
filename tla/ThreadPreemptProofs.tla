------------------------ MODULE ThreadPreemptProofs ------------------------
(***************************************************************************)
(* The invariants of the preemptive build, for any number of threads,      *)
(* stacks and chain slots and any depth of nested yields.  The lifecycle   *)
(* lemmas of the cooperative build are used with the threads that yields   *)
(* in progress hold outside the ready queue.                               *)
(***************************************************************************)
EXTENDS ThreadPreempt, ThreadCoreProofs, FiniteSetTheorems

-----------------------------------------------------------------------------
(* The library calls that a thread makes outside any yield.                *)
Call ==
  \/ thread_create \/ create_publish \/ create_no_slot \/ create_fail
  \/ thread_exit \/ main_return \/ join_resume
  \/ \E target \in Threads :
       join_terminated(target) \/ join_block(target) \/ join_abort(target)

\* A call takes no READY thread off the lists: only the caller can block or
\* end, and only a terminated thread is released.
LEMMA CallStaysReady ==
  ASSUME NEW held, CoreInv(held), \A x \in held : context[x] # "sigwait", Call, Live',
         NEW x \in handles, x # current_thread, state[x] = "READY"
  PROVE  x \in handles' /\ state'[x] \notin {"BLOCKED", "TERMINATED"}
<1>1. ASSUME Running("create") \/ Running("user") \/ Running("join")
      PROVE  CoreShape /\ LiveInv(held) /\ Live
  BY <1>1, Zenon DEF CoreInv, Running, Live, Sound
<1>2. CASE thread_create
  BY <1>2, Zenon DEF thread_create
<1>3. CASE create_publish \/ create_no_slot \/ create_fail
  <2> DEFINE t == newth[current_thread]
  <2>1. CoreShape /\ LiveInv(held) /\ context[current_thread] = "create"
    BY <1>1, <1>3, Zenon DEF create_publish, create_no_slot, create_fail, Running
  <2>2. t \in Threads \ handles
    BY <2>1, CreatingFacts
  <2>3. \/ state' = state
        \/ state' = [state EXCEPT ![t] = "READY"]
    BY <1>3, Zenon DEF create_publish, create_no_slot, create_fail, InitFields
  <2>4. handles \ {t} \subseteq handles'
    BY <1>3, Zenon DEF create_publish, create_no_slot, create_fail, thread_obj_release
  <2> HIDE DEF t
  <2> QED BY <2>1, <2>2, <2>3, <2>4, Zenon DEF CoreShape, SchedTypeOK
<1>4. CASE thread_exit
  <2>1. mis_woken' = {} /\ handles' = handles
    BY <1>4, Zenon DEF thread_exit, Live, Sound
  <2>2. /\ \A u \in handles : state'[u] = "TERMINATED" <=> state[u] = "TERMINATED" \/ u = current_thread
        /\ \A u \in handles : state'[u] = "BLOCKED" => state[u] = "BLOCKED"
    BY <1>4, <2>1, ExitStates, ZenonT(30)
  <2> QED BY <2>1, <2>2, Zenon
<1>5. CASE main_return
  BY <1>5, EndNotLive, Zenon
<1>6. ASSUME NEW target, claim(target), state[target] = "TERMINATED", state' = state
      PROVE  x \in handles' /\ state'[x] \notin {"BLOCKED", "TERMINATED"}
  BY <1>6, Zenon DEF claim, thread_obj_release
<1>7. CASE join_resume
  <2> DEFINE target == waiting_for[current_thread]
  <2>1. CoreShape /\ LiveInv(held) /\ context[current_thread] = "join"
    BY <1>1, <1>7, Zenon DEF join_resume, Running
  <2>2. current_thread \in handles /\ state[current_thread] = "RUNNING"
    BY <2>1, Zenon DEF LiveInv, RunnableBut
  <2>3. state[target] = "TERMINATED"
    BY <2>1, <2>2 DEF LiveInv, JoinOK
  <2>4. claim(target) /\ state' = state
    BY <1>7, Zenon DEF join_resume
  <2> QED BY <1>6, <2>3, <2>4, Zenon
<1>8. ASSUME NEW target \in Threads, join_terminated(target)
      PROVE  x \in handles' /\ state'[x] \notin {"BLOCKED", "TERMINATED"}
  BY <1>6, <1>8, Zenon DEF join_terminated, sched_vars
<1>9. ASSUME NEW target \in Threads, join_block(target)
      PROVE  x \in handles' /\ state'[x] \notin {"BLOCKED", "TERMINATED"}
  <2>1. CoreShape /\ LiveInv(held)
    BY <1>1, <1>9, Zenon DEF join_block, join_link, Joinable
  <2>2. BlockAndSwitch("join") /\ UNCHANGED handles
    BY <1>9, Zenon DEF join_block, mem_vars
  <2> QED BY <2>1, <2>2, BlockStates, Zenon
<1>10. ASSUME NEW target \in Threads, join_abort(target)
       PROVE  x \in handles' /\ state'[x] \notin {"BLOCKED", "TERMINATED"}
  BY <1>10, Zenon DEF join_abort, sched_vars, mem_vars
<1> QED BY <1>2, <1>3, <1>4, <1>5, <1>7, <1>8, <1>9, <1>10, Zenon DEF Call

\* A call keeps the lifecycle invariant.
LEMMA CallInv ==
  ASSUME NEW held, CoreInv(held), \A x \in held : context[x] # "sigwait", Call
  PROVE  CoreInv(held)'
<1>1. CASE thread_create
  BY <1>1, CreateInv, Zenon
<1>2. CASE create_publish
  BY <1>2, CreatePublishInv, Zenon
<1>3. CASE create_no_slot
  BY <1>3, CreateNoSlotInv, Zenon
<1>4. CASE create_fail
  BY <1>4, CreateFailInv, Zenon
<1>5. CASE thread_exit
  BY <1>5, ExitInv, Zenon
<1>6. CASE main_return
  BY <1>6, EndInv, Zenon
<1>7. CASE join_resume
  BY <1>7, JoinResumeInv, Zenon
<1>8. ASSUME NEW target \in Threads,
             join_terminated(target) \/ join_block(target) \/ join_abort(target)
      PROVE  CoreInv(held)'
  BY <1>8, JoinTerminatedInv, JoinBlockInv, JoinAbortInv, Zenon
<1> QED BY <1>1, <1>2, <1>3, <1>4, <1>5, <1>6, <1>7, <1>8, Zenon DEF Call

-----------------------------------------------------------------------------
(* Threads held by yields in progress.                                     *)

\* A step of no yield moves nothing between the queue and the yields.
LEMMA HoldFrame ==
  ASSUME NEW held, CoreInv(held)', HoldOK, Live', picked' = picked,
         \A x \in handles : picked[x] # <<>> =>
            x \in handles' /\ state'[x] \notin {"BLOCKED", "TERMINATED"}
  PROVE  HoldOK'
<1>1. CoreShape' /\ RunnableBut(held)'
  BY Zenon DEF CoreInv, LiveInv
<1>2. ASSUME NEW u \in Threads, picked[u] # <<>>
      PROVE  u \in handles' /\ (u = current_thread' \/ state'[u] = "READY")
  <2>1. u \in handles' /\ state'[u] \notin {"BLOCKED", "TERMINATED"}
    BY <1>2, Zenon DEF HoldOK
  <2>2. state'[u] \in {"READY", "RUNNING", "BLOCKED", "TERMINATED"}
    BY <1>1, <1>2, Zenon DEF CoreShape, SchedTypeOK, States
  <2>3. state'[u] = "RUNNING" => u = current_thread'
    BY <1>1, <2>1, Zenon DEF RunnableBut
  <2> QED BY <2>1, <2>2, <2>3, Zenon
<1> QED BY <1>2, Zenon DEF HoldOK, me

\* A library call outside any yield.
LEMMA CallStep ==
  ASSUME PreemptInv, Call, picked[me] = <<>>, picked' = picked
  PROVE  PreemptInv'
<1>1. PICK H : H = Taken
  BY Zenon
<1>2. CoreInv(H) /\ Taken' = H
  <2>1. CoreInv(H)
    BY <1>1, Zenon DEF PreemptInv
  <2>2. Taken' = Taken
    BY Zenon DEF Taken
  <2> QED BY <1>1, <2>1, <2>2, Zenon
<1>3. Live /\ HoldOK
  BY Zenon
     DEF PreemptInv, Call, Live, Sound, Running, thread_create, create_publish, create_no_slot,
         create_fail, thread_exit, main_return, join_resume, join_terminated, join_block,
         join_abort, join_link, Joinable
<1>4. \A x \in H : context[x] # "sigwait"
  <2>1. H \subseteq Threads
    BY <1>2, <1>3, Zenon DEF CoreInv, LiveInv, RunnableBut, CoreShape
  <2> QED BY <2>1, Zenon DEF PreemptInv
<1>5. CoreInv(H)'
  BY <1>2, <1>4, CallInv
<1>6. context' \in [Threads -> Contexts \ {"sigwait"}]
  BY CoreNextContext, Zenon DEF PreemptInv, CoreNext, Call
<1>7. ASSUME Live' PROVE HoldOK'
  <2>1. ASSUME NEW x \in handles, picked[x] # <<>>
        PROVE  x \in handles' /\ state'[x] \notin {"BLOCKED", "TERMINATED"}
    <3>1. x # current_thread /\ state[x] = "READY"
      BY <1>2, <1>3, <2>1, Zenon DEF HoldOK, me, CoreInv, CoreShape
    <3> QED BY <1>2, <1>4, <1>7, <3>1, CallStaysReady, Zenon
  <2> QED BY <1>3, <1>5, <1>7, <2>1, HoldFrame, Zenon
<1>8. CoreInv(Taken)'
  BY <1>2, <1>5
<1> QED BY <1>6, <1>7, <1>8, Zenon DEF PreemptInv

-----------------------------------------------------------------------------
(* The parts of a yield.                                                   *)

\* What the other invariants of the lifecycle need to know of a step that
\* changes no state of a thread, no join and no struct.
LEMMA SameLives ==
  ASSUME ContextOK, ZombieOK, JoinOK, OwnOK,
         UNCHANGED <<state, context, handles, heap, thread_pool, newth, zombie_queue,
                     joined_by, waiting_for>>
  PROVE  ContextOK' /\ ZombieOK' /\ JoinOK' /\ OwnOK'
<1>1. ContextOK' /\ ZombieOK'
  BY Zenon DEF ContextOK, ZombieOK
<1>2. JoinOK' /\ OwnOK'
  BY Zenon DEF JoinOK, OwnOK
<1> QED BY <1>1, <1>2

\* A yield that keeps the CPU takes the head of the queue and holds it.
LEMMA PickStep ==
  ASSUME PreemptInv, Live, ready_queue # <<>>, CoreShape',
         ready_queue' = Tail(ready_queue),
         picked' = [picked EXCEPT ![me] = Append(@, Head(ready_queue))],
         UNCHANGED <<current_thread, state, context, handles, heap, thread_pool, newth,
                     zombie_queue, joined_by, waiting_for>>
  PROVE  PreemptInv'
<1>1. PICK H : H = Taken
  BY Zenon
<1>2. PICK n : n = Head(ready_queue)
  BY Zenon
<1>3. /\ CoreShape /\ RunnableBut(H) /\ ContextOK /\ ZombieOK /\ JoinOK /\ OwnOK /\ HoldOK
      /\ picked \in [Threads -> Seq(Threads)] /\ me \in Threads
  BY <1>1, Zenon DEF PreemptInv, CoreInv, LiveInv, CoreShape, SchedTypeOK, me
<1>4. /\ n \in Threads /\ n \in Range(ready_queue)
      /\ Range(ready_queue) = {n} \cup Range(ready_queue')
      /\ IsInjective(ready_queue') /\ n \notin Range(ready_queue')
  BY <1>2, <1>3, HeadTailRange, Zenon DEF CoreShape, SchedTypeOK, RunnableBut
<1>5. n \notin H /\ me \notin H \cup Range(ready_queue) /\ n # me /\ me \in handles
  BY <1>3, <1>4, Zenon DEF RunnableBut, me
<1>6. \A u \in Threads : Range(picked[u]) \subseteq H
  BY <1>1, Zenon DEF Taken
<1>7. /\ picked' \in [Threads -> Seq(Threads)]
      /\ Range(picked'[me]) = Range(picked[me]) \cup {n} /\ IsInjective(picked'[me])
      /\ \A u \in Threads \ {me} : picked'[u] = picked[u]
  <2>1. /\ Append(picked[me], n) \in Seq(Threads)
        /\ Range(Append(picked[me], n)) = Range(picked[me]) \cup {n}
    <3>1. picked[me] \in Seq(Threads)
      BY <1>3, Zenon
    <3> QED BY <1>4, <3>1, AppendRange
  <2>2. IsInjective(Append(picked[me], n))
    <3>1. picked[me] \in Seq(Threads) /\ IsInjective(picked[me]) /\ n \notin Range(picked[me])
      BY <1>3, <1>5, <1>6, Zenon DEF HoldOK
    <3> QED BY <1>4, <3>1, AppendRange, Zenon
  <2>3. picked' = [picked EXCEPT ![me] = Append(picked[me], n)]
    BY <1>2, Zenon
  <2> HIDE DEF me
  <2> QED BY <1>3, <2>1, <2>2, <2>3, Zenon
<1>8. Taken' = H \cup {n}
  <2>1. \A u \in Threads : Range(picked'[u]) = IF u = me THEN Range(picked[u]) \cup {n} ELSE Range(picked[u])
    BY <1>7, Zenon
  <2>2. \A x : x \in Taken' <=> \E u \in Threads : x \in Range(picked'[u])
    BY Zenon DEF Taken
  <2>3. \A x : x \in H <=> \E u \in Threads : x \in Range(picked[u])
    BY <1>1, Zenon DEF Taken
  <2> HIDE DEF me
  <2> QED BY <1>3, <2>1, <2>2, <2>3, Zenon
<1>9. CoreInv(H \cup {n})'
  <2>1. RunnableBut(H \cup {n})'
    BY <1>3, <1>4, <1>5, Zenon DEF RunnableBut
  <2> QED BY <1>3, <2>1, SameLives, Zenon DEF CoreInv, LiveInv
<1>10. HoldOK'
  <2>1. me' = me
    BY DEF me
  <2> HIDE DEF me
  <2>2. \A u \in Threads : IsInjective(picked'[u])
    BY <1>3, <1>7, Zenon DEF HoldOK
  <2>3. \A u, v \in Threads : Range(picked'[u]) \cap Range(picked'[v]) # {} => u = v
    <3>1. \A u, v \in Threads : Range(picked[u]) \cap Range(picked[v]) # {} => u = v
      BY <1>3, Zenon DEF HoldOK
    <3>2. \A u \in Threads : n \notin Range(picked[u])
      BY <1>5, <1>6, Zenon
    <3>3. \A u \in Threads : Range(picked'[u]) \subseteq Range(picked[u]) \cup {n}
      BY <1>7, Zenon
    <3>4. \A u \in Threads : n \in Range(picked'[u]) => u = me
      BY <1>7, <3>2, Zenon
    <3> QED BY <3>1, <3>2, <3>3, <3>4, Zenon
  <2>4. \A u \in Threads : picked'[u] # <<>> => u \in handles /\ (u = me \/ state[u] = "READY")
    BY <1>3, <1>5, <1>7, Zenon DEF HoldOK
  <2>5. ASSUME NEW S \in SUBSET Threads, S # {}
        PROVE  \E t \in S : \A u \in S : t \notin Range(picked'[u])
    <3>1. CASE me \in S
      BY <1>5, <1>6, <1>7, <2>5, <3>1, Zenon
    <3>2. CASE me \notin S
      <4>1. \E t \in S : \A u \in S : t \notin Range(picked[u])
        BY <1>3, <2>5, Zenon DEF HoldOK
      <4> QED BY <1>7, <2>5, <3>2, <4>1, Zenon
    <3> QED BY <3>1, <3>2
  <2> QED BY <2>1, <2>2, <2>3, <2>4, <2>5, Zenon DEF HoldOK
<1>11. CoreInv(Taken)'
  BY <1>8, <1>9
<1> QED BY <1>7, <1>10, <1>11, Zenon DEF PreemptInv

\* The yield resumes and puts the thread back.
LEMMA PutBackStep ==
  ASSUME PreemptInv, put_back
  PROVE  PreemptInv'
<1>1. PICK H : H = Taken
  BY Zenon
<1>2. PICK n : n = Last(picked[me])
  BY Zenon
<1>3. /\ Live /\ picked[me] # <<>>
      /\ ready_queue' = thread_scheduler_enqueue(ready_queue, n, priority)
      /\ picked' = [picked EXCEPT ![me] = Front(picked[me])]
      /\ UNCHANGED <<current_thread, state, priority, context, mem_vars, join_vars, process, mis_woken>>
  BY <1>2, Zenon DEF put_back, Live, Sound
<1>4. /\ CoreShape /\ RunnableBut(H) /\ ContextOK /\ ZombieOK /\ JoinOK /\ OwnOK /\ HoldOK
      /\ picked \in [Threads -> Seq(Threads)] /\ me \in Threads
  BY <1>1, <1>3, Zenon DEF PreemptInv, CoreInv, LiveInv, CoreShape, SchedTypeOK, me
<1>5. /\ Front(picked[me]) \in Seq(Threads) /\ n \in Threads
      /\ Range(picked[me]) = Range(Front(picked[me])) \cup {n}
      /\ IsInjective(Front(picked[me])) /\ n \notin Range(Front(picked[me]))
  <2>1. picked[me] \in Seq(Threads) /\ IsInjective(picked[me])
    BY <1>4, Zenon DEF HoldOK
  <2> QED BY <1>2, <1>3, <2>1, FrontLastRange
<1>6. /\ picked' \in [Threads -> Seq(Threads)] /\ picked'[me] = Front(picked[me])
      /\ \A u \in Threads \ {me} : picked'[u] = picked[u]
  <2> HIDE DEF me
  <2> QED BY <1>3, <1>4, <1>5, Zenon
<1>7. /\ \A u \in Threads : Range(picked'[u]) = Range(picked[u]) \ {n}
      /\ n \in H
  <2>1. \A u \in Threads \ {me} : n \notin Range(picked[u])
    BY <1>4, <1>5 DEF HoldOK
  <2>2. n \in H
    BY <1>1, <1>4, <1>5 DEF Taken
  <2> HIDE DEF me
  <2> QED BY <1>5, <1>6, <2>1, <2>2, Zenon
<1>8. Taken' = H \ {n}
  <2>1. Taken' = UNION {Range(picked'[u]) : u \in Threads}
    BY Zenon DEF Taken
  <2> QED BY <1>1, <1>7, <2>1 DEF Taken
<1>9. /\ ready_queue' \in Seq(Threads) /\ Range(ready_queue') = Range(ready_queue) \cup {n}
      /\ IsInjective(ready_queue')
  BY <1>3, <1>4, <1>5, EnqueueRange, Zenon DEF CoreShape, SchedTypeOK, RunnableBut
<1>10. CoreShape'
  BY <1>3, <1>4, <1>9, Zenon DEF CoreShape, SchedTypeOK, mem_vars, join_vars
<1>11. CoreInv(H \ {n})'
  <2>1. RunnableBut(H \ {n})'
    BY <1>3, <1>4, <1>7, <1>9 DEF RunnableBut, mem_vars
  <2>2. ContextOK' /\ ZombieOK' /\ JoinOK' /\ OwnOK'
    BY <1>3, <1>4, SameLives, Zenon DEF mem_vars, join_vars
  <2> QED BY <1>10, <2>1, <2>2, Zenon DEF CoreInv, LiveInv
<1>12. HoldOK'
  <2>1. me' = me /\ state' = state /\ handles' = handles
    BY <1>3, Zenon DEF me, mem_vars
  <2> HIDE DEF me
  <2>2. \A u \in Threads : IsInjective(picked'[u])
    BY <1>4, <1>5, <1>6, Zenon DEF HoldOK
  <2>3. \A u, v \in Threads : Range(picked'[u]) \cap Range(picked'[v]) # {} => u = v
    BY <1>4, <1>7, Zenon DEF HoldOK
  <2>4. \A u \in Threads : picked'[u] # <<>> => u \in handles /\ (u = me \/ state[u] = "READY")
    BY <1>3, <1>4, <1>6, Zenon DEF HoldOK
  <2>5. \A S \in SUBSET Threads : S # {} => \E t \in S : \A u \in S : t \notin Range(picked'[u])
    <3> SUFFICES ASSUME NEW S \in SUBSET Threads, S # {}
                 PROVE  \E t \in S : \A u \in S : t \notin Range(picked'[u])
      OBVIOUS
    <3>1. PICK t \in S : \A u \in S : t \notin Range(picked[u])
      BY <1>4, Zenon DEF HoldOK
    <3> QED BY <1>7, <3>1, Zenon
  <2> QED BY <2>1, <2>2, <2>3, <2>4, <2>5, Zenon DEF HoldOK
<1>13. CoreInv(Taken)'
  BY <1>8, <1>11
<1>14. context' \in [Threads -> Contexts \ {"sigwait"}]
  BY <1>3, Zenon DEF PreemptInv
<1> QED BY <1>6, <1>12, <1>13, <1>14, Zenon DEF PreemptInv

\* A step that hands the CPU over among the queued threads.
LEMMA SwitchStep ==
  ASSUME PreemptInv, Live, Handover, CoreShape', picked' = picked,
         UNCHANGED <<context, handles, heap, thread_pool, newth, zombie_queue, joined_by,
                     waiting_for>>
  PROVE  PreemptInv'
<1>1. PICK H : H = Taken
  BY Zenon
<1>2. CoreShape /\ LiveInv(H) /\ HoldOK /\ Taken' = H /\ SchedTypeOK'
  BY <1>1, Zenon DEF PreemptInv, CoreInv, Taken, CoreShape
<1>3. CoreInv(H)'
  BY <1>2, HandoverLive, Zenon DEF CoreInv
<1>4. ASSUME NEW x \in handles, picked[x] # <<>>
      PROVE  x \in handles' /\ state'[x] \notin {"BLOCKED", "TERMINATED"}
  <2>1. state[x] \in {"READY", "RUNNING"}
    BY <1>2, <1>4, Zenon DEF HoldOK, me, LiveInv, RunnableBut, CoreShape
  <2>2. /\ state'[x] = "TERMINATED" <=> state[x] = "TERMINATED"
        /\ state'[x] = "BLOCKED" <=> state[x] = "BLOCKED"
    BY <1>2, HandoverStates, Zenon
  <2> QED BY <2>1, <2>2
<1>5. Live' => HoldOK'
  BY <1>2, <1>3, <1>4, HoldFrame, Zenon
<1>6. CoreInv(Taken)'
  BY <1>2, <1>3
<1> QED BY <1>5, <1>6, Zenon DEF PreemptInv

\* What the scheduler lemmas need, from the invariant.
LEMMA PreemptCpu ==
  ASSUME PreemptInv, Live
  PROVE  /\ CoreShape /\ SchedTypeOK /\ CpuOK /\ me \in Threads
         /\ [context EXCEPT ![me] = context[me]] = context
<1>1. PICK H : H = Taken
  BY Zenon
<1>2. CoreShape /\ RunnableBut(H) /\ context \in [Threads -> Contexts]
  BY <1>1, Zenon DEF PreemptInv, CoreInv, LiveInv, CoreShape
<1>3. SchedTypeOK /\ CpuOK
  BY <1>2, RunnableCpu, Zenon
<1>4. me \in Threads
  BY <1>3, Zenon DEF SchedTypeOK, me
<1> HIDE DEF me
<1> QED BY <1>2, <1>3, <1>4, Zenon

\* The types after a yield has aged the priorities and taken the head.
LEMMA PickType ==
  ASSUME SchedTypeOK, ready_queue # <<>>, priority' = Aged, ready_queue' = Tail(ready_queue),
         UNCHANGED <<current_thread, state>>
  PROVE  SchedTypeOK'
<1>1. Tail(ready_queue) \in Seq(Threads)
  BY HeadTailRange, Zenon DEF SchedTypeOK
<1> QED BY <1>1, AgedType, Zenon DEF SchedTypeOK

\* The timer's yield, or a voluntary one.
LEMMA HandlerStep ==
  ASSUME PreemptInv, preemption_handler
  PROVE  PreemptInv'
<1>1. /\ Live /\ yield_window(context[me])
      /\ UNCHANGED <<mem_vars, join_vars, process, mis_woken>>
  BY Zenon DEF preemption_handler, Live, Sound
<1>2. /\ CoreShape /\ SchedTypeOK /\ CpuOK
      /\ [context EXCEPT ![me] = context[me]] = context
  BY <1>1, PreemptCpu
<1>3. CASE /\ ready_queue # <<>> /\ priority' = Aged /\ ready_queue' = Tail(ready_queue)
           /\ picked' = [picked EXCEPT ![me] = Append(@, Head(ready_queue))]
           /\ context' = [context EXCEPT ![me] = context[me]]
           /\ UNCHANGED <<current_thread, state>>
  <2>1. SchedTypeOK' /\ context' = context
    BY <1>2, <1>3, PickType
  <2>2. CoreShape'
    BY <1>1, <1>2, <2>1, Zenon DEF CoreShape, mem_vars, join_vars
  <2> QED BY <1>1, <1>3, <2>1, <2>2, PickStep, Zenon DEF mem_vars, join_vars
<1>4. CASE thread_yield(context[me]) /\ picked' = picked
  <2>1. SchedTypeOK' /\ Handover
    BY <1>2, <1>4, YieldHandover
  <2>2. context' = context
    BY <1>2, <1>4, Zenon DEF thread_yield, me
  <2>3. CoreShape'
    BY <1>1, <1>2, <2>1, <2>2, Zenon DEF CoreShape, mem_vars, join_vars
  <2> QED BY <1>1, <1>4, <2>1, <2>2, <2>3, SwitchStep, Zenon DEF mem_vars, join_vars
<1> QED BY <1>1, <1>3, <1>4, Zenon DEF yield_window

\* The yield of thread_create's allocation loop.
LEMMA CreateWaitStep ==
  ASSUME PreemptInv, create_wait
  PROVE  PreemptInv'
<1>1. /\ Live /\ context[me] = "create" /\ yield_window("create") /\ reclaim_deferred_stacks_all
      /\ alloc_retries[me] < MAX_ALLOC_RETRIES
      /\ alloc_retries' = [alloc_retries EXCEPT ![me] = @ + 1]
      /\ UNCHANGED <<handles, heap, thread_pool, newth, stack_map, zombie_queue, join_vars,
                     process, mis_woken>>
  BY Zenon DEF create_wait, Running, Live, Sound, me
<1>2. /\ CoreShape /\ SchedTypeOK /\ CpuOK /\ me \in Threads
      /\ [context EXCEPT ![me] = context[me]] = context
  BY <1>1, PreemptCpu
<1>3. /\ stack_pool' \in Seq(Stacks) /\ mapped' \subseteq Stacks
      /\ deferred_stacks' \in Seq(Stacks)
  BY <1>1, <1>2, ReclaimType, Zenon DEF CoreShape
<1>4. alloc_retries' \in [Threads -> 0..MAX_ALLOC_RETRIES]
  <2> HIDE DEF me
  <2> QED BY <1>1, <1>2, CoreAssumption, SMTT(30) DEF CoreShape
<1>5. ASSUME SchedTypeOK', context' = context
      PROVE  CoreShape'
  BY <1>1, <1>2, <1>3, <1>4, <1>5, ZenonT(30) DEF CoreShape, join_vars
<1>6. CASE /\ ready_queue # <<>> /\ priority' = Aged /\ ready_queue' = Tail(ready_queue)
           /\ picked' = [picked EXCEPT ![me] = Append(@, Head(ready_queue))]
           /\ context' = [context EXCEPT ![me] = "create"]
           /\ UNCHANGED <<current_thread, state>>
  <2>1. SchedTypeOK' /\ context' = context
    BY <1>1, <1>2, <1>6, PickType
  <2> QED BY <1>1, <1>5, <1>6, <2>1, PickStep, Zenon DEF join_vars
<1>7. CASE thread_yield("create") /\ picked' = picked
  <2>1. SchedTypeOK' /\ Handover
    BY <1>2, <1>7, YieldHandover
  <2>2. context' = context
    BY <1>1, <1>2, <1>7, Zenon DEF thread_yield, me
  <2> QED BY <1>1, <1>5, <1>7, <2>1, <2>2, SwitchStep, Zenon DEF join_vars
<1> QED BY <1>1, <1>6, <1>7, Zenon DEF yield_window

\* The fully masked calls.
LEMMA MaskedStep ==
  ASSUME PreemptInv, masked_call
  PROVE  PreemptInv'
<1>1. picked' = picked /\ picked[me] = <<>>
  BY Zenon DEF masked_call, At, local_vars
<1>2. CASE thread_exit \/ main_return
  BY <1>1, <1>2, CallStep, Zenon DEF Call
<1>3. ASSUME Running("user"), UNCHANGED <<mem_vars, join_vars, process, mis_woken>>,
             NEW t \in handles, state[t] = "READY" => t \in Range(ready_queue),
             \/ state[t] = "READY" /\ SwitchTo(ready_queue, priority, t)
             \/ \E p \in Priorities : thread_set_priority(t, p)
      PROVE  PreemptInv'
  <2>1. Live
    BY <1>3, Zenon DEF Running, Live, Sound
  <2>2. CoreShape /\ SchedTypeOK /\ CpuOK /\ t \in Threads
    BY <2>1, PreemptCpu, Zenon DEF CoreShape
  <2>3. SchedTypeOK' /\ Handover /\ context' = context
    <3>1. CASE state[t] = "READY" /\ SwitchTo(ready_queue, priority, t)
      <4>1. t \in Range(ready_queue) /\ context' = context
        BY <1>3, <3>1, Zenon DEF SwitchTo
      <4>2. /\ ready_queue \in Seq(Threads) /\ IsInjective(ready_queue)
            /\ priority \in [Threads -> Priorities]
        BY <2>2, Zenon DEF SchedTypeOK, CpuOK
      <4> QED BY <2>2, <3>1, <4>1, <4>2, SwitchToHandover
    <3>2. ASSUME NEW p \in Priorities, thread_set_priority(t, p)
          PROVE  SchedTypeOK' /\ Handover /\ context' = context
      <4>1. p \in Int
        BY SchedulerAssumption DEF Priorities
      <4>2. context' = context
        BY <3>2, Zenon DEF thread_set_priority, SwitchTo
      <4> QED BY <1>3, <2>2, <3>2, <4>1, <4>2, SetPriorityHandover, Zenon
    <3> QED BY <1>3, <3>1, <3>2, Zenon
  <2>4. CoreShape'
    BY <1>3, <2>2, <2>3, Zenon DEF CoreShape, mem_vars, join_vars
  <2> QED BY <1>1, <1>3, <2>1, <2>3, <2>4, SwitchStep, Zenon DEF mem_vars, join_vars
<1> QED BY <1>2, <1>3, Zenon DEF masked_call

\* Steps that change nothing but the locals of a call.
LEMMA LocalStep ==
  ASSUME PreemptInv, UNCHANGED core_vars, picked' = picked
  PROVE  PreemptInv'
<1>1. PICK H : H = Taken
  BY Zenon
<1>2. CoreInv(H) /\ Taken' = H
  BY <1>1, Zenon DEF PreemptInv, Taken
<1>3. CoreInv(H)'
  BY <1>2, CoreStutter, Zenon
<1>4. CoreInv(Taken)'
  BY <1>2, <1>3
<1>5. UNCHANGED <<context, state, handles, current_thread, process, mis_woken>>
  BY Zenon DEF core_vars, sched_vars, mem_vars
<1>6. Live' => HoldOK'
  <2>1. (Live' <=> Live) /\ me' = me /\ (Live => HoldOK)
    BY <1>5, Zenon DEF PreemptInv, Live, Sound, me
  <2>2. HoldOK => HoldOK'
    BY <1>5, <2>1, Zenon DEF HoldOK
  <2> QED BY <2>1, <2>2, Zenon
<1> QED BY <1>4, <1>5, <1>6, Zenon DEF PreemptInv

\* The steps of the preemptive build, by what they do: a library call outside
\* any yield, a part of a yield, a masked scheduling call, or a step of locals.
LEMMA PreemptCases ==
  ASSUME PreemptInv, [PreemptNext]_preempt_vars
  PROVE  \/ Call /\ picked[me] = <<>> /\ picked' = picked
         \/ preemption_handler \/ put_back \/ create_wait \/ masked_call
         \/ UNCHANGED core_vars /\ picked' = picked
<1>1. CASE create \/ join_claim
  BY <1>1, Zenon DEF create, join_claim, At, Call
<1>2. CASE join_enter
  <2> DEFINE target == join_arg[me]
  <2>1. /\ picked[me] = <<>> /\ picked' = picked
        /\ \/ join_terminated(target) \/ join_block(target) \/ join_abort(target)
           \/ UNCHANGED core_vars
    BY <1>2, Zenon DEF join_enter, At, join_refused
  <2>2. ASSUME join_terminated(target) \/ join_block(target) \/ join_abort(target)
        PROVE  target \in Threads
    BY <2>2, Zenon DEF join_terminated, join_block, join_abort, join_link, Joinable, PreemptInv,
                       CoreInv, CoreShape
  <2> HIDE DEF target
  <2> QED BY <2>1, <2>2, Zenon DEF Call
<1>3. CASE pop_enter \/ push_leave \/ (\E target \in Threads : join_test(target)) \/ join_wake
  BY <1>3, Zenon DEF pop_enter, push_leave, join_test, join_wake
<1>4. CASE unlink_unqueued \/ join_late \/ pool_race
  BY <1>4, Zenon DEF unlink_unqueued, join_late, pool_race, GoesWrong, local_vars
<1>5. CASE UNCHANGED preempt_vars
  BY <1>5, Zenon DEF preempt_vars, local_vars
<1> QED BY <1>1, <1>2, <1>3, <1>4, <1>5, Zenon DEF PreemptNext

LEMMA PreemptInitInv ==
  ASSUME PreemptInit
  PROVE  PreemptInv
<1>1. <<>> \in Seq(Threads) /\ Range(<<>>) = {} /\ IsInjective(<<>>)
  BY EmptySeq DEF Range, IsInjective
<1>2. /\ picked \in [Threads -> Seq(Threads)] /\ \A u \in Threads : picked[u] = <<>>
      /\ context \in [Threads -> Contexts \ {"sigwait"}]
  BY <1>1, Zenon DEF PreemptInit, CoreInit, Contexts
<1>3. Taken = {}
  BY <1>1, <1>2 DEF Taken
<1>4. CoreInv(Taken)
  BY <1>3, CoreInitInv, Zenon DEF PreemptInit
<1>5. HoldOK
  BY <1>1, <1>2 DEF HoldOK
<1> QED BY <1>2, <1>4, <1>5, Zenon DEF PreemptInv

(* The lifecycle invariant holds in the preemptive build, with the READY   *)
(* threads split between the ready queue and the yields in progress: every *)
(* thread that a yield of scheduler.c:118-126 has taken off the queue is   *)
(* held once, by a thread that can still run, and never in a circle.       *)
THEOREM PreemptInvariant == PreemptSpec => []PreemptInv
<1>1. PreemptInv /\ [PreemptNext]_preempt_vars => PreemptInv'
  BY PreemptCases, CallStep, HandlerStep, PutBackStep, CreateWaitStep, MaskedStep, LocalStep, Zenon
<1> QED BY <1>1, PreemptInitInv, PTL DEF PreemptSpec

(* Preemption inside a yield neither loses nor duplicates a thread: a      *)
(* runnable thread is on the CPU, in the ready queue, or held by exactly   *)
(* one yield (scheduler.c:118-126).                                        *)
THEOREM PreemptQueuedOrHeld == PreemptSpec => []QueuedOrHeld
<1>1. ASSUME PreemptInv PROVE QueuedOrHeld
  <2> SUFFICES ASSUME Live PROVE QueuedOrHeld
    BY Zenon DEF QueuedOrHeld
  <2>1. PICK H : H = Taken
    BY Zenon
  <2>2. RunnableBut(H) /\ HoldOK /\ handles \subseteq Threads
    BY <1>1, <2>1, Zenon DEF PreemptInv, CoreInv, LiveInv, CoreShape
  <2> DEFINE Holders(t) == {u \in Threads : t \in Range(picked[u])}
  <2>3. \A t : t \in H <=> Holders(t) # {}
    BY <2>1, Zenon DEF Taken
  <2>4. /\ \A t \in handles : state[t] = "RUNNING" <=> t = me
        /\ \A t \in handles : state[t] = "READY" <=> t \in Range(ready_queue) \/ Holders(t) # {}
        /\ IsInjective(ready_queue)
    <3> HIDE DEF Holders
    <3> QED BY <2>2, <2>3, Zenon DEF RunnableBut, me
  <2>5. ASSUME NEW t \in Threads
        PROVE  Cardinality(Holders(t)) + (IF t \in Range(ready_queue) THEN 1 ELSE 0) <= 1
    <3>1. CASE Holders(t) = {}
      <4>1. Cardinality(Holders(t)) = 0
        BY <3>1, FS_EmptySet
      <4> QED BY <4>1
    <3>2. CASE Holders(t) # {}
      <4>1. PICK u : u \in Holders(t)
        BY <3>2, Zenon
      <4>2. Holders(t) = {u}
        BY <2>2, <4>1 DEF HoldOK
      <4>3. Cardinality(Holders(t)) = 1
        BY <4>2, FS_Singleton, Zenon
      <4>4. t \notin Range(ready_queue)
        BY <2>2, <2>3, <3>2, Zenon DEF RunnableBut
      <4> QED BY <4>3, <4>4
    <3> QED BY <3>1, <3>2
  <2>6. \A t \in Threads : IsInjective(picked[t])
    BY <2>2, Zenon DEF HoldOK
  <2> QED BY <2>4, <2>5, <2>6, Zenon DEF QueuedOrHeld
<1> QED BY <1>1, PreemptInvariant, PTL

(* A thread that finds the queue empty outside a yield is the only one     *)
(* that can run, so that blocking would deadlock, as thread.c:477-486      *)
(* takes for granted: what yields hold is never all there is.              *)
THEOREM PreemptEmptyMeansAlone == PreemptSpec => []EmptyMeansAlone
<1>1. ASSUME PreemptInv PROVE EmptyMeansAlone
  <2> SUFFICES ASSUME Live, ready_queue = <<>>, picked[me] = <<>>,
                      NEW x \in handles \ {me}, state[x] = "READY"
               PROVE  FALSE
    BY Zenon DEF EmptyMeansAlone
  <2>1. PICK H : H = Taken
    BY Zenon
  <2>2. RunnableBut(H) /\ HoldOK /\ handles \subseteq Threads
    BY <1>1, <2>1, Zenon DEF PreemptInv, CoreInv, LiveInv, CoreShape
  <2> DEFINE S == {t \in handles \ {me} : state[t] = "READY"}
  <2>3. Range(ready_queue) = {}
    BY DEF Range
  <2>4. \A t \in S : \E u \in Threads : t \in Range(picked[u])
    <3>1. \A t \in S : t \in H
      BY <2>2, <2>3, Zenon DEF RunnableBut
    <3> QED BY <2>1, <3>1, Zenon DEF Taken
  <2>5. S \in SUBSET Threads /\ S # {}
    BY <2>2, Zenon
  <2>6. PICK t \in S : \A u \in S : t \notin Range(picked[u])
    BY <2>2, <2>5, Zenon DEF HoldOK
  <2>7. PICK u \in Threads : t \in Range(picked[u])
    BY <2>4, <2>6, Zenon
  <2>8. picked[u] # <<>>
    BY <2>3, <2>7, Zenon
  <2>9. u \in S
    BY <2>2, <2>8, Zenon DEF HoldOK
  <2> QED BY <2>6, <2>7, <2>9, Zenon
<1> QED BY <1>1, PreemptInvariant, PTL

(* Under PRIO the queue stays sorted although yields take threads out and  *)
(* put them back in between other threads' steps (scheduler.c:39-57).      *)
THEOREM PreemptQueueSorted == PreemptSpec => []QueueSorted
<1>1. PreemptInit => QueueSorted
  BY DEF PreemptInit, CoreInit, QueueSorted, Sorted
<1>2. ASSUME PreemptInv, QueueSorted, [PreemptNext]_preempt_vars PROVE QueueSorted'
  <2>1. PICK H : H = Taken
    BY Zenon
  <2>2. CoreInv(H) /\ SchedTypeOK
    BY <1>2, <2>1, Zenon DEF PreemptInv, CoreInv, CoreShape
  <2>3. CASE Call \/ UNCHANGED core_vars
    BY <1>2, <2>2, <2>3, CoreNextSorted, Zenon DEF Call, CoreNext
  <2>4. ASSUME NEW resume, yield_window(resume) PROVE QueueSorted'
    <3>1. CASE thread_yield(resume)
      BY <1>2, <2>2, <3>1, YieldSorted, Zenon
    <3>2. CASE ready_queue # <<>> /\ priority' = Aged /\ ready_queue' = Tail(ready_queue)
      <4>1. PRIO => Sorted(ready_queue, Aged) /\ ready_queue \in Seq(Threads)
        BY <1>2, <2>2, AgedSorted, Zenon DEF QueueSorted, SchedTypeOK
      <4> QED BY <3>2, <4>1, TailSorted, Zenon DEF QueueSorted
    <3> QED BY <2>4, <3>1, <3>2, Zenon DEF yield_window
  <2>5. CASE preemption_handler \/ create_wait
    BY <2>4, <2>5, Zenon DEF preemption_handler, create_wait
  <2>6. CASE put_back
    <3>1. /\ ready_queue' = thread_scheduler_enqueue(ready_queue, Last(picked[me]), priority)
          /\ priority' = priority /\ picked[me] # <<>>
      BY <2>6, Zenon DEF put_back
    <3>2. picked[me] \in Seq(Threads)
      BY <1>2, <2>2, Zenon DEF PreemptInv, SchedTypeOK, me
    <3>3. Last(picked[me]) \in Threads
      BY <3>1, <3>2, FrontLastRange
    <3>4. ready_queue \in Seq(Threads) /\ priority \in [Threads -> Int]
      BY <2>2, PrioritiesInt, Zenon DEF SchedTypeOK
    <3> QED BY <1>2, <3>1, <3>3, <3>4, EnqueueSorted, Zenon DEF QueueSorted
  <2>7. CASE masked_call
    <3>1. CASE thread_exit \/ main_return
      BY <2>3, <3>1, Zenon DEF Call
    <3>2. ASSUME Running("user"), NEW t \in handles,
                 \/ SwitchTo(ready_queue, priority, t)
                 \/ \E p \in Priorities : thread_set_priority(t, p)
          PROVE  QueueSorted'
      <4>1. SchedTypeOK /\ CpuOK /\ t \in Threads
        BY <1>2, <3>2, PreemptCpu, Zenon DEF Running, Live, Sound, CoreShape
      <4>2. CASE SwitchTo(ready_queue, priority, t)
        BY <1>2, <4>1, <4>2, SwitchToSorted, Zenon DEF QueueSorted, SchedTypeOK
      <4>3. ASSUME NEW p \in Priorities, thread_set_priority(t, p) PROVE QueueSorted'
        <5>1. p \in Int
          BY SchedulerAssumption DEF Priorities
        <5> QED BY <1>2, <4>1, <4>3, <5>1, SetPrioritySorted, Zenon
      <4> QED BY <3>2, <4>2, <4>3, Zenon
    <3> QED BY <2>7, <3>1, <3>2, Zenon DEF masked_call
  <2> QED BY <1>2, <2>3, <2>5, <2>6, <2>7, PreemptCases, Zenon
<1> QED BY <1>1, <1>2, PreemptInvariant, PTL DEF PreemptSpec

(* A joiner that runs again finds its target terminated, allocated and     *)
(* unclaimed (thread.c:493-503), up to the first call that acts on         *)
(* something stale: a join whose target was joined or released after its   *)
(* tests (thread.c:402-413), two threads inside the struct pool, or the    *)
(* unlinking of a thread that is in no queue.                              *)
THEOREM PreemptWakeup == PreemptSpec => []WakeupInvariant
<1>1. PreemptInv => WakeupInvariant
  BY Zenon DEF PreemptInv, CoreInv, LiveInv, JoinOK, WakeupInvariant, JoinerWakesAfterExit
<1> QED BY <1>1, PreemptInvariant, PTL

(* A struct is never both live and free, and none is lost, up to the first *)
(* call that acts on something stale.  In particular no two threads have   *)
(* been inside the struct pool at once, which the library does not         *)
(* prevent: thread_create pops and pushes unmasked (thread.c:116-130).     *)
THEOREM PreemptStructOwnership == PreemptSpec => []StructOwnership
<1>1. PreemptInv => StructOwnership
  BY DEF PreemptInv, CoreInv, LiveInv, StructOwnership
<1> QED BY <1>1, PreemptInvariant, PTL
=============================================================================
