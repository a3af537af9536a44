-------------------------- MODULE ThreadCoreLemmas --------------------------
(***************************************************************************)
(* What the proofs about ThreadCore share: the pools as sequences, steps   *)
(* that only hand the CPU over, and the ownership of thread structs; and   *)
(* that the steps of thread_create keep the lifecycle invariant.           *)
(***************************************************************************)
EXTENDS ThreadCore, SchedulerLemmas

-----------------------------------------------------------------------------
(* Sequences: popping the last element, pushing stacks.                    *)
LEMMA FrontLastRange ==
  ASSUME NEW S, NEW q \in Seq(S), q # <<>>
  PROVE  /\ Front(q) \in Seq(S) /\ Last(q) \in S
         /\ Range(q) = Range(Front(q)) \cup {Last(q)}
         /\ IsInjective(q) => IsInjective(Front(q)) /\ Last(q) \notin Range(Front(q))
<1> DEFINE f == Front(q)
<1>1. /\ Len(q) \in Nat \ {0} /\ DOMAIN q = 1..Len(q)
      /\ \A i \in 1..Len(q) : q[i] \in S
  BY EmptySeq, LenProperties
<1>2. /\ f \in Seq(S) /\ Len(f) = Len(q) - 1
      /\ \A i \in 1..Len(q) - 1 : f[i] = q[i]
  <2>1. \A i \in 1..Len(q) - 1 : q[i] \in S
    BY <1>1
  <2>2. /\ SubSeq(q, 1, Len(q) - 1) \in Seq(S)
        /\ Len(SubSeq(q, 1, Len(q) - 1)) = IF 1 <= Len(q) - 1 THEN (Len(q) - 1) - 1 + 1 ELSE 0
        /\ \A i \in 1..(Len(q) - 1) - 1 + 1 : SubSeq(q, 1, Len(q) - 1)[i] = q[1 + i - 1]
    BY <1>1, <2>1, SubSeqProperties
  <2> QED BY <1>1, <2>2 DEF Front
<1>3. DOMAIN f = 1..Len(q) - 1
  BY <1>2, LenProperties
<1> HIDE DEF f
<1>4. Range(q) = Range(f) \cup {q[Len(q)]}
  BY <1>1, <1>2, <1>3 DEF Range
<1>5. ASSUME IsInjective(q) PROVE IsInjective(f) /\ q[Len(q)] \notin Range(f)
  <2>1. \A i, j \in 1..Len(q) : q[i] = q[j] => i = j
    BY <1>1, <1>5, Zenon DEF IsInjective
  <2> QED BY <1>1, <1>2, <1>3, <2>1 DEF IsInjective, Range
<1> QED BY <1>1, <1>2, <1>4, <1>5 DEF Last, f

LEMMA FrontLen ==
  ASSUME NEW S, NEW q \in Seq(S), q # <<>>
  PROVE  Len(Front(q)) <= Len(q)
<1>1. /\ Len(q) \in Nat \ {0} /\ \A i \in 1..Len(q) - 1 : q[i] \in S
  BY EmptySeq, LenProperties
<1>2. Len(SubSeq(q, 1, Len(q) - 1)) = IF 1 <= Len(q) - 1 THEN (Len(q) - 1) - 1 + 1 ELSE 0
  BY <1>1, SubSeqProperties
<1> QED BY <1>1, <1>2 DEF Front

\* The deferred stacks are pushed in reverse order.
LEMMA ReverseSeq ==
  ASSUME NEW S, NEW q \in Seq(S)
  PROVE  Reverse(q) \in Seq(S)
<1>1. Len(q) \in Nat /\ \A i \in 1..Len(q) : q[i] \in S
  BY LenProperties
<1>2. \A i \in 1..Len(q) : Len(q) - i + 1 \in 1..Len(q)
  BY <1>1
<1>3. Reverse(q) \in [1..Len(q) -> S]
  BY <1>1, <1>2 DEF Reverse
<1> QED BY <1>1, <1>3, SeqDef

\* Reversing a list.
LEMMA ReverseRange ==
  ASSUME NEW S, NEW q \in Seq(S)
  PROVE  /\ Range(Reverse(q)) = Range(q)
         /\ IsInjective(q) => IsInjective(Reverse(q))
<1> DEFINE r == Reverse(q)
<1>1. Len(q) \in Nat /\ DOMAIN q = 1..Len(q)
  BY LenProperties
<1>2. DOMAIN r = DOMAIN q /\ \A i \in DOMAIN q : r[i] = q[Len(q) - i + 1]
  BY <1>1 DEF Reverse
<1>3. \A i \in DOMAIN q : /\ Len(q) - i + 1 \in DOMAIN q
                          /\ Len(q) - (Len(q) - i + 1) + 1 = i
  BY <1>1
<1> HIDE DEF r
<1>4. Range(r) = Range(q)
  <2>1. \A i \in DOMAIN q : r[i] \in Range(q)
    BY <1>2, <1>3 DEF Range
  <2>2. ASSUME NEW i \in DOMAIN q PROVE q[i] \in Range(r)
    <3>1. r[Len(q) - i + 1] = q[i]
      BY <1>2, <1>3
    <3> QED BY <1>2, <1>3, <3>1, Zenon DEF Range
  <2> QED BY <1>2, <2>1, <2>2, Zenon DEF Range
<1>5. ASSUME IsInjective(q), NEW i \in DOMAIN r, NEW k \in DOMAIN r, r[i] = r[k]
      PROVE  i = k
  <2>1. /\ Len(q) - i + 1 \in DOMAIN q /\ Len(q) - k + 1 \in DOMAIN q
        /\ q[Len(q) - i + 1] = q[Len(q) - k + 1]
    BY <1>2, <1>3, <1>5
  <2>2. Len(q) - i + 1 = Len(q) - k + 1
    BY <1>5, <2>1, Zenon DEF IsInjective
  <2> QED BY <1>1, <1>2, <2>2
<1>6. IsInjective(q) => IsInjective(r)
  BY <1>5, Zenon DEF IsInjective
<1> QED BY <1>4, <1>6 DEF r

\* Pushing stacks fills the pool and unmaps the rest.
LEMMA PushType ==
  ASSUME stack_pool \in Seq(Stacks), mapped \subseteq Stacks,
         NEW ss \in Seq(Stacks), stack_pool_push(ss)
  PROVE  stack_pool' \in Seq(Stacks) /\ mapped' \subseteq Stacks
<1> DEFINE n == Fit(stack_pool, ss)
<1>1. Len(ss) \in Nat /\ Len(stack_pool) \in Nat /\ \A i \in 1..Len(ss) : ss[i] \in Stacks
  BY LenProperties
<1>2. n \in Int /\ n <= Len(ss)
  BY <1>1, CoreAssumption DEF Fit
<1> HIDE DEF n
<1>3. \A i \in 1..n : ss[i] \in Stacks
  BY <1>1, <1>2
<1>4. SubSeq(ss, 1, n) \in Seq(Stacks)
  BY <1>2, <1>3, SubSeqProperties
<1>5. stack_pool' = stack_pool \o SubSeq(ss, 1, n)
  BY DEF stack_pool_push, n
<1>6. stack_pool' \in Seq(Stacks)
  BY <1>4, <1>5, ConcatProperties, Zenon
<1> QED BY <1>6 DEF stack_pool_push

\* Stacks that are pushed end up in the pool or unmapped, and the pool never
\* outgrows its array.
LEMMA PushRange ==
  ASSUME stack_pool \in Seq(Stacks), Len(stack_pool) <= MAX_POOLED_STACKS,
         NEW ss \in Seq(Stacks), stack_pool_push(ss)
  PROVE  /\ Len(stack_pool') <= MAX_POOLED_STACKS
         /\ Range(stack_pool) \subseteq Range(stack_pool')
         /\ Range(stack_pool') \subseteq Range(stack_pool) \cup Range(ss)
         /\ mapped' \subseteq mapped
         /\ \A s \in Range(ss) : s \in Range(stack_pool') \/ s \notin mapped'
         /\ IsInjective(stack_pool) /\ IsInjective(ss) /\ Range(stack_pool) \cap Range(ss) = {} =>
              /\ IsInjective(stack_pool')
              /\ mapped' = mapped \ (Range(ss) \ Range(stack_pool'))
<1> DEFINE n == Fit(stack_pool, ss)
           kept == SubSeq(ss, 1, n)
           rest == {ss[i] : i \in n + 1 .. Len(ss)}
<1>1. Len(ss) \in Nat /\ Len(stack_pool) \in Nat
  BY LenProperties
<1>2. n \in 0..Len(ss) /\ Len(stack_pool) + n <= MAX_POOLED_STACKS
  BY <1>1, CoreAssumption DEF Fit
<1>3. stack_pool' = stack_pool \o kept /\ mapped' = mapped \ rest
  BY DEF stack_pool_push
<1> HIDE DEF n
<1>4. /\ kept \in Seq(Stacks) /\ Len(kept) = n
      /\ Range(ss) = Range(kept) \cup rest
      /\ IsInjective(ss) => IsInjective(kept) /\ \A i \in n + 1 .. Len(ss) : ss[i] \notin Range(kept)
  BY <1>2, PrefixRange, Zenon
<1>5. IsInjective(ss) => Range(kept) \cap rest = {}
  BY <1>4, Zenon
<1> HIDE DEF kept, rest
<1>6. Len(stack_pool') = Len(stack_pool) + n
  BY <1>3, <1>4, ConcatProperties, Zenon
<1>7. Range(stack_pool') = Range(stack_pool) \cup Range(kept)
  BY <1>3, <1>4, ConcatRange
<1>8. ASSUME IsInjective(stack_pool), IsInjective(ss), Range(stack_pool) \cap Range(ss) = {}
      PROVE  /\ IsInjective(stack_pool')
             /\ mapped' = mapped \ (Range(ss) \ Range(stack_pool'))
  <2>1. IsInjective(stack_pool')
    BY <1>3, <1>4, <1>8, ConcatInjective, Zenon
  <2>2. rest = Range(ss) \ Range(stack_pool')
    BY <1>4, <1>5, <1>7, <1>8, Zenon
  <2> QED BY <1>3, <2>1, <2>2, Zenon
<1> QED BY <1>2, <1>3, <1>4, <1>6, <1>7, <1>8, Zenon

\* Reclaiming the deferred stacks keeps the stack pools typed.
LEMMA ReclaimType ==
  ASSUME stack_pool \in Seq(Stacks), mapped \subseteq Stacks,
         deferred_stacks \in Seq(Stacks), reclaim_deferred_stacks_all
  PROVE  /\ stack_pool' \in Seq(Stacks) /\ mapped' \subseteq Stacks
         /\ deferred_stacks' \in Seq(Stacks)
<1>1. Reverse(deferred_stacks) \in Seq(Stacks)
  BY ReverseSeq
<1> QED BY <1>1, PushType, EmptySeq, Zenon DEF reclaim_deferred_stacks_all

-----------------------------------------------------------------------------
(* Scheduling steps.  They move the CPU among the runnable threads and     *)
(* leave every blocked and every terminated thread as it is.               *)
LEMMA RunnableCpu ==
  ASSUME NEW held, CoreShape, RunnableBut(held)
  PROVE  /\ SchedTypeOK /\ CpuOK
         /\ held = {} => \A t \in handles : state[t] = "READY" => t \in Range(ready_queue)
BY Zenon DEF CoreShape, SchedTypeOK, RunnableBut, CpuOK

\* Who is terminated and who is blocked stays so.
LEMMA HandoverStates ==
  ASSUME NEW held, CoreShape, LiveInv(held), Handover
  PROVE  /\ \A t \in handles : /\ state'[t] = "TERMINATED" <=> state[t] = "TERMINATED"
                               /\ state'[t] = "BLOCKED" <=> state[t] = "BLOCKED"
         /\ \A t \in Threads \ handles : state'[t] = state[t]
<1> DEFINE R == Range(ready_queue) \cup {current_thread}
<1>1. R \subseteq handles /\ handles \subseteq Threads
  BY DEF LiveInv, RunnableBut, CoreShape
<1>2. \A t \in R : state[t] \in {"READY", "RUNNING"} /\ state'[t] \in {"READY", "RUNNING"}
  BY <1>1 DEF LiveInv, RunnableBut, Handover, CpuOK
<1>3. \A t \in Threads \ R : state'[t] = state[t]
  BY DEF Handover
<1> HIDE DEF R
<1> QED BY <1>1, <1>2, <1>3

\* A step that only hands the CPU over keeps the lifecycle invariant.
LEMMA HandoverLive ==
  ASSUME NEW held, CoreShape, LiveInv(held), SchedTypeOK', Handover,
         UNCHANGED <<context, handles, heap, thread_pool, newth, zombie_queue,
                     joined_by, waiting_for>>
  PROVE  LiveInv(held)'
<1> USE DEF LiveInv
<1> DEFINE R == Range(ready_queue) \cup {current_thread}
<1>1. R \subseteq handles /\ handles \subseteq Threads
  BY Zenon DEF RunnableBut, CoreShape
<1>2. \A t \in R : state[t] \in {"READY", "RUNNING"} /\ state'[t] \in {"READY", "RUNNING"}
  BY <1>1, Zenon DEF RunnableBut, Handover, CpuOK
<1>3. /\ \A t \in handles \ R : state'[t] = state[t] /\ (state[t] = "READY" <=> t \in held)
      /\ \A t \in handles \ R : state[t] # "RUNNING"
      /\ held \subseteq handles /\ R \cap held = {}
  BY <1>1, Zenon DEF RunnableBut, Handover
<1>4. R = Range(ready_queue') \cup {current_thread'}
  BY Zenon DEF Handover
<1>5. /\ state'[current_thread'] = "RUNNING" /\ IsInjective(ready_queue')
      /\ \A t \in Range(ready_queue') : state'[t] = "READY"
  BY Zenon DEF Handover, CpuOK
<1> HIDE DEF R
<1>6. RunnableBut(held)'
  BY <1>1, <1>3, <1>4, <1>5 DEF RunnableBut
<1>7. \A t \in handles : /\ state'[t] = "TERMINATED" <=> state[t] = "TERMINATED"
                         /\ state'[t] = "BLOCKED" <=> state[t] = "BLOCKED"
  BY HandoverStates, Zenon
<1>8. ContextOK'
  BY <1>7 DEF ContextOK
<1>9. ZombieOK'
  BY <1>7, Zenon DEF ZombieOK
<1>10. JoinOK'
  BY <1>7 DEF JoinOK
<1>11. OwnOK'
  BY DEF OwnOK
<1> QED BY <1>6, <1>8, <1>9, <1>10, <1>11

\* thread_yield.
LEMMA YieldInv ==
  ASSUME CoreInv({}), yield
  PROVE  CoreInv({})'
<1>1. CoreShape /\ Live /\ LiveInv({}) /\ RunnableBut({}) /\ current_thread \in Threads
  BY Zenon DEF CoreInv, yield, Running, Live, Sound, LiveInv, CoreShape, SchedTypeOK
<1>2. SchedTypeOK' /\ Handover
  BY <1>1, RunnableCpu, YieldHandover DEF yield
<1>3. context' = context
  BY <1>1 DEF yield, thread_yield, Running, CoreShape
<1>4. CoreShape'
  BY <1>1, <1>2, <1>3, Zenon DEF CoreShape, yield, mem_vars, join_vars
<1> QED BY <1>1, <1>2, <1>3, <1>4, HandoverLive, Zenon DEF CoreInv, yield, mem_vars, join_vars

\* thread_yield_to.
LEMMA YieldToInv ==
  ASSUME CoreInv({}), yield_to
  PROVE  CoreInv({})'
<1>1. CoreShape /\ Live /\ LiveInv({}) /\ RunnableBut({}) /\ current_thread \in Threads
  BY Zenon DEF CoreInv, yield_to, Running, Live, Sound, LiveInv, CoreShape, SchedTypeOK
<1>2. PICK t \in handles : thread_yield_to(t)
  BY DEF yield_to
<1>3. SchedTypeOK' /\ Handover
  BY <1>1, <1>2, RunnableCpu, YieldToHandover, ZenonT(30) DEF CoreShape
<1>4. context' = context
  BY <1>1, <1>2 DEF yield_to, thread_yield_to, thread_yield, SwitchTo, Running, CoreShape
<1>5. CoreShape'
  BY <1>1, <1>3, <1>4, Zenon DEF CoreShape, yield_to, mem_vars, join_vars
<1> QED BY <1>1, <1>3, <1>4, <1>5, HandoverLive, Zenon DEF CoreInv, yield_to, mem_vars, join_vars

\* thread_set_priority.
LEMMA SetPriorityInv ==
  ASSUME CoreInv({}), set_priority
  PROVE  CoreInv({})'
<1>1. CoreShape /\ Live /\ LiveInv({}) /\ RunnableBut({})
  BY DEF CoreInv, set_priority, Running, Live, Sound, LiveInv
<1>2. PICK t \in handles, p \in Priorities : thread_set_priority(t, p)
  BY DEF set_priority
<1>3. p \in Int
  BY SchedulerAssumption DEF Priorities
<1>4. SchedTypeOK' /\ Handover
  BY <1>1, <1>2, <1>3, RunnableCpu, SetPriorityHandover, Zenon DEF CoreShape
<1>5. context' = context
  BY <1>2 DEF thread_set_priority, SwitchTo
<1>6. CoreShape'
  BY <1>1, <1>4, <1>5, Zenon DEF CoreShape, set_priority, mem_vars, join_vars
<1> QED BY <1>1, <1>4, <1>5, <1>6, HandoverLive, Zenon DEF CoreInv, set_priority, mem_vars, join_vars

\* The scheduling calls leave memory and joins alone and terminate nobody.
LEMMA SchedulingFrame ==
  ASSUME CoreInv({}), yield \/ yield_to \/ set_priority
  PROVE  /\ UNCHANGED <<context, mem_vars, join_vars>>
         /\ \A t \in handles : /\ state'[t] = "TERMINATED" <=> state[t] = "TERMINATED"
                               /\ state'[t] = "BLOCKED" <=> state[t] = "BLOCKED"
         /\ \A t \in Threads \ handles : state'[t] = state[t]
<1>1. CoreShape /\ LiveInv({}) /\ context[current_thread] = "user" /\ handles \subseteq Threads
  BY Zenon DEF CoreInv, yield, yield_to, set_priority, Running, Live, Sound, CoreShape
<1>2. /\ SchedTypeOK /\ CpuOK
      /\ \A t \in handles : state[t] = "READY" => t \in Range(ready_queue)
  BY <1>1, RunnableCpu DEF LiveInv
<1>3. \/ thread_yield("user")
      \/ \E t \in handles : thread_yield_to(t)
      \/ \E t \in handles, p \in Priorities : thread_set_priority(t, p)
  BY DEF yield, yield_to, set_priority
<1>4. Handover
  <2>1. \A p \in Priorities : p \in Int
    BY SchedulerAssumption DEF Priorities
  <2> QED BY <1>1, <1>2, <1>3, <2>1, YieldHandover, YieldToHandover, SetPriorityHandover, Zenon
<1>5. context' = context
  <2>1. [context EXCEPT ![current_thread] = "user"] = context
    BY <1>1, Zenon DEF CoreShape
  <2>2. \A t \in handles, p \in Priorities : thread_set_priority(t, p) => context' = context
    BY Zenon DEF thread_set_priority, SwitchTo
  <2>3. \A t \in handles : thread_yield_to(t) => context' = context
    BY <2>1 DEF thread_yield_to, thread_yield, SwitchTo
  <2> QED BY <1>3, <2>1, <2>2, <2>3 DEF thread_yield
<1> QED BY <1>1, <1>4, <1>5, HandoverStates, Zenon DEF yield, yield_to, set_priority

\* A thread blocks and hands the CPU to the head of the queue.
LEMMA BlockStates ==
  ASSUME NEW held, CoreShape, LiveInv(held), NEW at, BlockAndSwitch(at), UNCHANGED handles
  PROVE  /\ SchedTypeOK' /\ RunnableBut(held)'
         /\ current_thread \in handles /\ state[current_thread] = "RUNNING"
         /\ \A t \in handles : /\ state'[t] = "TERMINATED" <=> state[t] = "TERMINATED"
                               /\ state'[t] = "BLOCKED" <=> state[t] = "BLOCKED" \/ t = current_thread
         /\ \A t \in Threads \ handles : state'[t] = state[t]
<1> DEFINE c == current_thread
           next == Head(ready_queue)
<1>1. /\ c \in handles /\ c \in Threads /\ handles \subseteq Threads /\ IsInjective(ready_queue)
      /\ \A x \in handles : state[x] = "RUNNING" <=> x = c
      /\ \A x \in handles : state[x] = "READY" <=> x \in Range(ready_queue) \cup held
      /\ Range(ready_queue) \cup held \subseteq handles /\ Range(ready_queue) \cap held = {}
  BY DEF LiveInv, RunnableBut, CoreShape
<1>2. /\ ready_queue # <<>> /\ current_thread' = next /\ priority' = priority
      /\ state' = [state EXCEPT ![c] = "BLOCKED", ![next] = "RUNNING"]
      /\ ready_queue' = Tail(ready_queue)
  BY DEF BlockAndSwitch, swap_thread
<1>3. /\ next \in Threads /\ Tail(ready_queue) \in Seq(Threads) /\ next \in Range(ready_queue)
      /\ Range(ready_queue) = {next} \cup Range(Tail(ready_queue))
      /\ IsInjective(Tail(ready_queue)) /\ next \notin Range(Tail(ready_queue))
  BY <1>1, <1>2, HeadTailRange, Zenon DEF CoreShape, SchedTypeOK
<1>4. next # c /\ next \in handles
  BY <1>1, <1>3, Zenon
<1> HIDE DEF next, c
<1>5. /\ state' \in [Threads -> States]
      /\ state'[c] = "BLOCKED" /\ state'[next] = "RUNNING"
      /\ \A x \in Threads \ {c, next} : state'[x] = state[x]
  BY <1>1, <1>2, <1>3, <1>4, Zenon DEF CoreShape, SchedTypeOK, States
<1>6. SchedTypeOK'
  BY <1>2, <1>3, <1>5, Zenon DEF CoreShape, SchedTypeOK
<1>7. /\ \A x \in handles : state'[x] = "TERMINATED" <=> state[x] = "TERMINATED"
      /\ \A x \in handles : state'[x] = "BLOCKED" <=> state[x] = "BLOCKED" \/ x = c
      /\ \A x \in Threads \ handles : state'[x] = state[x]
  BY <1>1, <1>3, <1>4, <1>5, Zenon
<1>8. RunnableBut(held)'
  BY <1>1, <1>2, <1>3, <1>4, <1>5, Zenon DEF RunnableBut
<1> QED BY <1>1, <1>6, <1>7, <1>8, Zenon DEF c

-----------------------------------------------------------------------------
(* thread_join of a thread that has not exited.                            *)

\* The registration of a joiner.  A thread with no joiner is nobody's
\* target, so no other join is disturbed.
LEMMA LinkFacts ==
  ASSUME NEW held, CoreShape, LiveInv(held), NEW target \in Threads, join_link(target)
  PROVE  /\ target \in handles /\ target # current_thread /\ state[target] # "TERMINATED"
         /\ context[current_thread] = "user" /\ newth[current_thread] = NULL
         /\ current_thread \in handles /\ current_thread \in Threads /\ handles \subseteq Threads
         /\ joined_by' \in [Threads -> Threads \cup {NULL}]
         /\ joined_by'[target] = current_thread
         /\ \A u \in Threads \ {target} : joined_by'[u] = joined_by[u]
         /\ \A u \in Threads : waiting_for[u] # target
         /\ head_ref' \in Seq(Threads) /\ head_joiner' \in [Threads -> 0..Len(head_ref')]
<1>1. /\ target \in handles /\ target # current_thread /\ state[target] # "TERMINATED"
      /\ context[current_thread] = "user" /\ joined_by[target] = NULL
      /\ head_joiner[target] # 0
      /\ joined_by' = [joined_by EXCEPT ![target] = current_thread]
      /\ head_joiner' = [head_joiner EXCEPT ![current_thread] = head_joiner[target]]
      /\ head_ref' = IF target_is_head(target)
                     THEN [head_ref EXCEPT ![head_joiner[target]] = current_thread]
                     ELSE head_ref
  BY DEF join_link, Joinable, Running
<1>2. current_thread \in handles /\ current_thread \in Threads /\ handles \subseteq Threads
  BY DEF CoreShape, SchedTypeOK, LiveInv, RunnableBut
<1>3. newth[current_thread] = NULL
  BY <1>1, <1>2 DEF LiveInv, ContextOK
<1>4. \A u \in Threads : waiting_for[u] # target
  BY <1>1, SchedulerAssumption DEF LiveInv, ContextOK, JoinOK
<1>5. /\ joined_by' \in [Threads -> Threads \cup {NULL}]
      /\ joined_by'[target] = current_thread
      /\ \A u \in Threads \ {target} : joined_by'[u] = joined_by[u]
  BY <1>1, <1>2, Zenon DEF CoreShape
<1>6. head_ref' \in Seq(Threads) /\ Len(head_ref') = Len(head_ref)
  <2>1. head_joiner[target] \in 0..Len(head_ref) /\ head_ref \in Seq(Threads) /\ Len(head_ref) \in Nat
    BY LenProperties DEF CoreShape
  <2>2. head_joiner[target] \in 1..Len(head_ref)
    BY <1>1, <2>1
  <2> QED BY <1>1, <1>2, <2>1, <2>2, ExceptSeq
<1>7. head_joiner' \in [Threads -> 0..Len(head_ref')]
  BY <1>1, <1>2, <1>6 DEF CoreShape
<1> QED BY <1>1, <1>2, <1>3, <1>4, <1>5, <1>6, <1>7, Zenon

\* thread_join that finds nobody to switch to.
LEMMA JoinAbortInv ==
  ASSUME NEW held, CoreInv(held), NEW target \in Threads, join_abort(target)
  PROVE  CoreInv(held)'
<1>1. CoreShape /\ Live /\ LiveInv(held)
  BY DEF CoreInv, join_abort, join_link, Joinable, Running, Live, Sound
<1>2. UNCHANGED <<sched_vars, mem_vars, waiting_for, process, mis_woken>> /\ join_link(target)
  BY DEF join_abort
<1>3. /\ joined_by' \in [Threads -> Threads \cup {NULL}]
      /\ handles \subseteq Threads
      /\ \A u \in Threads \ {target} : joined_by'[u] = joined_by[u]
      /\ \A u \in Threads : waiting_for[u] # target
      /\ head_ref' \in Seq(Threads) /\ head_joiner' \in [Threads -> 0..Len(head_ref')]
  BY <1>1, <1>2, LinkFacts, Zenon
<1>4. CoreShape'
  BY <1>1, <1>2, <1>3, ZenonT(30) DEF CoreShape, SchedTypeOK, sched_vars, mem_vars
<1>5. UNCHANGED <<current_thread, state, ready_queue, context, handles, heap, thread_pool,
                  newth, zombie_queue, waiting_for>>
  BY <1>2, Zenon DEF sched_vars, mem_vars
<1>6. RunnableBut(held)' /\ ContextOK' /\ ZombieOK' /\ OwnOK'
  BY <1>1, <1>5 DEF LiveInv, RunnableBut, ContextOK, ZombieOK, OwnOK
<1>7. JoinOK'
  <2>1. JoinOK
    BY <1>1 DEF LiveInv
  <2>2. ASSUME NEW x \in handles, context[x] = "join"
        PROVE  /\ waiting_for[x] \in handles \ {x} /\ joined_by'[waiting_for[x]] = x
               /\ state[x] = "BLOCKED" <=> state[waiting_for[x]] # "TERMINATED"
    BY <1>3, <2>1, <2>2, Zenon DEF JoinOK
  <2> QED BY <1>5, <2>2, Zenon DEF JoinOK
<1> QED BY <1>4, <1>6, <1>7 DEF CoreInv, LiveInv

\* thread_join that blocks and switches.
LEMMA JoinBlockInv ==
  ASSUME NEW held, CoreInv(held), NEW target \in Threads, join_block(target)
  PROVE  CoreInv(held)'
<1> DEFINE c == current_thread
<1>1. CoreShape /\ LiveInv(held)
  BY Zenon DEF CoreInv, join_block, join_link, Joinable, Running, Live, Sound
<1>2. /\ target \in handles /\ target # c /\ state[target] # "TERMINATED"
      /\ context[c] = "user" /\ newth[c] = NULL
      /\ c \in handles /\ c \in Threads /\ handles \subseteq Threads
      /\ joined_by' \in [Threads -> Threads \cup {NULL}]
      /\ joined_by'[target] = c
      /\ \A u \in Threads \ {target} : joined_by'[u] = joined_by[u]
      /\ \A u \in Threads : waiting_for[u] # target
      /\ head_ref' \in Seq(Threads) /\ head_joiner' \in [Threads -> 0..Len(head_ref')]
  BY <1>1, LinkFacts, Zenon DEF join_block
<1>3. /\ BlockAndSwitch("join") /\ context' = [context EXCEPT ![c] = "join"]
      /\ waiting_for' = [waiting_for EXCEPT ![c] = target]
      /\ UNCHANGED <<handles, heap, thread_pool, newth, alloc_retries, stack_map,
                     mapped, stack_pool, deferred_stacks, zombie_queue, mis_woken>>
  BY Zenon DEF join_block, BlockAndSwitch, mem_vars
<1>4. /\ SchedTypeOK' /\ RunnableBut(held)' /\ state[c] = "RUNNING"
      /\ \A x \in handles : /\ state'[x] = "TERMINATED" <=> state[x] = "TERMINATED"
                            /\ state'[x] = "BLOCKED" <=> state[x] = "BLOCKED" \/ x = c
  BY <1>1, <1>3, BlockStates
<1> HIDE DEF c
<1>5. /\ context' \in [Threads -> Contexts]
      /\ waiting_for' \in [Threads -> Threads \cup {NULL}]
      /\ context'[c] = "join" /\ waiting_for'[c] = target
      /\ \A x \in Threads \ {c} : context'[x] = context[x] /\ waiting_for'[x] = waiting_for[x]
  BY <1>1, <1>2, <1>3, Zenon DEF CoreShape, Contexts
<1>6. CoreShape'
  BY <1>1, <1>2, <1>3, <1>4, <1>5, Zenon DEF CoreShape
<1>7. ContextOK'
  <2>1. ContextOK /\ NULL \notin Threads /\ UNCHANGED <<handles, newth>>
    BY <1>1, <1>3, SchedulerAssumption DEF LiveInv
  <2>2. ASSUME NEW x \in Threads
        PROVE  /\ context'[x] = "join" <=> waiting_for'[x] # NULL
               /\ context'[x] = "create" <=> newth[x] # NULL
               /\ x \notin handles \/ state'[x] = "TERMINATED" => context'[x] = "user"
    <3>1. CASE x = c
      BY <1>2, <1>4, <1>5, <2>1, <3>1
    <3>2. CASE x # c
      <4>1. context'[x] = context[x] /\ waiting_for'[x] = waiting_for[x]
        BY <1>5, <3>2, Zenon
      <4> QED BY <1>4, <2>1, <3>2, <4>1 DEF ContextOK
    <3> QED BY <3>1, <3>2
  <2> QED BY <2>1, <2>2 DEF ContextOK
<1>8. ZombieOK' /\ OwnOK'
  BY <1>1, <1>3, <1>4, Zenon DEF LiveInv, ZombieOK, OwnOK
<1>9. JoinOK'
  <2>1. JoinOK /\ UNCHANGED handles
    BY <1>1, <1>3 DEF LiveInv
  <2>2. ASSUME NEW x \in handles, context'[x] = "join"
        PROVE  /\ waiting_for'[x] \in handles \ {x}
               /\ joined_by'[waiting_for'[x]] = x
               /\ state'[x] = "BLOCKED" <=> state'[waiting_for'[x]] # "TERMINATED"
    <3>1. CASE x = c
      BY <1>2, <1>4, <1>5, <3>1
    <3>2. CASE x # c
      <4> DEFINE w == waiting_for[x]
      <4>1. x \in Threads /\ context[x] = "join" /\ waiting_for'[x] = w /\ w # target
        BY <1>2, <1>5, <2>2, <3>2, Zenon
      <4>2. /\ w \in handles \ {x} /\ joined_by[w] = x
            /\ state[x] = "BLOCKED" <=> state[w] # "TERMINATED"
        BY <2>1, <2>2, <4>1, Zenon DEF JoinOK
      <4>3. joined_by'[w] = x
        BY <1>2, <4>1, <4>2, Zenon
      <4>4. /\ state'[x] = "BLOCKED" <=> state[x] = "BLOCKED"
            /\ state'[w] = "TERMINATED" <=> state[w] = "TERMINATED"
        BY <1>4, <2>2, <3>2, <4>2, Zenon
      <4> QED BY <4>1, <4>2, <4>3, <4>4, Zenon
    <3> QED BY <3>1, <3>2
  <2> QED BY <2>1, <2>2, Zenon DEF JoinOK
<1> QED BY <1>4, <1>6, <1>7, <1>8, <1>9, Zenon DEF CoreInv, LiveInv

-----------------------------------------------------------------------------
(* Stacks.                                                                 *)

\* A step that moves no stack and brings nobody back to life.
LEMMA StackFrame ==
  ASSUME StackOK, UNCHANGED <<handles, stack_map, mapped, stack_pool, deferred_stacks>>,
         \A t \in handles : state[t] = "TERMINATED" => state'[t] = "TERMINATED"
  PROVE  StackOK'
BY SMTT(30) DEF StackOK, Owners

\* The deferred stacks go to the pool, as far as it has room.
LEMMA ReclaimStack ==
  ASSUME CoreShape, StackOK, reclaim_deferred_stacks_all, UNCHANGED <<handles, stack_map>>,
         \A t \in handles : state[t] = "TERMINATED" => state'[t] = "TERMINATED"
  PROVE  StackOK'
<1> DEFINE ss == Reverse(deferred_stacks)
<1>1. /\ stack_pool \in Seq(Stacks) /\ deferred_stacks \in Seq(Stacks)
      /\ stack_pool_push(ss) /\ deferred_stacks' = <<>>
  BY Zenon DEF CoreShape, reclaim_deferred_stacks_all
<1>2. /\ ss \in Seq(Stacks) /\ Range(ss) = Range(deferred_stacks)
      /\ IsInjective(ss)
  BY <1>1, ReverseSeq, ReverseRange, Zenon DEF StackOK
<1> HIDE DEF ss
<1>3. /\ Len(stack_pool') <= MAX_POOLED_STACKS
      /\ Range(stack_pool) \subseteq Range(stack_pool')
      /\ Range(stack_pool') \subseteq Range(stack_pool) \cup Range(deferred_stacks)
      /\ IsInjective(stack_pool')
      /\ mapped' = mapped \ (Range(deferred_stacks) \ Range(stack_pool'))
  BY <1>1, <1>2, PushRange DEF StackOK
<1>4. Range(deferred_stacks') = {} /\ IsInjective(deferred_stacks')
  BY <1>1 DEF Range, IsInjective
<1>5. Owners' = Owners /\ stack_map' = stack_map
  BY Zenon DEF Owners
<1>6. mapped' = Range(stack_pool') \cup Range(deferred_stacks') \cup {stack_map[t] : t \in Owners}
  BY <1>3, <1>4, SMTT(30) DEF StackOK
<1>7. /\ \A t \in Owners : stack_map[t] \notin Range(stack_pool') \cup Range(deferred_stacks')
      /\ Range(stack_pool') \cap Range(deferred_stacks') = {}
  BY <1>3, <1>4, Zenon DEF StackOK
<1> QED BY <1>3, <1>4, <1>5, <1>6, <1>7, SMTT(30) DEF StackOK

-----------------------------------------------------------------------------
(* thread_create.                                                          *)
LEMMA HeadRefAppend ==
  ASSUME head_ref \in Seq(Threads), head_joiner \in [Threads -> 0..Len(head_ref)],
         NEW t \in Threads, head_ref' = Append(head_ref, t),
         head_joiner' = [head_joiner EXCEPT ![t] = Len(head_ref) + 1]
  PROVE  head_ref' \in Seq(Threads) /\ head_joiner' \in [Threads -> 0..Len(head_ref')]
<1>1. head_ref' \in Seq(Threads) /\ Len(head_ref') = Len(head_ref) + 1 /\ Len(head_ref) \in Nat
  BY AppendProperties, LenProperties, Zenon
<1>2. \A i \in 0..Len(head_ref) : i \in 0..Len(head_ref) + 1
  BY <1>1
<1>3. Len(head_ref) + 1 \in 0..Len(head_ref) + 1
  BY <1>1
<1> QED BY <1>1, <1>2, <1>3, Zenon

\* The struct a creation starts with is nobody else's.
LEMMA AllocFresh ==
  ASSUME CoreShape, OwnOK, NEW t \in thread_alloc,
         IF thread_pool # <<>>
         THEN thread_pool' = Front(thread_pool) /\ UNCHANGED heap
         ELSE heap' = heap \cup {t} /\ UNCHANGED thread_pool
  PROVE  /\ t \in Threads \ handles
         /\ \A u \in Threads : newth[u] # t
         /\ thread_pool' \in Seq(Threads) /\ IsInjective(thread_pool')
         /\ Range(thread_pool') = Range(thread_pool) \ {t}
         /\ heap' = heap \cup {t} /\ t # main_thread
<1>0. thread_pool \in Seq(Threads) /\ main_thread \in handles /\ main_thread \notin heap
  BY Zenon DEF CoreShape
<1>1. CASE thread_pool # <<>>
  <2>1. t = Last(thread_pool) /\ thread_pool' = Front(thread_pool) /\ heap' = heap
    BY <1>1, Zenon DEF thread_alloc
  <2>2. /\ thread_pool' \in Seq(Threads) /\ t \in Threads
        /\ Range(thread_pool) = Range(thread_pool') \cup {t}
        /\ IsInjective(thread_pool') /\ t \notin Range(thread_pool')
    BY <1>0, <1>1, <2>1, FrontLastRange, Zenon DEF OwnOK
  <2>3. t \in heap /\ t \notin handles /\ \A u \in Threads : newth[u] # t
    BY <2>2, Zenon DEF OwnOK
  <2> QED BY <1>0, <2>1, <2>2, <2>3
<1>2. CASE thread_pool = <<>>
  <2>1. t \in Threads \ (heap \cup {main_thread}) /\ heap' = heap \cup {t} /\ thread_pool' = thread_pool
    BY <1>2, Zenon DEF thread_alloc
  <2> QED BY <1>0, <2>1 DEF OwnOK
<1> QED BY <1>1, <1>2, Zenon

\* What a thread inside thread_create holds is reachable by nobody else.
LEMMA CreatingFacts ==
  ASSUME NEW held, CoreShape, LiveInv(held), context[current_thread] = "create",
         NEW t, t = newth[current_thread]
  PROVE  /\ current_thread \in handles /\ current_thread \in Threads
         /\ state[current_thread] = "RUNNING" /\ waiting_for[current_thread] = NULL
         /\ t \in Threads \ handles /\ t # main_thread /\ t # current_thread
         /\ t \notin Range(thread_pool) /\ t \in heap
         /\ t \notin Range(ready_queue) \cup held /\ t \notin Range(zombie_queue)
         /\ context[t] = "user" /\ waiting_for[t] = NULL /\ newth[t] = NULL
         /\ \A u \in Threads : waiting_for[u] # t
         /\ \A u \in Threads : newth[u] = t <=> u = current_thread
<1> USE DEF LiveInv
<1>1. /\ current_thread \in handles /\ current_thread \in Threads
      /\ state[current_thread] = "RUNNING"
  BY Zenon DEF CoreShape, SchedTypeOK, RunnableBut
<1>2. t # NULL /\ t \in Threads /\ waiting_for[current_thread] = NULL
  BY <1>1 DEF CoreShape, ContextOK
<1>3. /\ t \notin handles \cup Range(thread_pool) /\ t \in heap
      /\ \A u \in Threads : newth[u] = t <=> u = current_thread
  BY <1>1, <1>2, Zenon DEF OwnOK
<1>4. context[t] = "user" /\ waiting_for[t] = NULL /\ newth[t] = NULL
  BY <1>2, <1>3, Zenon DEF ContextOK
<1>5. \A u \in Threads : waiting_for[u] # t
  BY <1>2, <1>3 DEF ContextOK, JoinOK
<1>6. t \notin Range(ready_queue) \cup held /\ t \notin Range(zombie_queue)
  BY <1>3, Zenon DEF RunnableBut, ZombieOK
<1> QED BY <1>1, <1>2, <1>3, <1>4, <1>5, <1>6, Zenon DEF CoreShape

\* Freeing a struct that was handed out or held by a creation.
LEMMA FreeOwn ==
  ASSUME CoreShape, OwnOK, NEW t \in Threads, t # main_thread, t \in heap,
         t \notin Range(thread_pool), thread_free(t), handles' = handles \ {t},
         \A u \in Threads : newth'[u] = IF newth[u] = t THEN NULL ELSE newth[u]
  PROVE  OwnOK' /\ thread_pool' \in Seq(Threads) /\ heap' \subseteq Threads \ {main_thread}
<1>1. /\ thread_pool \in Seq(Threads) /\ heap \subseteq Threads \ {main_thread}
      /\ handles \subseteq Threads /\ main_thread \in handles
      /\ Range(thread_pool) \subseteq Threads
  BY RangeOfSeq, Zenon DEF CoreShape
<1>2. /\ \A u, v \in Threads : newth'[u] # NULL /\ newth'[u] = newth'[v] => u = v
      /\ \A u \in Threads : newth'[u] # t
      /\ \A u \in Threads : newth'[u] \notin (handles \ {t}) \cup Range(thread_pool)
      /\ \A x \in Threads : (\E u \in Threads : newth'[u] = x)
                              <=> (x # t /\ \E u \in Threads : newth[u] = x)
  BY <1>1, SchedulerAssumption DEF OwnOK
<1>3. CASE thread_pool' = Append(thread_pool, t) /\ UNCHANGED heap
  <2>1. /\ thread_pool' \in Seq(Threads) /\ IsInjective(thread_pool')
        /\ Range(thread_pool') = Range(thread_pool) \cup {t}
    BY <1>1, <1>3, AppendRange, AppendProperties, SMTT(30) DEF OwnOK
  <2>2. IsInjective(thread_pool') /\ handles' \cap Range(thread_pool') = {}
    BY <2>1 DEF OwnOK
  <2>3. \A u \in Threads : newth'[u] \notin handles' \cup Range(thread_pool')
    BY <1>2, <2>1, Zenon
  <2>4. \A x \in Threads : x \in heap' <=>
           \/ x \in handles' \ {main_thread}
           \/ x \in Range(thread_pool')
           \/ \E u \in Threads : newth'[u] = x
    BY <1>2, <1>3, <2>1, SMTT(30) DEF OwnOK
  <2> QED BY <1>1, <1>2, <1>3, <2>1, <2>2, <2>3, <2>4, Zenon DEF OwnOK
<1>4. CASE heap' = heap \ {t} /\ UNCHANGED thread_pool
  <2>1. \A x \in Threads : x \in heap' <=>
           \/ x \in handles' \ {main_thread}
           \/ x \in Range(thread_pool')
           \/ \E u \in Threads : newth'[u] = x
    BY <1>2, <1>4 DEF OwnOK
  <2> QED BY <1>1, <1>2, <1>4, <2>1, SMTT(30) DEF OwnOK
<1> QED BY <1>3, <1>4, Zenon DEF thread_free

\* The values the counters are reset to are in their ranges.
LEMMA ZeroInRange ==
  ASSUME head_ref \in Seq(Threads)
  PROVE  0 \in 0..Len(head_ref) /\ 0 \in 0..MAX_ALLOC_RETRIES
<1>1. Len(head_ref) \in Nat
  BY LenProperties, Zenon
<1> QED BY <1>1, CoreAssumption

-----------------------------------------------------------------------------
(* Terminated threads and join chains.                                     *)

\* A step that starts and ends no join and terminates nobody.
LEMMA ClaimFrame ==
  ASSUME ClaimOK, UNCHANGED <<handles, zombie_queue, waiting_for>>,
         \A t \in handles : state'[t] = "TERMINATED" <=> state[t] = "TERMINATED",
         \A t \in handles : context'[t] = "join" <=> context[t] = "join"
  PROVE  ClaimOK'
<1>1. \A t : Awaited(t)' <=> Awaited(t)
  BY Zenon DEF Awaited
<1> QED BY <1>1, Zenon DEF ClaimOK

\* A new chain slot, for a thread with no slot of its own.
LEMMA HeadAppend ==
  ASSUME head_ref \in Seq(Threads), head_joiner \in [Threads -> 0..Len(head_ref)], HeadOK,
         NEW t \in Threads, head_ref' = Append(head_ref, t),
         head_joiner' = [head_joiner EXCEPT ![t] = Len(head_ref) + 1], handles' \subseteq Threads,
         \A u \in handles' \ {t} : u \in handles /\ joined_by'[u] = joined_by[u]
  PROVE  HeadOK'
<1>1. /\ Len(head_ref) \in Nat
      /\ \A i \in 1..Len(head_ref) : head_ref'[i] = head_ref[i]
      /\ head_ref'[Len(head_ref) + 1] = t
  BY AppendProperties, LenProperties
<1>2. head_joiner'[t] = Len(head_ref) + 1 /\ \A u \in Threads \ {t} : head_joiner'[u] = head_joiner[u]
  OBVIOUS
<1> SUFFICES ASSUME NEW u \in handles', head_joiner'[u] # 0, joined_by'[u] = NULL
             PROVE  head_ref'[head_joiner'[u]] = u
  BY Zenon DEF HeadOK, target_is_head
<1>3. CASE u = t
  BY <1>1, <1>2, <1>3, Zenon
<1>4. CASE u # t
  <2>1. u \in handles /\ joined_by[u] = NULL /\ head_joiner'[u] = head_joiner[u] /\ u \in Threads
    BY <1>2, <1>4, Zenon
  <2>2. head_ref[head_joiner[u]] = u
    BY <2>1, Zenon DEF HeadOK, target_is_head
  <2>3. head_joiner[u] \in 1..Len(head_ref)
    BY <1>1, <2>1
  <2> QED BY <1>1, <2>1, <2>2, <2>3, Zenon
<1> QED BY <1>3, <1>4

\* A step that changes no chain of a thread in use.
LEMMA HeadFrame ==
  ASSUME HeadOK, head_ref' = head_ref,
         \A u \in handles' : /\ u \in handles /\ joined_by'[u] = joined_by[u]
                             /\ head_joiner'[u] = head_joiner[u]
  PROVE  HeadOK'
BY DEF HeadOK, target_is_head

-----------------------------------------------------------------------------
(* thread_create.                                                          *)

\* The first part of thread_create, up to the allocation of the stack.
LEMMA CreateInv ==
  ASSUME NEW held, CoreInv(held), thread_create
  PROVE  CoreInv(held)'
<1>1. CoreShape /\ Live /\ LiveInv(held) /\ current_thread \in Threads /\ context[current_thread] = "user"
  BY Zenon DEF CoreInv, thread_create, Running, Live, Sound, LiveInv, CoreShape, SchedTypeOK
<1>2. PICK t \in thread_alloc :
        /\ newth' = [newth EXCEPT ![current_thread] = t]
        /\ IF thread_pool # <<>>
           THEN thread_pool' = Front(thread_pool) /\ UNCHANGED heap
           ELSE heap' = heap \cup {t} /\ UNCHANGED thread_pool
  BY ZenonT(30) DEF thread_create
<1>3. /\ t \in Threads \ handles
      /\ \A u \in Threads : newth[u] # t
      /\ thread_pool' \in Seq(Threads) /\ IsInjective(thread_pool')
      /\ Range(thread_pool') = Range(thread_pool) \ {t}
      /\ heap' = heap \cup {t} /\ t # main_thread
  BY <1>1, <1>2, AllocFresh, Zenon DEF LiveInv
<1>4. /\ newth \in [Threads -> Threads \cup {NULL}] /\ context \in [Threads -> Contexts]
      /\ context' = [context EXCEPT ![current_thread] = "create"]
      /\ UNCHANGED <<current_thread, state, ready_queue, handles, zombie_queue, joined_by,
                     waiting_for>>
  BY <1>1, Zenon DEF CoreShape, thread_create
<1>5. /\ newth'[current_thread] = t /\ context'[current_thread] = "create"
      /\ \A u \in Threads \ {current_thread} : newth'[u] = newth[u] /\ context'[u] = context[u]
  BY <1>1, <1>2, <1>4, Zenon
<1>6. /\ newth[current_thread] = NULL /\ waiting_for[current_thread] = NULL
      /\ current_thread \in handles /\ state[current_thread] = "RUNNING"
  BY <1>1 DEF LiveInv, ContextOK, RunnableBut
<1>7. CoreShape'
  <2>1. head_ref' \in Seq(Threads) /\ head_joiner' \in [Threads -> 0..Len(head_ref')]
    BY <1>1, HeadRefAppend, Zenon DEF CoreShape, thread_create
  <2>2. /\ stack_pool' \in Seq(Stacks) /\ mapped' \subseteq Stacks
        /\ deferred_stacks' \in Seq(Stacks)
    BY <1>1, ReclaimType, Zenon DEF CoreShape, thread_create
  <2> QED BY <1>1, <1>2, <1>3, <2>1, <2>2, Zenon DEF CoreShape, Contexts, SchedTypeOK, thread_create
<1>8. RunnableBut(held)' /\ ZombieOK'
  BY <1>1, <1>4, Zenon DEF LiveInv, RunnableBut, ZombieOK
<1>9. ContextOK'
  <2>1. ContextOK /\ UNCHANGED <<state, waiting_for, handles>>
    BY <1>1, <1>4, Zenon DEF LiveInv
  <2>2. t # NULL
    BY <1>3, SchedulerAssumption, Zenon
  <2> QED BY <1>5, <1>6, <2>1, <2>2 DEF ContextOK
<1>10. JoinOK'
  <2>1. JoinOK /\ handles \subseteq Threads /\ UNCHANGED <<state, waiting_for, handles, joined_by>>
    BY <1>1, <1>4, Zenon DEF LiveInv, CoreShape
  <2> QED BY <1>5, <2>1 DEF JoinOK
<1>11. OwnOK'
  <2>0. OwnOK
    BY <1>1, Zenon DEF LiveInv
  <2>1. \A u, v \in Threads : newth'[u] # NULL /\ newth'[u] = newth'[v] => u = v
    BY <1>3, <1>5, <2>0 DEF OwnOK
  <2>2. \A u \in Threads : newth'[u] \notin handles \cup Range(thread_pool')
    BY <1>3, <1>5, <2>0, Zenon DEF OwnOK
  <2>3. \A x \in Threads : (\E u \in Threads : newth'[u] = x)
                             <=> (x = t \/ \E u \in Threads : newth[u] = x)
    BY <1>1, <1>3, <1>5, <1>6, SchedulerAssumption, Zenon
  <2> QED BY <1>3, <1>4, <2>0, <2>1, <2>2, <2>3, Zenon DEF OwnOK
<1> QED BY <1>7, <1>8, <1>9, <1>10, <1>11, Zenon DEF CoreInv, LiveInv

\* thread_create yields before it tries the allocation again.
LEMMA CreateRetryInv ==
  ASSUME NEW held, CoreInv(held), create_retry
  PROVE  CoreInv(held)'
<1>1. CoreShape /\ Live /\ LiveInv(held) /\ RunnableBut(held) /\ current_thread \in Threads
  BY Zenon DEF CoreInv, create_retry, Running, Live, Sound, LiveInv, CoreShape, SchedTypeOK
<1>2. SchedTypeOK' /\ Handover
  BY <1>1, RunnableCpu, YieldHandover, Zenon DEF create_retry
<1>3. context' = context
  BY <1>1, Zenon DEF create_retry, thread_yield, Running, CoreShape
<1>4. alloc_retries' \in [Threads -> 0..MAX_ALLOC_RETRIES]
  BY <1>1, CoreAssumption, SMTT(30) DEF create_retry, CoreShape
<1>5. CoreShape'
  BY <1>1, <1>2, <1>3, <1>4, ReclaimType, ZenonT(30) DEF CoreShape, create_retry, join_vars
<1> QED BY <1>1, <1>2, <1>3, <1>5, HandoverLive, Zenon DEF CoreInv, create_retry, join_vars

\* thread_create gives the struct back when it runs out of retries.
LEMMA CreateFailInv ==
  ASSUME NEW held, CoreInv(held), create_fail
  PROVE  CoreInv(held)'
<1> DEFINE t == newth[current_thread]
<1>1. CoreShape /\ Live /\ LiveInv(held) /\ context[current_thread] = "create"
  BY Zenon DEF CoreInv, create_fail, Running, Live, Sound
<1>2. /\ current_thread \in handles /\ current_thread \in Threads
      /\ state[current_thread] = "RUNNING" /\ waiting_for[current_thread] = NULL
      /\ t \in Threads \ handles /\ t # main_thread
      /\ t \notin Range(thread_pool) /\ t \in heap
      /\ \A u \in Threads : newth[u] = t <=> u = current_thread
  BY <1>1, CreatingFacts
<1> HIDE DEF t
<1>3. /\ thread_free(t) /\ handles' = handles \ {t} /\ head_joiner' = [head_joiner EXCEPT ![t] = 0]
      /\ newth' = [newth EXCEPT ![current_thread] = NULL]
      /\ alloc_retries' = [alloc_retries EXCEPT ![current_thread] = 0]
      /\ context' = [context EXCEPT ![current_thread] = "user"]
      /\ UNCHANGED <<current_thread, state, ready_queue, priority, zombie_queue, stack_map,
                     joined_by, waiting_for, head_ref, process, mis_woken>>
  BY Zenon DEF create_fail, create_return, thread_obj_release, t
<1>4. handles' = handles
  BY <1>2, <1>3
<1>5. \A u \in Threads : newth'[u] = IF newth[u] = t THEN NULL ELSE newth[u]
  BY <1>1, <1>2, <1>3, Zenon DEF CoreShape
<1>6. OwnOK' /\ thread_pool' \in Seq(Threads) /\ heap' \subseteq Threads \ {main_thread}
  BY <1>1, <1>2, <1>3, <1>5, FreeOwn, Zenon DEF LiveInv
<1>7. CoreShape'
  <2>1. /\ stack_pool' \in Seq(Stacks) /\ mapped' \subseteq Stacks
        /\ deferred_stacks' \in Seq(Stacks)
    BY <1>1, ReclaimType DEF CoreShape, create_fail
  <2>2. /\ head_joiner' \in [Threads -> 0..Len(head_ref')]
        /\ alloc_retries' \in [Threads -> 0..MAX_ALLOC_RETRIES]
    BY <1>1, <1>3, ZeroInRange, ZenonT(30) DEF CoreShape
  <2> QED BY <1>1, <1>3, <1>4, <1>6, <2>1, <2>2, ZenonT(30) DEF CoreShape, Contexts, SchedTypeOK
<1>8. /\ context'[current_thread] = "user" /\ newth'[current_thread] = NULL
      /\ \A u \in Threads \ {current_thread} : newth'[u] = newth[u] /\ context'[u] = context[u]
  BY <1>1, <1>2, <1>3 DEF CoreShape
<1>9. RunnableBut(held)' /\ ZombieOK'
  BY <1>1, <1>3, <1>4, Zenon DEF LiveInv, RunnableBut, ZombieOK
<1>10. ContextOK'
  <2>1. ContextOK /\ UNCHANGED <<state, waiting_for, handles>>
    BY <1>1, <1>3, <1>4, Zenon DEF LiveInv
  <2> QED BY <1>2, <1>8, <2>1 DEF ContextOK
<1>11. JoinOK'
  <2>1. JoinOK /\ handles \subseteq Threads /\ UNCHANGED <<state, waiting_for, handles, joined_by>>
    BY <1>1, <1>3, <1>4, Zenon DEF LiveInv, CoreShape
  <2> QED BY <1>8, <2>1 DEF JoinOK
<1> QED BY <1>6, <1>7, <1>9, <1>10, <1>11, Zenon DEF CoreInv, LiveInv

\* The fields thread_create gives a new thread.
LEMMA DefaultsOK ==
  "READY" \in States /\ THREAD_DEFAULT_PRIORITY \in Priorities
BY SchedulerAssumption DEF States, Priorities

\* thread_create with a stack but no chain slot.
LEMMA CreateNoSlotInv ==
  ASSUME NEW held, CoreInv(held), create_no_slot
  PROVE  CoreInv(held)'
<1> DEFINE t == newth[current_thread]
<1>1. CoreShape /\ Live /\ LiveInv(held) /\ context[current_thread] = "create"
  BY Zenon DEF CoreInv, create_no_slot, Running, Live, Sound
<1>2. /\ current_thread \in handles /\ current_thread \in Threads
      /\ state[current_thread] = "RUNNING" /\ waiting_for[current_thread] = NULL
      /\ t \in Threads \ handles /\ t # main_thread /\ t # current_thread
      /\ t \notin Range(thread_pool) /\ t \in heap
      /\ t \notin Range(ready_queue) /\ t \notin Range(zombie_queue)
      /\ context[t] = "user" /\ waiting_for[t] = NULL
      /\ \A u \in Threads : waiting_for[u] # t
      /\ \A u \in Threads : newth[u] = t <=> u = current_thread
  BY <1>1, CreatingFacts, Zenon
<1>3. PICK s \in Stacks :
        /\ InitFields(t, s)
        /\ \/ /\ stack_pool # <<>> /\ s = Last(stack_pool)
              /\ UNCHANGED <<stack_pool, mapped>>
           \/ /\ stack_pool = <<>> /\ s \in Stacks \ mapped
              /\ stack_pool' = SubSeq(<<s>>, 1, Fit(<<>>, <<s>>))
              /\ mapped' = mapped \cup Range(stack_pool')
  BY Zenon DEF create_no_slot, t
<1>4. /\ thread_free(t) /\ handles' = handles \ {t} /\ head_joiner' = [head_joiner EXCEPT ![t] = 0]
      /\ newth' = [newth EXCEPT ![current_thread] = NULL]
      /\ alloc_retries' = [alloc_retries EXCEPT ![current_thread] = 0]
      /\ context' = [context EXCEPT ![current_thread] = "user"]
      /\ UNCHANGED <<current_thread, ready_queue, head_ref, deferred_stacks, zombie_queue,
                     process, mis_woken>>
  BY Zenon DEF create_no_slot, create_return, thread_obj_release, t
<1> HIDE DEF t
<1>5. /\ state' = [state EXCEPT ![t] = "READY"]
      /\ stack_map' = [stack_map EXCEPT ![t] = s]
      /\ priority' = [priority EXCEPT ![t] = THREAD_DEFAULT_PRIORITY]
      /\ joined_by' = [joined_by EXCEPT ![t] = NULL]
      /\ waiting_for' = [waiting_for EXCEPT ![t] = NULL]
  BY <1>3 DEF InitFields
<1>6. handles' = handles /\ \A u \in Threads : newth'[u] = IF newth[u] = t THEN NULL ELSE newth[u]
  BY <1>1, <1>2, <1>4, Zenon DEF CoreShape
<1>7. OwnOK' /\ thread_pool' \in Seq(Threads) /\ heap' \subseteq Threads \ {main_thread}
  BY <1>1, <1>2, <1>4, <1>6, FreeOwn, Zenon DEF LiveInv
<1>8. CoreShape'
  <2>1. stack_pool' \in Seq(Stacks) /\ mapped' \subseteq Stacks
    <3>1. CASE UNCHANGED <<stack_pool, mapped>>
      BY <1>1, <3>1 DEF CoreShape
    <3>2. CASE /\ stack_pool' = SubSeq(<<s>>, 1, Fit(<<>>, <<s>>))
               /\ mapped' = mapped \cup Range(stack_pool')
      <4>1. Fit(<<>>, <<s>>) \in Int /\ Fit(<<>>, <<s>>) <= 1
        BY CoreAssumption DEF Fit
      <4>2. \A i \in 1..Fit(<<>>, <<s>>) : <<s>>[i] \in Stacks
        BY <4>1
      <4>3. stack_pool' \in Seq(Stacks)
        BY <3>2, <4>1, <4>2, SubSeqProperties, SMTT(30)
      <4> QED BY <1>1, <3>2, <4>3, RangeOfSeq, Zenon DEF CoreShape
    <3> QED BY <1>3, <3>1, <3>2, Zenon
  <2>2. /\ head_joiner' \in [Threads -> 0..Len(head_ref')]
        /\ alloc_retries' \in [Threads -> 0..MAX_ALLOC_RETRIES]
    BY <1>1, <1>4, ZeroInRange, Zenon DEF CoreShape
  <2>3. SchedTypeOK'
    BY <1>1, <1>4, <1>5, DefaultsOK, Zenon DEF CoreShape, SchedTypeOK
  <2> QED BY <1>1, <1>4, <1>5, <1>6, <1>7, <2>1, <2>2, <2>3, Zenon DEF CoreShape, Contexts
<1>9. /\ context'[current_thread] = "user" /\ newth'[current_thread] = NULL
      /\ \A u \in Threads \ {current_thread} : newth'[u] = newth[u] /\ context'[u] = context[u]
      /\ \A u \in Threads \ {t} : state'[u] = state[u] /\ joined_by'[u] = joined_by[u]
      /\ waiting_for' = waiting_for /\ handles \subseteq Threads
      /\ UNCHANGED <<current_thread, ready_queue, zombie_queue, handles>>
  <2>1. /\ state \in [Threads -> States] /\ context \in [Threads -> Contexts]
        /\ newth \in [Threads -> Threads \cup {NULL}] /\ handles \subseteq Threads
        /\ joined_by \in [Threads -> Threads \cup {NULL}]
        /\ waiting_for \in [Threads -> Threads \cup {NULL}] /\ current_thread \in Threads
    BY <1>1, Zenon DEF CoreShape, SchedTypeOK
  <2>2. /\ context'[current_thread] = "user" /\ newth'[current_thread] = NULL
        /\ \A u \in Threads \ {current_thread} : newth'[u] = newth[u] /\ context'[u] = context[u]
    BY <1>4, <1>6, <2>1, Zenon
  <2>3. \A u \in Threads \ {t} : state'[u] = state[u] /\ joined_by'[u] = joined_by[u]
    BY <1>5, <2>1, Zenon
  <2>4. waiting_for' = waiting_for
    BY <1>2, <1>5, <2>1, Zenon
  <2> QED BY <1>4, <1>6, <2>1, <2>2, <2>3, <2>4
<1>10. RunnableBut(held)'
  <2>1. RunnableBut(held)
    BY <1>1, Zenon DEF LiveInv
  <2> QED BY <1>2, <1>9, <2>1, Zenon DEF RunnableBut
<1>11. ZombieOK'
  <2>1. ZombieOK
    BY <1>1, Zenon DEF LiveInv
  <2> QED BY <1>2, <1>9, <2>1 DEF ZombieOK
<1>12. ContextOK'
  <2>1. ContextOK
    BY <1>1, Zenon DEF LiveInv
  <2>2. ASSUME NEW u \in Threads
        PROVE  /\ context'[u] = "join" <=> waiting_for'[u] # NULL
               /\ context'[u] = "create" <=> newth'[u] # NULL
               /\ u \notin handles' \/ state'[u] = "TERMINATED" => context'[u] = "user"
    <3>1. /\ context[u] = "join" <=> waiting_for[u] # NULL
          /\ context[u] = "create" <=> newth[u] # NULL
          /\ u \notin handles \/ state[u] = "TERMINATED" => context[u] = "user"
      BY <2>1, Zenon DEF ContextOK
    <3>2. waiting_for'[u] = waiting_for[u] /\ (u \notin handles' => u \notin handles)
      BY <1>9, Zenon
    <3>3. CASE u = current_thread
      BY <1>2, <1>9, <3>2, <3>3, Zenon
    <3>4. CASE u # current_thread
      <4>1. context'[u] = context[u] /\ newth'[u] = newth[u]
        BY <1>9, <3>4, Zenon
      <4>2. context[u] = "user" \/ state'[u] = state[u]
        BY <1>2, <1>9, Zenon
      <4> QED BY <3>1, <3>2, <4>1, <4>2, Zenon
    <3> QED BY <3>3, <3>4, Zenon
  <2> QED BY <2>2, Zenon DEF ContextOK
<1>13. JoinOK'
  <2>1. JoinOK
    BY <1>1, Zenon DEF LiveInv
  <2>2. ASSUME NEW u \in handles', context'[u] = "join"
        PROVE  /\ waiting_for'[u] \in handles' \ {u} /\ joined_by'[waiting_for'[u]] = u
               /\ state'[u] = "BLOCKED" <=> state'[waiting_for'[u]] # "TERMINATED"
    <3>1. handles' = handles /\ handles \subseteq Threads \ {t}
      BY <1>2, <1>9, Zenon
    <3>2. u \in handles /\ context[u] = "join" /\ state'[u] = state[u]
      BY <1>9, <2>2, <3>1, Zenon
    <3>3. /\ waiting_for[u] \in handles \ {u} /\ joined_by[waiting_for[u]] = u
          /\ state[u] = "BLOCKED" <=> state[waiting_for[u]] # "TERMINATED"
      BY <2>1, <3>2, Zenon DEF JoinOK
    <3>4. /\ waiting_for'[u] = waiting_for[u] /\ state'[waiting_for[u]] = state[waiting_for[u]]
          /\ joined_by'[waiting_for[u]] = joined_by[waiting_for[u]]
      BY <1>9, <3>1, <3>3, Zenon
    <3>5. joined_by'[waiting_for'[u]] = u /\ state'[waiting_for'[u]] = state[waiting_for[u]]
      BY <3>3, <3>4, Zenon
    <3> QED BY <3>1, <3>2, <3>3, <3>4, <3>5, Zenon
  <2> QED BY <2>2, Zenon DEF JoinOK
<1> QED BY <1>7, <1>8, <1>10, <1>11, <1>12, <1>13, Zenon DEF CoreInv, LiveInv

\* The last part of thread_create: the new thread becomes READY.
LEMMA CreatePublishInv ==
  ASSUME NEW held, CoreInv(held), create_publish
  PROVE  CoreInv(held)'
<1> DEFINE t == newth[current_thread]
<1>1. CoreShape /\ Live /\ LiveInv(held) /\ context[current_thread] = "create"
  BY Zenon DEF CoreInv, create_publish, Running, Live, Sound
<1>2. /\ current_thread \in handles /\ current_thread \in Threads
      /\ state[current_thread] = "RUNNING" /\ waiting_for[current_thread] = NULL
      /\ t \in Threads \ handles /\ t # main_thread /\ t # current_thread
      /\ t \notin Range(thread_pool) /\ t \in heap
      /\ t \notin Range(ready_queue) \cup held /\ t \notin Range(zombie_queue)
      /\ context[t] = "user" /\ waiting_for[t] = NULL /\ newth[t] = NULL
      /\ \A u \in Threads : waiting_for[u] # t
      /\ \A u \in Threads : newth[u] = t <=> u = current_thread
  BY <1>1, CreatingFacts, Zenon
<1>3. PICK s \in Stacks : stack_pool_alloc(s) /\ InitFields(t, s)
  BY Zenon DEF create_publish, t
<1>4. /\ head_ref' = Append(head_ref, t)
      /\ head_joiner' = [head_joiner EXCEPT ![t] = Len(head_ref) + 1]
      /\ ready_queue' = thread_scheduler_enqueue(ready_queue, t, priority')
      /\ handles' = handles \cup {t}
      /\ context' = [context EXCEPT ![t] = "user", ![current_thread] = "user"]
      /\ newth' = [newth EXCEPT ![current_thread] = NULL]
      /\ alloc_retries' = [alloc_retries EXCEPT ![current_thread] = 0]
      /\ UNCHANGED <<current_thread, heap, thread_pool, deferred_stacks, zombie_queue,
                     process, mis_woken>>
  BY Zenon DEF create_publish, create_return, t
<1> HIDE DEF t
<1>5. /\ state' = [state EXCEPT ![t] = "READY"]
      /\ stack_map' = [stack_map EXCEPT ![t] = s]
      /\ priority' = [priority EXCEPT ![t] = THREAD_DEFAULT_PRIORITY]
      /\ joined_by' = [joined_by EXCEPT ![t] = NULL]
      /\ waiting_for' = [waiting_for EXCEPT ![t] = NULL]
  BY <1>3, Zenon DEF InitFields
<1>6. /\ ready_queue' \in Seq(Threads) /\ Range(ready_queue') = Range(ready_queue) \cup {t}
      /\ IsInjective(ready_queue')
  BY <1>1, <1>2, <1>4, EnqueueRange, SMTT(30) DEF CoreShape, SchedTypeOK, LiveInv, RunnableBut
<1>7. CoreShape'
  <2>1. stack_pool' \in Seq(Stacks) /\ mapped' \subseteq Stacks
    BY <1>1, <1>3, FrontLastRange DEF CoreShape, stack_pool_alloc
  <2>2. head_ref' \in Seq(Threads) /\ head_joiner' \in [Threads -> 0..Len(head_ref')]
    <3>1. head_ref \in Seq(Threads) /\ head_joiner \in [Threads -> 0..Len(head_ref)]
      BY <1>1, Zenon DEF CoreShape
    <3>2. t \in Threads
      BY <1>2, Zenon
    <3> QED BY <1>4, <3>1, <3>2, HeadRefAppend, Zenon
  <2>3. alloc_retries' \in [Threads -> 0..MAX_ALLOC_RETRIES]
    BY <1>1, <1>4, ZeroInRange, Zenon DEF CoreShape
  <2>4. SchedTypeOK'
    BY <1>1, <1>4, <1>5, <1>6, DefaultsOK, Zenon DEF CoreShape, SchedTypeOK
  <2> QED BY <1>1, <1>2, <1>4, <1>5, <2>1, <2>2, <2>3, <2>4, ZenonT(30) DEF CoreShape, Contexts
<1>8. /\ context'[current_thread] = "user" /\ newth'[current_thread] = NULL
      /\ \A u \in Threads \ {current_thread} : newth'[u] = newth[u] /\ context'[u] = context[u]
      /\ \A u \in Threads \ {t} : state'[u] = state[u] /\ joined_by'[u] = joined_by[u]
      /\ waiting_for' = waiting_for /\ state'[t] = "READY" /\ handles \subseteq Threads
      /\ handles' = handles \cup {t} /\ UNCHANGED <<current_thread, zombie_queue>>
  BY <1>1, <1>2, <1>4, <1>5, Zenon DEF CoreShape, SchedTypeOK
<1>9. RunnableBut(held)'
  <2>1. RunnableBut(held)
    BY <1>1, Zenon DEF LiveInv
  <2>2. t \notin Range(ready_queue) \cup held /\ current_thread \in Threads /\ t # current_thread
    BY <1>2
  <2>3. \A x \in handles : x # t /\ state'[x] = state[x]
    BY <1>2, <1>8, Zenon
  <2> QED BY <1>6, <1>8, <2>1, <2>2, <2>3, Zenon DEF RunnableBut
<1>10. ZombieOK'
  <2>1. ZombieOK /\ Range(zombie_queue) \subseteq Threads
    BY <1>1, RangeOfSeq, Zenon DEF LiveInv, CoreShape
  <2>2. t \notin Range(zombie_queue)
    BY <1>2, Zenon
  <2>3. /\ zombie_queue' = zombie_queue /\ handles \subseteq handles'
        /\ \A u \in Threads \ {t} : state'[u] = state[u]
    BY <1>8, Zenon
  <2> QED BY <2>1, <2>2, <2>3, Zenon DEF ZombieOK
<1>11. ContextOK'
  <2>1. ContextOK
    BY <1>1, Zenon DEF LiveInv
  <2>2. ASSUME NEW u \in Threads
        PROVE  /\ context'[u] = "join" <=> waiting_for'[u] # NULL
               /\ context'[u] = "create" <=> newth'[u] # NULL
               /\ u \notin handles' \/ state'[u] = "TERMINATED" => context'[u] = "user"
    <3>1. /\ context[u] = "join" <=> waiting_for[u] # NULL
          /\ context[u] = "create" <=> newth[u] # NULL
          /\ u \notin handles \/ state[u] = "TERMINATED" => context[u] = "user"
      BY <2>1, Zenon DEF ContextOK
    <3>2. waiting_for'[u] = waiting_for[u] /\ (u \notin handles' => u \notin handles)
      BY <1>8, Zenon
    <3>3. CASE u = current_thread
      BY <1>2, <1>8, <3>2, <3>3, Zenon
    <3>4. CASE u # current_thread
      <4>1. context'[u] = context[u] /\ newth'[u] = newth[u]
        BY <1>8, <3>4, Zenon
      <4>2. context[u] = "user" \/ state'[u] = state[u]
        BY <1>2, <1>8, Zenon
      <4> QED BY <3>1, <3>2, <4>1, <4>2, Zenon
    <3> QED BY <3>3, <3>4, Zenon
  <2> QED BY <2>2, Zenon DEF ContextOK
<1>12. JoinOK'
  <2>1. JoinOK
    BY <1>1, Zenon DEF LiveInv
  <2>2. ASSUME NEW u \in handles', context'[u] = "join"
        PROVE  /\ waiting_for'[u] \in handles' \ {u} /\ joined_by'[waiting_for'[u]] = u
               /\ state'[u] = "BLOCKED" <=> state'[waiting_for'[u]] # "TERMINATED"
    <3>1. context'[t] = "user" /\ handles \subseteq Threads \ {t}
      BY <1>2, <1>8, Zenon
    <3>2. u \in handles /\ context[u] = "join" /\ state'[u] = state[u]
      BY <1>8, <2>2, <3>1, Zenon
    <3>3. /\ waiting_for[u] \in handles \ {u} /\ joined_by[waiting_for[u]] = u
          /\ state[u] = "BLOCKED" <=> state[waiting_for[u]] # "TERMINATED"
      BY <2>1, <3>2, Zenon DEF JoinOK
    <3>4. /\ waiting_for'[u] = waiting_for[u] /\ state'[waiting_for[u]] = state[waiting_for[u]]
          /\ joined_by'[waiting_for[u]] = joined_by[waiting_for[u]]
      BY <1>8, <3>1, <3>3, Zenon
    <3>5. waiting_for'[u] \in handles' \ {u}
      BY <1>8, <3>3, <3>4, Zenon
    <3>6. joined_by'[waiting_for'[u]] = u /\ state'[waiting_for'[u]] = state[waiting_for[u]]
      BY <3>3, <3>4, Zenon
    <3> QED BY <3>2, <3>3, <3>5, <3>6, Zenon
  <2> QED BY <2>2, Zenon DEF JoinOK
<1>13. OwnOK'
  <2>0. OwnOK /\ Range(thread_pool) \subseteq Threads /\ handles \subseteq Threads
    BY <1>1, RangeOfSeq, Zenon DEF LiveInv, CoreShape
  <2>1. \A x \in Threads : (\E u \in Threads : newth'[u] = x)
                             <=> (x # t /\ \E u \in Threads : newth[u] = x)
    <3> SUFFICES ASSUME NEW x \in Threads
                 PROVE  (\E u \in Threads : newth'[u] = x)
                          <=> (x # t /\ \E u \in Threads : newth[u] = x)
      BY Zenon
    <3>1. x # NULL
      BY SchedulerAssumption, Zenon
    <3>2. ASSUME NEW u \in Threads, newth'[u] = x
          PROVE  newth[u] = x /\ x # t
      <4>1. u # current_thread
        BY <1>8, <3>1, <3>2, Zenon
      <4> QED BY <1>2, <1>8, <3>2, <4>1, Zenon
    <3>3. ASSUME NEW u \in Threads, newth[u] = x, x # t
          PROVE  newth'[u] = x
      <4>1. u # current_thread
        BY <1>2, <3>3, Zenon
      <4> QED BY <1>8, <3>3, <4>1, Zenon
    <3> QED BY <3>2, <3>3, Zenon
  <2>2. /\ \A u, v \in Threads : newth'[u] # NULL /\ newth'[u] = newth'[v] => u = v
        /\ \A u \in Threads : newth'[u] \notin handles' \cup Range(thread_pool)
    <3>1. /\ \A u, v \in Threads : newth[u] # NULL /\ newth[u] = newth[v] => u = v
          /\ \A u \in Threads : newth[u] \notin handles \cup Range(thread_pool)
      BY <2>0, Zenon DEF OwnOK
    <3>2. NULL \notin handles' \cup Range(thread_pool) /\ handles' = handles \cup {t}
      BY <1>2, <1>8, <2>0, SchedulerAssumption, Zenon
    <3>3. ASSUME NEW u \in Threads, newth'[u] # NULL
          PROVE  /\ newth'[u] = newth[u] /\ newth[u] # t
                 /\ newth[u] \notin handles' \cup Range(thread_pool)
      BY <1>2, <1>8, <3>1, <3>2, <3>3, Zenon
    <3> QED BY <3>1, <3>2, <3>3, Zenon
  <2>3. thread_pool' = thread_pool /\ heap' = heap
    BY <1>4
  <2>4. handles' \cap Range(thread_pool') = {} /\ IsInjective(thread_pool')
    BY <1>2, <1>8, <2>0, <2>3, Zenon DEF OwnOK
  <2>5. \A x \in Threads : x \in heap' <=>
           \/ x \in handles' \ {main_thread}
           \/ x \in Range(thread_pool')
           \/ \E u \in Threads : newth'[u] = x
    BY <1>2, <1>8, <2>0, <2>1, <2>3, Zenon DEF OwnOK
  <2> QED BY <2>2, <2>3, <2>4, <2>5, Zenon DEF OwnOK
<1> QED BY <1>7, <1>9, <1>10, <1>11, <1>12, <1>13, Zenon DEF CoreInv, LiveInv
=============================================================================
