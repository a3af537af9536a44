---------------------------- MODULE ThreadPreempt ----------------------------
(***************************************************************************)
(* The thread lifecycle in the build with ENABLE_PREEMPTION: the timer's   *)
(* handler calls thread_yield wherever SIGVTALRM is not masked, in client  *)
(* code and in the parts of library calls outside preem_block and          *)
(* preem_unblock.                                                          *)
(*                                                                         *)
(* Those parts are steps of their own here: what a call has read before    *)
(* the window is kept in a local, and used after it.  When other threads   *)
(* have made it stale the code goes on regardless; the model records the   *)
(* fact and stops, since nothing is claimed about what follows.            *)
(***************************************************************************)
EXTENDS ThreadCore

VARIABLES inside,                   \* the window a thread is in, or "none"
          join_arg,                 \* target of a join whose tests have passed
          picked,                   \* threads that the yields in progress of a thread
                                    \* have taken off the queue and will put back
          stale                     \* history: what was acted on although it was stale

local_vars == <<inside, join_arg, picked>>
preempt_vars == <<core_vars, local_vars, stale>>

me == current_thread

\* The running thread is in window w, in no yield, and its locals hold.
At(w) == stale = "none" /\ inside[me] = w /\ picked[me] = <<>>

\* It goes on in window w.
Enter(w) == inside' = [inside EXCEPT ![me] = w]

\* SIGVTALRM is masked from the switch that resumes a join to line 500.
Masked == context[me] = "join" /\ inside[me] # "claim"

-----------------------------------------------------------------------------
(***************************************************************************)
(* thread_yield, from the handler or from a call.  Under PRIO a yield that *)
(* keeps the CPU unmasks the signal before it puts the thread it has taken *)
(* back into the queue; the yields of handlers may nest there.             *)
(***************************************************************************)
yield_window(resume) ==
  LET next == Head(ready_queue) IN
  \/ /\ ready_queue # <<>> /\ PRIO /\ Aged[next] <= Aged[me]
     /\ priority' = Aged
     /\ ready_queue' = Tail(ready_queue)
     /\ picked' = [picked EXCEPT ![me] = Append(@, next)]
     /\ context' = [context EXCEPT ![me] = resume]
     /\ UNCHANGED <<current_thread, state>>
  \/ /\ ~(ready_queue # <<>> /\ PRIO /\ Aged[next] <= Aged[me])
     /\ thread_yield(resume)
     /\ UNCHANGED picked

\* Voluntary yields have the same effect.
preemption_handler ==
  /\ process = "running" /\ mis_woken = {} /\ stale = "none"
  /\ ~Masked
  /\ yield_window(context[me])
  /\ UNCHANGED <<mem_vars, join_vars, process, mis_woken, inside, join_arg, stale>>

\* Mutants: the thread is put at the end; the thread is forgotten.
put_back_tail ==
  /\ process = "running" /\ mis_woken = {} /\ stale = "none"
  /\ picked[me] # <<>>
  /\ ready_queue' = Append(ready_queue, Last(picked[me]))
  /\ picked' = [picked EXCEPT ![me] = Front(@)]
  /\ UNCHANGED <<current_thread, state, priority, context, mem_vars, join_vars, process,
                 mis_woken, inside, join_arg, stale>>
put_back_lost ==
  /\ process = "running" /\ mis_woken = {} /\ stale = "none"
  /\ picked[me] # <<>>
  /\ picked' = [picked EXCEPT ![me] = Front(@)]
  /\ UNCHANGED <<core_vars, inside, join_arg, stale>>

put_back ==
  /\ process = "running" /\ mis_woken = {} /\ stale = "none"
  /\ picked[me] # <<>>
  /\ ready_queue' = thread_scheduler_enqueue(ready_queue, Last(picked[me]), priority)
  /\ picked' = [picked EXCEPT ![me] = Front(@)]
  /\ UNCHANGED <<current_thread, state, priority, context, mem_vars, join_vars, process,
                 mis_woken, inside, join_arg, stale>>

-----------------------------------------------------------------------------
(***************************************************************************)
(* thread_create works on the struct pool without masking the signal.  A   *)
(* pop reads the size, writes it and loads the element; an error path      *)
(* pushes the struct in as many accesses.  In between a thread is inside   *)
(* the pool, and nobody else may be: PoolFree.  A pop takes effect when    *)
(* the thread leaves the pool, a push when it enters.  A pool found empty  *)
(* is not looked at again.                                                 *)
(***************************************************************************)
PoolFree == \A t \in Threads \ {me} : inside[t] \notin {"pop", "push"}

pop_enter ==
  /\ Running("user") /\ At("none") /\ thread_pool # <<>>
  /\ PoolFree /\ Enter("pop")
  /\ UNCHANGED <<core_vars, join_arg, picked, stale>>

create ==
  /\ \/ /\ IF thread_pool = <<>> THEN At("none") /\ PoolFree ELSE At("pop")
        /\ thread_create /\ Enter("none")
     \/ At("none") /\ create_publish /\ Enter("none")
     \/ At("none") /\ PoolFree /\ (create_no_slot \/ create_fail) /\ Enter("push")
  /\ UNCHANGED <<join_arg, picked, stale>>

push_leave ==
  /\ Live /\ At("push")
  /\ Enter("none")
  /\ UNCHANGED <<core_vars, join_arg, picked, stale>>

\* create_retry, with the window of its yield.
create_wait ==
  /\ Running("create") /\ At("none")
  /\ stack_pool_alloc_fails
  /\ ready_queue # <<>> /\ alloc_retries[me] < MAX_ALLOC_RETRIES
  /\ reclaim_deferred_stacks_all
  /\ alloc_retries' = [alloc_retries EXCEPT ![me] = @ + 1]
  /\ yield_window("create")
  /\ UNCHANGED <<handles, heap, thread_pool, newth, stack_map, zombie_queue, join_vars,
                 process, mis_woken, inside, join_arg, stale>>

(***************************************************************************)
(* thread_join: the tests of lines 402-410, the masked part up to the      *)
(* block, the resumption up to line 500, and the claim.  waiting_for       *)
(* stands for the local target until the claim.  A claim pushes the struct *)
(* of its target with the signal masked, so it is never inside the pool    *)
(* for others, but it may find another thread there.                       *)
(***************************************************************************)
join_test(target) ==
  /\ At("none") /\ Joinable(target)
  /\ Enter("tested") /\ join_arg' = [join_arg EXCEPT ![me] = target]
  /\ UNCHANGED <<core_vars, picked, stale>>

\* Refused calls return and change nothing.
join_refused(target) ==
  /\ Joinable(target) /\ state[target] # "TERMINATED"
  /\ head_joiner[target] = 0 \/ head_joiner[me] = 0 \/ ChainRefuses(target)
  /\ UNCHANGED core_vars

MayPush(target) == target = main_thread \/ PoolFree

join_enter ==
  LET target == join_arg[me] IN
  /\ At("tested")
  /\ \/ MayPush(target) /\ join_terminated(target)
     \/ join_block(target) \/ join_abort(target) \/ join_refused(target)
  /\ Enter("none") /\ join_arg' = [join_arg EXCEPT ![me] = NULL]
  /\ UNCHANGED <<picked, stale>>

join_wake ==
  /\ Running("join") /\ At("none")
  /\ Enter("claim")
  /\ UNCHANGED <<core_vars, join_arg, picked, stale>>

join_claim ==
  /\ At("claim") /\ MayPush(waiting_for[me]) /\ join_resume
  /\ Enter("none")
  /\ UNCHANGED <<join_arg, picked, stale>>

\* Fully masked calls.  thread_yield_to falls back to a plain yield.
masked_call ==
  /\ At("none")
  /\ \/ thread_exit \/ main_return
     \/ /\ Running("user")
        /\ \E t \in handles :
             /\ state[t] = "READY" => t \in Range(ready_queue)
             /\ \/ state[t] = "READY" /\ SwitchTo(ready_queue, priority, t)
                \/ \E p \in Priorities : thread_set_priority(t, p)
        /\ UNCHANGED <<mem_vars, join_vars, process, mis_woken>>
  /\ UNCHANGED <<local_vars, stale>>

-----------------------------------------------------------------------------
(***************************************************************************)
(* Steps that act on something stale.                                      *)
(***************************************************************************)
GoesWrong(what) == stale' = what /\ UNCHANGED <<core_vars, local_vars>>

\* TAILQ_REMOVE of a thread that is READY and in no queue.
unlink_unqueued ==
  /\ Running("user") /\ At("none")
  /\ \E t \in handles : state[t] = "READY" /\ t \notin Range(ready_queue)
  /\ GoesWrong("queue")

\* The target has been joined, or released, since the tests.
join_late ==
  /\ Running("user") /\ At("tested") /\ ~Joinable(join_arg[me])
  /\ GoesWrong("join")

\* The error paths of thread_create: no stack, and nobody to wait for or too many
\* attempts; no chain slot.
CreateGivesUp ==
  \/ /\ stack_pool_alloc_fails
     /\ ready_queue = <<>> \/ alloc_retries[me] >= MAX_ALLOC_RETRIES
  \/ ~stack_pool_alloc_fails /\ Len(head_ref) >= MAX_HEAD_REFS

\* Two threads work on the struct pool at once: a creation that looks for a
\* struct or gives up, or a claim, while another thread is inside.
pool_race ==
  /\ Live /\ ~PoolFree
  /\ \/ Running("user") /\ At("none")
     \/ Running("create") /\ At("none") /\ CreateGivesUp
     \/ /\ Running("user") /\ At("tested")
        /\ join_arg[me] # main_thread /\ state[join_arg[me]] = "TERMINATED"
     \/ Running("join") /\ At("claim") /\ waiting_for[me] # main_thread
  /\ GoesWrong("pool")

PreemptInit ==
  /\ CoreInit
  /\ inside = [t \in Threads |-> "none"]
  /\ join_arg = [t \in Threads |-> NULL]
  /\ picked = [t \in Threads |-> <<>>]
  /\ stale = "none"

PreemptNext ==
  \/ preemption_handler \/ put_back
  \/ pop_enter \/ create \/ push_leave \/ create_wait
  \/ (\E target \in Threads : join_test(target)) \/ join_enter \/ join_wake \/ join_claim
  \/ masked_call
  \/ unlink_unqueued \/ join_late \/ pool_race
  \/ (~Live \/ stale # "none") /\ UNCHANGED preempt_vars

PreemptSpec == PreemptInit /\ [][PreemptNext]_preempt_vars

-----------------------------------------------------------------------------
\* The threads that yields in progress will put back.
Taken == UNION {Range(picked[u]) : u \in Threads}

\* A yield in progress belongs to a thread that can still run, no two of them
\* hold the same thread, and the threads of no set hold each other in a circle.
HoldOK ==
  /\ \A u \in Threads : IsInjective(picked[u])
  /\ \A u, v \in Threads : Range(picked[u]) \cap Range(picked[v]) # {} => u = v
  /\ \A u \in Threads : picked[u] # <<>> => u \in handles /\ (u = me \/ state[u] = "READY")
  /\ \A S \in SUBSET Threads : S # {} => \E t \in S : \A u \in S : t \notin Range(picked[u])

\* The lifecycle invariant, with the taken threads READY outside the queue.
PreemptInv ==
  /\ picked \in [Threads -> Seq(Threads)]
  /\ context \in [Threads -> Contexts \ {"sigwait"}]
  /\ CoreInv(Taken)
  /\ Live => HoldOK

(* A runnable thread is on the CPU, in the ready queue, or held by exactly *)
(* one yield that will put it back: preemption inside the window of        *)
(* scheduler.c:124-126 neither loses nor duplicates a thread.              *)
QueuedOrHeld ==
  Live => LET Holders(t) == {u \in Threads : t \in Range(picked[u])} IN
    /\ \A t \in handles : state[t] = "RUNNING" <=> t = me
    /\ \A t \in handles : state[t] = "READY" <=> t \in Range(ready_queue) \/ Holders(t) # {}
    /\ IsInjective(ready_queue)
    /\ \A t \in Threads :
         /\ IsInjective(picked[t])
         /\ Cardinality(Holders(t)) + (IF t \in Range(ready_queue) THEN 1 ELSE 0) <= 1

(* An empty queue still means that nobody else can run, when a thread      *)
(* looks at it to block or to give up with EDEADLK (thread.c:477-486): the *)
(* threads that yields hold are never all there is.                        *)
EmptyMeansAlone ==
  Live /\ ready_queue = <<>> /\ picked[me] = <<>> =>
    \A t \in handles \ {me} : state[t] # "READY"

(* "All scheduler data-structure accesses that must not be interrupted     *)
(* mid-operation are wrapped with preem_block() / preem_unblock()"         *)
(* (preemption.c:15-16): no thread is unlinked from a ready queue it has   *)
(* been taken off by a yield that is not finished.                         *)
UnlinksOnlyQueued == stale # "queue"
=============================================================================
