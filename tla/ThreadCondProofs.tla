-------------------------- MODULE ThreadCondProofs --------------------------
(***************************************************************************)
(* The invariant of mutexes and condition variables, for any number of     *)
(* threads, mutexes and conditions and either scheduling policy.           *)
(***************************************************************************)
EXTENDS ThreadCond, SchedulerLemmas, FiniteSetTheorems

-----------------------------------------------------------------------------
(***************************************************************************)
(* The inductive invariant.  Mutual exclusion needs that locked tells      *)
(* whether somebody may claim the mutex, and that a linked thread is       *)
(* blocked in its lock call: a thread that goes on there is then the one   *)
(* that an unlock has chosen.  That thread_cond_wait gets its mutex back   *)
(* needs that nobody is blocked for another reason, and that no call waits *)
(* for a mutex its own thread holds.                                       *)
(***************************************************************************)
CallsOK ==
  /\ context \in [Threads -> {"user", "lock", "cond_wait"}]
  /\ \A t \in Threads : context[t] # "user" => mutex_arg[t] \in Mutexes

LinkedAreBlocked ==
  \A m \in Mutexes :
    /\ IsInjective(mutex_queue[m])
    /\ \A t \in Range(mutex_queue[m]) :
         context[t] = "lock" /\ mutex_arg[t] = m /\ state[t] = "BLOCKED"

Parked(t) ==
  \/ state[t] \in {"RUNNING", "READY"}
  \/ state[t] = "BLOCKED" /\ context[t] = "lock" /\ t \in Range(mutex_queue[mutex_arg[t]])
  \/ state[t] = "BLOCKED" /\ context[t] = "cond_wait"

NoneWaitsForItsOwn ==
  \A m \in Mutexes : \A t \in holds[m] : context[t] # "user" => mutex_arg[t] # m

LockedIsClaimed ==
  \A m \in Mutexes :
    /\ locked[m] = 0 => Claimants(m) = {}
    /\ locked[m] = 1 => Claimants(m) # {}
    /\ mutex_queue[m] # <<>> => locked[m] = 1

MutexInv ==
  /\ MutexTypeOK
  /\ Runnable(Threads)
  /\ CallsOK
  /\ LinkedAreBlocked
  /\ \A t \in Threads : Parked(t)
  /\ NoneWaitsForItsOwn
  /\ MutualExclusion
  /\ LockedIsClaimed

\* The threads blocked in a condition.
CondWaiters == {t \in Threads : context[t] = "cond_wait" /\ state[t] = "BLOCKED"}

\* The queues of the conditions divide them up.
CondLinks ==
  /\ cond_queue \in [Conds -> Seq(Threads)]
  /\ \A c \in Conds : IsInjective(cond_queue[c]) /\ Range(cond_queue[c]) \subseteq CondWaiters
  /\ \A t \in CondWaiters : \E c \in Conds : t \in Range(cond_queue[c])
  /\ \A c, d \in Conds : \A t \in Range(cond_queue[c]) : t \in Range(cond_queue[d]) => c = d

CondInv == MutexInv /\ CondLinks

\* What the steps use of the invariant.
LEMMA MutexFacts ==
  ASSUME MutexInv
  PROVE  /\ SchedTypeOK /\ CpuOK /\ current_thread \in Threads
         /\ Range(ready_queue) \subseteq Threads
         /\ \A m \in Mutexes : /\ mutex_queue[m] \in Seq(Threads)
                               /\ Range(mutex_queue[m]) \subseteq Threads
                               /\ current_thread \notin Range(mutex_queue[m])
                               /\ Range(ready_queue) \cap Range(mutex_queue[m]) = {}
                               /\ Claimants(m) \subseteq Threads
<1>1. /\ SchedTypeOK /\ Runnable(Threads) /\ LinkedAreBlocked
      /\ mutex_queue \in [Mutexes -> Seq(Threads)] /\ holds \in [Mutexes -> SUBSET Threads]
  BY Zenon DEF MutexInv, MutexTypeOK
<1>2. CpuOK /\ current_thread \in Threads
  BY <1>1, Zenon DEF CpuOK, Runnable
<1>3. Range(ready_queue) \subseteq Threads
  BY <1>1, Zenon DEF Runnable
<1>4. ASSUME NEW m \in Mutexes
      PROVE  /\ mutex_queue[m] \in Seq(Threads) /\ Range(mutex_queue[m]) \subseteq Threads
             /\ current_thread \notin Range(mutex_queue[m])
             /\ Range(ready_queue) \cap Range(mutex_queue[m]) = {}
             /\ Claimants(m) \subseteq Threads
  <2>1. mutex_queue[m] \in Seq(Threads)
    BY <1>1, Zenon
  <2>2. Range(mutex_queue[m]) \subseteq Threads
    BY <2>1, RangeOfSeq, Zenon
  <2>3. /\ current_thread \notin Range(mutex_queue[m])
        /\ Range(ready_queue) \cap Range(mutex_queue[m]) = {}
    BY <1>1, <2>2, Zenon DEF Runnable, LinkedAreBlocked
  <2>4. Claimants(m) \subseteq Threads
    BY <1>1, Zenon DEF Claimants
  <2> QED BY <2>1, <2>2, <2>3, <2>4, Zenon
<1> QED BY <1>1, <1>2, <1>3, <1>4, Zenon

\* When the claims stand as they did and the queues too, so do the promises.
LEMMA SameClaims ==
  ASSUME MutualExclusion, LockedIsClaimed, locked' = locked, mutex_queue' = mutex_queue,
         \A m \in Mutexes : Claimants(m)' = Claimants(m)
  PROVE  MutualExclusion' /\ LockedIsClaimed'
BY DEF MutualExclusion, LockedIsClaimed

\* Steps that leave the threads and their calls where they were.
LEMMA SameThreads ==
  ASSUME MutexInv, MutexTypeOK',
         UNCHANGED <<current_thread, state, ready_queue, context, mutex_arg>>
  PROVE  /\ Runnable(Threads)' /\ CallsOK' /\ CondWaiters' = CondWaiters
         /\ mutex_queue' = mutex_queue => LinkedAreBlocked' /\ \A t \in Threads : Parked(t)'
<1>1. Runnable(Threads) /\ CallsOK /\ LinkedAreBlocked /\ \A t \in Threads : Parked(t)
  BY Zenon DEF MutexInv
<1>2. Runnable(Threads)' /\ CallsOK' /\ CondWaiters' = CondWaiters
  BY <1>1, Zenon DEF Runnable, CallsOK, CondWaiters
<1>3. ASSUME mutex_queue' = mutex_queue
      PROVE  LinkedAreBlocked' /\ \A t \in Threads : Parked(t)'
  BY <1>1, <1>3, Zenon DEF LinkedAreBlocked, Parked
<1> QED BY <1>2, <1>3, Zenon

-----------------------------------------------------------------------------
\* A mutex nobody uses has no waiters.
LEMMA UnusedHasNoWaiters ==
  ASSUME MutexInv, NEW m \in Mutexes, \A t \in Threads : mutex_arg[t] # m
  PROVE  mutex_queue[m] = <<>>
<1> SUFFICES ASSUME mutex_queue[m] # <<>> PROVE FALSE
  OBVIOUS
<1>1. mutex_queue[m] \in Seq(Threads)
  BY MutexFacts, Zenon
<1>2. Head(mutex_queue[m]) \in Threads /\ Head(mutex_queue[m]) \in Range(mutex_queue[m])
  BY <1>1, HeadTailRange, Zenon
<1> QED BY <1>2, Zenon DEF MutexInv, LinkedAreBlocked

\* thread_mutex_init of a mutex nobody uses, and thread_mutex_destroy of one
\* without waiters.
LEMMA InitDestroyInv ==
  ASSUME MutexInv, NEW m \in Mutexes, mutex_init(m) \/ thread_mutex_destroy(m)
  PROVE  /\ MutexInv' /\ UNCHANGED <<mutex_queue, holds>> /\ CondWaiters' = CondWaiters
         /\ \A n \in Mutexes : Claimants(n)' = Claimants(n)
<1>1. /\ MutexTypeOK /\ NoneWaitsForItsOwn /\ MutualExclusion /\ LockedIsClaimed
  BY Zenon DEF MutexInv
<1>2. /\ mutex_queue[m] = <<>> /\ mutex_queue' = mutex_queue
      /\ \A n \in Mutexes \ {m} : locked'[n] = locked[n]
      /\ locked' \in [Mutexes -> {-1, 0, 1}]
      /\ locked'[m] = -1 \/ (locked'[m] = 0 /\ holds[m] = {} /\ \A t \in Threads : mutex_arg[t] # m)
      /\ UNCHANGED <<current_thread, state, ready_queue, priority, context, mutex_arg, holds>>
  <2>1. CASE mutex_init(m)
    <3>1. /\ holds[m] = {} /\ \A t \in Threads : mutex_arg[t] # m
          /\ locked' = [locked EXCEPT ![m] = 0] /\ mutex_queue' = [mutex_queue EXCEPT ![m] = <<>>]
          /\ UNCHANGED <<current_thread, state, ready_queue, priority, context, mutex_arg, holds>>
      BY <2>1, Zenon DEF mutex_init, sched_vars
    <3>2. mutex_queue[m] = <<>>
      BY <3>1, UnusedHasNoWaiters, Zenon
    <3>3. mutex_queue' = mutex_queue
      BY <1>1, <3>1, <3>2, Zenon DEF MutexTypeOK
    <3> QED BY <1>1, <3>1, <3>2, <3>3, Zenon DEF MutexTypeOK
  <2>2. CASE thread_mutex_destroy(m)
    <3>1. /\ mutex_queue[m] = <<>> /\ locked' = [locked EXCEPT ![m] = -1]
          /\ UNCHANGED <<current_thread, state, ready_queue, priority, context, mutex_queue,
                         mutex_arg, holds>>
      BY <2>2, Zenon DEF thread_mutex_destroy, sched_vars
    <3> QED BY <1>1, <3>1, Zenon DEF MutexTypeOK
  <2> QED BY <2>1, <2>2, Zenon
<1>3. MutexTypeOK'
  BY <1>1, <1>2, Zenon DEF MutexTypeOK, SchedTypeOK
<1>4. /\ Runnable(Threads)' /\ CallsOK' /\ CondWaiters' = CondWaiters
      /\ LinkedAreBlocked' /\ \A t \in Threads : Parked(t)'
  BY <1>2, <1>3, SameThreads, Zenon
<1>5. \A n \in Mutexes : Claimants(n)' = Claimants(n)
  BY <1>2, Zenon DEF Claimants
<1>6. locked'[m] = 0 => Claimants(m) = {}
  BY <1>2 DEF Claimants
<1>7. MutualExclusion' /\ LockedIsClaimed'
  BY <1>1, <1>2, <1>5, <1>6 DEF MutualExclusion, LockedIsClaimed
<1>8. NoneWaitsForItsOwn'
  BY <1>1, <1>2, Zenon DEF NoneWaitsForItsOwn
<1> QED BY <1>2, <1>3, <1>4, <1>5, <1>7, <1>8, Zenon DEF MutexInv

\* The running thread's call to thread_mutex_lock returns: with a free mutex
\* m, with the one an unlock has passed to it, or, in thread_cond_wait, with
\* none.  The call was made by the client or by thread_cond_wait.
CallReturns ==
  /\ context' \in [Threads -> {"user", "lock", "cond_wait"}]
  /\ mutex_arg' \in [Threads -> Mutexes \cup {NULL}]
  /\ context'[current_thread] = "user"
  /\ \A t \in Threads \ {current_thread} : context'[t] = context[t] /\ mutex_arg'[t] = mutex_arg[t]
  /\ UNCHANGED <<current_thread, state, ready_queue, priority, mutex_queue>>

LEMMA ReturnThreads ==
  ASSUME MutexInv, MutexTypeOK', CallReturns
  PROVE  /\ Runnable(Threads)' /\ CallsOK' /\ LinkedAreBlocked' /\ CondWaiters' = CondWaiters
         /\ \A t \in Threads : Parked(t)'
<1> DEFINE c == current_thread
<1>1. /\ Runnable(Threads) /\ CallsOK /\ LinkedAreBlocked /\ \A t \in Threads : Parked(t)
      /\ state[c] = "RUNNING"
  BY Zenon DEF MutexInv, Runnable
<1>2. /\ c \in Threads
      /\ \A n \in Mutexes : c \notin Range(mutex_queue[n]) /\ Range(mutex_queue[n]) \subseteq Threads
  BY MutexFacts, Zenon
<1>3. Runnable(Threads)' /\ CallsOK'
  BY <1>1, Zenon DEF Runnable, CallsOK, CallReturns
<1>4. LinkedAreBlocked'
  BY <1>1, <1>2 DEF LinkedAreBlocked, CallReturns
<1>5. ASSUME NEW t \in Threads PROVE Parked(t)'
  <2>1. CASE t = c
    BY <1>1, <2>1, Zenon DEF Parked, CallReturns
  <2>2. CASE t # c
    BY <1>1, <2>2, Zenon DEF Parked, CallReturns
  <2> QED BY <2>1, <2>2, Zenon
<1>6. CondWaiters' = CondWaiters
  BY <1>1, <1>2, Zenon DEF CondWaiters, CallReturns
<1> QED BY <1>3, <1>4, <1>5, <1>6, Zenon

\* It returns with a free mutex.
LEMMA GrantInv ==
  ASSUME MutexInv, NEW m \in Mutexes, CallReturns, context[current_thread] # "lock",
         locked[m] = 0, locked' = [locked EXCEPT ![m] = 1],
         holds' = [holds EXCEPT ![m] = @ \cup {current_thread}]
  PROVE  /\ MutexInv' /\ CondWaiters' = CondWaiters
         /\ Claimants(m) = {} /\ Claimants(m)' = {current_thread}
         /\ \A n \in Mutexes \ {m} : Claimants(n)' = Claimants(n)
<1> DEFINE c == current_thread
<1>1. /\ MutexTypeOK /\ NoneWaitsForItsOwn /\ MutualExclusion /\ LockedIsClaimed /\ c \in Threads
  BY MutexFacts, Zenon DEF MutexInv
<1>2. /\ locked'[m] = 1 /\ holds'[m] = holds[m] \cup {c}
      /\ \A n \in Mutexes \ {m} : locked'[n] = locked[n] /\ holds'[n] = holds[n]
      /\ locked' \in [Mutexes -> {-1, 0, 1}] /\ holds' \in [Mutexes -> SUBSET Threads]
  BY <1>1, Zenon DEF MutexTypeOK
<1>3. MutexTypeOK'
  BY <1>1, <1>2, Zenon DEF MutexTypeOK, SchedTypeOK, CallReturns
<1>4. /\ Runnable(Threads)' /\ CallsOK' /\ LinkedAreBlocked' /\ CondWaiters' = CondWaiters
      /\ \A t \in Threads : Parked(t)'
  BY <1>3, ReturnThreads, Zenon
<1>5. Claimants(m) = {}
  BY <1>1, Zenon DEF LockedIsClaimed
<1>6. /\ Claimants(m)' = Claimants(m) \cup {c}
      /\ \A n \in Mutexes \ {m} : Claimants(n)' = Claimants(n)
  BY <1>2 DEF Claimants, CallReturns
<1>7. Claimants(m)' = {c}
  BY <1>5, <1>6, Zenon
<1>8. MutualExclusion'
  BY <1>1, <1>6, <1>7 DEF MutualExclusion
<1>9. LockedIsClaimed'
  <2>1. mutex_queue' = mutex_queue
    BY Zenon DEF CallReturns
  <2> QED BY <1>1, <1>2, <1>6, <1>7, <2>1 DEF LockedIsClaimed
<1>10. NoneWaitsForItsOwn'
  <2>1. /\ context'[c] = "user"
        /\ \A t \in Threads \ {c} : context'[t] = context[t] /\ mutex_arg'[t] = mutex_arg[t]
    BY Zenon DEF CallReturns
  <2>2. \A n \in Mutexes : \A t \in holds'[n] : t \in Threads /\ (t # c => t \in holds[n])
    BY <1>1, <1>2, Zenon DEF MutexTypeOK
  <2> QED BY <1>1, <2>1, <2>2, Zenon DEF NoneWaitsForItsOwn
<1> QED BY <1>3, <1>4, <1>5, <1>6, <1>7, <1>8, <1>9, <1>10, Zenon DEF MutexInv

\* thread_mutex_lock finds the mutex free, for the client or for a waiter of
\* a condition.
LEMMA LockFreeInv ==
  ASSUME MutexInv, NEW m \in Mutexes, lock_free(m)
  PROVE  /\ MutexInv' /\ CondWaiters' = CondWaiters /\ UNCHANGED mutex_queue
         /\ Claimants(m) = {} /\ Claimants(m)' = {current_thread}
         /\ \A n \in Mutexes \ {m} : Claimants(n)' = Claimants(n)
<1>1. /\ context[current_thread] = "user" /\ locked[m] = 0 /\ locked' = [locked EXCEPT ![m] = 1]
      /\ holds' = [holds EXCEPT ![m] = @ \cup {current_thread}]
      /\ UNCHANGED <<current_thread, state, ready_queue, priority, context, mutex_queue, mutex_arg>>
  BY DEF lock_free, sched_vars, RunsAt
<1>2. CallReturns
  BY <1>1 DEF CallReturns, MutexInv, MutexTypeOK, CallsOK
<1> QED BY <1>1, <1>2, GrantInv, Zenon

LEMMA RelockFreeInv ==
  ASSUME MutexInv, relock_free
  PROVE  \E m \in Mutexes :
           /\ MutexInv' /\ CondWaiters' = CondWaiters /\ UNCHANGED <<mutex_queue, cond_queue>>
           /\ m = mutex_arg[current_thread] /\ current_thread \in holds'[m]
           /\ Claimants(m) = {} /\ Claimants(m)' = {current_thread}
           /\ \A n \in Mutexes \ {m} : Claimants(n)' = Claimants(n)
<1> DEFINE c == current_thread
<1>1. /\ c \in Threads /\ CallsOK /\ mutex_arg \in [Threads -> Mutexes \cup {NULL}]
      /\ holds \in [Mutexes -> SUBSET Threads] /\ context[c] = "cond_wait"
  BY MutexFacts, Zenon DEF MutexInv, MutexTypeOK, relock_free, RunsAt
<1>2. PICK m \in Mutexes : m = mutex_arg[c]
  BY <1>1, Zenon DEF CallsOK
<1>3. /\ locked[m] = 0 /\ locked' = [locked EXCEPT ![m] = 1]
      /\ holds' = [holds EXCEPT ![m] = @ \cup {c}]
      /\ context' = [context EXCEPT ![c] = "user"] /\ mutex_arg' = [mutex_arg EXCEPT ![c] = NULL]
      /\ UNCHANGED <<current_thread, state, ready_queue, priority, mutex_queue, cond_queue>>
  BY <1>2, Zenon DEF relock_free
<1>4. CallReturns
  BY <1>1, <1>3, Zenon DEF CallReturns, CallsOK
<1>5. c \in holds'[m]
  BY <1>1, <1>3, Zenon
<1>6. /\ MutexInv' /\ CondWaiters' = CondWaiters
      /\ Claimants(m) = {} /\ Claimants(m)' = {c}
      /\ \A n \in Mutexes \ {m} : Claimants(n)' = Claimants(n)
  BY <1>1, <1>3, <1>4, GrantInv, Zenon
<1> QED BY <1>2, <1>3, <1>5, <1>6, Zenon

\* A call returns that has changed no claim: thread_mutex_lock after an
\* unlock has chosen its caller, and thread_cond_wait without the mutex.
LEMMA LockReturnInv ==
  ASSUME MutexInv, lock_return
  PROVE  /\ MutexInv' /\ CondWaiters' = CondWaiters /\ UNCHANGED mutex_queue
         /\ \A n \in Mutexes : Claimants(n)' = Claimants(n)
<1> DEFINE c == current_thread
           m == mutex_arg[c]
<1>1. /\ context[c] = "lock" /\ context' = [context EXCEPT ![c] = "user"]
      /\ holds' = [holds EXCEPT ![m] = @ \cup {c}] /\ mutex_arg' = [mutex_arg EXCEPT ![c] = NULL]
      /\ UNCHANGED <<current_thread, state, ready_queue, priority, locked, mutex_queue>>
  BY Zenon DEF lock_return, RunsAt
<1>2. /\ MutexTypeOK /\ CallsOK /\ NoneWaitsForItsOwn /\ MutualExclusion /\ LockedIsClaimed
  BY Zenon DEF MutexInv
<1>3. c \in Threads /\ \A n \in Mutexes : c \notin Range(mutex_queue[n])
  BY MutexFacts, Zenon
<1>4. m \in Mutexes
  BY <1>1, <1>2, <1>3, Zenon DEF CallsOK
<1>5. /\ context' \in [Threads -> {"user", "lock", "cond_wait"}] /\ context'[c] = "user"
      /\ mutex_arg' \in [Threads -> Mutexes \cup {NULL}] /\ mutex_arg'[c] = NULL
      /\ holds' \in [Mutexes -> SUBSET Threads] /\ holds'[m] = holds[m] \cup {c}
      /\ \A n \in Mutexes \ {m} : holds'[n] = holds[n]
      /\ \A t \in Threads \ {c} : context'[t] = context[t] /\ mutex_arg'[t] = mutex_arg[t]
  BY <1>1, <1>2, <1>3, <1>4, Zenon DEF MutexTypeOK, CallsOK
<1>6. CallReturns /\ MutexTypeOK'
  BY <1>1, <1>2, <1>5, Zenon DEF CallReturns, MutexTypeOK, SchedTypeOK
<1>7. /\ Runnable(Threads)' /\ CallsOK' /\ LinkedAreBlocked' /\ CondWaiters' = CondWaiters
      /\ \A t \in Threads : Parked(t)'
  BY <1>6, ReturnThreads, Zenon
<1>8. \A n \in Mutexes : Claimants(n)' = Claimants(n)
  <2>1. m = mutex_arg[c]
    OBVIOUS
  <2> HIDE DEF m, c
  <2> QED BY <1>1, <1>3, <1>4, <1>5, <2>1 DEF Claimants
<1>9. MutualExclusion' /\ LockedIsClaimed'
  BY <1>1, <1>2, <1>8, SameClaims, Zenon
<1>10. NoneWaitsForItsOwn'
  <2> HIDE DEF m
  <2>1. \A n \in Mutexes : \A t \in holds'[n] : t \in Threads /\ (t # c => t \in holds[n])
    BY <1>2, <1>4, <1>5, Zenon DEF MutexTypeOK
  <2> QED BY <1>2, <1>5, <2>1, Zenon DEF NoneWaitsForItsOwn
<1> QED BY <1>1, <1>6, <1>7, <1>8, <1>9, <1>10, Zenon DEF MutexInv

LEMMA RelockFailedInv ==
  ASSUME MutexInv, relock_failed
  PROVE  /\ MutexInv' /\ CondWaiters' = CondWaiters /\ UNCHANGED <<mutex_queue, cond_queue>>
         /\ \A n \in Mutexes : Claimants(n)' = Claimants(n)
<1> DEFINE c == current_thread
<1>1. /\ context[c] = "cond_wait" /\ context' = [context EXCEPT ![c] = "user"]
      /\ mutex_arg' = [mutex_arg EXCEPT ![c] = NULL]
      /\ UNCHANGED <<current_thread, state, ready_queue, priority, locked, holds, mutex_queue,
                     cond_queue>>
  BY Zenon DEF relock_failed, RunsAt
<1>2. /\ MutexTypeOK /\ CallsOK /\ NoneWaitsForItsOwn /\ MutualExclusion /\ LockedIsClaimed
      /\ c \in Threads
  BY MutexFacts, Zenon DEF MutexInv
<1>3. /\ context' \in [Threads -> {"user", "lock", "cond_wait"}] /\ context'[c] = "user"
      /\ mutex_arg' \in [Threads -> Mutexes \cup {NULL}]
      /\ \A t \in Threads \ {c} : context'[t] = context[t] /\ mutex_arg'[t] = mutex_arg[t]
  BY <1>1, <1>2, Zenon DEF MutexTypeOK, CallsOK
<1>4. CallReturns /\ MutexTypeOK'
  BY <1>1, <1>2, <1>3, Zenon DEF CallReturns, MutexTypeOK, SchedTypeOK
<1>5. /\ Runnable(Threads)' /\ CallsOK' /\ LinkedAreBlocked' /\ CondWaiters' = CondWaiters
      /\ \A t \in Threads : Parked(t)'
  BY <1>4, ReturnThreads, Zenon
<1>6. \A n \in Mutexes : Claimants(n)' = Claimants(n)
  BY <1>1, <1>2, <1>3, Zenon DEF Claimants
<1>7. MutualExclusion' /\ LockedIsClaimed'
  BY <1>1, <1>2, <1>6, SameClaims, Zenon
<1>8. NoneWaitsForItsOwn'
  BY <1>1, <1>2, <1>3 DEF NoneWaitsForItsOwn, MutexTypeOK
<1> QED BY <1>1, <1>4, <1>5, <1>6, <1>7, <1>8, Zenon DEF MutexInv

\* thread_mutex_lock parks its caller: the client's call, or the one that
\* thread_cond_wait makes.
LEMMA ParkInv ==
  ASSUME MutexInv, NEW m \in Mutexes, ParkOn(m), UNCHANGED <<locked, holds>>,
         context[current_thread] # "lock", current_thread \notin holds[m]
  PROVE  /\ MutexInv' /\ CondWaiters' = CondWaiters
         /\ \A n \in Mutexes : Claimants(n)' = Claimants(n)
<1> DEFINE c == current_thread
           next == Head(ready_queue)
<1>1. /\ locked[m] = 1 /\ ready_queue # <<>>
      /\ current_thread' = next /\ ready_queue' = Tail(ready_queue)
      /\ state' = [[state EXCEPT ![c] = "BLOCKED"] EXCEPT ![next] = "RUNNING"]
      /\ context' = [context EXCEPT ![c] = "lock"]
      /\ mutex_queue' = [mutex_queue EXCEPT ![m] = Append(@, c)]
      /\ mutex_arg' = [mutex_arg EXCEPT ![c] = m]
      /\ UNCHANGED priority
  BY Zenon DEF ParkOn, BlockAndSwitch, swap_thread
<1>2. /\ MutexTypeOK /\ Runnable(Threads) /\ CallsOK /\ LinkedAreBlocked
      /\ NoneWaitsForItsOwn /\ MutualExclusion /\ LockedIsClaimed
      /\ \A t \in Threads : Parked(t)
  BY Zenon DEF MutexInv
<1>3. /\ CpuOK /\ c \in Threads /\ Range(ready_queue) \subseteq Threads
      /\ \A n \in Mutexes : /\ mutex_queue[n] \in Seq(Threads)
                            /\ Range(mutex_queue[n]) \subseteq Threads
                            /\ c \notin Range(mutex_queue[n])
                            /\ Range(ready_queue) \cap Range(mutex_queue[n]) = {}
  BY MutexFacts, Zenon
<1>4. /\ next \in Threads /\ next \in Range(ready_queue) /\ ready_queue' \in Seq(Threads)
      /\ Range(ready_queue) = {next} \cup Range(ready_queue')
      /\ IsInjective(ready_queue') /\ next \notin Range(ready_queue')
  BY <1>1, <1>2, <1>3, HeadTailRange, Zenon DEF MutexTypeOK, SchedTypeOK, CpuOK
<1>5. /\ mutex_queue'[m] \in Seq(Threads) /\ IsInjective(mutex_queue'[m])
      /\ Range(mutex_queue'[m]) = Range(mutex_queue[m]) \cup {c}
      /\ \A n \in Mutexes \ {m} : mutex_queue'[n] = mutex_queue[n]
      /\ mutex_queue' \in [Mutexes -> Seq(Threads)]
  <2>1. mutex_queue \in [Mutexes -> Seq(Threads)] /\ IsInjective(mutex_queue[m])
    BY <1>2, Zenon DEF MutexTypeOK, LinkedAreBlocked
  <2>2. /\ Append(mutex_queue[m], c) \in Seq(Threads) /\ IsInjective(Append(mutex_queue[m], c))
        /\ Range(Append(mutex_queue[m], c)) = Range(mutex_queue[m]) \cup {c}
    BY <1>3, <2>1, AppendRange, Zenon
  <2> QED BY <1>1, <2>1, <2>2, Zenon
<1>6. c # next
  BY <1>3, <1>4, Zenon DEF CpuOK
<1>7. /\ state' \in [Threads -> States] /\ state'[c] = "BLOCKED" /\ state'[next] = "RUNNING"
      /\ \A t \in Threads \ {c, next} : state'[t] = state[t]
      /\ context' \in [Threads -> {"user", "lock", "cond_wait"}] /\ context'[c] = "lock"
      /\ mutex_arg' \in [Threads -> Mutexes \cup {NULL}] /\ mutex_arg'[c] = m
      /\ \A t \in Threads \ {c} : context'[t] = context[t] /\ mutex_arg'[t] = mutex_arg[t]
  <2>1. state \in [Threads -> States] /\ mutex_arg \in [Threads -> Mutexes \cup {NULL}]
    BY <1>2, Zenon DEF MutexTypeOK, SchedTypeOK
  <2>2. /\ state' \in [Threads -> States] /\ state'[c] = "BLOCKED" /\ state'[next] = "RUNNING"
        /\ \A t \in Threads \ {c, next} : state'[t] = state[t]
    BY <1>1, <1>3, <1>4, <1>6, <2>1, Zenon DEF States
  <2>3. /\ context' \in [Threads -> {"user", "lock", "cond_wait"}] /\ context'[c] = "lock"
        /\ mutex_arg' \in [Threads -> Mutexes \cup {NULL}] /\ mutex_arg'[c] = m
        /\ \A t \in Threads \ {c} : context'[t] = context[t] /\ mutex_arg'[t] = mutex_arg[t]
    BY <1>1, <1>2, <1>3, <2>1, Zenon DEF CallsOK
  <2> QED BY <2>2, <2>3, Zenon
<1>8. /\ current_thread' = next /\ UNCHANGED <<priority, locked, holds>>
      /\ context[c] # "lock" /\ locked[m] = 1 /\ c \notin holds[m]
  BY <1>1, Zenon
<1>9. \A t \in Threads : /\ state[t] = "RUNNING" <=> t = c
                         /\ state[t] = "READY" <=> t \in Range(ready_queue)
  BY <1>2, Zenon DEF Runnable
<1> HIDE DEF c, next
<1>10. MutexTypeOK'
  BY <1>2, <1>4, <1>5, <1>7, <1>8, Zenon DEF MutexTypeOK, SchedTypeOK
<1>11. Runnable(Threads)'
  BY <1>3, <1>4, <1>6, <1>7, <1>8, <1>9, Zenon DEF Runnable
<1>12. CallsOK'
  BY <1>2, <1>7, Zenon DEF CallsOK
<1>13. LinkedAreBlocked'
  <2>1. ASSUME NEW n \in Mutexes, NEW t \in Range(mutex_queue[n])
        PROVE  context'[t] = "lock" /\ mutex_arg'[t] = n /\ state'[t] = "BLOCKED"
    <3>1. t \in Threads \ {c, next}
      BY <1>3, <1>4, Zenon
    <3> QED BY <1>2, <1>7, <3>1 DEF LinkedAreBlocked
  <2> QED BY <1>2, <1>5, <1>7, <2>1 DEF LinkedAreBlocked
<1>14. ASSUME NEW n \in Mutexes PROVE Claimants(n)' = Claimants(n)
  <2>1. \A t \in Threads \ {c} : t \in Range(mutex_queue'[n]) <=> t \in Range(mutex_queue[n])
    BY <1>5, Zenon
  <2>2. c \in Range(mutex_queue'[n]) \/ mutex_arg'[c] # n
    BY <1>5, <1>7, Zenon
  <2> QED BY <1>7, <1>8, <2>1, <2>2, Zenon DEF Claimants
<1>15. MutualExclusion'
  BY <1>2, <1>14, Zenon DEF MutualExclusion
<1>16. LockedIsClaimed'
  BY <1>2, <1>5, <1>8, <1>14, Zenon DEF LockedIsClaimed
<1>17. ASSUME NEW t \in Threads PROVE Parked(t)'
  <2>1. CASE t = c
    BY <1>5, <1>7, <2>1, Zenon DEF Parked
  <2>2. CASE t = next
    BY <1>7, <2>2, Zenon DEF Parked
  <2>3. CASE t # c /\ t # next
    <3>1. /\ state'[t] = state[t] /\ context'[t] = context[t] /\ mutex_arg'[t] = mutex_arg[t]
          /\ context[t] = "lock" => mutex_arg[t] \in Mutexes
          /\ \A n \in Mutexes : Range(mutex_queue[n]) \subseteq Range(mutex_queue'[n])
      BY <1>2, <1>5, <1>7, <2>3, Zenon DEF CallsOK
    <3> QED BY <1>2, <3>1, Zenon DEF Parked
  <2> QED BY <2>1, <2>2, <2>3, Zenon
<1>18. NoneWaitsForItsOwn'
  BY <1>2, <1>7, <1>8 DEF NoneWaitsForItsOwn, MutexTypeOK
<1>19. CondWaiters' = CondWaiters
  BY <1>4, <1>7, <1>8, <1>9, Zenon DEF CondWaiters
<1> QED BY <1>10, <1>11, <1>12, <1>13, <1>14, <1>15, <1>16, <1>17, <1>18, <1>19, Zenon DEF MutexInv

-----------------------------------------------------------------------------
(***************************************************************************)
(* The running thread gives up mutex m, in thread_mutex_unlock or when it  *)
(* starts to wait for a condition.                                         *)
(***************************************************************************)
Releases(m) ==
  /\ context[current_thread] = "user" /\ current_thread \in holds[m]
  /\ holds' = [holds EXCEPT ![m] = @ \ {current_thread}]
  /\ context' \in [Threads -> {"user", "lock", "cond_wait"}]
  /\ mutex_arg' \in [Threads -> Mutexes \cup {NULL}]
  /\ context'[current_thread] # "lock"
  /\ context'[current_thread] # "user" => mutex_arg'[current_thread] = m
  /\ \A t \in Threads \ {current_thread} : context'[t] = context[t] /\ mutex_arg'[t] = mutex_arg[t]
  /\ locked' \in [Mutexes -> {-1, 0, 1}]
  /\ \A n \in Mutexes \ {m} : locked'[n] = locked[n]
  /\ \/ mutex_queue[m] = <<>> /\ mutex_queue' = mutex_queue /\ locked'[m] \in {-1, 0}
     \/ /\ mutex_queue[m] # <<>> /\ mutex_queue' = [mutex_queue EXCEPT ![m] = Tail(@)]
        /\ locked'[m] = 1

\* The thread that gets it.
Woken(m) == IF mutex_queue[m] = <<>> THEN {} ELSE {Head(mutex_queue[m])}

\* What becomes of the threads other than the one that releases.
WokenRun(m) ==
  \A t \in Threads \ {current_thread} :
    state'[t] = IF t \in Woken(m) THEN "READY"
                ELSE IF t = current_thread' THEN "RUNNING" ELSE state[t]

LEMMA ReleaseQueues ==
  ASSUME MutexInv, NEW m \in Mutexes, Releases(m)
  PROVE  /\ mutex_queue' \in [Mutexes -> Seq(Threads)]
         /\ \A n \in Mutexes : IsInjective(mutex_queue'[n])
         /\ Woken(m) \subseteq Range(mutex_queue[m])
         /\ \A n \in Mutexes : Range(mutex_queue'[n]) = Range(mutex_queue[n]) \ Woken(m)
         /\ \A w \in Woken(m) : /\ w \in Threads /\ w # current_thread /\ w \notin Range(ready_queue)
                                /\ context[w] = "lock" /\ mutex_arg[w] = m /\ state[w] = "BLOCKED"
<1>1. /\ mutex_queue \in [Mutexes -> Seq(Threads)] /\ LinkedAreBlocked
      /\ \A n \in Mutexes : IsInjective(mutex_queue[n])
  BY Zenon DEF MutexInv, MutexTypeOK, LinkedAreBlocked
<1>2. \A n \in Mutexes : /\ mutex_queue[n] \in Seq(Threads) /\ Range(mutex_queue[n]) \subseteq Threads
                         /\ current_thread \notin Range(mutex_queue[n])
                         /\ Range(ready_queue) \cap Range(mutex_queue[n]) = {}
  BY MutexFacts, Zenon
<1>3. CASE mutex_queue[m] = <<>>
  <2>1. mutex_queue' = mutex_queue /\ Woken(m) = {}
    BY <1>3, Zenon DEF Releases, Woken
  <2> QED BY <1>1, <2>1, Zenon
<1>4. CASE mutex_queue[m] # <<>>
  <2> DEFINE w == Head(mutex_queue[m])
             r == Tail(mutex_queue[m])
  <2>1. mutex_queue' = [mutex_queue EXCEPT ![m] = r] /\ Woken(m) = {w}
    BY <1>4, Zenon DEF Releases, Woken
  <2>2. /\ w \in Threads /\ w \in Range(mutex_queue[m]) /\ r \in Seq(Threads)
        /\ Range(mutex_queue[m]) = {w} \cup Range(r) /\ IsInjective(r) /\ w \notin Range(r)
    BY <1>1, <1>2, <1>4, HeadTailRange, Zenon
  <2> HIDE DEF w, r
  <2>3. /\ mutex_queue' \in [Mutexes -> Seq(Threads)] /\ mutex_queue'[m] = r
        /\ \A n \in Mutexes \ {m} : mutex_queue'[n] = mutex_queue[n]
    BY <1>1, <2>1, <2>2, Zenon
  <2>4. /\ w # current_thread /\ w \notin Range(ready_queue)
        /\ context[w] = "lock" /\ mutex_arg[w] = m /\ state[w] = "BLOCKED"
        /\ \A n \in Mutexes \ {m} : w \notin Range(mutex_queue[n])
    BY <1>1, <1>2, <2>2 DEF LinkedAreBlocked
  <2>5. \A n \in Mutexes : IsInjective(mutex_queue'[n])
    BY <1>1, <2>2, <2>3, Zenon
  <2>6. \A n \in Mutexes : Range(mutex_queue'[n]) = Range(mutex_queue[n]) \ {w}
    BY <2>2, <2>3, <2>4
  <2> QED BY <2>1, <2>2, <2>3, <2>4, <2>5, <2>6, Zenon
<1> QED BY <1>3, <1>4, Zenon

\* What it does to the claims: the thread was the only claimant, and the
\* first waiter is the next one.
ReleaseClaims(m) ==
  /\ Claimants(m) = {current_thread}
  /\ \A n \in Mutexes \ {m} : Claimants(n)' = Claimants(n)
  /\ \/ mutex_queue[m] = <<>> /\ mutex_queue' = mutex_queue /\ Claimants(m)' = {}
     \/ /\ mutex_queue[m] # <<>>
        /\ mutex_queue' = [mutex_queue EXCEPT ![m] = Tail(@)]
        /\ Claimants(m)' = {Head(mutex_queue[m])}

LEMMA ReleaseKeepsClaims ==
  ASSUME MutexInv, NEW m \in Mutexes, Releases(m)
  PROVE  /\ ReleaseClaims(m) /\ MutualExclusion' /\ LockedIsClaimed' /\ NoneWaitsForItsOwn'
         /\ holds' \in [Mutexes -> SUBSET Threads]
<1> DEFINE c == current_thread
<1>1. /\ c \in Threads /\ holds \in [Mutexes -> SUBSET Threads] /\ NoneWaitsForItsOwn
      /\ MutualExclusion /\ LockedIsClaimed
  BY MutexFacts, Zenon DEF MutexInv, MutexTypeOK
<1>2. /\ context[c] = "user" /\ c \in holds[m] /\ context'[c] # "lock"
      /\ context'[c] # "user" => mutex_arg'[c] = m
      /\ \A t \in Threads \ {c} : context'[t] = context[t] /\ mutex_arg'[t] = mutex_arg[t]
  BY Zenon DEF Releases
<1>3. /\ holds' \in [Mutexes -> SUBSET Threads] /\ holds'[m] = holds[m] \ {c}
      /\ \A n \in Mutexes \ {m} : holds'[n] = holds[n]
  BY <1>1, Zenon DEF Releases
<1>4. /\ Woken(m) \subseteq Range(mutex_queue[m])
      /\ \A n \in Mutexes : Range(mutex_queue'[n]) = Range(mutex_queue[n]) \ Woken(m)
      /\ \A w \in Woken(m) : w \in Threads /\ w # c /\ context[w] = "lock" /\ mutex_arg[w] = m
  BY ReleaseQueues, Zenon
<1>5. Claimants(m) = {c}
  BY <1>1, <1>2, Zenon DEF Claimants, MutualExclusion
<1>6. Claimants(m)' = Woken(m)
  <2>1. ASSUME NEW t PROVE t \in Claimants(m)' <=> t \in Woken(m)
    <3>1. t \in Claimants(m) <=> t = c
      BY <1>5, Zenon
    <3> QED BY <1>2, <1>3, <1>4, <3>1, Zenon DEF Claimants
  <2> QED BY <2>1, Zenon
<1>7. ASSUME NEW n \in Mutexes \ {m} PROVE Claimants(n)' = Claimants(n)
  <2>1. \A t \in Threads \ {c} :
          context[t] = "lock" /\ mutex_arg[t] = n =>
            (t \in Range(mutex_queue'[n]) <=> t \in Range(mutex_queue[n]))
    BY <1>4, Zenon
  <2> QED BY <1>2, <1>3, <2>1, Zenon DEF Claimants
<1>8. ReleaseClaims(m)
  BY <1>5, <1>6, <1>7, Zenon DEF ReleaseClaims, Releases, Woken
<1>9. \A n \in Mutexes \ {m} : locked'[n] = locked[n] /\ mutex_queue'[n] = mutex_queue[n]
  BY Zenon DEF Releases, MutexInv, MutexTypeOK
<1>10. \/ Woken(m) = {} /\ mutex_queue'[m] = <<>> /\ locked'[m] # 1
       \/ (\E w : Woken(m) = {w}) /\ locked'[m] = 1
  <2>1. CASE mutex_queue[m] = <<>>
    <3>1. mutex_queue' = mutex_queue /\ locked'[m] \in {-1, 0}
      BY <2>1, Zenon DEF Releases
    <3> QED BY <2>1, <3>1 DEF Woken
  <2>2. CASE mutex_queue[m] # <<>>
    <3>1. locked'[m] = 1 /\ Woken(m) = {Head(mutex_queue[m])}
      BY <2>2, Zenon DEF Releases, Woken
    <3> QED BY <3>1, Zenon
  <2> QED BY <2>1, <2>2, Zenon
<1>11. MutualExclusion'
  <2>1. \A t, u \in Woken(m) : t = u
    BY <1>10, Zenon
  <2> QED BY <1>1, <1>6, <1>7, <2>1, Zenon DEF MutualExclusion
<1>12. LockedIsClaimed'
  <2>1. /\ locked'[m] = 0 => Woken(m) = {} 
        /\ locked'[m] = 1 => Woken(m) # {}
        /\ mutex_queue'[m] # <<>> => locked'[m] = 1
    BY <1>10
  <2> QED BY <1>1, <1>6, <1>7, <1>9, <2>1, Zenon DEF LockedIsClaimed
<1>13. NoneWaitsForItsOwn'
  <2>1. ASSUME NEW n \in Mutexes, NEW t \in holds'[n] PROVE context'[t] # "user" => mutex_arg'[t] # n
    <3>1. t \in holds[n] /\ t \in Threads /\ (t = c => n # m)
      BY <1>1, <1>3, Zenon
    <3> QED BY <1>1, <1>2, <3>1, Zenon DEF NoneWaitsForItsOwn
  <2> QED BY <2>1, Zenon DEF NoneWaitsForItsOwn
<1> QED BY <1>3, <1>8, <1>11, <1>12, <1>13, Zenon

\* And to the threads, if the one that releases is itself where it should be.
LEMMA ReleaseThreads ==
  ASSUME MutexInv, NEW m \in Mutexes, Releases(m), WokenRun(m), SchedTypeOK', Runnable(Threads)',
         \/ state'[current_thread] = "RUNNING"
         \/ state'[current_thread] = "BLOCKED" /\ context'[current_thread] = "cond_wait",
         current_thread' \in {current_thread} \cup Range(ready_queue)
  PROVE  /\ MutexInv' /\ ReleaseClaims(m)
         /\ \A t \in Threads \ {current_thread} : t \in CondWaiters' <=> t \in CondWaiters
<1> DEFINE c == current_thread
<1>1. /\ CallsOK /\ LinkedAreBlocked /\ \A t \in Threads : Parked(t)
  BY Zenon DEF MutexInv
<1>2. /\ context' \in [Threads -> {"user", "lock", "cond_wait"}]
      /\ mutex_arg' \in [Threads -> Mutexes \cup {NULL}]
      /\ context'[c] # "user" => mutex_arg'[c] = m
      /\ \A t \in Threads \ {c} : context'[t] = context[t] /\ mutex_arg'[t] = mutex_arg[t]
      /\ locked' \in [Mutexes -> {-1, 0, 1}]
  BY Zenon DEF Releases
<1>3. /\ ReleaseClaims(m) /\ MutualExclusion' /\ LockedIsClaimed' /\ NoneWaitsForItsOwn'
      /\ holds' \in [Mutexes -> SUBSET Threads]
  BY ReleaseKeepsClaims, Zenon
<1>4. /\ mutex_queue' \in [Mutexes -> Seq(Threads)]
      /\ \A n \in Mutexes : IsInjective(mutex_queue'[n])
      /\ \A n \in Mutexes : Range(mutex_queue'[n]) = Range(mutex_queue[n]) \ Woken(m)
      /\ \A w \in Woken(m) : context[w] = "lock"
  BY ReleaseQueues, Zenon
<1>5. /\ \A n \in Mutexes : Range(mutex_queue[n]) \subseteq Threads /\ c \notin Range(mutex_queue[n])
      /\ c \in Threads
      /\ \A t \in Threads : state[t] = "BLOCKED" => t \notin {c} \cup Range(ready_queue)
  BY MutexFacts, Zenon DEF MutexInv, Runnable
<1>6. \A t \in Threads \ {c} : 
        state'[t] = IF t \in Woken(m) THEN "READY"
                    ELSE IF t = current_thread' THEN "RUNNING" ELSE state[t]
  BY Zenon DEF WokenRun
<1>7. MutexTypeOK'
  BY <1>2, <1>3, <1>4, Zenon DEF MutexTypeOK
<1>8. CallsOK'
  BY <1>1, <1>2, Zenon DEF CallsOK
<1>9. \A t \in Threads \ {c} : state[t] = "BLOCKED" /\ t \notin Woken(m) => state'[t] = "BLOCKED"
  BY <1>5, <1>6, Zenon
<1>10. LinkedAreBlocked'
  <2>1. ASSUME NEW n \in Mutexes, NEW t \in Range(mutex_queue'[n])
        PROVE  context'[t] = "lock" /\ mutex_arg'[t] = n /\ state'[t] = "BLOCKED"
    <3>1. t \in Range(mutex_queue[n]) /\ t \in Threads \ {c} /\ t \notin Woken(m)
      BY <1>4, <1>5, Zenon
    <3>2. context[t] = "lock" /\ mutex_arg[t] = n /\ state[t] = "BLOCKED"
      BY <1>1, <3>1, Zenon DEF LinkedAreBlocked
    <3> QED BY <1>2, <1>9, <3>1, <3>2, Zenon
  <2> QED BY <1>4, <2>1, Zenon DEF LinkedAreBlocked
<1>11. ASSUME NEW t \in Threads PROVE Parked(t)'
  <2>1. CASE t = c
    BY <2>1, Zenon DEF Parked
  <2>2. CASE t \in Threads \ {c} /\ (t \in Woken(m) \/ t = current_thread')
    BY <1>6, <2>2, Zenon DEF Parked
  <2>3. CASE t \in Threads \ {c} /\ t \notin Woken(m) /\ t # current_thread'
    <3>1. state'[t] = state[t] /\ context'[t] = context[t] /\ mutex_arg'[t] = mutex_arg[t]
      BY <1>2, <1>6, <2>3, Zenon
    <3>2. context[t] = "lock" => mutex_arg[t] \in Mutexes
      BY <1>1, Zenon DEF CallsOK
    <3>3. context[t] = "lock" /\ t \in Range(mutex_queue[mutex_arg[t]]) => t \in Range(mutex_queue'[mutex_arg[t]])
      BY <1>4, <2>3, <3>2, Zenon
    <3> QED BY <1>1, <3>1, <3>3, Zenon DEF Parked
  <2> QED BY <2>1, <2>2, <2>3, Zenon
<1>12. ASSUME NEW t \in Threads \ {c} PROVE t \in CondWaiters' <=> t \in CondWaiters
  <2>1. context'[t] = context[t]
    BY <1>2, Zenon
  <2>2. context[t] = "cond_wait" => t \notin Woken(m)
    BY <1>4, Zenon
  <2>3. state'[t] = "BLOCKED" <=> state[t] = "BLOCKED" /\ t \notin Woken(m)
    BY <1>6, <1>9, Zenon
  <2> QED BY <2>1, <2>2, <2>3, Zenon DEF CondWaiters
<1> QED BY <1>3, <1>7, <1>8, <1>10, <1>11, <1>12, Zenon DEF MutexInv

\* thread_mutex_unlock: the mutex becomes free, or its first waiter READY.
LEMMA UnlockInv ==
  ASSUME MutexInv, NEW m \in Mutexes, thread_mutex_unlock(m)
  PROVE  MutexInv' /\ ReleaseClaims(m) /\ CondWaiters' = CondWaiters
<1> DEFINE c == current_thread
           w == Head(mutex_queue[m])
<1>1. /\ c \in holds[m] /\ context[c] = "user"
      /\ holds' = [holds EXCEPT ![m] = @ \ {c}]
      /\ UNCHANGED <<current_thread, priority, context, mutex_arg>>
  BY Zenon DEF thread_mutex_unlock, RunsAt
<1>2. /\ MutexTypeOK /\ SchedTypeOK /\ Runnable(Threads) /\ CallsOK /\ LockedIsClaimed
      /\ c \in Threads /\ state[c] = "RUNNING"
  BY MutexFacts, Zenon DEF MutexInv, Runnable
<1>3. /\ locked \in [Mutexes -> {-1, 0, 1}] /\ mutex_queue \in [Mutexes -> Seq(Threads)]
      /\ state \in [Threads -> States] /\ ready_queue \in Seq(Threads) /\ IsInjective(ready_queue)
      /\ mutex_queue[m] \in Seq(Threads)
  BY <1>2, Zenon DEF MutexTypeOK, SchedTypeOK, Runnable
<1>4. CASE mutex_queue[m] = <<>>
  <2>1. /\ UNCHANGED <<mutex_queue, state, ready_queue>>
        /\ \A n \in Mutexes \ {m} : locked'[n] = locked[n]
        /\ locked'[m] \in {-1, 0} /\ locked' \in [Mutexes -> {-1, 0, 1}]
    <3>1. CASE locked[m] = 1
      <4>1. /\ locked' = [locked EXCEPT ![m] = 0] /\ UNCHANGED <<state, ready_queue>>
            /\ mutex_queue' = [mutex_queue EXCEPT ![m] = <<>>]
        BY <1>4, <3>1, Zenon DEF thread_mutex_unlock, PassOn
      <4>2. mutex_queue' = mutex_queue
        BY <1>3, <1>4, <4>1, Zenon
      <4> QED BY <1>3, <4>1, <4>2, Zenon
    <3>2. CASE locked[m] # 1
      <4>1. UNCHANGED <<locked, mutex_queue, state, ready_queue>>
        BY <3>2, Zenon DEF thread_mutex_unlock
      <4> QED BY <1>3, <3>2, <4>1, Zenon
    <3> QED BY <3>1, <3>2, Zenon
  <2>2. Releases(m)
    BY <1>1, <1>2, <1>4, <2>1, Zenon DEF Releases, CallsOK, MutexTypeOK
  <2>3. WokenRun(m)
    BY <1>1, <1>4, <2>1, Zenon DEF WokenRun, Woken
  <2>4. SchedTypeOK' /\ Runnable(Threads)'
    BY <1>1, <1>2, <2>1, Zenon DEF SchedTypeOK, Runnable
  <2>5. /\ MutexInv' /\ ReleaseClaims(m)
        /\ \A t \in Threads \ {c} : t \in CondWaiters' <=> t \in CondWaiters
    BY <1>1, <1>2, <2>1, <2>2, <2>3, <2>4, ReleaseThreads, Zenon
  <2> QED BY <1>1, <1>2, <2>1, <2>5, Zenon DEF CondWaiters
<1>5. CASE mutex_queue[m] # <<>>
  <2>1. locked[m] = 1
    BY <1>2, <1>5, Zenon DEF LockedIsClaimed
  <2>2. /\ locked' = [locked EXCEPT ![m] = locked[m]]
        /\ mutex_queue' = [mutex_queue EXCEPT ![m] = Tail(@)]
        /\ state' = [state EXCEPT ![w] = "READY"]
        /\ ready_queue' = thread_scheduler_enqueue(ready_queue, w, priority)
    BY <1>5, <2>1, Zenon DEF thread_mutex_unlock, PassOn
  <2>3. Releases(m)
    <3>1. locked' = locked
      BY <1>3, <2>2, Zenon
    <3> QED BY <1>1, <1>2, <1>3, <1>5, <2>1, <2>2, <3>1, Zenon DEF Releases, CallsOK, MutexTypeOK
  <2>4. Woken(m) = {w}
    BY <1>5, Zenon DEF Woken
  <2>5. w \in Threads /\ w # c /\ w \notin Range(ready_queue)
    BY <2>3, <2>4, ReleaseQueues, Zenon
  <2> HIDE DEF w
  <2>6. /\ state' \in [Threads -> States] /\ state'[w] = "READY"
        /\ \A t \in Threads \ {w} : state'[t] = state[t]
    BY <1>3, <2>2, <2>5, Zenon DEF States
  <2>7. WokenRun(m)
    BY <1>1, <2>4, <2>6 DEF WokenRun
  <2>8. /\ ready_queue' \in Seq(Threads) /\ Range(ready_queue') = Range(ready_queue) \cup {w}
        /\ IsInjective(ready_queue')
    BY <1>3, <2>2, <2>5, EnqueueRange, Zenon
  <2>9. SchedTypeOK'
    BY <1>1, <1>2, <2>6, <2>8, Zenon DEF SchedTypeOK
  <2>10. Runnable(Threads)'
    <3>1. /\ current_thread' = c /\ Range(ready_queue) \subseteq Threads
          /\ \A t \in Threads : /\ state[t] = "RUNNING" <=> t = c
                                /\ state[t] = "READY" <=> t \in Range(ready_queue)
      BY <1>1, <1>2, Zenon DEF Runnable
    <3>2. \A t \in Threads : state'[t] = "RUNNING" <=> t = c
      BY <2>5, <2>6, <3>1, Zenon
    <3>3. \A t \in Threads : state'[t] = "READY" <=> t \in Range(ready_queue')
      BY <2>6, <2>8, <3>1, Zenon
    <3> QED BY <1>2, <2>5, <2>8, <3>1, <3>2, <3>3, Zenon DEF Runnable
  <2>11. /\ MutexInv' /\ ReleaseClaims(m)
         /\ \A t \in Threads \ {c} : t \in CondWaiters' <=> t \in CondWaiters
    BY <1>1, <1>2, <2>3, <2>5, <2>6, <2>7, <2>9, <2>10, ReleaseThreads, Zenon
  <2> QED BY <1>1, <1>2, <2>5, <2>6, <2>11, Zenon DEF CondWaiters
<1> QED BY <1>4, <1>5, Zenon

\* thread_cond_wait releases the mutex and blocks its caller.
LEMMA WaitBlockInv ==
  ASSUME MutexInv, NEW cv \in Conds, NEW m \in Mutexes, wait_block(cv, m)
  PROVE  MutexInv' /\ ReleaseClaims(m) /\ CondWaiters' = CondWaiters \cup {current_thread}
<1> DEFINE c == current_thread
           w == Head(mutex_queue[m])
           next == Head(ready_queue)
           rest == Tail(ready_queue)
<1>1. /\ context[c] = "user" /\ c \in holds[m] /\ ready_queue # <<>> /\ current_thread' = next
      /\ mutex_arg' = [mutex_arg EXCEPT ![c] = m] /\ holds' = [holds EXCEPT ![m] = @ \ {c}]
      /\ context' = [context EXCEPT ![c] = "cond_wait"]
      /\ UNCHANGED priority
  BY Zenon DEF wait_block, RunsAt, swap_thread
<1>2. /\ MutexTypeOK /\ SchedTypeOK /\ CallsOK /\ LockedIsClaimed /\ CpuOK
      /\ c \in Threads /\ state[c] = "RUNNING"
      /\ \A t \in Threads : /\ state[t] = "RUNNING" <=> t = c
                            /\ state[t] = "READY" <=> t \in Range(ready_queue)
  BY MutexFacts, Zenon DEF MutexInv, Runnable
<1>3. /\ locked \in [Mutexes -> {-1, 0, 1}] /\ mutex_queue \in [Mutexes -> Seq(Threads)]
      /\ state \in [Threads -> States] /\ ready_queue \in Seq(Threads) /\ IsInjective(ready_queue)
      /\ priority \in [Threads -> Priorities] /\ mutex_arg \in [Threads -> Mutexes \cup {NULL}]
  BY <1>2, Zenon DEF MutexTypeOK, SchedTypeOK, CpuOK
<1>4. /\ next \in Threads /\ next \in Range(ready_queue) /\ rest \in Seq(Threads)
      /\ Range(ready_queue) = {next} \cup Range(rest)
      /\ IsInjective(rest) /\ next \notin Range(rest)
  BY <1>1, <1>3, HeadTailRange, Zenon
<1>5. c # next /\ c \notin Range(rest) /\ Range(rest) \subseteq Threads
  BY <1>2, <1>4, RangeOfSeq, Zenon DEF CpuOK
<1>6. /\ context' \in [Threads -> {"user", "lock", "cond_wait"}] /\ context'[c] = "cond_wait"
      /\ mutex_arg' \in [Threads -> Mutexes \cup {NULL}] /\ mutex_arg'[c] = m
      /\ \A t \in Threads \ {c} : context'[t] = context[t] /\ mutex_arg'[t] = mutex_arg[t]
  BY <1>1, <1>2, <1>3, Zenon DEF CallsOK
<1>7. /\ Releases(m) /\ state' \in [Threads -> States] /\ WokenRun(m) /\ state'[c] = "BLOCKED"
      /\ ready_queue' \in Seq(Threads) /\ IsInjective(ready_queue')
      /\ Range(ready_queue') = Range(rest) \cup Woken(m)
  <2>1. CASE mutex_queue[m] = <<>>
    <3>1. /\ locked' = [locked EXCEPT ![m] = 0] /\ mutex_queue' = [mutex_queue EXCEPT ![m] = <<>>]
          /\ ready_queue' = rest
          /\ state' = [[state EXCEPT ![c] = "BLOCKED"] EXCEPT ![next] = "RUNNING"]
      BY <2>1, Zenon DEF wait_block, PassOn, swap_thread
    <3>2. mutex_queue' = mutex_queue /\ Woken(m) = {}
      BY <1>3, <2>1, <3>1, Zenon DEF Woken
    <3>3. /\ locked' \in [Mutexes -> {-1, 0, 1}] /\ locked'[m] = 0
          /\ \A n \in Mutexes \ {m} : locked'[n] = locked[n]
      BY <1>3, <3>1, Zenon
    <3> HIDE DEF next, rest
    <3>4. /\ state' \in [Threads -> States] /\ state'[c] = "BLOCKED" /\ state'[next] = "RUNNING"
          /\ \A t \in Threads \ {c, next} : state'[t] = state[t]
      BY <1>2, <1>3, <1>4, <1>5, <3>1, Zenon DEF States
    <3>5. Releases(m)
      BY <1>1, <1>6, <2>1, <3>2, <3>3, Zenon DEF Releases
    <3>6. WokenRun(m)
      BY <1>1, <3>2, <3>4, Zenon DEF WokenRun
    <3> QED BY <1>4, <3>1, <3>2, <3>4, <3>5, <3>6, Zenon
  <2>2. CASE mutex_queue[m] # <<>>
    <3>1. locked[m] = 1
      BY <1>2, <2>2, Zenon DEF LockedIsClaimed
    <3>2. /\ locked' = [locked EXCEPT ![m] = locked[m]]
          /\ mutex_queue' = [mutex_queue EXCEPT ![m] = Tail(@)]
          /\ ready_queue' = thread_scheduler_enqueue(rest, w, priority)
          /\ state' = [[[state EXCEPT ![c] = "BLOCKED"] EXCEPT ![w] = "READY"] EXCEPT ![next] = "RUNNING"]
      BY <2>2, Zenon DEF wait_block, PassOn, swap_thread
    <3>3. locked' = locked /\ Woken(m) = {w}
      BY <1>3, <2>2, <3>2, Zenon DEF Woken
    <3>4. Releases(m)
      BY <1>1, <1>3, <1>6, <2>2, <3>1, <3>2, <3>3, Zenon DEF Releases
    <3>5. w \in Threads /\ w # c /\ w # next
      BY <1>4, <3>3, <3>4, ReleaseQueues, Zenon
    <3> HIDE DEF w, next, rest
    <3>6. /\ state' \in [Threads -> States] /\ state'[c] = "BLOCKED" /\ state'[next] = "RUNNING"
          /\ state'[w] = "READY"
          /\ \A t \in Threads \ {c, next, w} : state'[t] = state[t]
      BY <1>2, <1>3, <1>4, <1>5, <3>2, <3>5, Zenon DEF States
    <3>7. WokenRun(m)
      BY <1>1, <3>3, <3>5, <3>6, Zenon DEF WokenRun
    <3>8. /\ ready_queue' \in Seq(Threads) /\ Range(ready_queue') = Range(rest) \cup {w}
          /\ IsInjective(ready_queue')
      BY <1>4, <3>2, <3>5, EnqueueRange, Zenon
    <3> QED BY <3>3, <3>4, <3>6, <3>7, <3>8, Zenon
  <2> QED BY <2>1, <2>2, Zenon
<1>8. /\ \A t \in Woken(m) : t \in Threads /\ t # c /\ t # next /\ t \notin Range(ready_queue)
  BY <1>4, <1>7, ReleaseQueues, Zenon
<1> HIDE DEF next, rest, w
<1>9. SchedTypeOK'
  BY <1>1, <1>3, <1>4, <1>7, Zenon DEF SchedTypeOK
<1>10. Runnable(Threads)'
  <2>1. \A t \in Threads \ {c} :
          state'[t] = IF t \in Woken(m) THEN "READY" ELSE IF t = next THEN "RUNNING" ELSE state[t]
    BY <1>1, <1>7, Zenon DEF WokenRun
  <2>2. \A t \in Threads : state'[t] = "RUNNING" <=> t = next
    BY <1>2, <1>4, <1>5, <1>7, <1>8, <2>1, Zenon
  <2>3. \A t \in Threads : state'[t] = "READY" <=> t \in Range(ready_queue')
    BY <1>2, <1>4, <1>5, <1>7, <1>8, <2>1, Zenon
  <2> QED BY <1>1, <1>4, <1>5, <1>7, <1>8, <2>2, <2>3, Zenon DEF Runnable
<1>11. /\ MutexInv' /\ ReleaseClaims(m)
       /\ \A t \in Threads \ {c} : t \in CondWaiters' <=> t \in CondWaiters
  BY <1>1, <1>4, <1>6, <1>7, <1>9, <1>10, ReleaseThreads, Zenon
<1>12. c \in CondWaiters'
  BY <1>2, <1>6, <1>7, Zenon DEF CondWaiters
<1> QED BY <1>2, <1>11, <1>12, Zenon DEF CondWaiters

-----------------------------------------------------------------------------
(***************************************************************************)
(* thread_cond_wait when nobody else is ready: the caller keeps the mutex, *)
(* or lets the first waiter in and lines up behind the others.             *)
(***************************************************************************)
GivesWay(m) ==
  /\ mutex_queue[m] # <<>>
  /\ mutex_queue' = [mutex_queue EXCEPT ![m] = Append(Tail(@), current_thread)]
  /\ Claimants(m) = {current_thread}
  /\ Claimants(m)' = {Head(mutex_queue[m])}
  /\ \A n \in Mutexes \ {m} : Claimants(n)' = Claimants(n)

LEMMA WaitKeepsInv ==
  ASSUME MutexInv, NEW m \in Mutexes, wait_refused(m), mutex_queue[m] = <<>>
  PROVE  /\ MutexInv' /\ UNCHANGED <<mutex_queue, cond_queue>> /\ CondWaiters' = CondWaiters
         /\ \A n \in Mutexes : Claimants(n)' = Claimants(n)
<1>1. /\ current_thread \in holds[m] /\ locked' = [locked EXCEPT ![m] = 1]
      /\ UNCHANGED <<current_thread, state, ready_queue, priority, context, mutex_queue,
                     mutex_arg, holds, cond_queue>>
  BY Zenon DEF wait_refused, sched_vars
<1>2. MutexTypeOK /\ NoneWaitsForItsOwn /\ MutualExclusion /\ LockedIsClaimed
  BY Zenon DEF MutexInv
<1>3. /\ locked' \in [Mutexes -> {-1, 0, 1}] /\ locked'[m] = 1
      /\ \A n \in Mutexes \ {m} : locked'[n] = locked[n]
  BY <1>1, <1>2, Zenon DEF MutexTypeOK
<1>4. MutexTypeOK'
  BY <1>1, <1>2, <1>3, Zenon DEF MutexTypeOK, SchedTypeOK
<1>5. /\ Runnable(Threads)' /\ CallsOK' /\ CondWaiters' = CondWaiters
      /\ LinkedAreBlocked' /\ \A t \in Threads : Parked(t)'
  BY <1>1, <1>4, SameThreads, Zenon
<1>6. \A n \in Mutexes : Claimants(n)' = Claimants(n)
  BY <1>1, Zenon DEF Claimants
<1>7. Claimants(m) # {}
  BY <1>1, Zenon DEF Claimants
<1>8. MutualExclusion' /\ LockedIsClaimed'
  BY <1>1, <1>2, <1>3, <1>6, <1>7 DEF MutualExclusion, LockedIsClaimed
<1>9. NoneWaitsForItsOwn'
  BY <1>1, <1>2, Zenon DEF NoneWaitsForItsOwn
<1> QED BY <1>1, <1>4, <1>5, <1>6, <1>8, <1>9, Zenon DEF MutexInv

LEMMA WaitGivesWayInv ==
  ASSUME MutexInv, NEW m \in Mutexes, wait_refused(m), mutex_queue[m] # <<>>
  PROVE  MutexInv' /\ GivesWay(m) /\ CondWaiters' = CondWaiters /\ UNCHANGED cond_queue
<1> DEFINE c == current_thread
           w == Head(mutex_queue[m])
           r == Tail(mutex_queue[m])
<1>1. /\ context[c] = "user" /\ c \in holds[m] /\ ready_queue = <<>> /\ current_thread' = w
      /\ state' = [[state EXCEPT ![c] = "BLOCKED"] EXCEPT ![w] = "RUNNING"]
      /\ mutex_queue' = [mutex_queue EXCEPT ![m] = Append(r, c)]
      /\ mutex_arg' = [mutex_arg EXCEPT ![c] = m] /\ holds' = [holds EXCEPT ![m] = @ \ {c}]
      /\ context' = [context EXCEPT ![c] = "lock"]
      /\ UNCHANGED <<ready_queue, priority, locked, cond_queue>>
  BY Zenon DEF wait_refused, RunsAt, swap_thread
<1>2. /\ MutexTypeOK /\ SchedTypeOK /\ CallsOK /\ LinkedAreBlocked /\ NoneWaitsForItsOwn
      /\ MutualExclusion /\ LockedIsClaimed /\ c \in Threads
      /\ \A t \in Threads : Parked(t)
      /\ \A t \in Threads : /\ state[t] = "RUNNING" <=> t = c
                            /\ state[t] = "READY" <=> t \in Range(ready_queue)
  BY MutexFacts, Zenon DEF MutexInv, Runnable
<1>3. /\ mutex_queue \in [Mutexes -> Seq(Threads)] /\ state \in [Threads -> States]
      /\ mutex_arg \in [Threads -> Mutexes \cup {NULL}] /\ holds \in [Mutexes -> SUBSET Threads]
      /\ \A n \in Mutexes : /\ mutex_queue[n] \in Seq(Threads)
                            /\ Range(mutex_queue[n]) \subseteq Threads
                            /\ c \notin Range(mutex_queue[n])
                            /\ IsInjective(mutex_queue[n])
  BY <1>2, MutexFacts, Zenon DEF MutexTypeOK, SchedTypeOK, LinkedAreBlocked
<1>4. /\ w \in Threads /\ w \in Range(mutex_queue[m]) /\ r \in Seq(Threads)
      /\ Range(mutex_queue[m]) = {w} \cup Range(r) /\ IsInjective(r) /\ w \notin Range(r)
  BY <1>3, HeadTailRange, Zenon
<1>5. /\ w # c /\ context[w] = "lock" /\ mutex_arg[w] = m /\ state[w] = "BLOCKED"
      /\ \A n \in Mutexes \ {m} : w \notin Range(mutex_queue[n])
  BY <1>2, <1>3, <1>4 DEF LinkedAreBlocked
<1>6. /\ Append(r, c) \in Seq(Threads) /\ IsInjective(Append(r, c))
      /\ Range(Append(r, c)) = Range(r) \cup {c}
  <2>1. c \in Threads /\ r \in Seq(Threads) /\ IsInjective(r) /\ c \notin Range(r)
    BY <1>2, <1>3, <1>4, Zenon
  <2> HIDE DEF c, r
  <2> QED BY <2>1, AppendRange
<1>7. mutex_queue[m] # <<>> /\ locked[m] = 1
  BY <1>2, Zenon DEF LockedIsClaimed
<1>8. mutex_queue' = [mutex_queue EXCEPT ![m] = Append(Tail(@), c)]
  BY <1>1, Zenon
<1>9. Claimants(m) = {c}
  BY <1>1, <1>2 DEF Claimants, MutualExclusion
<1>10. w = Head(mutex_queue[m])
  OBVIOUS
<1> HIDE DEF c, w, r
<1>11. /\ mutex_queue' \in [Mutexes -> Seq(Threads)] /\ mutex_queue'[m] = Append(r, c)
       /\ \A n \in Mutexes \ {m} : mutex_queue'[n] = mutex_queue[n]
       /\ holds' \in [Mutexes -> SUBSET Threads] /\ holds'[m] = holds[m] \ {c}
       /\ \A n \in Mutexes \ {m} : holds'[n] = holds[n]
  BY <1>1, <1>3, <1>6, Zenon
<1>12. /\ state' \in [Threads -> States] /\ state'[c] = "BLOCKED" /\ state'[w] = "RUNNING"
       /\ \A t \in Threads \ {c, w} : state'[t] = state[t]
  BY <1>1, <1>2, <1>3, <1>4, <1>5, Zenon DEF States
<1>13. /\ context' \in [Threads -> {"user", "lock", "cond_wait"}] /\ context'[c] = "lock"
       /\ mutex_arg' \in [Threads -> Mutexes \cup {NULL}] /\ mutex_arg'[c] = m
       /\ \A t \in Threads \ {c} : context'[t] = context[t] /\ mutex_arg'[t] = mutex_arg[t]
  BY <1>1, <1>2, <1>3, Zenon DEF CallsOK
<1>14. /\ Range(mutex_queue'[m]) = (Range(mutex_queue[m]) \ {w}) \cup {c}
       /\ \A n \in Mutexes : IsInjective(mutex_queue'[n])
  BY <1>3, <1>4, <1>6, <1>11, ZenonT(30)
<1>15. MutexTypeOK'
  <2>1. SchedTypeOK'
    BY <1>1, <1>2, <1>4, <1>12, Zenon DEF SchedTypeOK
  <2> QED BY <1>1, <1>2, <1>11, <1>13, <2>1, Zenon DEF MutexTypeOK
<1>16. Runnable(Threads)'
  <2>1. Range(ready_queue) = {} /\ IsInjective(ready_queue)
    BY <1>1 DEF Range, IsInjective
  <2>2. \A t \in Threads : state'[t] = "RUNNING" <=> t = w
    BY <1>2, <1>4, <1>5, <1>12, Zenon
  <2>3. \A t \in Threads : state'[t] # "READY"
    BY <1>2, <1>12, <2>1, Zenon
  <2> QED BY <1>1, <1>4, <2>1, <2>2, <2>3, Zenon DEF Runnable
<1>17. CallsOK'
  BY <1>2, <1>13, Zenon DEF CallsOK
<1>18. LinkedAreBlocked'
  <2>1. ASSUME NEW n \in Mutexes, NEW t \in Range(mutex_queue'[n])
        PROVE  context'[t] = "lock" /\ mutex_arg'[t] = n /\ state'[t] = "BLOCKED"
    <3>1. CASE t = c
      <4>1. n = m
        BY <1>3, <1>11, <2>1, <3>1, Zenon
      <4> QED BY <1>12, <1>13, <3>1, <4>1, Zenon
    <3>2. CASE t # c
      <4>1. t \in Range(mutex_queue[n]) /\ t # w /\ t \in Threads
        <5>1. CASE n = m
          BY <1>3, <1>14, <2>1, <3>2, <5>1, Zenon
        <5>2. CASE n # m
          BY <1>3, <1>5, <1>11, <2>1, <5>2, Zenon
        <5> QED BY <5>1, <5>2, Zenon
      <4>2. context[t] = "lock" /\ mutex_arg[t] = n /\ state[t] = "BLOCKED"
        BY <1>2, <4>1, Zenon DEF LinkedAreBlocked
      <4> QED BY <1>12, <1>13, <3>2, <4>1, <4>2, Zenon
    <3> QED BY <3>1, <3>2, Zenon
  <2> QED BY <1>14, <2>1, Zenon DEF LinkedAreBlocked
<1>19. ASSUME NEW t \in Threads PROVE Parked(t)'
  <2>1. CASE t = c
    BY <1>12, <1>13, <1>14, <2>1, Zenon DEF Parked
  <2>2. CASE t = w
    BY <1>12, <2>2, Zenon DEF Parked
  <2>3. CASE t # c /\ t # w
    <3>1. /\ state'[t] = state[t] /\ context'[t] = context[t] /\ mutex_arg'[t] = mutex_arg[t]
          /\ context[t] = "lock" => mutex_arg[t] \in Mutexes
      BY <1>2, <1>12, <1>13, <2>3, Zenon DEF CallsOK
    <3>2. \A n \in Mutexes : t \in Range(mutex_queue[n]) => t \in Range(mutex_queue'[n])
      BY <1>11, <1>14, <2>3, Zenon
    <3> QED BY <1>2, <3>1, <3>2, Zenon DEF Parked
  <2> QED BY <2>1, <2>2, <2>3, Zenon
<1>20. NoneWaitsForItsOwn'
  <2>1. ASSUME NEW n \in Mutexes, NEW t \in holds'[n] PROVE context'[t] # "user" => mutex_arg'[t] # n
    <3>1. t \in holds[n] /\ t \in Threads /\ (t = c => n # m)
      BY <1>3, <1>11, Zenon
    <3> QED BY <1>2, <1>13, <3>1, Zenon DEF NoneWaitsForItsOwn
  <2> QED BY <2>1 DEF NoneWaitsForItsOwn
<1>21. Claimants(m)' = {w}
  <2>1. ASSUME NEW t PROVE t \in Claimants(m)' <=> t = w
    <3>1. t \in Claimants(m) <=> t = c
      BY <1>9, Zenon
    <3> QED BY <1>4, <1>5, <1>11, <1>13, <1>14, <3>1, Zenon DEF Claimants
  <2> QED BY <2>1, Zenon
<1>22. \A n \in Mutexes \ {m} : Claimants(n)' = Claimants(n)
  BY <1>1, <1>11, <1>13, Zenon DEF Claimants
<1>23. MutualExclusion'
  BY <1>2, <1>21, <1>22 DEF MutualExclusion
<1>24. LockedIsClaimed'
  <2>1. locked'[m] = 1 /\ Claimants(m)' # {}
    BY <1>1, <1>7, <1>21, Zenon
  <2> QED BY <1>1, <1>2, <1>11, <1>22, <2>1 DEF LockedIsClaimed
<1>25. CondWaiters' = CondWaiters
  <2>1. ASSUME NEW t \in Threads PROVE t \in CondWaiters' <=> t \in CondWaiters
    BY <1>1, <1>5, <1>12, <1>13, Zenon DEF CondWaiters
  <2> QED BY <2>1, Zenon DEF CondWaiters
<1>26. GivesWay(m)
  BY <1>7, <1>8, <1>9, <1>10, <1>21, <1>22, Zenon DEF GivesWay, c
<1> QED BY <1>1, <1>15, <1>16, <1>17, <1>18, <1>19, <1>20, <1>23, <1>24, <1>25, <1>26, Zenon DEF MutexInv

-----------------------------------------------------------------------------
\* The threads ts stop waiting for a condition.
LEMMA ReviveInv ==
  ASSUME MutexInv, NEW ts \in Seq(Threads), Range(ts) \subseteq CondWaiters, Revive(ts),
         UNCHANGED <<current_thread, priority, context, locked, mutex_queue, mutex_arg, holds>>
  PROVE  /\ MutexInv' /\ CondWaiters' = CondWaiters \ Range(ts)
         /\ \A n \in Mutexes : Claimants(n)' = Claimants(n)
<1>1. /\ MutexTypeOK /\ SchedTypeOK /\ Runnable(Threads) /\ CallsOK /\ LinkedAreBlocked
      /\ NoneWaitsForItsOwn /\ MutualExclusion /\ LockedIsClaimed
      /\ \A t \in Threads : Parked(t)
  BY MutexFacts, Zenon DEF MutexInv
<1>2. /\ \A t \in Range(ts) : t \in Threads /\ context[t] = "cond_wait" /\ state[t] = "BLOCKED"
      /\ \A t \in Threads : state'[t] = IF t \in Range(ts) THEN "READY" ELSE state[t]
      /\ state' \in [Threads -> States]
  BY <1>1 DEF CondWaiters, Revive, States, SchedTypeOK
<1>3. /\ ready_queue' \in Seq(Threads) /\ IsInjective(ready_queue')
      /\ Range(ready_queue') = Range(ready_queue) \cup Range(ts)
  <2>1. ready_queue \in Seq(Threads) /\ IsInjective(ready_queue)
    BY <1>1, Zenon DEF SchedTypeOK, Runnable
  <2>2. ready_queue' = EnqueueAll(ready_queue, ts, priority)
    BY DEF Revive
  <2> QED BY <2>1, <2>2, EnqueueAllRange, Zenon
<1>4. MutexTypeOK'
  BY <1>1, <1>2, <1>3, Zenon DEF MutexTypeOK, SchedTypeOK
<1>5. Runnable(Threads)'
  <2>1. /\ current_thread \in Threads /\ Range(ready_queue) \subseteq Threads
        /\ \A t \in Threads : /\ state[t] = "RUNNING" <=> t = current_thread
                              /\ state[t] = "READY" <=> t \in Range(ready_queue)
    BY <1>1, Zenon DEF Runnable
  <2>2. \A t \in Threads : /\ state'[t] = "RUNNING" <=> t = current_thread
                           /\ state'[t] = "READY" <=> t \in Range(ready_queue')
    BY <1>2, <1>3, <2>1, Zenon
  <2> QED BY <1>2, <1>3, <2>1, <2>2, Zenon DEF Runnable
<1>6. CallsOK' /\ NoneWaitsForItsOwn'
  BY <1>1, Zenon DEF CallsOK, NoneWaitsForItsOwn
<1>7. LinkedAreBlocked'
  <2>1. \A n \in Mutexes : Range(mutex_queue[n]) \subseteq Threads
    BY MutexFacts, Zenon
  <2>2. ASSUME NEW n \in Mutexes, NEW t \in Range(mutex_queue[n]) PROVE state'[t] = state[t]
    BY <1>1, <1>2, <2>1, Zenon DEF LinkedAreBlocked
  <2> QED BY <1>1, <2>2 DEF LinkedAreBlocked
<1>8. ASSUME NEW t \in Threads PROVE Parked(t)'
  BY <1>1, <1>2, Zenon DEF Parked
<1>9. \A n \in Mutexes : Claimants(n)' = Claimants(n)
  BY Zenon DEF Claimants
<1>10. MutualExclusion' /\ LockedIsClaimed'
  BY <1>1, <1>9, SameClaims, Zenon
<1>11. CondWaiters' = CondWaiters \ Range(ts)
  BY <1>2, Zenon DEF CondWaiters
<1> QED BY <1>4, <1>5, <1>6, <1>7, <1>8, <1>9, <1>10, <1>11, Zenon DEF MutexInv

-----------------------------------------------------------------------------
\* A step that hands the CPU over and leaves the mutexes alone.
LEMMA HandoverInv ==
  ASSUME MutexInv, SchedTypeOK', Handover, UNCHANGED <<context, locked, mutex_queue, mutex_arg, holds>>
  PROVE  MutexInv' /\ CondWaiters' = CondWaiters /\ \A n \in Mutexes : Claimants(n)' = Claimants(n)
<1>1. /\ MutexTypeOK /\ Runnable(Threads) /\ CallsOK /\ LinkedAreBlocked /\ NoneWaitsForItsOwn
      /\ MutualExclusion /\ LockedIsClaimed /\ \A t \in Threads : Parked(t)
  BY Zenon DEF MutexInv
<1>2. /\ CpuOK /\ current_thread \in Threads /\ Range(ready_queue) \subseteq Threads
      /\ \A m \in Mutexes : /\ Range(mutex_queue[m]) \subseteq Threads
                            /\ current_thread \notin Range(mutex_queue[m])
                            /\ Range(ready_queue) \cap Range(mutex_queue[m]) = {}
  BY MutexFacts, Zenon
<1>3. MutexTypeOK' /\ CallsOK' /\ NoneWaitsForItsOwn'
  BY <1>1, Zenon DEF MutexTypeOK, CallsOK, NoneWaitsForItsOwn
<1>4. Runnable(Threads)'
  BY <1>1, <1>2, Zenon DEF Runnable, Handover, CpuOK, SchedTypeOK
<1>5. LinkedAreBlocked'
  <2>1. ASSUME NEW m \in Mutexes, NEW t \in Range(mutex_queue[m])
        PROVE  state'[t] = state[t]
    BY <1>2, Zenon DEF Handover
  <2> QED BY <1>1, <2>1 DEF LinkedAreBlocked
<1>6. ASSUME NEW t \in Threads PROVE Parked(t)' /\ (t \in CondWaiters' <=> t \in CondWaiters)
  <2>1. CASE t \in Range(ready_queue) \cup {current_thread}
    <3>1. t = current_thread' \/ t \in Range(ready_queue')
      BY <2>1, Zenon DEF Handover
    <3>2. state'[t] \in {"RUNNING", "READY"}
      BY <1>4, <3>1, Zenon DEF Runnable
    <3>3. state[t] # "BLOCKED" /\ state'[t] # "BLOCKED"
      BY <1>1, <2>1, <3>2, Zenon DEF Runnable
    <3> QED BY <3>2, <3>3, Zenon DEF Parked, CondWaiters
  <2>2. CASE t \notin Range(ready_queue) \cup {current_thread}
    <3>1. state'[t] = state[t]
      BY <2>2, Zenon DEF Handover
    <3> QED BY <1>1, <3>1, Zenon DEF Parked, CondWaiters
  <2> QED BY <2>1, <2>2, Zenon
<1>7. \A m \in Mutexes : Claimants(m)' = Claimants(m)
  BY Zenon DEF Claimants
<1>8. MutualExclusion' /\ LockedIsClaimed'
  BY <1>1, <1>7, SameClaims, Zenon
<1>9. CondWaiters' = CondWaiters
  BY <1>6, Zenon DEF CondWaiters
<1> QED BY <1>3, <1>4, <1>5, <1>6, <1>7, <1>8, <1>9, Zenon DEF MutexInv

\* thread_yield and thread_yield_to.
LEMMA YieldsInv ==
  ASSUME MutexInv, mutex_yield \/ mutex_yield_to
  PROVE  /\ MutexInv' /\ CondWaiters' = CondWaiters /\ UNCHANGED <<context, mutex_queue>>
         /\ \A n \in Mutexes : Claimants(n)' = Claimants(n)
<1>1. /\ context[current_thread] = "user" /\ UNCHANGED <<locked, mutex_queue, mutex_arg, holds>>
      /\ thread_yield("user") \/ \E t \in Threads : thread_yield_to(t)
  BY Zenon DEF mutex_yield, mutex_yield_to, RunsAt, mutex_vars
<1>2. /\ SchedTypeOK /\ CpuOK /\ current_thread \in Threads /\ Runnable(Threads)
      /\ context \in [Threads -> {"user", "lock", "cond_wait"}]
  BY MutexFacts, Zenon DEF MutexInv, CallsOK
<1>3. context' = context
  BY <1>1, <1>2, Zenon DEF thread_yield, thread_yield_to, SwitchTo
<1>4. SchedTypeOK' /\ Handover
  <2>1. CASE thread_yield("user")
    BY <1>2, <2>1, YieldHandover, Zenon
  <2>2. ASSUME NEW t \in Threads, thread_yield_to(t)
        PROVE  SchedTypeOK' /\ Handover
    <3>1. state[t] = "READY" => t \in Range(ready_queue)
      BY <1>2, Zenon DEF Runnable
    <3> QED BY <1>2, <2>2, <3>1, YieldToHandover, Zenon
  <2> QED BY <1>1, <2>1, <2>2, Zenon
<1> QED BY <1>1, <1>3, <1>4, HandoverInv, Zenon

-----------------------------------------------------------------------------
(***************************************************************************)
(* The steps of the whole system.                                          *)
(***************************************************************************)
LEMMA CondInitInv ==
  ASSUME CondInit
  PROVE  CondInv
<1> DEFINE others == Threads \ {main_thread}
<1>0. MutexInit /\ cond_queue = [c \in Conds |-> <<>>]
  BY Zenon DEF CondInit
<1>1. /\ ready_queue \in Seq(others) /\ IsInjective(ready_queue) /\ Range(ready_queue) = others
  <2>1. Cardinality(others) \in Nat /\ ready_queue \in Orders(others)
    BY <1>0, MutexAssumption, FS_RemoveElement, FS_CardinalityType, Zenon DEF MutexInit
  <2> QED BY <2>1, OrdersType, Zenon
<1>2. main_thread \in Threads /\ THREAD_DEFAULT_PRIORITY \in Priorities
  BY SchedulerAssumption DEF Priorities
<1>3. MutexTypeOK
  <2>1. ready_queue \in Seq(Threads)
    BY <1>1
  <2>2. /\ state \in [Threads -> States] /\ priority \in [Threads -> Priorities]
        /\ current_thread \in Threads
        /\ locked \in [Mutexes -> {-1, 0, 1}] /\ mutex_queue \in [Mutexes -> Seq(Threads)]
        /\ mutex_arg \in [Threads -> Mutexes \cup {NULL}] /\ holds \in [Mutexes -> SUBSET Threads]
    BY <1>0, <1>2 DEF MutexInit, States
  <2> QED BY <2>1, <2>2 DEF MutexTypeOK, SchedTypeOK
<1>4. Runnable(Threads)
  BY <1>0, <1>1, <1>2, Zenon DEF MutexInit, Runnable
<1>5. Range(<<>>) = {} /\ IsInjective(<<>>)
  BY DEF Range, IsInjective
<1>6. CallsOK /\ LinkedAreBlocked /\ NoneWaitsForItsOwn /\ \A t \in Threads : Parked(t)
  BY <1>0, <1>5, Zenon DEF MutexInit, LinkedAreBlocked, CallsOK, NoneWaitsForItsOwn, Parked
<1>7. \A m \in Mutexes : Claimants(m) = {} /\ locked[m] = 0 /\ mutex_queue[m] = <<>>
  BY <1>0, Zenon DEF MutexInit, Claimants
<1>8. MutualExclusion /\ LockedIsClaimed
  BY <1>7 DEF MutualExclusion, LockedIsClaimed
<1>9. CondWaiters = {}
  BY <1>0, Zenon DEF MutexInit, CondWaiters
<1>10. CondLinks
  BY <1>0, <1>5, <1>9 DEF CondLinks
<1> QED BY <1>3, <1>4, <1>6, <1>8, <1>10, Zenon DEF MutexInv, CondInv

\* The calls of the mutexes leave the waiters of the conditions alone.
LEMMA MutexStepInv ==
  ASSUME MutexInv, MutexNext
  PROVE  MutexInv' /\ CondWaiters' = CondWaiters
<1>1. ASSUME NEW m \in Mutexes, lock_block(m)
      PROVE  MutexInv' /\ CondWaiters' = CondWaiters
  BY <1>1, ParkInv, Zenon DEF lock_block, RunsAt
<1> QED BY <1>1, InitDestroyInv, LockFreeInv, LockReturnInv, UnlockInv, YieldsInv, Zenon DEF MutexNext

\* No waiter of a condition comes or goes.
LEMMA LinksStay ==
  ASSUME CondLinks, CondWaiters' = CondWaiters, cond_queue' = cond_queue
  PROVE  CondLinks'
BY Zenon DEF CondLinks

\* A thread begins to wait.
LEMMA LinksGrow ==
  ASSUME CondLinks, NEW cv \in Conds, NEW t \in Threads, t \notin CondWaiters,
         cond_queue' = [cond_queue EXCEPT ![cv] = Append(@, t)],
         CondWaiters' = CondWaiters \cup {t}
  PROVE  CondLinks'
<1>1. /\ cond_queue \in [Conds -> Seq(Threads)]
      /\ \A c \in Conds : IsInjective(cond_queue[c]) /\ Range(cond_queue[c]) \subseteq CondWaiters
      /\ \A u \in CondWaiters : \E c \in Conds : u \in Range(cond_queue[c])
      /\ \A c, d \in Conds : \A u \in Range(cond_queue[c]) : u \in Range(cond_queue[d]) => c = d
  BY Zenon DEF CondLinks
<1>2. cond_queue[cv] \in Seq(Threads) /\ t \notin Range(cond_queue[cv])
  BY <1>1, Zenon
<1>3. /\ Append(cond_queue[cv], t) \in Seq(Threads) /\ IsInjective(Append(cond_queue[cv], t))
      /\ Range(Append(cond_queue[cv], t)) = Range(cond_queue[cv]) \cup {t}
  BY <1>1, <1>2, AppendRange
<1>4. /\ cond_queue' \in [Conds -> Seq(Threads)] /\ cond_queue'[cv] = Append(cond_queue[cv], t)
      /\ \A c \in Conds \ {cv} : cond_queue'[c] = cond_queue[c]
  BY <1>1, <1>3, Zenon
<1>5. \A c \in Conds : /\ IsInjective(cond_queue'[c])
                       /\ \A u : u \in Range(cond_queue'[c]) <=>
                            u \in Range(cond_queue[c]) \/ (u = t /\ c = cv)
  BY <1>1, <1>3, <1>4, Zenon
<1>6. \A c \in Conds : t \notin Range(cond_queue[c])
  BY <1>1
<1>7. \A c \in Conds : Range(cond_queue'[c]) \subseteq CondWaiters'
  BY <1>1, <1>5, Zenon
<1>8. ASSUME NEW u \in CondWaiters' PROVE \E c \in Conds : u \in Range(cond_queue'[c])
  BY <1>1, <1>5, <1>8, Zenon
<1>9. ASSUME NEW c \in Conds, NEW d \in Conds, NEW u \in Range(cond_queue'[c]), u \in Range(cond_queue'[d])
      PROVE  c = d
  BY <1>1, <1>5, <1>6, <1>9
<1> QED BY <1>4, <1>5, <1>7, <1>8, <1>9, Zenon DEF CondLinks

\* The threads W stop waiting for cv.
LEMMA LinksShrink ==
  ASSUME CondLinks, NEW cv \in Conds, NEW W, NEW r \in Seq(Threads),
         IsInjective(r), Range(r) = Range(cond_queue[cv]) \ W, W \subseteq Range(cond_queue[cv]),
         cond_queue' = [cond_queue EXCEPT ![cv] = r],
         CondWaiters' = CondWaiters \ W
  PROVE  CondLinks'
<1>1. /\ cond_queue \in [Conds -> Seq(Threads)]
      /\ \A c \in Conds : IsInjective(cond_queue[c]) /\ Range(cond_queue[c]) \subseteq CondWaiters
      /\ \A u \in CondWaiters : \E c \in Conds : u \in Range(cond_queue[c])
      /\ \A c, d \in Conds : \A u \in Range(cond_queue[c]) : u \in Range(cond_queue[d]) => c = d
  BY Zenon DEF CondLinks
<1>2. /\ cond_queue' \in [Conds -> Seq(Threads)] /\ cond_queue'[cv] = r
      /\ \A c \in Conds \ {cv} : cond_queue'[c] = cond_queue[c]
  BY <1>1, Zenon
<1>3. ASSUME NEW c \in Conds
      PROVE  IsInjective(cond_queue'[c]) /\ Range(cond_queue'[c]) = Range(cond_queue[c]) \ W
  <2>1. CASE c = cv
    BY <1>2, <2>1, Zenon
  <2>2. CASE c # cv
    <3>1. \A u \in Range(cond_queue[c]) : u \notin W
      BY <1>1, <2>2, Zenon
    <3> QED BY <1>1, <1>2, <2>2, <3>1, Zenon
  <2> QED BY <2>1, <2>2, Zenon
<1>4. \A c \in Conds : Range(cond_queue'[c]) \subseteq CondWaiters'
  BY <1>1, <1>3, Zenon
<1>5. ASSUME NEW u \in CondWaiters' PROVE \E c \in Conds : u \in Range(cond_queue'[c])
  BY <1>1, <1>3, <1>5, Zenon
<1>6. ASSUME NEW c \in Conds, NEW d \in Conds, NEW u \in Range(cond_queue'[c]), u \in Range(cond_queue'[d])
      PROVE  c = d
  BY <1>1, <1>3, <1>6, Zenon
<1> QED BY <1>2, <1>3, <1>4, <1>5, <1>6, Zenon DEF CondLinks

\* thread_cond_signal and thread_cond_broadcast.
LEMMA WakeInv ==
  ASSUME CondInv, NEW cv \in Conds, thread_cond_signal(cv) \/ thread_cond_broadcast(cv)
  PROVE  /\ CondInv' /\ UNCHANGED <<context, locked, mutex_queue, mutex_arg, holds>>
         /\ \A n \in Mutexes : Claimants(n)' = Claimants(n)
<1> DEFINE q == cond_queue[cv]
<1>1. MutexInv /\ CondLinks
  BY Zenon DEF CondInv
<1>2. q \in Seq(Threads) /\ IsInjective(q) /\ Range(q) \subseteq CondWaiters
  BY <1>1, Zenon DEF CondLinks
<1>3. UNCHANGED <<current_thread, priority, context, locked, mutex_queue, mutex_arg, holds>>
  BY Zenon DEF thread_cond_signal, thread_cond_broadcast, mutex_vars
<1>4. CASE thread_cond_signal(cv)
  <2> DEFINE w == Head(q)
             r == Tail(q)
  <2>1. q # <<>> /\ Revive(<<w>>) /\ cond_queue' = [cond_queue EXCEPT ![cv] = r]
    BY <1>4, Zenon DEF thread_cond_signal
  <2>2. /\ w \in Threads /\ w \in Range(q) /\ r \in Seq(Threads) /\ IsInjective(r)
        /\ Range(q) = {w} \cup Range(r) /\ w \notin Range(r)
    BY <1>2, <2>1, HeadTailRange, Zenon
  <2> HIDE DEF w, r
  <2>3. <<w>> \in Seq(Threads) /\ Range(<<w>>) = {w}
    BY <2>2 DEF Range
  <2>4. Range(<<w>>) \subseteq CondWaiters
    BY <1>2, <2>2, <2>3, Zenon
  <2>5. /\ MutexInv' /\ CondWaiters' = CondWaiters \ {w}
        /\ \A n \in Mutexes : Claimants(n)' = Claimants(n)
    BY <1>1, <1>3, <2>1, <2>3, <2>4, ReviveInv, Zenon
  <2>6. Range(r) = Range(q) \ {w} /\ {w} \subseteq Range(q)
    BY <2>2
  <2>7. CondLinks'
    BY <1>1, <2>1, <2>2, <2>5, <2>6, LinksShrink, Zenon
  <2> QED BY <1>3, <2>5, <2>7, Zenon DEF CondInv
<1>5. CASE thread_cond_broadcast(cv)
  <2>1. Revive(q) /\ cond_queue' = [cond_queue EXCEPT ![cv] = <<>>]
    BY <1>5 DEF thread_cond_broadcast
  <2> HIDE DEF q
  <2>2. /\ MutexInv' /\ CondWaiters' = CondWaiters \ Range(q)
        /\ \A n \in Mutexes : Claimants(n)' = Claimants(n)
    BY <1>1, <1>2, <1>3, <2>1, ReviveInv, Zenon
  <2>3. /\ <<>> \in Seq(Threads) /\ IsInjective(<<>>) /\ Range(<<>>) = Range(q) \ Range(q)
        /\ Range(q) \subseteq Range(q)
    BY DEF Range, IsInjective
  <2>4. CondLinks'
    BY <1>1, <2>1, <2>2, <2>3, LinksShrink, Zenon DEF q
  <2> QED BY <1>3, <2>2, <2>4 DEF CondInv
<1> QED BY <1>4, <1>5

\* Every step keeps the invariant.
LEMMA CondNextInv ==
  ASSUME CondInv, [CondNext]_cond_vars
  PROVE  CondInv'
<1>1. MutexInv /\ CondLinks
  BY DEF CondInv
<1>2. CASE MutexNext /\ UNCHANGED cond_queue
  BY <1>1, <1>2, MutexStepInv, LinksStay DEF CondInv
<1>3. ASSUME NEW m \in Mutexes, wait_refused(m) PROVE CondInv'
  BY <1>1, <1>3, WaitKeepsInv, WaitGivesWayInv, LinksStay, Zenon DEF CondInv
<1>4. ASSUME NEW m \in Mutexes, NEW cv \in Conds, wait_block(cv, m) PROVE CondInv'
  <2>1. PICK t \in Threads : t = current_thread
    BY <1>1, MutexFacts, Zenon
  <2>2. MutexInv' /\ CondWaiters' = CondWaiters \cup {t}
    BY <1>1, <1>4, <2>1, WaitBlockInv, Zenon
  <2>3. t \notin CondWaiters /\ cond_queue' = [cond_queue EXCEPT ![cv] = Append(@, t)]
    BY <1>4, <2>1, Zenon DEF wait_block, RunsAt, CondWaiters
  <2>4. CondLinks'
    BY <1>1, <2>2, <2>3, LinksGrow, Zenon
  <2> QED BY <2>2, <2>4, Zenon DEF CondInv
<1>5. CASE Relock
  <2>1. CASE relock_free \/ relock_failed
    <3>1. MutexInv' /\ CondWaiters' = CondWaiters /\ cond_queue' = cond_queue
      BY <1>1, <2>1, RelockFreeInv, RelockFailedInv
    <3> QED BY <1>1, <3>1, LinksStay DEF CondInv
  <2>2. CASE relock_block
    <3>1. PICK m \in Mutexes : m = mutex_arg[current_thread]
      BY <1>1, <2>2, MutexFacts, Zenon DEF relock_block, RunsAt, MutexInv, CallsOK
    <3>2. /\ ParkOn(m) /\ UNCHANGED <<locked, holds>> /\ context[current_thread] = "cond_wait"
          /\ cond_queue' = cond_queue
      BY <2>2, <3>1, Zenon DEF relock_block, RunsAt
    <3>3. current_thread \notin holds[m]
      BY <1>1, <3>1, <3>2, Zenon DEF MutexInv, NoneWaitsForItsOwn
    <3>4. MutexInv' /\ CondWaiters' = CondWaiters
      BY <1>1, <3>2, <3>3, ParkInv, Zenon
    <3> QED BY <1>1, <3>2, <3>4, LinksStay, Zenon DEF CondInv
  <2> QED BY <1>5, <2>1, <2>2 DEF Relock
<1>6. ASSUME NEW cv \in Conds, thread_cond_signal(cv) \/ thread_cond_broadcast(cv) PROVE CondInv'
  BY <1>6, WakeInv, Zenon
<1>7. CASE UNCHANGED cond_vars
  <2>1. UNCHANGED <<current_thread, state, ready_queue, priority, context, locked, mutex_queue,
                    mutex_arg, holds, cond_queue>>
    BY <1>7, Zenon DEF cond_vars, sched_vars, mutex_vars
  <2>2. SchedTypeOK' /\ Handover
    BY <1>1, <2>1, MutexFacts, Zenon DEF SchedTypeOK, Handover, CpuOK
  <2> QED BY <1>1, <2>1, <2>2, HandoverInv, LinksStay, Zenon DEF CondInv
<1> QED BY <1>2, <1>3, <1>4, <1>5, <1>6, <1>7 DEF CondNext

-----------------------------------------------------------------------------
(* Every reachable state of the mutexes, the conditions and their threads  *)
(* satisfies the invariant.                                                *)
THEOREM CondInvariant == CondSpec => []CondInv
BY CondInitInv, CondNextInv, PTL DEF CondSpec

(* At no time two threads own a mutex, the thread included to which an     *)
(* unlock or a wait has handed it and that has not run since               *)
(* (thread_mutex.c, thread_cond.c).                                        *)
THEOREM MutexExcludes == CondSpec => []MutualExclusion
<1>1. CondInv => MutualExclusion
  BY Zenon DEF CondInv, MutexInv
<1> QED BY <1>1, CondInvariant, PTL

(* A mutex with waiters is locked and has an owner that will pass it on.   *)
THEOREM MutexWaitersHaveOwner == CondSpec => []WaitersHaveOwner
<1>1. CondInv => WaitersHaveOwner
  BY DEF CondInv, MutexInv, LockedIsClaimed, WaitersHaveOwner
<1> QED BY <1>1, CondInvariant, PTL

(* Every BLOCKED thread is linked in exactly one queue, once, and no other *)
(* thread is: a wait moves a thread from a condition to a mutex, and no    *)
(* wake-up is lost or comes twice (thread_cond.c).                         *)
THEOREM CondOneQueue == CondSpec => []BlockedInOneQueue
<1> DEFINE Keys == {<<"lock", m>> : m \in Mutexes} \cup {<<"cond_wait", c>> : c \in Conds}
           Queue(k) == IF k[1] = "lock" THEN mutex_queue[k[2]] ELSE cond_queue[k[2]]
           Linked(t) == {k \in Keys : t \in Range(Queue(k))}
<1>1. ASSUME CondInv PROVE BlockedInOneQueue
  <2>1. CondLinks /\ LinkedAreBlocked /\ CallsOK /\ \A t \in Threads : Parked(t)
    BY <1>1, Zenon DEF CondInv, MutexInv
  <2>2. ASSUME NEW k \in Keys
        PROVE  \/ \E m \in Mutexes : k = <<"lock", m>> /\ Queue(k) = mutex_queue[m] /\ k[1] = "lock"
               \/ \E c \in Conds : k = <<"cond_wait", c>> /\ Queue(k) = cond_queue[c] /\ k[1] = "cond_wait"
    OBVIOUS
  <2>3. /\ \A m \in Mutexes : <<"lock", m>> \in Keys /\ Queue(<<"lock", m>>) = mutex_queue[m]
                              /\ <<"lock", m>>[1] = "lock"
        /\ \A c \in Conds : <<"cond_wait", c>> \in Keys /\ Queue(<<"cond_wait", c>>) = cond_queue[c]
                            /\ <<"cond_wait", c>>[1] = "cond_wait"
    OBVIOUS
  <2> HIDE DEF Keys, Queue
  <2>4. ASSUME NEW k \in Keys PROVE IsInjective(Queue(k))
    <3>1. /\ \A m \in Mutexes : IsInjective(mutex_queue[m])
          /\ \A c \in Conds : IsInjective(cond_queue[c])
      BY <2>1, Zenon DEF CondLinks, LinkedAreBlocked
    <3> QED BY <2>2, <3>1, Zenon
  <2>5. ASSUME NEW t \in Threads, NEW k \in Keys, t \in Range(Queue(k))
        PROVE  /\ state[t] = "BLOCKED"
               /\ \/ \E m \in Mutexes : k = <<"lock", m>> /\ context[t] = "lock" /\ mutex_arg[t] = m
                  \/ \E c \in Conds : /\ k = <<"cond_wait", c>> /\ context[t] = "cond_wait"
                                      /\ t \in Range(cond_queue[c])
    BY <2>1, <2>2, <2>5 DEF CondLinks, LinkedAreBlocked, CondWaiters
  <2>6. ASSUME NEW t \in Threads, state[t] # "BLOCKED" PROVE Linked(t) = {}
    BY <2>5, <2>6, Zenon
  <2>7. ASSUME NEW t \in Threads, state[t] = "BLOCKED"
        PROVE  \E k \in Keys : Linked(t) = {k} /\ context[t] = k[1]
    <3>1. CASE context[t] = "lock"
      <4>1. mutex_arg[t] \in Mutexes /\ t \in Range(mutex_queue[mutex_arg[t]])
        BY <2>1, <2>7, <3>1, Zenon DEF Parked, CallsOK
      <4> DEFINE k == <<"lock", mutex_arg[t]>>
      <4>2. k \in Keys /\ t \in Range(Queue(k)) /\ k[1] = "lock"
        BY <2>3, <4>1, Zenon
      <4>3. \A j \in Keys : t \in Range(Queue(j)) => j = k
        BY <2>5, <3>1, Zenon
      <4> HIDE DEF k
      <4> QED BY <3>1, <4>2, <4>3, Zenon
    <3>2. CASE context[t] # "lock"
      <4>1. context[t] = "cond_wait" /\ t \in CondWaiters
        BY <2>1, <2>7, <3>2, Zenon DEF Parked, CondWaiters
      <4>2. PICK c \in Conds : t \in Range(cond_queue[c])
        BY <2>1, <4>1, Zenon DEF CondLinks
      <4> DEFINE k == <<"cond_wait", c>>
      <4>3. k \in Keys /\ t \in Range(Queue(k)) /\ k[1] = "cond_wait"
        BY <2>3, <4>2, Zenon
      <4>4. \A j \in Keys : t \in Range(Queue(j)) => j = k
        <5>1. \A d \in Conds : t \in Range(cond_queue[d]) => d = c
          BY <2>1, <4>2, Zenon DEF CondLinks
        <5> QED BY <2>5, <4>1, <5>1, Zenon
      <4> HIDE DEF k
      <4> QED BY <4>1, <4>3, <4>4, Zenon
    <3> QED BY <3>1, <3>2, Zenon
  <2> QED BY <2>4, <2>6, <2>7, Zenon DEF BlockedInOneQueue, Keys, Queue
<1>2. CondInv => BlockedInOneQueue
  BY <1>1, Zenon
<1> QED BY <1>2, CondInvariant, PTL
=============================================================================
