-------------------------- MODULE ThreadSyncProofs --------------------------
(***************************************************************************)
(* What the parts promise in which threads neither start nor end, for any  *)
(* number of threads and either scheduling policy: locks granted in order  *)
(* and got back after a wait, the scheduler alone, and a semaphore with    *)
(* any initial value and any number of posts.                              *)
(***************************************************************************)
EXTENDS ThreadCondProofs, SchedulerSystem, ThreadSem

-----------------------------------------------------------------------------
(***************************************************************************)
(* The refinement.  The owner of a mutex is its only claimant.             *)
(***************************************************************************)
owners == [n \in Mutexes |-> Owner(n)]

LEMMA OwnerIsClaimant == OneOf({}) = NULL /\ \A t : OneOf({t}) = t
BY Zenon DEF OneOf

\* Owners where the claims stand as they did.
LEMMA SameOwners ==
  ASSUME \A n \in Mutexes : Claimants(n)' = Claimants(n)
  PROVE  UNCHANGED owners
BY Zenon DEF Owner, owners

\* And where only the claims to m change.
LEMMA NewOwner ==
  ASSUME NEW m \in Mutexes, NEW t, Claimants(m)' = {t} \/ (Claimants(m)' = {} /\ t = NULL),
         \A n \in Mutexes \ {m} : Claimants(n)' = Claimants(n)
  PROVE  owners' = [owners EXCEPT ![m] = t]
<1>1. Owner(m)' = t /\ \A n \in Mutexes \ {m} : Owner(n)' = Owner(n)
  BY OwnerIsClaimant, Zenon DEF Owner
<1> QED BY <1>1, Zenon DEF owners

LEMMA OwnerFacts ==
  ASSUME MutexInv, NEW m \in Mutexes
  PROVE  /\ Claimants(m) = {} => owners[m] = NULL
         /\ Claimants(m) # {} => owners[m] # NULL
         /\ \A t : Claimants(m) = {t} => owners[m] = t
<1>1. owners[m] = OneOf(Claimants(m))
  BY Zenon DEF owners, Owner
<1>2. Claimants(m) # {} => OneOf(Claimants(m)) # NULL
  BY MutexFacts, SchedulerAssumption, Zenon DEF OneOf
<1> QED BY <1>1, <1>2, OwnerIsClaimant, Zenon

\* A free mutex is taken.
LEMMA AcquireStep ==
  ASSUME MutexInv, NEW m \in Mutexes, NEW t \in Threads, Claimants(m) = {}, Claimants(m)' = {t},
         \A n \in Mutexes \ {m} : Claimants(n)' = Claimants(n), UNCHANGED mutex_queue
  PROVE  Lock!LockNext
<1>1. mutex_queue[m] = <<>>
  BY Zenon DEF MutexInv, LockedIsClaimed
<1>2. owners[m] = NULL /\ owners' = [owners EXCEPT ![m] = t]
  BY OwnerFacts, NewOwner, Zenon
<1>3. Lock!Acquire(t, m)
  BY <1>1, <1>2, Zenon DEF Lock!Acquire, owners
<1> QED BY <1>3, Zenon DEF Lock!LockNext

\* A thread lines up for one that is held.
LEMMA ArriveStep ==
  ASSUME MutexInv, NEW m \in Mutexes, NEW t \in Threads, ParkOn(m), t = current_thread,
         \A n \in Mutexes : Claimants(n)' = Claimants(n)
  PROVE  Lock!LockNext
<1>1. locked[m] = 1 /\ mutex_queue' = [mutex_queue EXCEPT ![m] = Append(@, t)]
  BY Zenon DEF ParkOn
<1>2. UNCHANGED owners
  BY SameOwners, Zenon
<1>3. Claimants(m) # {}
  BY <1>1, Zenon DEF MutexInv, LockedIsClaimed
<1>4. owners[m] # NULL
  BY <1>3, OwnerFacts, Zenon
<1>5. \A n \in Mutexes : t \notin Range(mutex_queue[n])
  BY MutexFacts, Zenon
<1>6. Lock!Arrive(t, m)
  BY <1>1, <1>2, <1>4, <1>5, Zenon DEF Lock!Arrive, Lock!Range, Range, owners
<1> QED BY <1>6, Zenon DEF Lock!LockNext

\* A thread gives up the mutex it owns.
LEMMA ReleaseStep ==
  ASSUME MutexInv, NEW m \in Mutexes, ReleaseClaims(m)
  PROVE  Lock!LockNext
<1>1. owners[m] # NULL
  <2>1. Claimants(m) # {}
    BY Zenon DEF ReleaseClaims
  <2> QED BY <2>1, OwnerFacts, Zenon
<1>2. CASE mutex_queue[m] = <<>>
  <2>1. owners' = [owners EXCEPT ![m] = NULL] /\ UNCHANGED mutex_queue
    BY <1>2, NewOwner, Zenon DEF ReleaseClaims
  <2>2. Lock!Release(m)
    BY <1>1, <1>2, <2>1, Zenon DEF Lock!Release, owners
  <2> QED BY <2>2, Zenon DEF Lock!LockNext
<1>3. CASE mutex_queue[m] # <<>>
  <2>1. PICK w : w = Head(mutex_queue[m])
    OBVIOUS
  <2>2. Claimants(m)' = {w} /\ \A n \in Mutexes \ {m} : Claimants(n)' = Claimants(n)
    BY <1>3, <2>1, Zenon DEF ReleaseClaims
  <2>3. owners' = [owners EXCEPT ![m] = w]
    BY <2>2, NewOwner, Zenon
  <2>4. mutex_queue' = [mutex_queue EXCEPT ![m] = Tail(@)]
    BY <1>3, Zenon DEF ReleaseClaims
  <2>5. Lock!Release(m)
    BY <1>1, <1>3, <2>1, <2>3, <2>4, Zenon DEF Lock!Release, owners
  <2> QED BY <2>5 DEF Lock!LockNext
<1> QED BY <1>2, <1>3, Zenon

\* The owner lets the first waiter in.
LEMMA GiveWayStep ==
  ASSUME MutexInv, NEW m \in Mutexes, GivesWay(m)
  PROVE  Lock!LockNext
<1>1. PICK w : w = Head(mutex_queue[m])
  OBVIOUS
<1>2. PICK t : t = current_thread
  OBVIOUS
<1>3. /\ Claimants(m) = {t} /\ Claimants(m)' = {w} /\ mutex_queue[m] # <<>>
      /\ \A n \in Mutexes \ {m} : Claimants(n)' = Claimants(n)
      /\ mutex_queue' = [mutex_queue EXCEPT ![m] = Append(Tail(@), t)]
  BY <1>1, <1>2, Zenon DEF GivesWay
<1>4. owners[m] = t /\ owners[m] # NULL
  BY <1>3, OwnerFacts, Zenon
<1>5. owners' = [owners EXCEPT ![m] = w]
  BY <1>3, NewOwner, Zenon
<1>6. Lock!GiveWay(m)
  BY <1>1, <1>3, <1>4, <1>5, Zenon DEF Lock!GiveWay, owners
<1> QED BY <1>6, Zenon DEF Lock!LockNext

\* Every step is a step of the FIFO locks or leaves their owners and queues
\* alone.
LEMMA LockStep ==
  ASSUME CondInv, [CondNext]_cond_vars
  PROVE  Lock!LockNext \/ UNCHANGED <<owners, mutex_queue>>
<1>1. MutexInv
  BY Zenon DEF CondInv
<1>2. PICK t \in Threads : t = current_thread
  BY <1>1, MutexFacts, Zenon
<1>3. ASSUME UNCHANGED mutex_queue, \A n \in Mutexes : Claimants(n)' = Claimants(n)
      PROVE  UNCHANGED <<owners, mutex_queue>>
  BY <1>3, SameOwners, Zenon
<1>4. ASSUME NEW m \in Mutexes, mutex_init(m) \/ thread_mutex_destroy(m)
      PROVE  UNCHANGED <<owners, mutex_queue>>
  BY <1>1, <1>3, <1>4, InitDestroyInv, Zenon
<1>5. ASSUME NEW m \in Mutexes, lock_free(m) PROVE Lock!LockNext
  BY <1>1, <1>2, <1>5, LockFreeInv, AcquireStep, Zenon
<1>6. CASE relock_free
  <2>1. PICK m \in Mutexes : /\ Claimants(m) = {} /\ Claimants(m)' = {current_thread}
                             /\ \A n \in Mutexes \ {m} : Claimants(n)' = Claimants(n)
                             /\ UNCHANGED mutex_queue
    BY <1>1, <1>6, RelockFreeInv, Zenon
  <2>2. Lock!LockNext
    BY <1>1, <1>2, <2>1, AcquireStep, Zenon
  <2> QED BY <2>2, Zenon
<1>7. ASSUME NEW m \in Mutexes, lock_block(m) PROVE Lock!LockNext
  <2>1. ParkOn(m) /\ \A n \in Mutexes : Claimants(n)' = Claimants(n)
    BY <1>1, <1>7, ParkInv, Zenon DEF lock_block, RunsAt
  <2> QED BY <1>1, <1>2, <2>1, ArriveStep, Zenon
<1>8. CASE relock_block
  <2>1. PICK m \in Mutexes : m = mutex_arg[current_thread]
    BY <1>1, <1>8, MutexFacts, Zenon DEF relock_block, RunsAt, MutexInv, CallsOK
  <2>2. ParkOn(m) /\ UNCHANGED <<locked, holds>> /\ context[current_thread] = "cond_wait"
    BY <1>8, <2>1, Zenon DEF relock_block, RunsAt
  <2>3. current_thread \notin holds[m]
    BY <1>1, <2>1, <2>2, Zenon DEF MutexInv, NoneWaitsForItsOwn
  <2>4. \A n \in Mutexes : Claimants(n)' = Claimants(n)
    BY <1>1, <2>2, <2>3, ParkInv, Zenon
  <2> QED BY <1>1, <1>2, <2>2, <2>4, ArriveStep, Zenon
<1>9. ASSUME NEW m \in Mutexes, thread_mutex_unlock(m) \/ \E cv \in Conds : wait_block(cv, m)
      PROVE  Lock!LockNext
  BY <1>1, <1>9, UnlockInv, WaitBlockInv, ReleaseStep, Zenon
<1>10. ASSUME NEW m \in Mutexes, wait_refused(m)
       PROVE  Lock!LockNext \/ UNCHANGED <<owners, mutex_queue>>
  BY <1>1, <1>3, <1>10, WaitKeepsInv, WaitGivesWayInv, GiveWayStep, Zenon
<1>11. CASE lock_return \/ mutex_yield \/ mutex_yield_to \/ relock_failed
  BY <1>1, <1>3, <1>11, LockReturnInv, YieldsInv, RelockFailedInv, Zenon
<1>12. ASSUME NEW cv \in Conds, thread_cond_signal(cv) \/ thread_cond_broadcast(cv)
       PROVE  UNCHANGED <<owners, mutex_queue>>
  BY <1>3, <1>12, WakeInv, Zenon
<1>13. CASE UNCHANGED cond_vars
  BY <1>13, Zenon DEF cond_vars, sched_vars, mutex_vars, owners, Owner, Claimants
<1>14. CASE MutexNext
  BY <1>4, <1>5, <1>7, <1>9, <1>11, <1>14, Zenon DEF MutexNext
<1> QED BY <1>6, <1>8, <1>9, <1>10, <1>11, <1>12, <1>13, <1>14, Zenon DEF CondNext, Relock

(* thread_mutex.c and thread_cond.c implement locks that are granted in    *)
(* the order of arrival, however their calls interleave with yields,       *)
(* wake-ups, destructions and reinitialisations.                           *)
THEOREM CondRefinement == CondSpec => ImplementsFifoLock
<1>1. CondInit => Lock!LockInit
  <2>1. ASSUME CondInit, NEW m \in Mutexes
        PROVE  Owner(m) = NULL
    <3>1. Claimants(m) = {}
      BY <2>1, Zenon DEF CondInit, MutexInit, Claimants
    <3> QED BY <3>1, OwnerIsClaimant, Zenon DEF Owner
  <2> QED BY <2>1, Zenon DEF CondInit, MutexInit, Lock!LockInit
<1>2. CondInv /\ [CondNext]_cond_vars => [Lock!LockNext]_(Lock!lock_vars)
  BY LockStep, Zenon DEF owners, Lock!lock_vars
<1> QED BY <1>1, <1>2, CondInvariant, PTL DEF CondSpec, ImplementsFifoLock, Lock!LockSpec

-----------------------------------------------------------------------------
(***************************************************************************)
(* With a client that destroys no mutex in use, nobody has to do with a    *)
(* destroyed mutex.                                                        *)
(***************************************************************************)
Unused(m) == holds[m] = {} /\ \A t \in Threads : mutex_arg[t] # m

CarefulInv == \A m \in Mutexes : locked[m] = -1 => Unused(m)

\* A mutex that is not the one a step is about stays unused.
LEMMA StaysUnused ==
  ASSUME MutexTypeOK, NEW m \in Mutexes, NEW n, n # m, Unused(m),
         \/ UNCHANGED holds
         \/ \E S : holds' = [holds EXCEPT ![n] = S],
         \/ UNCHANGED mutex_arg
         \/ \E t \in Threads, a \in {n, NULL} : mutex_arg' = [mutex_arg EXCEPT ![t] = a]
  PROVE  Unused(m)'
<1>1. /\ holds \in [Mutexes -> SUBSET Threads] /\ mutex_arg \in [Threads -> Mutexes \cup {NULL}]
      /\ NULL # m
  BY MutexAssumption, Zenon DEF MutexTypeOK
<1>2. holds'[m] = {}
  BY <1>1, Zenon DEF Unused
<1>3. \A t \in Threads : mutex_arg'[t] # m
  BY <1>1, Zenon DEF Unused
<1> QED BY <1>2, <1>3, Zenon DEF Unused

LEMMA CarefulStep ==
  ASSUME MutexInv, CarefulInv, [CondNext /\ Careful]_cond_vars
  PROVE  CarefulInv'
<1> SUFFICES ASSUME NEW m \in Mutexes, locked'[m] = -1
             PROVE  Unused(m)'
  BY Zenon DEF CarefulInv
<1>1. Unused(m)
  <2>1. CASE locked[m] = -1
    BY <2>1, Zenon DEF CarefulInv
  <2>2. CASE locked[m] # -1
    BY <2>2, Zenon DEF Careful, Unused, cond_vars, mutex_vars
  <2> QED BY <2>1, <2>2, Zenon
<1>2. PICK t \in Threads : t = current_thread
  BY MutexFacts, Zenon
<1>3. /\ MutexTypeOK /\ locked \in [Mutexes -> {-1, 0, 1}] /\ holds[m] = {} /\ mutex_arg[t] # m
  BY <1>1, Zenon DEF MutexInv, MutexTypeOK, Unused
<1>4. ASSUME UNCHANGED <<mutex_arg, holds>> PROVE Unused(m)'
  BY <1>1, <1>4, Zenon DEF Unused
<1>5. ASSUME NEW n \in Mutexes, lock_free(n) PROVE Unused(m)'
  <2>1. n # m /\ UNCHANGED mutex_arg /\ holds' = [holds EXCEPT ![n] = holds[n] \cup {t}]
    BY <1>2, <1>3, <1>5 DEF lock_free
  <2> QED BY <1>1, <1>3, <2>1, StaysUnused, Zenon
<1>6. ASSUME NEW n \in Mutexes \cup {NULL}, locked[n] = 1 \/ n # m, UNCHANGED <<locked, holds>>,
             mutex_arg' = [mutex_arg EXCEPT ![t] = n]
      PROVE  Unused(m)'
  <2>1. n # m
    BY <1>6
  <2> QED BY <1>1, <1>3, <1>6, <2>1, StaysUnused, Zenon
<1>7. ASSUME NEW n \in Mutexes, thread_mutex_unlock(n) PROVE Unused(m)'
  <2>1. n # m /\ UNCHANGED mutex_arg /\ holds' = [holds EXCEPT ![n] = holds[n] \ {t}]
    BY <1>2, <1>3, <1>7, Zenon DEF thread_mutex_unlock
  <2> QED BY <1>1, <1>3, <2>1, StaysUnused, Zenon
<1>8. ASSUME NEW n \in Mutexes, wait_refused(n) \/ \E c \in Conds : wait_block(c, n)
      PROVE  Unused(m)'
  <2>1. /\ n # m
        /\ \/ UNCHANGED <<mutex_arg, holds>>
           \/ /\ mutex_arg' = [mutex_arg EXCEPT ![t] = n]
              /\ holds' = [holds EXCEPT ![n] = holds[n] \ {t}]
    BY <1>2, <1>3, <1>8, Zenon DEF wait_refused, wait_block
  <2> QED BY <1>1, <1>3, <2>1, StaysUnused, Zenon
<1>9. CASE lock_return \/ relock_free
  <2>1. PICK n : n = mutex_arg[t]
    OBVIOUS
  <2>2. /\ n # m /\ mutex_arg' = [mutex_arg EXCEPT ![t] = NULL]
        /\ holds' = [holds EXCEPT ![n] = holds[n] \cup {t}]
    BY <1>2, <1>3, <1>9, <2>1, Zenon DEF lock_return, relock_free
  <2> QED BY <1>1, <1>3, <2>2, StaysUnused, Zenon
<1>10. CASE relock_block
  <2>1. PICK n \in Mutexes : n = mutex_arg[t]
    BY <1>2, <1>10, Zenon DEF relock_block, RunsAt, MutexInv, CallsOK
  <2>2. locked[n] = 1 /\ mutex_arg' = [mutex_arg EXCEPT ![t] = n] /\ UNCHANGED <<locked, holds>>
    BY <1>2, <1>10, <2>1, Zenon DEF relock_block, ParkOn
  <2> QED BY <1>6, <2>2, Zenon
<1>11. CASE relock_failed
  <2>1. NULL # m /\ mutex_arg' = [mutex_arg EXCEPT ![t] = NULL] /\ UNCHANGED <<locked, holds>>
    BY <1>2, <1>11, MutexAssumption, Zenon DEF relock_failed
  <2> QED BY <1>6, <2>1, Zenon
<1>12. ASSUME NEW n \in Mutexes, lock_block(n) PROVE Unused(m)'
  BY <1>2, <1>6, <1>12, Zenon DEF lock_block, ParkOn
<1>13. ASSUME NEW n \in Mutexes, mutex_init(n) \/ thread_mutex_destroy(n) PROVE Unused(m)'
  BY <1>4, <1>13, Zenon DEF mutex_init, thread_mutex_destroy
<1>14. CASE mutex_yield \/ mutex_yield_to
  BY <1>4, <1>14, Zenon DEF mutex_yield, mutex_yield_to, mutex_vars
<1>15. ASSUME NEW c \in Conds, thread_cond_signal(c) \/ thread_cond_broadcast(c) PROVE Unused(m)'
  BY <1>4, <1>15, Zenon DEF thread_cond_signal, thread_cond_broadcast, mutex_vars
<1>16. CASE UNCHANGED cond_vars
  BY <1>4, <1>16, Zenon DEF cond_vars, mutex_vars
<1>17. CASE MutexNext
  BY <1>5, <1>7, <1>9, <1>12, <1>13, <1>14, <1>17, Zenon DEF MutexNext
<1> QED BY <1>8, <1>9, <1>10, <1>11, <1>15, <1>16, <1>17, Zenon DEF CondNext, Relock

(* Nobody holds, is promised, or waits to get back a mutex that a careful  *)
(* client has destroyed.                                                   *)
THEOREM CarefulInvariant == CarefulSpec => [](CondInv /\ CarefulInv)
<1>1. CondInit => CarefulInv
  BY DEF CondInit, MutexInit, CarefulInv
<1>2. [CondNext /\ Careful]_cond_vars => [CondNext]_cond_vars
  BY Zenon
<1>3. CondInv /\ CarefulInv /\ [CondNext /\ Careful]_cond_vars => CarefulInv'
  BY CarefulStep, Zenon DEF CondInv
<1> QED BY <1>1, <1>2, <1>3, CondInvariant, PTL DEF CondSpec, CarefulSpec

\* A call of thread_cond_wait ends when its thread runs and locks the mutex.
LEMMA WaitEnds ==
  ASSUME MutexInv, [CondNext]_cond_vars, NEW t \in Threads,
         context[t] = "cond_wait", context'[t] = "user"
  PROVE  t = current_thread /\ (relock_free \/ relock_failed)
<1>1. /\ context \in [Threads -> {"user", "lock", "cond_wait"}] /\ current_thread \in Threads
      /\ context' # context
  BY MutexFacts, Zenon DEF MutexInv, CallsOK
<1>2. ~ lock_return /\ ~ mutex_yield /\ ~ mutex_yield_to
  BY <1>1, Zenon DEF lock_return, mutex_yield, mutex_yield_to, thread_yield, thread_yield_to, SwitchTo, RunsAt
<1>3. \A m \in Mutexes : ~ mutex_init(m) /\ ~ thread_mutex_destroy(m) /\ ~ lock_free(m)
                         /\ ~ thread_mutex_unlock(m)
  BY <1>1, Zenon DEF mutex_init, thread_mutex_destroy, lock_free, thread_mutex_unlock, sched_vars
<1>4. \A m \in Mutexes : ~ ParkOn(m)
  BY <1>1, Zenon DEF ParkOn, BlockAndSwitch
<1>5. \A m \in Mutexes : ~ wait_refused(m) /\ \A c \in Conds : ~ wait_block(c, m)
  BY <1>1, Zenon DEF wait_refused, wait_block, sched_vars
<1>6. \A c \in Conds : ~ thread_cond_signal(c) /\ ~ thread_cond_broadcast(c)
  BY <1>1, Zenon DEF thread_cond_signal, thread_cond_broadcast
<1>7. ~ relock_block
  BY <1>1, <1>4, Zenon DEF relock_block, RunsAt, MutexInv, CallsOK
<1>8. ~ MutexNext
  BY <1>2, <1>3, <1>4, Zenon DEF MutexNext, lock_block
<1>9. relock_free \/ relock_failed
  BY <1>1, <1>5, <1>6, <1>7, <1>8, Zenon DEF CondNext, Relock, cond_vars, sched_vars
<1>10. t = current_thread
  BY <1>1, <1>9, Zenon DEF relock_free, relock_failed
<1> QED BY <1>9, <1>10, Zenon

\* With a single mutex, a thread can run whenever it is held: the lock call
\* of the woken waiter does not fail.
LEMMA RelockSucceeds ==
  ASSUME NEW m, Mutexes = {m}, MutexInv, CarefulInv
  PROVE  ~ relock_failed
<1> SUFFICES ASSUME relock_failed PROVE FALSE
  OBVIOUS
<1>1. PICK t \in Threads : t = current_thread
  BY MutexFacts, Zenon
<1>2. context[t] = "cond_wait" /\ mutex_arg[t] = m
  BY <1>1, Zenon DEF relock_failed, RunsAt, MutexInv, CallsOK
<1>3. locked[m] = 1 /\ ready_queue = <<>>
  BY <1>1, <1>2, Zenon DEF relock_failed, CarefulInv, Unused
<1>4. PICK u : u \in Claimants(m)
  BY <1>3, Zenon DEF MutexInv, LockedIsClaimed
<1>5. t \notin holds[m] /\ u # t /\ u \in Threads
  BY <1>2, <1>4, MutexFacts, Zenon DEF MutexInv, NoneWaitsForItsOwn, Claimants
<1>6. Range(ready_queue) = {}
  BY <1>3 DEF Range
<1>7. state[u] # "RUNNING" /\ state[u] # "READY"
  BY <1>1, <1>5, <1>6, Zenon DEF MutexInv, Runnable
<1>8. /\ Parked(u) /\ (context[u] # "user" => mutex_arg[u] = m)
      /\ (u \in holds[m] /\ context[u] # "user" => mutex_arg[u] # m)
  BY <1>5 DEF MutexInv, CallsOK, NoneWaitsForItsOwn
<1> QED BY <1>4, <1>7, <1>8, Zenon DEF Parked, Claimants

(* "The mutex is reacquired before returning" (thread_cond.h:17): with a   *)
(* single mutex that is not destroyed while it is in use, thread_cond_wait *)
(* never returns without it, for any number of threads and conditions.     *)
THEOREM CondReacquires ==
  ASSUME NEW CONSTANT m, Mutexes = {m}
  PROVE  CarefulSpec => CondWaitReacquires
<1> DEFINE Kept == \A t \in Threads : context[t] = "cond_wait" /\ context'[t] = "user"
                                        => t \in holds'[mutex_arg[t]]
<1>1. ASSUME CondInv, CarefulInv, [CondNext /\ Careful]_cond_vars PROVE [Kept]_cond_vars
  <2> SUFFICES ASSUME NEW t \in Threads, context[t] = "cond_wait", context'[t] = "user"
               PROVE  t \in holds'[mutex_arg[t]]
    BY Zenon
  <2>1. MutexInv /\ [CondNext]_cond_vars
    BY <1>1, Zenon DEF CondInv
  <2>2. t = current_thread /\ relock_free
    BY <1>1, <2>1, WaitEnds, RelockSucceeds, Zenon
  <2>3. mutex_arg[t] \in Mutexes /\ holds \in [Mutexes -> SUBSET Threads]
    BY <2>1, Zenon DEF MutexInv, CallsOK, MutexTypeOK
  <2> QED BY <2>2, <2>3, Zenon DEF relock_free
<1> QED BY <1>1, CarefulInvariant, PTL DEF CarefulSpec, CondWaitReacquires

-----------------------------------------------------------------------------
(***************************************************************************)
(* The scheduler alone.  No thread is ever lost: the queue and the CPU     *)
(* hold all of them, so a READY thread is in the queue, as yield_to and    *)
(* set_priority take for granted.                                          *)
(***************************************************************************)
SystemInv ==
  /\ TypeOK
  /\ CpuOK
  /\ Range(ready_queue) \cup {current_thread} = Threads
  /\ QueueSorted

\* main has the CPU, and the others wait in an order of their creation.
LEMMA SystemInitInv ==
  ASSUME Init
  PROVE  SystemInv
<1>1. Cardinality(Threads \ {main_thread}) \in Nat
  BY SystemAssumption, FS_Subset, FS_CardinalityType, Zenon
<1>2. /\ ready_queue \in Seq(Threads \ {main_thread}) /\ IsInjective(ready_queue)
      /\ Range(ready_queue) = Threads \ {main_thread}
  BY <1>1, OrdersType, Zenon DEF Init
<1>3. ready_queue \in Seq(Threads) /\ \A i \in 1..Len(ready_queue) : ready_queue[i] \in Threads
  BY <1>2
<1>4. TypeOK /\ CpuOK /\ Range(ready_queue) \cup {current_thread} = Threads
  BY <1>2, <1>3, SchedulerAssumption DEF Init, TypeOK, SchedTypeOK, CpuOK, States, Priorities
<1>5. QueueSorted
  <2>1. \A i \in 1..Len(ready_queue) : priority[ready_queue[i]] = THREAD_DEFAULT_PRIORITY
    BY <1>3, Zenon DEF Init
  <2> QED BY <2>1, SchedulerAssumption DEF QueueSorted, Sorted
<1> QED BY <1>4, <1>5, Zenon DEF SystemInv

\* Each call hands the CPU over or keeps it, and keeps the queue sorted.
LEMMA SystemStepInv ==
  ASSUME SystemInv, [Next]_sched_vars
  PROVE  SystemInv'
<1>1. /\ SchedTypeOK /\ CpuOK /\ QueueSorted /\ context \in [Threads -> {"user"}]
      /\ current_thread \in Threads
      /\ Range(ready_queue) \cup {current_thread} = Threads
      /\ \A t \in Threads : state[t] = "READY" => t \in Range(ready_queue)
  BY DEF SystemInv, TypeOK, SchedTypeOK, CpuOK
<1>2. SUFFICES SchedTypeOK' /\ Handover /\ QueueSorted' /\ context' \in [Threads -> {"user"}]
  BY <1>1 DEF SystemInv, TypeOK, Handover
<1>3. CASE Yield
  <2>1. SchedTypeOK' /\ Handover /\ QueueSorted'
    BY <1>1, <1>3, YieldHandover, YieldSorted, Zenon DEF Yield
  <2>2. context' \in [Threads -> {"user"}]
    BY <1>1, <1>3, Zenon DEF Yield, thread_yield
  <2> QED BY <2>1, <2>2, Zenon
<1>4. CASE YieldTo
  <2>1. PICK t \in Threads : thread_yield_to(t)
    BY <1>4 DEF YieldTo
  <2>2. SchedTypeOK' /\ Handover /\ QueueSorted'
    BY <1>1, <2>1, YieldToHandover, YieldToSorted, Zenon
  <2>3. context' \in [Threads -> {"user"}]
    BY <1>1, <2>1, Zenon DEF thread_yield_to, thread_yield, SwitchTo
  <2> QED BY <2>2, <2>3, Zenon
<1>5. CASE SetPriority
  <2>1. PICK t \in Threads, p \in Int : thread_set_priority(t, p)
    BY <1>5, SchedulerAssumption DEF SetPriority
  <2>2. SchedTypeOK' /\ Handover /\ QueueSorted'
    BY <1>1, <2>1, SetPriorityHandover, SetPrioritySorted, Zenon
  <2>3. context' \in [Threads -> {"user"}]
    BY <1>1, <2>1, Zenon DEF thread_set_priority, SwitchTo
  <2> QED BY <2>2, <2>3, Zenon
<1>6. CASE UNCHANGED sched_vars
  BY <1>1, <1>6, Zenon DEF sched_vars, SchedTypeOK, CpuOK, Handover, QueueSorted, Sorted
<1> QED BY <1>3, <1>4, <1>5, <1>6, Zenon DEF Next

(* The scheduler keeps its whole invariant, for any number of threads and  *)
(* any limits and steps of the priorities (scheduler.c:39-239).            *)
THEOREM SystemInvariant == Spec => []SystemInv
BY SystemInitInv, SystemStepInv, PTL DEF Spec

(* Priorities stay inside their limits and states and queues well-formed,  *)
(* whatever the client passes to thread_set_priority (scheduler.c:201-239).*)
THEOREM SystemTypeOK == Spec => []TypeOK
<1>1. SystemInv => TypeOK
  BY DEF SystemInv
<1> QED BY <1>1, SystemInvariant, PTL

(* The ready queue is sorted by decreasing priority at every moment, so    *)
(* taking the head is taking a thread of the highest priority              *)
(* (scheduler.c:65-72).                                                    *)
THEOREM SystemQueueSorted == Spec => []QueueSorted
<1>1. SystemInv => QueueSorted
  BY DEF SystemInv
<1> QED BY <1>1, SystemInvariant, PTL

\* The head of a sorted queue outranks the rest.
LEMMA HeadIsHighest ==
  ASSUME NEW q \in Seq(Threads), q # <<>>, NEW prio \in [Threads -> Int], Sorted(q, prio)
  PROVE  \A t \in Range(q) : prio[t] <= prio[Head(q)]
<1> SUFFICES ASSUME NEW t \in Range(q) PROVE prio[t] <= prio[Head(q)]
  OBVIOUS
<1>1. PICK i \in 1..Len(q) : q[i] = t
  BY DEF Range
<1>2. 1 \in 1..Len(q) /\ Head(q) = q[1] /\ prio[q[1]] \in Int /\ prio[t] \in Int
  BY <1>1
<1>3. CASE i = 1
  BY <1>1, <1>2, <1>3
<1>4. CASE 1 < i
  BY <1>1, <1>2, <1>4, Zenon DEF Sorted
<1> QED BY <1>1, <1>3, <1>4

(* After a yield no ready thread outranks the thread that runs, although   *)
(* the yield has changed the priorities of all of them                     *)
(* (scheduler.c:88-142).                                                   *)
THEOREM SystemYieldRunsHighest == Spec => YieldRunsHighest
<1>1. ASSUME SystemInv, Yield, PRIO, NEW t \in Range(ready_queue')
      PROVE  priority'[t] <= priority'[current_thread']
  <2> DEFINE next == Head(ready_queue)
             rest == Tail(ready_queue)
  <2>1. SchedTypeOK /\ ready_queue \in Seq(Threads) /\ current_thread \in Threads
    BY <1>1, Zenon DEF SystemInv, TypeOK, SchedTypeOK
  <2>2. Aged \in [Threads -> Int] /\ Sorted(ready_queue, Aged) /\ priority' = Aged
    BY <1>1, <2>1, AgedType, AgedSorted, PrioritiesInt, Zenon
       DEF SystemInv, QueueSorted, Yield, thread_yield
  <2>3. CASE ready_queue = <<>>
    <3>1. ready_queue' = <<>>
      BY <1>1, <2>3, Zenon DEF Yield, thread_yield
    <3> QED BY <1>1, <3>1 DEF Range
  <2>4. CASE ready_queue # <<>>
    <3>1. /\ next \in Threads /\ rest \in Seq(Threads)
          /\ \A u \in Range(rest) \cup {next} : u \in Threads /\ Aged[u] <= Aged[next]
      BY <2>1, <2>2, <2>4, HeadTailRange, HeadIsHighest, RangeOfSeq, ZenonT(30)
    <3>2. Aged[next] \in Int /\ Aged[current_thread] \in Int
      BY <2>1, <2>2, <3>1, Zenon
    <3>3. CASE Aged[next] <= Aged[current_thread]
      <4>1. current_thread' = current_thread /\ ready_queue' = thread_scheduler_enqueue(rest, next, Aged)
        BY <1>1, <2>4, <3>3, Zenon DEF Yield, thread_yield
      <4>2. t \in Threads /\ Aged[t] <= Aged[next]
        BY <1>1, <3>1, <4>1, EnqueueRange, Zenon
      <4> QED BY <2>2, <3>2, <3>3, <4>1, <4>2
    <3>4. CASE Aged[next] > Aged[current_thread]
      <4>1. current_thread' = next /\ ready_queue' = thread_scheduler_enqueue(rest, current_thread, Aged)
        BY <1>1, <2>4, <3>2, <3>4 DEF Yield, thread_yield, swap_thread
      <4>2. t \in Range(rest) \cup {current_thread}
        BY <1>1, <2>1, <3>1, <4>1, EnqueueRange, Zenon
      <4> QED BY <2>2, <3>1, <3>2, <3>4, <4>1, <4>2
    <3> QED BY <3>2, <3>3, <3>4
  <2> QED BY <2>3, <2>4, Zenon
<1>2. SystemInv => (Yield /\ PRIO => \A t \in Range(ready_queue') : priority'[t] <= priority'[current_thread'])
  BY <1>1, Zenon
<1> QED BY <1>2, SystemInvariant, PTL DEF YieldRunsHighest, Spec
-----------------------------------------------------------------------------
(***************************************************************************)
(* The inductive invariant.  That no unit is lost needs that exactly the   *)
(* blocked threads are queued: the thread that returns from a wait is then *)
(* one that a post has chosen.                                             *)
(***************************************************************************)
SemInv ==
  /\ SemTypeOK
  /\ Runnable(Threads)
  /\ SemBlockedIsQueued
  /\ NoIdleUnit
  /\ UnitsConserved

\* What the steps use of the invariant.
LEMMA SemFacts ==
  ASSUME SemInv
  PROVE  /\ SchedTypeOK /\ CpuOK
         /\ current_thread \in Threads /\ current_thread \notin Range(sem_queue)
         /\ Range(sem_queue) \subseteq Threads /\ Range(ready_queue) \subseteq Threads
         /\ Range(ready_queue) \cap Range(sem_queue) = {}
<1>1. SchedTypeOK /\ sem_queue \in Seq(Threads) /\ Runnable(Threads) /\ SemBlockedIsQueued
  BY DEF SemInv, SemTypeOK
<1>2. CpuOK /\ current_thread \in Threads
  BY <1>1, Zenon DEF CpuOK, Runnable
<1>3. Range(sem_queue) \subseteq Threads /\ Range(ready_queue) \subseteq Threads
  BY <1>1, RangeOfSeq, Zenon DEF SchedTypeOK
<1>4. current_thread \notin Range(sem_queue) /\ Range(ready_queue) \cap Range(sem_queue) = {}
  BY <1>1, <1>3, Zenon DEF Runnable, SemBlockedIsQueued
<1> QED BY <1>1, <1>2, <1>3, <1>4, Zenon

\* The revived waiters are finitely many.
LEMMA RevivedFinite == IsFiniteSet(Revived) /\ Cardinality(Revived) \in Nat
<1>1. Revived \in SUBSET Threads
  BY DEF Revived
<1>2. IsFiniteSet(Revived)
  BY <1>1, SemAssumption, FS_Subset, Zenon
<1> QED BY <1>2, FS_CardinalityType, Zenon

-----------------------------------------------------------------------------
\* thread_sem_wait that finds a unit.
LEMMA TakeInv ==
  ASSUME SemInv, sem_wait_take
  PROVE  SemInv'
<1>1. /\ count > 0 /\ count' = count - 1 /\ taken' = taken + 1
      /\ UNCHANGED <<current_thread, state, ready_queue, priority, context, sem_queue, given>>
  BY DEF sem_wait_take, sched_vars
<1>2. /\ SemTypeOK /\ Runnable(Threads) /\ SemBlockedIsQueued /\ NoIdleUnit /\ UnitsConserved
  BY Zenon DEF SemInv
<1>3. SemTypeOK' /\ Runnable(Threads)' /\ SemBlockedIsQueued'
  <2>1. count' \in Nat /\ taken' \in Nat
    BY <1>1, <1>2 DEF SemTypeOK
  <2> QED BY <1>1, <1>2, <2>1, Zenon DEF SemTypeOK, SchedTypeOK, Runnable, SemBlockedIsQueued
<1>4. NoIdleUnit'
  BY <1>1, <1>2 DEF NoIdleUnit, SemTypeOK
<1>5. UnitsConserved'
  <2>1. Revived' = Revived
    BY <1>1, Zenon DEF Revived
  <2> QED BY <1>1, <1>2, <2>1, RevivedFinite DEF UnitsConserved, SemTypeOK
<1> QED BY <1>3, <1>4, <1>5, Zenon DEF SemInv

\* thread_sem_wait that parks its caller.
LEMMA BlockInv ==
  ASSUME SemInv, sem_wait_block
  PROVE  SemInv'
<1> DEFINE c == current_thread
           next == Head(ready_queue)
<1>1. /\ context[c] = "user" /\ count <= 0 /\ ready_queue # <<>>
      /\ current_thread' = next
      /\ state' = [[state EXCEPT ![c] = "BLOCKED"] EXCEPT ![next] = "RUNNING"]
      /\ ready_queue' = Tail(ready_queue)
      /\ context' = [context EXCEPT ![c] = "sem_wait"]
      /\ sem_queue' = Append(sem_queue, c)
      /\ UNCHANGED <<priority, count, given, taken>>
  BY DEF sem_wait_block, RunsAt, BlockAndSwitch, swap_thread
<1>2. /\ SemTypeOK /\ Runnable(Threads) /\ SemBlockedIsQueued /\ NoIdleUnit /\ UnitsConserved
  BY DEF SemInv
<1>3. /\ CpuOK /\ c \in Threads /\ c \notin Range(sem_queue)
      /\ Range(sem_queue) \subseteq Threads /\ Range(ready_queue) \subseteq Threads
      /\ Range(ready_queue) \cap Range(sem_queue) = {}
  BY SemFacts, Zenon
<1>4. /\ next \in Threads /\ next \in Range(ready_queue) /\ ready_queue' \in Seq(Threads)
      /\ Range(ready_queue) = {next} \cup Range(ready_queue')
      /\ IsInjective(ready_queue') /\ next \notin Range(ready_queue')
  BY <1>1, <1>2, <1>3, HeadTailRange, Zenon DEF SemTypeOK, SchedTypeOK, CpuOK
<1>5. /\ sem_queue' \in Seq(Threads) /\ Range(sem_queue') = Range(sem_queue) \cup {c}
      /\ IsInjective(sem_queue')
  BY <1>1, <1>2, <1>3, AppendRange DEF SemTypeOK, SemBlockedIsQueued
<1>6. c # next
  BY <1>3, <1>4, Zenon DEF CpuOK
<1>7. /\ state' \in [Threads -> States] /\ state'[c] = "BLOCKED" /\ state'[next] = "RUNNING"
      /\ \A t \in Threads \ {c, next} : state'[t] = state[t]
      /\ context' \in [Threads -> {"user", "sem_wait"}] /\ context'[c] = "sem_wait"
      /\ \A t \in Threads \ {c} : context'[t] = context[t]
  BY <1>1, <1>2, <1>3, <1>4, <1>6, Zenon DEF SemTypeOK, SchedTypeOK, States
<1>8. current_thread' = next /\ UNCHANGED <<priority, count, given, taken>> /\ count <= 0
  BY <1>1, Zenon
<1> HIDE DEF c, next
<1>9. SemTypeOK'
  BY <1>2, <1>4, <1>5, <1>7, <1>8, Zenon DEF SemTypeOK, SchedTypeOK
<1>10. Runnable(Threads)'
  <2>1. /\ \A t \in Threads : state[t] = "RUNNING" <=> t = c
        /\ \A t \in Threads : state[t] = "READY" <=> t \in Range(ready_queue)
    BY <1>2, Zenon DEF Runnable, c
  <2> QED BY <1>3, <1>4, <1>6, <1>7, <1>8, <2>1, Zenon DEF Runnable
<1>11. SemBlockedIsQueued'
  <2>1. /\ \A t \in Threads : t \in Range(sem_queue) <=> state[t] = "BLOCKED"
        /\ \A t \in Range(sem_queue) : context[t] = "sem_wait"
    BY <1>2 DEF SemBlockedIsQueued
  <2> QED BY <1>3, <1>4, <1>5, <1>7, <2>1, Zenon DEF SemBlockedIsQueued
<1>12. NoIdleUnit'
  BY <1>2, <1>8 DEF NoIdleUnit, SemTypeOK
<1>13. UnitsConserved'
  <2>1. Revived' = Revived
    BY <1>1, <1>3, <1>5, <1>7, Zenon DEF Revived, c
  <2> QED BY <1>2, <1>8, <2>1, Zenon DEF UnitsConserved
<1> QED BY <1>9, <1>10, <1>11, <1>12, <1>13, Zenon DEF SemInv

\* thread_sem_wait that continues after a post chose its caller.
LEMMA ReturnInv ==
  ASSUME SemInv, sem_wait_return
  PROVE  SemInv'
<1> DEFINE c == current_thread
<1>1. /\ context[c] = "sem_wait" /\ context' = [context EXCEPT ![c] = "user"] /\ taken' = taken + 1
      /\ UNCHANGED <<current_thread, state, ready_queue, priority, count, sem_queue, given>>
  BY DEF sem_wait_return, RunsAt
<1>2. /\ SemTypeOK /\ Runnable(Threads) /\ SemBlockedIsQueued /\ NoIdleUnit /\ UnitsConserved
  BY DEF SemInv
<1>3. c \in Threads /\ c \notin Range(sem_queue)
  BY SemFacts, Zenon
<1>4. /\ context' \in [Threads -> {"user", "sem_wait"}] /\ context'[c] = "user"
      /\ \A t \in Threads \ {c} : context'[t] = context[t]
  BY <1>1, <1>2, <1>3, Zenon DEF SemTypeOK
<1>5. SemTypeOK' /\ Runnable(Threads)' /\ NoIdleUnit'
  <2>1. taken' \in Nat
    BY <1>1, <1>2 DEF SemTypeOK
  <2>2. SemTypeOK'
    BY <1>1, <1>2, <1>4, <2>1, Zenon DEF SemTypeOK, SchedTypeOK
  <2>3. Runnable(Threads)' /\ NoIdleUnit'
    BY <1>1, <1>2, Zenon DEF Runnable, NoIdleUnit
  <2> QED BY <2>2, <2>3, Zenon
<1>6. SemBlockedIsQueued'
  <2>1. Range(sem_queue) \subseteq Threads
    BY SemFacts, Zenon
  <2> QED BY <1>1, <1>2, <1>3, <1>4, <2>1, Zenon DEF SemBlockedIsQueued
<1>7. UnitsConserved'
  <2>1. c \in Revived /\ Revived' = Revived \ {c}
    BY <1>1, <1>3, <1>4, Zenon DEF Revived
  <2>2. Cardinality(Revived') = Cardinality(Revived) - 1
    BY <2>1, RevivedFinite, FS_RemoveElement, Zenon
  <2> QED BY <1>1, <1>2, <2>2, RevivedFinite DEF UnitsConserved, SemTypeOK
<1> QED BY <1>5, <1>6, <1>7, Zenon DEF SemInv

\* thread_sem_post: a waiter is chosen, or the unit is counted.
LEMMA PostInv ==
  ASSUME SemInv, thread_sem_post
  PROVE  SemInv'
<1> DEFINE w == Head(sem_queue)
<1>1. given' = given + 1 /\ UNCHANGED <<current_thread, priority, context, taken>>
  BY DEF thread_sem_post
<1>2. /\ SemTypeOK /\ Runnable(Threads) /\ SemBlockedIsQueued /\ NoIdleUnit /\ UnitsConserved
  BY DEF SemInv
<1>3. CASE sem_queue = <<>>
  <2>1. count' = count + 1 /\ UNCHANGED <<sem_queue, state, ready_queue>>
    BY <1>3, Zenon DEF thread_sem_post
  <2>2. SemTypeOK' /\ Runnable(Threads)' /\ SemBlockedIsQueued' /\ NoIdleUnit'
    <3>1. count' \in Nat /\ given' \in Nat
      BY <1>1, <1>2, <2>1 DEF SemTypeOK
    <3> QED BY <1>1, <1>2, <1>3, <2>1, <3>1, Zenon
            DEF SemTypeOK, SchedTypeOK, Runnable, SemBlockedIsQueued, NoIdleUnit
  <2>3. Revived' = Revived
    BY <1>1, <2>1, Zenon DEF Revived
  <2>4. UnitsConserved'
    BY <1>1, <1>2, <2>1, <2>3, RevivedFinite DEF UnitsConserved, SemTypeOK
  <2> QED BY <2>2, <2>4, Zenon DEF SemInv
<1>4. CASE sem_queue # <<>>
  <2>1. /\ sem_queue' = Tail(sem_queue)
        /\ state' = [state EXCEPT ![w] = "READY"]
        /\ ready_queue' = thread_scheduler_enqueue(ready_queue, w, priority)
        /\ count' = count
    BY <1>4, Zenon DEF thread_sem_post
  <2>2. /\ w \in Threads /\ w \in Range(sem_queue) /\ sem_queue' \in Seq(Threads)
        /\ Range(sem_queue) = {w} \cup Range(sem_queue')
        /\ IsInjective(sem_queue') /\ w \notin Range(sem_queue')
    BY <1>2, <1>4, <2>1, HeadTailRange, Zenon DEF SemTypeOK, SemBlockedIsQueued
  <2> HIDE DEF w
  <2>3. /\ CpuOK /\ w # current_thread /\ w \notin Range(ready_queue)
        /\ Range(sem_queue) \subseteq Threads
    BY <2>2, SemFacts, Zenon
  <2>4. /\ ready_queue' \in Seq(Threads) /\ Range(ready_queue') = Range(ready_queue) \cup {w}
        /\ IsInjective(ready_queue')
    BY <1>2, <2>1, <2>2, <2>3, EnqueueRange, Zenon DEF SemTypeOK, SchedTypeOK, CpuOK
  <2>5. /\ state' \in [Threads -> States] /\ state'[w] = "READY"
        /\ \A t \in Threads \ {w} : state'[t] = state[t]
    BY <1>2, <2>1, <2>2, Zenon DEF SemTypeOK, SchedTypeOK, States
  <2>6. SemTypeOK'
    BY <1>1, <1>2, <2>1, <2>2, <2>4, <2>5 DEF SemTypeOK, SchedTypeOK
  <2>7. Runnable(Threads)'
    BY <1>1, <1>2, <2>2, <2>3, <2>4, <2>5, Zenon DEF Runnable
  <2>8. SemBlockedIsQueued'
    BY <1>1, <1>2, <2>2, <2>3, <2>5, Zenon DEF SemBlockedIsQueued
  <2>9. NoIdleUnit'
    BY <1>2, <1>4, <2>1, Zenon DEF NoIdleUnit
  <2>10. UnitsConserved'
    <3>1. context[w] = "sem_wait"
      BY <1>2, <2>2, Zenon DEF SemBlockedIsQueued
    <3>2. w \notin Revived /\ Revived' = Revived \cup {w}
      BY <1>1, <2>2, <3>1, Zenon DEF Revived
    <3>3. Cardinality(Revived') = Cardinality(Revived) + 1
      BY <3>2, RevivedFinite, FS_AddElement, Zenon
    <3> QED BY <1>1, <1>2, <2>1, <3>3, RevivedFinite DEF UnitsConserved, SemTypeOK
  <2> QED BY <2>6, <2>7, <2>8, <2>9, <2>10, Zenon DEF SemInv
<1> QED BY <1>3, <1>4, Zenon

\* thread_sem_destroy.
LEMMA SemDestroyInv ==
  ASSUME SemInv, thread_sem_destroy
  PROVE  SemInv'
<1>1. /\ count' = 0 /\ given' = given - count
      /\ UNCHANGED <<current_thread, state, ready_queue, priority, context, sem_queue, taken>>
  BY DEF thread_sem_destroy, sched_vars
<1>2. /\ SemTypeOK /\ Runnable(Threads) /\ SemBlockedIsQueued /\ NoIdleUnit /\ UnitsConserved
  BY DEF SemInv
<1>3. Revived' = Revived
  BY <1>1 DEF Revived
<1>4. UnitsConserved' /\ given' \in Nat
  BY <1>1, <1>2, <1>3, RevivedFinite DEF UnitsConserved, SemTypeOK
<1>5. SemTypeOK' /\ Runnable(Threads)' /\ SemBlockedIsQueued' /\ NoIdleUnit'
  BY <1>1, <1>2, <1>4, Zenon DEF SemTypeOK, SchedTypeOK, Runnable, SemBlockedIsQueued, NoIdleUnit
<1> QED BY <1>4, <1>5, Zenon DEF SemInv

\* thread_yield: only runnable threads change their state.
LEMMA SemYieldInv ==
  ASSUME SemInv, sem_yield
  PROVE  SemInv'
<1>1. /\ thread_yield("user") /\ context[current_thread] = "user"
      /\ UNCHANGED <<count, sem_queue, given, taken>>
  BY DEF sem_yield, RunsAt
<1>2. /\ SemTypeOK /\ Runnable(Threads) /\ SemBlockedIsQueued /\ NoIdleUnit /\ UnitsConserved
  BY DEF SemInv
<1>3. /\ SchedTypeOK /\ CpuOK /\ current_thread \in Threads /\ Range(ready_queue) \subseteq Threads
  BY SemFacts, Zenon
<1>4. SchedTypeOK' /\ Handover
  BY <1>1, <1>3, YieldHandover, Zenon
<1>5. context' = context
  BY <1>1, <1>2, <1>3, Zenon DEF thread_yield, SemTypeOK
<1>6. SemTypeOK' /\ NoIdleUnit'
  BY <1>1, <1>2, <1>4, <1>5, Zenon DEF SemTypeOK, NoIdleUnit
<1>7. Runnable(Threads)'
  BY <1>2, <1>3, <1>4, Zenon DEF Runnable, Handover, CpuOK, SchedTypeOK
<1>8. SemBlockedIsQueued'
  BY <1>1, <1>2, <1>3, <1>4, <1>5, Zenon DEF SemBlockedIsQueued, Runnable, Handover, CpuOK
<1>9. UnitsConserved'
  <2>1. Revived' = Revived
    BY <1>1, <1>5, Zenon DEF Revived
  <2> QED BY <1>1, <1>2, <2>1, Zenon DEF UnitsConserved
<1> QED BY <1>6, <1>7, <1>8, <1>9, Zenon DEF SemInv

-----------------------------------------------------------------------------
\* A semaphore that has just been initialised.
LEMMA SemInitInv ==
  ASSUME SemInit
  PROVE  SemInv
<1> DEFINE others == Threads \ {main_thread}
<1>1. /\ ready_queue \in Seq(others) /\ IsInjective(ready_queue) /\ Range(ready_queue) = others
  <2>1. Cardinality(others) \in Nat /\ ready_queue \in Orders(others)
    BY SemAssumption, FS_RemoveElement, FS_CardinalityType, Zenon DEF SemInit
  <2> QED BY <2>1, OrdersType, Zenon
<1>2. /\ main_thread \in Threads /\ THREAD_DEFAULT_PRIORITY \in Priorities
      /\ count \in Nat /\ given = count /\ taken = 0
  BY SchedulerAssumption, SemAssumption DEF SemInit, Priorities
<1>3. SemTypeOK
  <2>1. ready_queue \in Seq(Threads)
    BY <1>1
  <2>2. /\ state \in [Threads -> States] /\ priority \in [Threads -> Priorities]
        /\ context \in [Threads -> {"user", "sem_wait"}] /\ current_thread \in Threads
        /\ sem_queue \in Seq(Threads)
    BY <1>2 DEF SemInit, States
  <2> QED BY <1>2, <2>1, <2>2, Zenon DEF SemTypeOK, SchedTypeOK
<1>4. Runnable(Threads)
  BY <1>1, <1>2, Zenon DEF SemInit, Runnable
<1>5. Range(sem_queue) = {}
  BY DEF SemInit, Range
<1>6. SemBlockedIsQueued /\ NoIdleUnit
  BY <1>5 DEF SemInit, SemBlockedIsQueued, NoIdleUnit, IsInjective
<1>7. UnitsConserved
  <2>1. Revived = {}
    BY DEF SemInit, Revived
  <2> QED BY <1>2, <2>1, FS_EmptySet DEF UnitsConserved
<1> QED BY <1>3, <1>4, <1>6, <1>7, Zenon DEF SemInv

\* Every step keeps the invariant.
LEMMA SemNextInv ==
  ASSUME SemInv, [SemNext]_sem_vars
  PROVE  SemInv'
<1>1. CASE SemNext
  BY <1>1, TakeInv, BlockInv, ReturnInv, PostInv, SemDestroyInv, SemYieldInv, Zenon DEF SemNext
<1>2. CASE UNCHANGED sem_vars
  BY <1>2, Zenon DEF sem_vars, sched_vars, SemInv, SemTypeOK, SchedTypeOK, Runnable, SemBlockedIsQueued,
              NoIdleUnit, UnitsConserved, Revived
<1> QED BY <1>1, <1>2, Zenon

(* Every reachable state of the semaphore and its threads satisfies the    *)
(* invariant.                                                              *)
THEOREM SemInvariant == SemSpec => []SemInv
BY SemInitInv, SemNextInv, PTL DEF SemSpec

(* No unit is lost or used twice, whatever the interleaving of waits,      *)
(* posts, yields and destructions.                                         *)
THEOREM SemUnitsConserved == SemSpec => []UnitsConserved
<1>1. SemInv => UnitsConserved
  BY Zenon DEF SemInv
<1> QED BY <1>1, SemInvariant, PTL

(* A unit never lies idle while a thread waits for one.                    *)
THEOREM SemNoIdleUnit == SemSpec => []NoIdleUnit
<1>1. SemInv => NoIdleUnit
  BY Zenon DEF SemInv
<1> QED BY <1>1, SemInvariant, PTL

(* Exactly the threads linked in the semaphore's queue are BLOCKED.        *)
THEOREM SemQueueBlocked == SemSpec => []SemBlockedIsQueued
<1>1. SemInv => SemBlockedIsQueued
  BY Zenon DEF SemInv
<1> QED BY <1>1, SemInvariant, PTL

(* The value of the semaphore never becomes negative, and its queue and    *)
(* the scheduler's state stay well-formed (thread_sem.c:31-100).           *)
THEOREM SemTypes == SemSpec => []SemTypeOK
<1>1. SemInv => SemTypeOK
  BY DEF SemInv
<1> QED BY <1>1, SemInvariant, PTL

-----------------------------------------------------------------------------
\* Every step of the semaphore is a step of the counting semaphore or
\* leaves units and line alone.
LEMMA SemStep ==
  ASSUME SemInv, [SemNext]_sem_vars
  PROVE  [Sem!SemNext]_<<count, sem_queue>>
<1>1. CASE sem_wait_take
  <2>1. count > 0 /\ count' = count - 1 /\ sem_queue' = sem_queue
    BY <1>1, Zenon DEF sem_wait_take
  <2>2. sem_queue = <<>>
    BY <2>1 DEF SemInv, NoIdleUnit
  <2> QED BY <2>1, <2>2, Zenon DEF Sem!SemNext, Sem!Take
<1>2. CASE sem_wait_block
  <2>1. count <= 0 /\ count' = count /\ sem_queue' = Append(sem_queue, current_thread)
    BY <1>2, Zenon DEF sem_wait_block
  <2>2. count = 0 /\ current_thread \in Threads /\ current_thread \notin Range(sem_queue)
    BY <2>1, SemFacts DEF SemInv, SemTypeOK
  <2>3. Sem!LineUp(current_thread)
    BY <2>1, <2>2, Zenon DEF Sem!LineUp, Sem!Range, Range
  <2> QED BY <2>2, <2>3, Zenon DEF Sem!SemNext
<1>3. CASE thread_sem_post
  BY <1>3, Zenon DEF thread_sem_post, Sem!SemNext, Sem!Give
<1>4. CASE thread_sem_destroy
  BY <1>4, Zenon DEF thread_sem_destroy, Sem!SemNext, Sem!Withdraw
<1>5. CASE sem_wait_return \/ sem_yield \/ UNCHANGED sem_vars
  BY <1>5, Zenon DEF sem_wait_return, sem_yield, sem_vars
<1> QED BY <1>1, <1>2, <1>3, <1>4, <1>5, Zenon DEF SemNext

(* thread_sem.c implements a counting semaphore that serves its waiters in *)
(* the order of their arrival.                                             *)
THEOREM SemRefinement == SemSpec => ImplementsCountingSem
<1>1. SemInit => Sem!SemInit
  BY SemAssumption DEF SemInit, Sem!SemInit
<1> QED BY <1>1, SemStep, SemInvariant, PTL DEF SemSpec, ImplementsCountingSem, Sem!SemSpec
=============================================================================
