------------------------------ MODULE FifoLock ------------------------------
(***************************************************************************)
(* What a set of mutexes promises: one owner at a time, and ownership      *)
(* passes to the waiting threads in the order of their arrival, without a  *)
(* moment in which a newcomer could overtake them (thread_mutex.c:91-97).  *)
(***************************************************************************)
EXTENDS Sequences, Functions

CONSTANTS Threads, Mutexes, NULL

VARIABLES owner,                    \* owner of each mutex, or NULL
          queue                     \* threads waiting for each mutex

lock_vars == <<owner, queue>>

LockInit ==
  /\ owner = [m \in Mutexes |-> NULL]
  /\ queue = [m \in Mutexes |-> <<>>]

Acquire(t, m) ==
  /\ owner[m] = NULL /\ queue[m] = <<>>
  /\ owner' = [owner EXCEPT ![m] = t]
  /\ UNCHANGED queue

Arrive(t, m) ==
  /\ owner[m] # NULL
  /\ \A n \in Mutexes : t \notin Range(queue[n])
  /\ queue' = [queue EXCEPT ![m] = Append(@, t)]
  /\ UNCHANGED owner

Release(m) ==
  /\ owner[m] # NULL
  /\ IF queue[m] = <<>>
     THEN owner' = [owner EXCEPT ![m] = NULL] /\ UNCHANGED queue
     ELSE /\ owner' = [owner EXCEPT ![m] = Head(queue[m])]
          /\ queue' = [queue EXCEPT ![m] = Tail(@)]

\* The owner lets the first waiter in and lines up again.
GiveWay(m) ==
  /\ owner[m] # NULL /\ queue[m] # <<>>
  /\ owner' = [owner EXCEPT ![m] = Head(queue[m])]
  /\ queue' = [queue EXCEPT ![m] = Append(Tail(@), owner[m])]

LockNext ==
  \E m \in Mutexes :
    \/ Release(m) \/ GiveWay(m)
    \/ \E t \in Threads : Acquire(t, m) \/ Arrive(t, m)

LockSpec == LockInit /\ [][LockNext]_lock_vars
=============================================================================
