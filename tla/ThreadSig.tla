----------------------------- MODULE ThreadSig -----------------------------
(***************************************************************************)
(* Inter-thread signals (src/thread_sig.c) together with the thread        *)
(* lifecycle they act on: threads that wait for signals are created,       *)
(* joined and recycled by the others, and a join that failed may wake one  *)
(* of them by its stale registration.                                      *)
(*                                                                         *)
(* A bitmask is a set of signal numbers.  blocked_signals is 0 in every    *)
(* thread, for ever: nothing but thread_create writes it.                  *)
(***************************************************************************)
EXTENDS ThreadCore

CONSTANTS Signals, Masks            \* signals sent, sets waited for

ASSUME SigAssumption ==
  /\ Signals \subseteq 1..32         \* THREAD_SIGNAL_MIN .. THREAD_SIGNAL_MAX
  /\ Masks \subseteq (SUBSET Signals) \ {{}}

VARIABLES pending_signals, waited_signals, waiting_for_signal,
          sig_set,                  \* argument of a thread_sigwait in progress, or {}
          stray                     \* history: threads that a stale registration has made
                                    \* runnable while they waited for a signal

sig_fields == <<pending_signals, waited_signals, waiting_for_signal>>
sig_vars == <<core_vars, sig_fields, sig_set, stray>>

-----------------------------------------------------------------------------
\* Mutants: no wake-up; the flag of the wait stays; the waiter is not queued.
send_no_wake(target, sig) ==
  /\ Running("user") /\ target \in handles
  /\ pending_signals' = [pending_signals EXCEPT ![target] = @ \cup {sig}]
  /\ UNCHANGED <<core_vars, waited_signals, waiting_for_signal, sig_set, stray>>
Rouse_keeps_flag(target) ==
  /\ UNCHANGED <<waiting_for_signal, waited_signals>>
  /\ state' = [state EXCEPT ![target] = "READY"]
  /\ ready_queue' = thread_scheduler_enqueue(ready_queue, target, priority)
Rouse_unqueued(target) ==
  /\ waiting_for_signal' = [waiting_for_signal EXCEPT ![target] = FALSE]
  /\ waited_signals' = [waited_signals EXCEPT ![target] = {}]
  /\ state' = [state EXCEPT ![target] = "READY"]
  /\ UNCHANGED ready_queue

\* A waiting thread is made runnable.
Rouse(target) ==
  /\ waiting_for_signal' = [waiting_for_signal EXCEPT ![target] = FALSE]
  /\ waited_signals' = [waited_signals EXCEPT ![target] = {}]
  /\ state' = [state EXCEPT ![target] = "READY"]
  /\ ready_queue' = thread_scheduler_enqueue(ready_queue, target, priority)

\* The code takes the flag for a proof that the target is in thread_sigwait.
thread_signal_send(target, sig) ==
  /\ Running("user") /\ target \in handles
  /\ pending_signals' = [pending_signals EXCEPT ![target] = @ \cup {sig}]
  /\ IF state[target] = "BLOCKED" /\ waiting_for_signal[target] /\ sig \in waited_signals[target]
     THEN /\ Rouse(target)
          /\ mis_woken' = IF context[target] = "sigwait" THEN {} ELSE {target}
     ELSE UNCHANGED <<waiting_for_signal, waited_signals, state, ready_queue, mis_woken>>
  /\ UNCHANGED <<current_thread, priority, context, mem_vars, join_vars, process, sig_set, stray>>

-----------------------------------------------------------------------------
\* thread_signal_pick_one: the lowest signal of a non-empty set.
thread_signal_pick_one(set) == Min(set)

SetWait(waits, set) ==
  /\ waiting_for_signal' = [waiting_for_signal EXCEPT ![current_thread] = waits]
  /\ waited_signals' = [waited_signals EXCEPT ![current_thread] = set]

\* The call continues at, with the local variable set.
Goes(at, set) ==
  /\ context' = [context EXCEPT ![current_thread] = at]
  /\ sig_set' = [sig_set EXCEPT ![current_thread] = set]

\* One round of the loop of thread_sigwait.
sigwait_round(set) ==
  LET available == pending_signals[current_thread] \cap set IN
  /\ \/ /\ available # {}
        /\ pending_signals' = [pending_signals EXCEPT ![current_thread] =
                                 @ \ {thread_signal_pick_one(available)}]
        /\ Goes("user", {})
        /\ UNCHANGED <<waiting_for_signal, waited_signals, current_thread, state,
                       ready_queue, priority>>
     \/ /\ available = {}
        /\ BlockAndSwitch("sigwait")
        /\ SetWait(TRUE, set)
        /\ sig_set' = [sig_set EXCEPT ![current_thread] = set]
        /\ UNCHANGED pending_signals
     \/ /\ available = {} /\ ready_queue = <<>>              \* EDEADLK
        /\ SetWait(FALSE, {})
        /\ Goes("user", {})
        /\ UNCHANGED <<pending_signals, current_thread, state, ready_queue, priority>>
  /\ UNCHANGED <<mem_vars, join_vars, process, mis_woken, stray>>

thread_sigwait(set) == Running("user") /\ sigwait_round(set)

\* The thread runs again, whoever made it runnable.
sigwait_resume == Running("sigwait") /\ sigwait_round(sig_set[current_thread])

-----------------------------------------------------------------------------
(***************************************************************************)
(* The lifecycle, with what it does to the signals.                        *)
(***************************************************************************)
\* Mutant: a recycled struct keeps the signals of its former thread.
ResetSignals_kept(t) == UNCHANGED sig_fields

\* Lines 284-287 of thread_create.
ResetSignals(t) ==
  /\ pending_signals' = [pending_signals EXCEPT ![t] = {}]
  /\ waited_signals' = [waited_signals EXCEPT ![t] = {}]
  /\ waiting_for_signal' = [waiting_for_signal EXCEPT ![t] = FALSE]

sig_create ==
  /\ create_publish \/ create_no_slot
  /\ ResetSignals(newth[current_thread])
  /\ stray' = stray \ {newth[current_thread]}
  /\ UNCHANGED sig_set

\* The dying thread may wake a thread that waits for a signal, not for it.
sig_exit ==
  LET joiner == joined_by[current_thread] IN
  /\ thread_exit
  /\ stray' = IF joiner # NULL /\ state[joiner] = "BLOCKED" /\ context[joiner] = "sigwait"
              THEN stray \cup {joiner} ELSE stray
  /\ UNCHANGED <<sig_fields, sig_set>>

\* What happens to the memory when the process ends is in ThreadCore.
sig_other ==
  /\ \/ thread_create \/ create_retry \/ create_fail
     \/ \E target \in Threads :
          join_terminated(target) \/ join_block(target) \/ join_abort(target)
     \/ join_resume \/ yield \/ yield_to \/ main_return
     \/ ~Live /\ UNCHANGED core_vars
  /\ UNCHANGED <<sig_fields, sig_set, stray>>

SigInit ==
  /\ CoreInit
  /\ pending_signals = [t \in Threads |-> {}] /\ waited_signals = [t \in Threads |-> {}]
  /\ waiting_for_signal = [t \in Threads |-> FALSE]
  /\ sig_set = [t \in Threads |-> {}] /\ stray = {}

SigNext ==
  \/ \E target \in Threads, sig \in Signals : thread_signal_send(target, sig)
  \/ \E set \in Masks : thread_sigwait(set)
  \/ sigwait_resume
  \/ sig_create \/ sig_exit \/ sig_other

SigSpec == SigInit /\ [][SigNext]_sig_vars

-----------------------------------------------------------------------------
(* No signal is missed: a thread blocked in thread_sigwait has no signal   *)
(* of its set pending, and the sender's test finds it (thread_sig.c:53-59, *)
(* 114-116), whatever woke it in between.                                  *)
NoMissedSignal ==
  \A t \in Threads :
    context[t] = "sigwait" /\ state[t] = "BLOCKED" =>
      /\ pending_signals[t] \cap sig_set[t] = {}
      /\ waiting_for_signal[t] /\ waited_signals[t] = sig_set[t]

(* waiting_for_signal is "1 while blocked inside thread_sigwait()"         *)
(* (thread_internal.h:61), so a signal ends no other wait, except in a     *)
(* thread that a stale join registration has taken out of thread_sigwait.  *)
FlagOnlyWhileWaiting ==
  Live => \A t \in handles \ stray :
    waiting_for_signal[t] => context[t] = "sigwait" /\ state[t] = "BLOCKED"

\* The owners are the threads a client can name.
Box == INSTANCE SignalBox WITH Owners <- Threads, First <- main_thread, present <- handles,
                               box <- pending_signals, asked <- sig_set

(* Signals implement boxes: a signal sent to a thread stays pending until  *)
(* the thread takes it or its struct is released, the lowest one asked for *)
(* is taken and no other, a wait gives up only when none is there, and a   *)
(* new thread finds no signals of the thread that had its struct before    *)
(* (thread_sig.c:90-135, thread.c:283-288).                                *)
ImplementsSignalBox == Box!BoxSpec
=============================================================================
