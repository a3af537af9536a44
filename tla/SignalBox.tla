----------------------------- MODULE SignalBox -----------------------------
(***************************************************************************)
(* What the inter-thread signals promise: every thread there is has a box  *)
(* of signals, empty when the thread is new.  Anybody may drop a signal    *)
(* into a box, where it stays until the owner takes it or is released.     *)
(* The owner asks for a set of signals and gets the lowest one of them in  *)
(* the box; while there is none it waits, or gives up.                     *)
(***************************************************************************)
EXTENDS Integers, FiniteSetsExt

CONSTANTS Owners, Signals,
          First                     \* the owner there is from the start

VARIABLES present,                  \* the owners there are
          box, asked                \* the box of each, and the set it waits for, or {}

Send(o, s) ==
  /\ box' = [box EXCEPT ![o] = @ \cup {s}]
  /\ UNCHANGED <<present, asked>>

Ask(o, set) ==
  /\ asked[o] = {} /\ box[o] \cap set = {}
  /\ asked' = [asked EXCEPT ![o] = set]
  /\ UNCHANGED <<present, box>>

\* Takes a signal of set, with or without having waited for it.
Take(o, set) ==
  /\ asked[o] \in {{}, set} /\ box[o] \cap set # {}
  /\ box' = [box EXCEPT ![o] = @ \ {Min(@ \cap set)}]
  /\ asked' = [asked EXCEPT ![o] = {}]
  /\ UNCHANGED present

GiveUp(o) ==
  /\ box[o] \cap asked[o] = {}
  /\ asked' = [asked EXCEPT ![o] = {}]
  /\ UNCHANGED <<present, box>>

\* An owner that waits for nothing is gone; what is in its box is lost.
Release(o) ==
  /\ present' = present \ {o} /\ asked[o] = {}
  /\ UNCHANGED <<box, asked>>

\* The box of an absent owner is emptied, and the owner arrives unless
\* something else prevents it.
Arrive(o) ==
  /\ present' \in {present, present \cup {o}}
  /\ box' = [box EXCEPT ![o] = {}]
  /\ UNCHANGED asked

BoxInit ==
  /\ present = {First}
  /\ box = [o \in Owners |-> {}] /\ asked = [o \in Owners |-> {}]

BoxNext ==
  \/ \E o \in present :
       \/ \E s \in Signals : Send(o, s)
       \/ \E set \in SUBSET Signals : Ask(o, set) \/ Take(o, set)
       \/ GiveUp(o) \/ Release(o)
  \/ \E o \in Owners \ present : Arrive(o)

BoxSpec == BoxInit /\ [][BoxNext]_<<present, box, asked>>
=============================================================================
