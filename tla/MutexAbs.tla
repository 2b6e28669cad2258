------------------------------- MODULE MutexAbs -------------------------------
(***************************************************************************)
(* What fev_mutex promises: "The mutex implementation uses handoff method   *)
(* and it is fair for lock()/unlock()" (include/fev/fev.h).  An unlocker    *)
(* gives the mutex to the longest waiting fiber, nobody takes it while      *)
(* another waits, and only a fiber in the queue gives up waiting.           *)
(***************************************************************************)
EXTENDS Sequences

CONSTANTS Fibers, NULL

VARIABLES owner, waiting

absVars == <<owner, waiting>>

AbsInit == owner = NULL /\ waiting = <<>>

Acquire(f) ==
  /\ owner = NULL /\ waiting = <<>>
  /\ owner' = f
  /\ UNCHANGED waiting

Enqueue(f) ==
  /\ owner # NULL
  /\ waiting' = Append(waiting, f)
  /\ UNCHANGED owner

GiveUp(f) ==
  /\ \E i \in DOMAIN waiting : waiting[i] = f
  /\ waiting' = SelectSeq(waiting, LAMBDA g : g # f)
  /\ UNCHANGED owner

Release ==
  /\ owner # NULL /\ waiting = <<>>
  /\ owner' = NULL
  /\ UNCHANGED waiting

HandOff ==
  /\ owner # NULL /\ waiting # <<>>
  /\ owner' = Head(waiting)
  /\ waiting' = Tail(waiting)

AbsNext ==
  Release \/ HandOff \/ \E f \in Fibers : Acquire(f) \/ Enqueue(f) \/ GiveUp(f)

AbsSpec == AbsInit /\ [][AbsNext]_absVars
===============================================================================
