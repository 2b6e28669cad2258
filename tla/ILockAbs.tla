------------------------------ MODULE ILockAbs -------------------------------
(***************************************************************************)
(* What fev_ilock promises: a lock with one owner that is handed over to    *)
(* the blocked fibers in the order in which they were queued.               *)
(***************************************************************************)
EXTENDS Sequences

CONSTANTS Fibers, NULL

VARIABLES owner, queue

absVars == <<owner, queue>>

AbsInit == owner = NULL /\ queue = <<>>

Acquire(f) ==
  /\ owner = NULL
  /\ owner' = f
  /\ UNCHANGED queue

Enqueue(f) ==
  /\ owner # NULL
  /\ queue' = Append(queue, f)
  /\ UNCHANGED owner

Release ==
  /\ owner # NULL
  /\ queue = <<>>
  /\ owner' = NULL
  /\ UNCHANGED queue

HandOff ==
  /\ owner # NULL
  /\ queue # <<>>
  /\ owner' = Head(queue)
  /\ queue' = Tail(queue)

AbsNext ==
  \/ \E f \in Fibers : Acquire(f) \/ Enqueue(f)
  \/ Release
  \/ HandOff

AbsSpec == AbsInit /\ [][AbsNext]_absVars
==============================================================================
