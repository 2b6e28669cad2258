---------------------------- MODULE SyncRefinement ----------------------------
(***************************************************************************)
(* What the mutex and the semaphore promise their callers, as the abstract  *)
(* objects that they implement, for the builds where adding a timer cannot  *)
(* fail.                                                                    *)
(***************************************************************************)
EXTENDS Sync

\* Nobody waits once the hand-over has given it the mutex.
MutexImpl == INSTANCE MutexAbs WITH
  owner <- IF can_fail \/ Owners = {} THEN NULL ELSE CHOOSE f \in Owners : TRUE,
  waiting <- SelectSeq(nodes["mutex"], LAMBDA f : ~can_fail /\ reason[f] = "NONE")

\* fev_mutex implements the fair hand-over mutex of MutexAbs.
MutexRefined == MutexImpl!AbsSpec
-----------------------------------------------------------------------------

\* The fibers that own a permit and have not returned with it yet.
Granted ==
  {f \in Fibers : wq[f] = "sem" /\
    \/ pc[f] = "no_wait"
    \/ pc[f] \in {"timers_add", "waiting"} /\ reason[f] = "READY"
    \/ pc[f] = "done" /\ res[f] = "OK"}

SemImpl == INSTANCE SemAbs WITH
  permits <- IF can_fail THEN Value ELSE value,
  granted <- IF can_fail THEN {} ELSE Granted,
  waiting <- SelectSeq(nodes["sem"], LAMBDA f : ~can_fail /\ reason[f] = "NONE")

\* fev_sem implements the counting semaphore of SemAbs: every permit is in the
\* counter or on its way to one fiber, none is lost or duplicated when a
\* timeout races with a post, and nobody waits while there is one to take.
SemRefined == SemImpl!AbsSpec
===============================================================================
