--------------------------------- MODULE Sem ---------------------------------
(***************************************************************************)
(* The semaphore of fibers (fev_sem.c): a counter that is only read and     *)
(* written under queue->lock, over a waiters queue.                         *)
(***************************************************************************)
EXTENDS WaitersQueue, FiniteSets

CONSTANTS
  Value,     \* what fev_sem_create() was given
  MaxValue   \* bounds the counter

ASSUME SemAssumption == Value \in Nat /\ MaxValue \in Nat

VARIABLE value   \* sem->value

-----------------------------------------------------------------------------

\* fev_sem_wait(), fev_sem_wait_for() and fev_sem_wait_until().
SemWait(f) ==
  /\ \E t \in BOOLEAN : CallWait(f, "idle", "sem", t, "idle")
  /\ UNCHANGED value

\* Faulty: waits with one permit left.
SemWaitRecheckOffByOne(f) ==
  /\ wq[f] = "sem"
  /\ Goto(f, "recheck", IF value > 1 THEN "no_wait" ELSE "insert")
  /\ value' = IF value > 1 THEN value - 1 ELSE value
  /\ UNCHANGED <<qlock, nodes, waitVars, wakeVars, ret>>

SemWaitRecheck(f) ==
  /\ wq[f] = "sem"
  /\ Goto(f, "recheck", IF value > 0 THEN "no_wait" ELSE "insert")
  /\ value' = IF value > 0 THEN value - 1 ELSE value
  /\ UNCHANGED <<qlock, nodes, waitVars, wakeVars, ret>>

SemReturn(f) ==
  /\ wq[f] = "sem"
  /\ Again(f) \/ Returns(f, "idle")
  /\ UNCHANGED value

\* The posts that may still count.
Posters == {f \in Fibers : kq[f] = "sem"}

SemPost(f) ==
  /\ value + Cardinality(Posters) < MaxValue
  /\ CallWake(f, "idle", "sem", 1, "idle")
  /\ UNCHANGED value

SemPostCallback(f) ==
  /\ kq[f] = "sem"
  /\ Goto(f, "callback", "wake_unlock")
  /\ value' = IF woken[f] = 0 THEN value + 1 ELSE value
  /\ UNCHANGED <<qlock, nodes, waitVars, wakeVars, ret>>

SemSteps(f) == SemWaitRecheck(f) \/ SemReturn(f) \/ SemPostCallback(f)
==============================================================================
