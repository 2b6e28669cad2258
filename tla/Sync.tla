--------------------------------- MODULE Sync ---------------------------------
(***************************************************************************)
(* Programs over the synchronisation objects of fibers: one uses a mutex    *)
(* and a condition variable, the other a semaphore.                         *)
(***************************************************************************)
EXTENDS Cond, Sem

CONSTANT Builds   \* the programs to be run, with FEV_TIMERS_ADD_CAN_FAIL

ASSUME SyncAssumption ==
  /\ Queues = {"mutex", "cond", "sem"}
  /\ Builds \subseteq [program : {"cond", "sem"}, can_fail : BOOLEAN]

VARIABLE program   \* which of the two the fibers run

vars == <<program, state, items, value, queueVars>>

Init ==
  /\ QueueInit
  /\ state = 0 /\ items = 0 /\ value = Value
  /\ \E b \in Builds : program = b.program /\ can_fail = b.can_fail

SyncUnchanged == UNCHANGED <<program, can_fail>>

-----------------------------------------------------------------------------

ClientStarts(f) ==
  /\ SyncUnchanged
  /\ \/ program = "cond" /\ ClientLocks(f) /\ UNCHANGED value
     \/ program = "sem" /\ f \in Consumers /\ SemWait(f) /\ UNCHANGED <<state, items>>
     \/ program = "sem" /\ SemPost(f) /\ UNCHANGED <<state, items>>

\* A step that waits for a lock of a queue.
Acquires(f) == LockSteps(f) /\ SyncUnchanged /\ UNCHANGED <<state, items, value>>

TimesOut(f) == Timeout(f) /\ SyncUnchanged /\ UNCHANGED <<state, items, value>>

Rest(f) ==
  /\ SyncUnchanged
  /\ \/ QueueSteps(f) /\ UNCHANGED <<state, items, value>>
     \/ MutexSteps(f) /\ UNCHANGED <<items, value>>
     \/ CondSteps(f) /\ UNCHANGED value
     \/ SemSteps(f) /\ UNCHANGED <<state, items>>

Next == \E f \in Fibers : ClientStarts(f) \/ Acquires(f) \/ TimesOut(f) \/ Rest(f)

Spec == Init /\ [][Next]_vars

\* Fibers do not have to start anything, and timers do not have to fire; what a
\* fiber has started it finishes, and owners unlock.  queue->lock is handed
\* over first in, first out (ILock), so a fiber that asks for it gets it.
FairSpec ==
  Spec /\ \A f \in Fibers : WF_vars(Rest(f)) /\ SF_vars(Acquires(f))
===============================================================================
