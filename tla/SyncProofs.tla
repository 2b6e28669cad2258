------------------------------ MODULE SyncProofs ------------------------------
(***************************************************************************)
(* The hand-over mutex for any number of fibers, and the wakes of its queue  *)
(* and of the condition variable's, over what WaitersQueueProofs shows.      *)
(***************************************************************************)
EXTENDS WaitersQueueProofs, FiniteSetTheorems

\* One fiber at most owns the mutex, and the word is not 0 then.
OneOwner == MutualExclusion /\ \A f \in Fibers : Owns(f) => state # 0

\* The word of the mutex: 2 while somebody waits, also when the queue is locked
\* and until the unlocker has looked at it.
StateMeans ==
  /\ nodes["mutex"] # <<>> => state = 2
  /\ \A f \in Fibers :
       /\ pc[f] = "recheck_store" => state = 2 /\ nodes["mutex"] = <<>>
       /\ pc[f] = "insert" /\ wq[f] = "mutex" => state = 2
       /\ kq[f] = "mutex" /\ pc[f] \in {"wake", "callback"} /\ woken[f] # 0 => state = 2
       /\ kq[f] = "mutex" /\ pc[f] = "callback" /\ woken[f] = 0 => nodes["mutex"] = <<>>

\* A wake cannot count more waiters than there are fibers.
WokenBound ==
  \A f \in Fibers : pc[f] \in {"wake", "callback"} =>
    /\ woken[f] + Len(nodes[kq[f]]) <= Cardinality(Fibers)
    /\ pc[f] = "callback" => woken[f] >= max[f] \/ nodes[kq[f]] = <<>>

IInv == QInv /\ OneOwner /\ StateMeans /\ WokenBound
-----------------------------------------------------------------------------

\* The inductive invariant speaks of the queues of the mutex, the cond and the semaphore.
LEMMA QueueNames == Queues = {"mutex", "cond", "sem"} /\ NULL \notin Queues
  BY SyncAssumption, QueueAssumption

\* The parts of the invariant, for the lemmas that need some of them.
LEMMA IParts ==
  IInv => QInv /\ OneOwner /\ StateMeans /\ WokenBound
  BY DEF IInv

\* No fiber becomes the owner of the mutex, and an owned one stays locked.
OwnersKept == (state # 0 => state' # 0) /\ \A g \in Fibers : Owns(g)' => Owns(g)

\* The steps that lock or unlock the mutex.
OwnerMoves ==
  \E f \in Fibers :
    \/ Quiet /\ WakeOne(f)
    \/ OnMutex /\ (Recheck(f) \/ UnlockCallback(f))
    \/ OnCond /\ (ClientLocks(f) \/ Produce(f) \/ Consume(f) \/ Leave(f) \/ CondWaitRecheck(f) \/ Relock(f))

\* No other step makes a fiber the owner of the mutex.
LEMMA NextOwnersKept == IInv /\ [Next]_vars => OwnersKept \/ OwnerMoves
  <1>. SUFFICES ASSUME IInv, [Next]_vars, ~OwnerMoves PROVE OwnersKept
    OBVIOUS
  <1>. /\ pc \in [Fibers -> InWait \cup InWake \cup AtClient]
       /\ wq \in [Fibers -> Queues \cup {NULL}] /\ kq \in [Fibers -> Queues \cup {NULL}]
       /\ woken \in [Fibers -> Nat] /\ reason \in [Fibers -> {"NONE", "READY", "TIMED_OUT"}]
       /\ res \in [Fibers -> {"OK", "ENOMEM", "ETIMEDOUT", "EAGAIN"}]
       /\ ret \in [Fibers -> {"idle", "notify", "insert", "returned"}]
    BY IParts, QParts DEF Typed
  <1>a. \A g \in Fibers :
          /\ pc[g] = "insert" => reason[g] = "NONE"
          /\ pc[g] = "remove" => res[g] # "OK"
    BY IParts, QParts DEF Reasons, ReasonMeans, InFrame
  <1>. USE QueueNames DEF OwnersKept, Owns, waitVars, wakeVars, SyncUnchanged, Quiet, OnMutex,
       OnCond, OnSem
  <1>1. ASSUME NEW f \in Fibers, Quiet,
               WaitLock(f) \/ RemoveLock(f) \/ WakeLock(f) \/ Timeout(f) \/ WaitNot(f)
        PROVE OwnersKept
    BY <1>1 DEF WaitLock, Goto, Lock, RemoveLock, WakeLock, Timeout, WaitNot, Unlock
  <1>2. ASSUME NEW f \in Fibers, Quiet,
               TimersAdd(f) \/ TimersAddFails(f) \/ WaitTimedOut(f) \/ WakeLoopEnds(f)
        PROVE OwnersKept
    BY <1>2 DEF TimersAdd, Goto, TimersAddFails, WaitTimedOut, WakeLoopEnds
  <1>3. ASSUME NEW f \in Fibers, Quiet, WakeUnlock(f) PROVE OwnersKept
    <2>1. /\ pc'[f] \in {"idle", "notify", "insert", "returned"}
          /\ \A g \in Fibers \ {f} : pc'[g] = pc[g] /\ kq'[g] = kq[g] /\ woken'[g] = woken[g]
          /\ UNCHANGED <<reason, res, wq, state>>
      BY <1>3 DEF WakeUnlock, Goto
    <2>. QED BY <2>1
  <1>4. ASSUME NEW f \in Fibers, Quiet, Insert(f) PROVE OwnersKept
    <2>1. /\ pc[f] = "insert" /\ pc'[f] \in {"timers_add", "waiting"}
          /\ \A g \in Fibers \ {f} : pc'[g] = pc[g]
          /\ UNCHANGED <<reason, res, wq, kq, woken, state>>
      BY <1>4 DEF Insert, Goto
    <2>. QED BY <2>1, <1>a
  <1>5. ASSUME NEW f \in Fibers, Quiet, WaitReady(f) PROVE OwnersKept
    BY <1>5 DEF WaitReady, Goto
  <1>6. ASSUME NEW f \in Fibers, Quiet, Remove(f) PROVE OwnersKept
    BY <1>6, <1>a, RemoveEnds
  <1>7. ASSUME NEW f \in Fibers, OnMutex, RecheckStore(f) \/ LockReturn(f) PROVE OwnersKept
    BY <1>7 DEF RecheckStore, Goto, LockReturn, Again, Returns, FrameEnds
  <1>8. ASSUME NEW f \in Fibers, OnCond,
               Notify(f) \/ NotifyNoCallback(f) \/ CondWait(f) \/ CondWaitWoken(f)
        PROVE OwnersKept
    BY <1>8 DEF Notify, CallWake, Goto, NotifyNoCallback, CondWait, CallWait, CondWaitWoken,
          FrameEnds
  <1>9. ASSUME NEW f \in Fibers, OnSem,
               SemWait(f) \/ SemPost(f) \/ SemWaitRecheck(f) \/ SemReturn(f)
               \/ SemPostCallback(f)
        PROVE OwnersKept
    BY <1>9 DEF SemWait, CallWait, Goto, SemPost, CallWake, SemWaitRecheck, SemReturn, Again,
          Returns, FrameEnds, SemPostCallback
  <1>10. CASE UNCHANGED vars
    BY <1>10 DEF vars, queueVars
  <1>. HIDE DEF OwnersKept, Owns, waitVars, wakeVars, SyncUnchanged, Quiet, OnMutex, OnCond,
       OnSem
  <1>. QED
    BY <1>1, <1>2, <1>3, <1>4, <1>5, <1>6, <1>7, <1>8, <1>9, <1>10
    DEF Next, ClientStarts, Acquires, LockSteps, TimesOut, Rest, QueueSteps, MutexSteps, CondSteps, 
        SemSteps, Quiet, OnMutex, OnCond, OnSem, OwnerMoves

\* The mutex goes from f, or from nobody, to h, or to nobody.
OwnerPasses(f, h) ==
  /\ Owns(f) \/ state = 0
  /\ \/ Owns(f) /\ UNCHANGED state
     \/ state' # 0
     \/ \A g \in {h} : ~Owns(g)'
  /\ \A g \in Fibers : Owns(g)' => g = h \/ (Owns(g) /\ g # f)

\* A mutex that passes from one fiber to another has one owner.
LEMMA OwnerPassed ==
  ASSUME IInv, NEW f \in Fibers, NEW h \in Fibers, OwnerPasses(f, h)
  PROVE  OneOwner'
  <1>. OneOwner
    BY IParts
  <1>1. \A g \in Fibers : Owns(g) => g = f /\ state # 0
    BY DEF OneOwner, MutualExclusion, OwnerPasses
  <1>2. \A g \in Fibers : Owns(g)' => g = h
    BY <1>1 DEF OwnerPasses
  <1>3. \A g \in Fibers : Owns(g)' => state' # 0
    BY <1>1, <1>2 DEF OwnerPasses
  <1>. QED BY <1>2, <1>3 DEF OneOwner, MutualExclusion

\* So has a mutex whose owner does not change.
LEMMA OwnerStays ==
  ASSUME IInv, OwnersKept
  PROVE  OneOwner'
  BY IParts DEF OneOwner, MutualExclusion, OwnersKept


\* The mutex goes from one owner to the next.
LEMMA NextOneOwner == IInv /\ [Next]_vars => OneOwner'
  <1>. SUFFICES ASSUME IInv, [Next]_vars PROVE OneOwner'
    OBVIOUS
  <1>. QInv /\ StateMeans
    BY IParts, QParts
  <1>t. /\ pc \in [Fibers -> InWait \cup InWake \cup AtClient]
        /\ wq \in [Fibers -> Queues \cup {NULL}] /\ kq \in [Fibers -> Queues \cup {NULL}]
        /\ woken \in [Fibers -> Nat] /\ reason \in [Fibers -> {"NONE", "READY", "TIMED_OUT"}]
        /\ res \in [Fibers -> {"OK", "ENOMEM", "ETIMEDOUT", "EAGAIN"}]
        /\ ret \in [Fibers -> {"idle", "notify", "insert", "returned"}]
    BY IParts, QParts DEF Typed
  <1>a. \A g \in Fibers : kq[g] = "mutex" => max[g] = 1
    BY QParts DEF Frames
  <1>1. ASSUME NEW f \in Fibers, Quiet, WakeOne(f) PROVE OneOwner'
    <2>. DEFINE h == Head(nodes[kq[f]])
    <2>1. h \in Fibers \ {f} /\ wq[h] = kq[f]
      BY <1>1, HeadWaits
    <2>2. /\ pc[f] = "wake" /\ UNCHANGED <<res, wq, kq, pc, state>>
          /\ reason' = [reason EXCEPT ![h] = IF @ = "NONE" THEN "READY" ELSE @]
          /\ woken' = [woken EXCEPT ![f] = IF reason[h] = "NONE" THEN @ + 1 ELSE @]
      BY <1>1 DEF WakeOne, WakeNode, Quiet
    <2>. HIDE DEF h
    <2>3. CASE kq[f] = "mutex" /\ reason[h] = "NONE"
      <3>1. woken[f] = 0
        BY <1>1, <1>a, <1>t, <2>3 DEF WakeOne
      <3>2. OwnerPasses(f, h)
        BY <1>t, <2>1, <2>2, <2>3, <3>1 DEF OwnerPasses, Owns
      <3>. QED BY <2>1, <3>2, OwnerPassed
    <2>4. CASE kq[f] # "mutex" \/ reason[h] # "NONE"
      <3>1. OwnersKept
        BY <1>t, <2>1, <2>2, <2>4 DEF OwnersKept, Owns
      <3>. QED BY <3>1, OwnerStays
    <2>. QED BY <2>3, <2>4
  <1>2. ASSUME NEW f \in Fibers, OnMutex, Recheck(f) PROVE OneOwner'
    <2>1. CASE state = 0
      <3>1. OwnerPasses(f, f)
        BY <1>2, <1>t, <2>1 DEF Recheck, Goto, OwnerPasses, Owns, waitVars, wakeVars
      <3>. QED BY <3>1, OwnerPassed
    <2>2. CASE state # 0
      <3>1. OwnersKept
        BY <1>2, <1>t, <2>2 DEF Recheck, Goto, OwnersKept, Owns, waitVars,
             wakeVars
      <3>. QED BY <3>1, OwnerStays
    <2>. QED BY <1>2, <2>1, <2>2
  <1>3. ASSUME NEW f \in Fibers, OnMutex, UnlockCallback(f) PROVE OneOwner'
    <2>1. CASE woken[f] = 0
      <3>1. OwnerPasses(f, f)
        BY <1>3, <1>t, <2>1 DEF UnlockCallback, Goto, OwnerPasses, Owns, waitVars, wakeVars
      <3>. QED BY <3>1, OwnerPassed
    <2>2. CASE woken[f] # 0
      <3>1. OwnersKept
        BY <1>3, <1>t, <2>2 DEF UnlockCallback, Goto, StateMeans, OwnersKept, Owns, waitVars,
             wakeVars
      <3>. QED BY <3>1, OwnerStays
    <2>. QED BY <1>3, <2>1, <2>2
  <1>4. ASSUME NEW f \in Fibers, OnCond, ClientLocks(f) PROVE OneOwner'
    <2>1. CASE \E from \in {"idle", "returned"} : TryLock(f, from)
      <3>1. OwnerPasses(f, f)
        BY <1>4, <1>t, <2>1 DEF TryLock, Goto, OwnerPasses, Owns, waitVars, wakeVars
      <3>. QED BY <3>1, OwnerPassed
    <2>2. CASE LockWaits(f)
      <3>1. OwnersKept
        BY <1>4, <1>t, <2>2 DEF LockWaits, TryLockFails, CallWait, Goto, OwnersKept, Owns, waitVars,
             wakeVars
      <3>. QED BY <3>1, OwnerStays
    <2>. QED BY <1>4, <2>1, <2>2, LockCases
  <1>5. ASSUME NEW f \in Fibers, OnCond, Produce(f) PROVE OneOwner'
    <2>1. OwnerPasses(f, f)
      BY <1>5, <1>t DEF Produce, MutexUnlock, UnlockFast, UnlockSlow, CallWake, Goto, OwnerPasses, Owns,
             waitVars, wakeVars
    <2>. QED BY <2>1, OwnerPassed
  <1>6. ASSUME NEW f \in Fibers, OnCond, Consume(f) PROVE OneOwner'
    <2>1. OwnerPasses(f, f)
      BY <1>6, <1>t DEF Consume, MutexUnlock, UnlockFast, UnlockSlow, CallWake, Goto, OwnerPasses, Owns,
             waitVars, wakeVars
    <2>. QED BY <2>1, OwnerPassed
  <1>7. ASSUME NEW f \in Fibers, OnCond, Leave(f) PROVE OneOwner'
    <2>1. OwnerPasses(f, f)
      BY <1>7, <1>t DEF Leave, MutexUnlock, UnlockFast, UnlockSlow, CallWake, Goto, OwnerPasses, Owns,
             waitVars, wakeVars
    <2>. QED BY <2>1, OwnerPassed
  <1>8. ASSUME NEW f \in Fibers, OnCond, CondWaitRecheck(f) PROVE OneOwner'
    <2>1. OwnerPasses(f, f)
      BY <1>8, <1>t DEF CondWaitRecheck, MutexUnlock, UnlockFast, UnlockSlow, CallWake, Goto, OwnerPasses, Owns,
             waitVars, wakeVars
    <2>. QED BY <2>1, OwnerPassed
  <1>9. ASSUME NEW f \in Fibers, OnCond, Relock(f) PROVE OneOwner'
    <2>1. CASE TryLock(f, "relock")
      <3>1. OwnerPasses(f, f)
        BY <1>9, <1>t, <2>1 DEF TryLock, Goto, OwnerPasses, Owns, waitVars, wakeVars
      <3>. QED BY <3>1, OwnerPassed
    <2>2. CASE TryLockFails(f, "relock", timed[f], "returned")
      <3>1. OwnersKept
        BY <1>9, <1>t, <2>2 DEF TryLockFails, CallWait, Goto, OwnersKept, Owns, waitVars,
             wakeVars
      <3>. QED BY <3>1, OwnerStays
    <2>. QED BY <1>9, <2>1, <2>2 DEF Relock
  <1>10. CASE OwnersKept
    BY <1>10, OwnerStays
  <1>. QED BY <1>1, <1>2, <1>3, <1>4, <1>5, <1>6, <1>7, <1>8, <1>9, <1>10, NextOwnersKept DEF OwnerMoves

\* The word of the mutex follows its queue.
LEMMA NextStateMeans == IInv /\ [Next]_vars => StateMeans'
  <1>. SUFFICES ASSUME IInv, [Next]_vars PROVE StateMeans'
    OBVIOUS
  <1>. QInv /\ StateMeans
    BY IParts, QParts
  <1>t. /\ pc \in [Fibers -> InWait \cup InWake \cup AtClient]
        /\ wq \in [Fibers -> Queues \cup {NULL}] /\ kq \in [Fibers -> Queues \cup {NULL}]
        /\ woken \in [Fibers -> Nat]
        /\ ret \in [Fibers -> {"idle", "notify", "insert", "returned"}]
        /\ nodes \in [Queues -> Seq(Fibers)]
    BY IParts, QParts DEF Typed
  <1>a. \A g \in Fibers :
          /\ pc[g] = "wake_unlock" => wq[g] # "mutex" /\ ret[g] \in {"idle", "notify", "insert"}
          /\ pc[g] = "wake_lock" => woken[g] = 0
          /\ pc[g] = "recheck_store" => wq[g] = "mutex"
          /\ pc[g] = "done" => ret[g] \in {"idle", "returned"}
          /\ kq[g] = "mutex" => max[g] = 1
    BY <1>t, QueueNames, QParts DEF Frames, InWake, InWait
  <1>b. \A g, h \in Fibers : Holds(g, "mutex") /\ Holds(h, "mutex") => g = h
    BY QueueNames, QParts DEF Locked
  <1>. USE <1>a, <1>t
  <1>. USE QueueNames DEF StateMeans, waitVars, wakeVars, SyncUnchanged, Quiet, OnMutex, OnCond,
       OnSem
  <1>1. ASSUME NEW f \in Fibers, Quiet,
               WaitLock(f) \/ RemoveLock(f) \/ WakeLock(f) \/ Timeout(f) \/ WaitNot(f)
        PROVE StateMeans'
    BY <1>1 DEF WaitLock, Goto, Lock, RemoveLock, WakeLock, Timeout, WaitNot, Unlock
  <1>2. ASSUME NEW f \in Fibers, Quiet,
               TimersAdd(f) \/ TimersAddFails(f) \/ WaitTimedOut(f) \/ WakeLoopEnds(f)
        PROVE StateMeans'
    BY <1>2 DEF TimersAdd, Goto, TimersAddFails, WaitTimedOut, WakeLoopEnds
  <1>3. ASSUME NEW f \in Fibers, Quiet, WakeUnlock(f) PROVE StateMeans'
    <2>. HIDE DEF StateMeans
    <2>1. pc[f] = "wake_unlock" /\ pc'[f] = ret[f]
      BY <1>3 DEF WakeUnlock, Goto
    <2>2. pc'[f] \in {"idle", "notify", "insert"}
      BY <2>1
    <2>3. pc'[f] # "recheck_store" /\ wq'[f] # "mutex" /\ kq'[f] # "mutex"
      BY <1>3, <2>1, <2>2 DEF WakeUnlock
    <2>4. /\ \A g \in Fibers \ {f} : pc'[g] = pc[g] /\ kq'[g] = kq[g] /\ woken'[g] = woken[g]
          /\ UNCHANGED <<nodes, wq, state>>
      BY <1>3 DEF WakeUnlock, Goto
    <2>. HIDE <1>a, <1>t
    <2>. QED BY <2>3, <2>4 DEF StateMeans
  <1>4. ASSUME NEW f \in Fibers, Quiet, Insert(f) PROVE StateMeans'
    BY <1>4, <1>b DEF Insert, Goto, Unlock, Holds, InWake
  <1>5. ASSUME NEW f \in Fibers, Quiet, WaitReady(f) PROVE StateMeans'
    BY <1>5 DEF WaitReady, Goto
  <1>6. ASSUME NEW f \in Fibers, Quiet, Remove(f) PROVE StateMeans'
    <2>1. nodes["mutex"] = <<>> => nodes'["mutex"] = <<>>
      BY <1>6, RemoveShrinks
    <2>. QED BY <1>6, <2>1, RemoveEnds
  <1>7. ASSUME NEW f \in Fibers, Quiet, WakeOne(f) PROVE StateMeans'
    <2>1. kq[f] \in Queues /\ nodes[kq[f]] \in Seq(Fibers) /\ Len(nodes[kq[f]]) > 0
      BY <1>7, HeadWaits
    <2>2. /\ pc[f] = "wake" /\ UNCHANGED <<wq, kq, pc, state>>
          /\ nodes' = [nodes EXCEPT ![kq[f]] = Tail(@)]
          /\ \A g \in Fibers \ {f} : woken'[g] = woken[g]
      BY <1>7 DEF WakeOne, WakeNode
    <2>3. nodes["mutex"] = <<>> => nodes'["mutex"] = <<>>
      BY <2>1, <2>2
    <2>4. kq[f] = "mutex" => state = 2
      BY <2>1
    <2>. QED BY <2>2, <2>3, <2>4
  <1>8. ASSUME NEW f \in Fibers, OnMutex, Recheck(f) PROVE StateMeans'
    BY <1>8 DEF Recheck, Goto
  <1>9. ASSUME NEW f \in Fibers, OnMutex, RecheckStore(f) PROVE StateMeans'
    BY <1>9, <1>b DEF RecheckStore, Goto, Holds, InWake
  <1>10. ASSUME NEW f \in Fibers, OnMutex, LockReturn(f) PROVE StateMeans'
    BY <1>10 DEF LockReturn, Again, Returns, FrameEnds, Goto
  <1>11. ASSUME NEW f \in Fibers, OnMutex, UnlockCallback(f) PROVE StateMeans'
    BY <1>11, <1>b DEF UnlockCallback, Goto, Holds, InWake
  <1>12. ASSUME NEW f \in Fibers, OnCond, ClientLocks(f) PROVE StateMeans'
    BY <1>12 DEF ClientLocks, TryLock, TryLockFails, CallWait, Goto
  <1>13. ASSUME NEW f \in Fibers, OnCond,
               Produce(f) \/ Consume(f) \/ Leave(f) \/ Notify(f) \/ NotifyNoCallback(f)
        PROVE StateMeans'
    BY <1>13 DEF Produce, MutexUnlock, UnlockFast, UnlockSlow, CallWake, Goto, Consume, Leave,
          Notify, NotifyNoCallback
  <1>14. ASSUME NEW f \in Fibers, OnCond,
               CondWait(f) \/ CondWaitRecheck(f) \/ CondWaitWoken(f) \/ Relock(f)
        PROVE StateMeans'
    BY <1>14 DEF CondWait, CallWait, Goto, CondWaitRecheck, MutexUnlock, UnlockFast, UnlockSlow,
          CallWake, CondWaitWoken, FrameEnds, Relock, TryLock, TryLockFails
  <1>15. ASSUME NEW f \in Fibers, OnSem,
               SemWait(f) \/ SemPost(f) \/ SemWaitRecheck(f)
        PROVE StateMeans'
    BY <1>15 DEF SemWait, CallWait, Goto, SemPost, CallWake, SemWaitRecheck
  <1>16. ASSUME NEW f \in Fibers, OnSem, SemReturn(f) PROVE StateMeans'
    BY <1>16 DEF SemReturn, Again, Returns, FrameEnds, Goto
  <1>17. ASSUME NEW f \in Fibers, OnSem, SemPostCallback(f) PROVE StateMeans'
    BY <1>17 DEF SemPostCallback, Goto
  <1>18. CASE UNCHANGED vars
    BY <1>18 DEF vars, queueVars
  <1>. HIDE DEF StateMeans, waitVars, wakeVars, SyncUnchanged, Quiet, OnMutex, OnCond, OnSem
  <1>. QED
    BY <1>1, <1>2, <1>3, <1>4, <1>5, <1>6, <1>7, <1>8, <1>9, <1>10, <1>11, <1>12, <1>13, <1>14,
       <1>15, <1>16, <1>17, <1>18
    DEF Next, ClientStarts, Acquires, LockSteps, TimesOut, Rest, QueueSteps, MutexSteps, CondSteps, 
        SemSteps, Quiet, OnMutex, OnCond, OnSem

\* The wakes in progress stay as they are.
WakersKept ==
  /\ UNCHANGED nodes
  /\ \A g \in Fibers : pc'[g] \in {"wake", "callback"} =>
       pc'[g] = pc[g] /\ woken'[g] = woken[g] /\ kq'[g] = kq[g] /\ max'[g] = max[g]

\* The steps that change the queue or a wake.
WakersMove ==
  \E f \in Fibers :
    \/ Quiet /\ (WakeLock(f) \/ WakeLoopEnds(f) \/ Insert(f) \/ Remove(f) \/ WakeOne(f))

\* No other step changes the queues or a wake in progress.
LEMMA NextWakersKept == IInv /\ [Next]_vars => WakersKept \/ WakersMove
  <1>. SUFFICES ASSUME IInv, [Next]_vars, ~WakersMove PROVE WakersKept
    OBVIOUS
  <1>. /\ pc \in [Fibers -> InWait \cup InWake \cup AtClient]
       /\ kq \in [Fibers -> Queues \cup {NULL}] /\ woken \in [Fibers -> Nat]
       /\ max \in [Fibers -> {1, AllWaiters}]
       /\ ret \in [Fibers -> {"idle", "notify", "insert", "returned"}]
    BY IParts, QParts DEF Typed
  <1>. USE QueueNames DEF WakersKept, waitVars, wakeVars, SyncUnchanged, Quiet, OnMutex, OnCond,
       OnSem
  <1>1. ASSUME NEW f \in Fibers, Quiet,
               WaitLock(f) \/ RemoveLock(f) \/ Timeout(f) \/ WaitNot(f) \/ TimersAdd(f)
        PROVE WakersKept
    BY <1>1 DEF WaitLock, Goto, Lock, RemoveLock, Timeout, WaitNot, Unlock, TimersAdd
  <1>2. ASSUME NEW f \in Fibers, Quiet,
               TimersAddFails(f) \/ WaitTimedOut(f) \/ WakeUnlock(f)
        PROVE WakersKept
    BY <1>2 DEF TimersAddFails, Goto, WaitTimedOut, WakeUnlock, Unlock
  <1>3. ASSUME NEW f \in Fibers, Quiet, WaitReady(f) PROVE WakersKept
    BY <1>3 DEF WaitReady, Goto
  <1>4. ASSUME NEW f \in Fibers, OnMutex,
               Recheck(f) \/ RecheckStore(f) \/ LockReturn(f) \/ UnlockCallback(f)
        PROVE WakersKept
    BY <1>4 DEF Recheck, Goto, RecheckStore, LockReturn, Again, Returns, FrameEnds,
          UnlockCallback
  <1>5. ASSUME NEW f \in Fibers, OnCond, ClientLocks(f) PROVE WakersKept
    BY <1>5 DEF ClientLocks, TryLock, TryLockFails, CallWait, Goto
  <1>6. ASSUME NEW f \in Fibers, OnCond,
               Produce(f) \/ Consume(f) \/ Leave(f) \/ Notify(f) \/ NotifyNoCallback(f)
        PROVE WakersKept
    BY <1>6 DEF Produce, MutexUnlock, UnlockFast, UnlockSlow, CallWake, Goto, Consume, Leave,
          Notify, NotifyNoCallback
  <1>7. ASSUME NEW f \in Fibers, OnCond,
               CondWait(f) \/ CondWaitRecheck(f) \/ CondWaitWoken(f) \/ Relock(f)
        PROVE WakersKept
    BY <1>7 DEF CondWait, CallWait, Goto, CondWaitRecheck, MutexUnlock, UnlockFast, UnlockSlow,
          CallWake, CondWaitWoken, FrameEnds, Relock, TryLock, TryLockFails
  <1>8. ASSUME NEW f \in Fibers, OnSem,
               SemWait(f) \/ SemPost(f) \/ SemWaitRecheck(f) \/ SemReturn(f)
               \/ SemPostCallback(f)
        PROVE WakersKept
    BY <1>8 DEF SemWait, CallWait, Goto, SemPost, CallWake, SemWaitRecheck, SemReturn, Again,
          Returns, FrameEnds, SemPostCallback
  <1>9. CASE UNCHANGED vars
    BY <1>9 DEF vars, queueVars
  <1>. HIDE DEF WakersKept, waitVars, wakeVars, SyncUnchanged, Quiet, OnMutex, OnCond, OnSem
  <1>. QED
    BY <1>1, <1>2, <1>3, <1>4, <1>5, <1>6, <1>7, <1>8, <1>9
    DEF Next, ClientStarts, Acquires, LockSteps, TimesOut, Rest, QueueSteps, MutexSteps, CondSteps, 
        SemSteps, Quiet, OnMutex, OnCond, OnSem, WakersMove

\* The number of fibers, and the bound of notify_all(), are numbers.
LEMMA AllWaitersNat == Cardinality(Fibers) \in Nat /\ AllWaiters \in Nat
  BY CondAssumption, FS_CardinalityType DEF AllWaiters

\* A queue without duplicates is no longer than there are fibers.
LEMMA LenBound ==
  ASSUME QInv, NEW q \in Queues
  PROVE  Len(nodes[q]) \in Nat /\ Len(nodes[q]) <= Cardinality(Fibers)
  <1>. Typed /\ NodesLive
    BY QParts
  <1>. DEFINE n == Len(nodes[q])
  <1>1. nodes[q] \in Seq(Fibers) /\ n \in Nat /\ nodes[q] \in [1..n -> Fibers]
    BY DEF Typed
  <1>2. \A i, j \in 1..n : nodes[q][i] = nodes[q][j] => i = j
    BY <1>1 DEF NodesLive
  <1>3. IsFiniteSet(1..n) /\ Cardinality(1..n) = n
    <2>. HIDE DEF n
    <2>1. IsFiniteSet(1..n) /\ Cardinality(1..n) = IF 1 > n THEN 0 ELSE n - 1 + 1
      BY <1>1, FS_Interval
    <2>. QED BY <1>1, <2>1
  <1>4. IsFiniteSet(Fibers) /\ Cardinality(Fibers) \in Nat
    BY CondAssumption, AllWaitersNat
  <1>5. ~(Cardinality(Fibers) < Cardinality(1..n))
    BY <1>1, <1>2, <1>3, <1>4, FS_PigeonHole
  <1>. QED BY <1>1, <1>3, <1>4, <1>5

\* A waker that has not locked the queue yet has woken nobody.
LEMMA WakerAtLock ==
  ASSUME QInv, NEW f \in Fibers, pc[f] = "wake_lock"
  PROVE  kq[f] \in Queues /\ woken[f] = 0
  <1>. Typed /\ Frames
    BY QParts
  <1>1. kq[f] \in Queues \cup {NULL}
    BY DEF Typed
  <1>. QED BY <1>1 DEF Frames, InWake


\* A waker counts each fiber of the queue at most once: none enters it meanwhile.
LEMMA NextWokenBound == IInv /\ [Next]_vars => WokenBound'
  <1>. SUFFICES ASSUME IInv, [Next]_vars PROVE WokenBound'
    OBVIOUS
  <1>. QInv /\ WokenBound
    BY IParts, QParts
  <1>t. /\ pc \in [Fibers -> InWait \cup InWake \cup AtClient]
        /\ kq \in [Fibers -> Queues \cup {NULL}] /\ woken \in [Fibers -> Nat]
        /\ max \in [Fibers -> {1, AllWaiters}] /\ nodes \in [Queues -> Seq(Fibers)]
        /\ wq \in [Fibers -> Queues \cup {NULL}]
    BY IParts, QParts DEF Typed
  <1>a. \A g \in Fibers :
          /\ pc[g] \in {"wake", "callback"} => kq[g] \in Queues
          /\ pc[g] = "insert" => wq[g] \in Queues
    BY <1>t, QueueNames, QParts DEF Frames, InWake, InWait
  <1>b. \A q \in Queues : \A g, h \in Fibers : Holds(g, q) /\ Holds(h, q) => g = h
    BY QParts DEF Locked
  <1>1. ASSUME NEW f \in Fibers, Quiet, WakeLock(f) PROVE WokenBound'
    <2>1. pc[f] = "wake_lock" /\ pc' = [pc EXCEPT ![f] = "wake"] /\ UNCHANGED <<nodes, kq, max, woken>>
      BY <1>1 DEF WakeLock, Goto, wakeVars
    <2>2. kq[f] \in Queues /\ woken[f] = 0
      BY <2>1, WakerAtLock
    <2>3. Len(nodes[kq[f]]) \in Nat /\ Len(nodes[kq[f]]) <= Cardinality(Fibers)
      BY <2>2, LenBound
    <2>. QED BY <1>t, <2>1, <2>2, <2>3, AllWaitersNat DEF WokenBound
  <1>2. ASSUME NEW f \in Fibers, Quiet, WakeLoopEnds(f) PROVE WokenBound'
    BY <1>2, <1>t DEF WakeLoopEnds, Goto, WokenBound, wakeVars
  <1>3. ASSUME NEW f \in Fibers, Quiet, Insert(f) PROVE WokenBound'
    <2>1. /\ \A g \in Fibers : pc'[g] \in {"wake", "callback"} => pc[g] = pc'[g]
          /\ UNCHANGED <<woken, kq, max>> /\ pc[f] = "insert" /\ wq[f] \in Queues
          /\ \A q \in Queues \ {wq[f]} : nodes'[q] = nodes[q]
      BY <1>3, <1>a, <1>t DEF Insert, Goto, wakeVars
    <2>2. \A g \in Fibers : pc[g] \in {"wake", "callback"} => kq[g] \in Queues \ {wq[f]}
      BY <1>a, <1>b, <2>1 DEF Holds
    <2>. QED BY <1>t, <2>1, <2>2, AllWaitersNat DEF WokenBound
  <1>4. ASSUME NEW f \in Fibers, Quiet, Remove(f) PROVE WokenBound'
    <2>1. /\ \A g \in Fibers : pc'[g] \in {"wake", "callback"} => pc[g] = pc'[g]
          /\ UNCHANGED <<woken, kq, max>>
      BY <1>4, <1>t, RemoveEnds DEF wakeVars
    <2>2. \A q \in Queues :
            /\ Len(nodes'[q]) \in Nat /\ Len(nodes[q]) \in Nat
            /\ Len(nodes'[q]) <= Len(nodes[q])
            /\ nodes[q] = <<>> => nodes'[q] = <<>>
      <3>1. nodes' \in [Queues -> Seq(Fibers)]
        BY <1>4, RemoveShrinks
      <3>. QED BY <1>4, <1>t, <3>1, RemoveShrinks
    <2>. SUFFICES ASSUME NEW g \in Fibers, pc'[g] \in {"wake", "callback"}
         PROVE  /\ woken'[g] + Len(nodes'[kq'[g]]) <= Cardinality(Fibers)
                /\ pc'[g] = "callback" => woken'[g] >= max'[g] \/ nodes'[kq'[g]] = <<>>
      BY DEF WokenBound
    <2>3. pc'[g] = pc[g] /\ woken'[g] = woken[g] /\ max'[g] = max[g] /\ kq'[g] = kq[g]
      BY <2>1
    <2>4. PICK q \in Queues : q = kq[g]
      BY <2>3, <1>a
    <2>5. /\ woken[g] + Len(nodes[q]) <= Cardinality(Fibers)
          /\ pc[g] = "callback" => woken[g] >= max[g] \/ nodes[q] = <<>>
      BY <2>3, <2>4 DEF WokenBound
    <2>6. woken[g] \in Nat
      BY <1>t
    <2>. QED BY <2>2, <2>3, <2>4, <2>5, <2>6, AllWaitersNat
  <1>5. ASSUME NEW f \in Fibers, Quiet, WakeOne(f) PROVE WokenBound'
    <2>1. /\ pc[f] = "wake" /\ kq[f] \in Queues /\ nodes[kq[f]] \in Seq(Fibers)
          /\ Len(nodes[kq[f]]) > 0
      BY <1>5, HeadWaits DEF WakeOne
    <2>2. /\ nodes' = [nodes EXCEPT ![kq[f]] = Tail(@)] /\ UNCHANGED <<pc, kq, max>>
          /\ woken'[f] \in {woken[f], woken[f] + 1}
          /\ \A g \in Fibers \ {f} : woken'[g] = woken[g]
      BY <1>5, <1>t DEF WakeOne, WakeNode
    <2>3. \A g \in Fibers \ {f} : pc[g] \in {"wake", "callback"} => kq[g] \in Queues \ {kq[f]}
      BY <1>a, <1>b, <2>1 DEF Holds
    <2>4. woken'[f] + Len(nodes'[kq[f]]) <= Cardinality(Fibers)
      BY <1>t, <2>1, <2>2, AllWaitersNat DEF WokenBound
    <2>5. \A q \in Queues \ {kq[f]} : nodes'[q] = nodes[q]
      BY <1>t, <2>1, <2>2
    <2>. QED BY <2>1, <2>2, <2>3, <2>4, <2>5 DEF WokenBound
  <1>6. CASE WakersKept
    BY <1>6 DEF WakersKept, WokenBound
  <1>. QED BY <1>1, <1>2, <1>3, <1>4, <1>5, <1>6, NextWakersKept DEF WakersMove
-----------------------------------------------------------------------------

\* The inductive invariant holds before the fibers start.
LEMMA InitIInv == Init => IInv
  <1>. SUFFICES ASSUME Init PROVE IInv
    OBVIOUS
  <1>1. OneOwner /\ StateMeans
    BY SyncAssumption DEF Init, QueueInit, OneOwner, StateMeans, MutualExclusion, Owns
  <1>2. WokenBound
    BY DEF Init, QueueInit, WokenBound
  <1>. QED BY <1>1, <1>2, InitQInv DEF IInv

\* Every step keeps the inductive invariant.
LEMMA NextIInv == IInv /\ [Next]_vars => IInv'
  BY NextQInv, NextOneOwner, NextStateMeans, NextWokenBound
  DEF IInv, QInv

\* The fibers of the program, whatever it is and however many they are, keep
\* the invariant of the waiters queues and of the mutex.
THEOREM Invariance == Spec => []IInv
  BY InitIInv, NextIInv, PTL DEF Spec

\* fev_mutex_lock(), fev_mutex_try_lock_until() and the hand-over of
\* fev_mutex_unlock() never let two fibers own the mutex.
THEOREM MutexExcludes == Spec => []MutualExclusion
  BY Invariance, PTL DEF IInv, OneOwner

\* Whenever the lock of the queue is free, a fiber in it keeps mutex->state at
\* 2, so that the fast path of fev_mutex_unlock() cannot pass it by.
THEOREM WaiterIsSeen == Spec => []NoStrandedWaiter
  <1>1. IInv => NoStrandedWaiter
    BY IParts DEF StateMeans, NoStrandedWaiter
  <1>. QED BY <1>1, Invariance, PTL

\* fev_cond_notify_all() empties the queue that it has locked: UINT32_MAX is
\* more than the waiters that can be in it.
THEOREM AllAreNotified == Spec => []NotifyAllWakesAll
  <1>1. IInv => NotifyAllWakesAll
    <2>. SUFFICES ASSUME IInv, NEW f \in Fibers, kq[f] = "cond", pc[f] = "callback",
                         max[f] = AllWaiters
                  PROVE  nodes["cond"] = <<>>
      BY DEF NotifyAllWakesAll
    <2>1. /\ woken[f] \in Nat /\ Len(nodes["cond"]) \in Nat
          /\ woken[f] + Len(nodes["cond"]) <= Cardinality(Fibers)
          /\ woken[f] >= max[f] \/ nodes["cond"] = <<>>
      <3>1. woken[f] \in Nat /\ nodes["cond"] \in Seq(Fibers)
        BY SyncAssumption, IParts, QParts DEF Typed
      <3>. QED BY <3>1, IParts DEF WokenBound
    <2>. QED BY <2>1, AllWaitersNat DEF AllWaiters
  <1>. QED BY <1>1, Invariance, PTL
===============================================================================
