-------------------------- MODULE WaitersQueueProofs --------------------------
(***************************************************************************)
(* The waiters queue of fibers for any number of them, under the programs   *)
(* that use it: where the fibers are in fev_waiters_queue_wait() and        *)
(* fev_waiters_queue_wake(), who has the lock of a queue, and that a queue  *)
(* holds the nodes of the fibers that wait.                                 *)
(***************************************************************************)
EXTENDS Sync, TLAPS

\* Where a fiber is in fev_waiters_queue_wait() and fev_waiters_queue_wake().
InWait == {"wait_lock", "recheck", "recheck_store", "no_wait", "insert", "timers_add",
           "waiting", "remove_lock", "remove", "done"}
InWake == {"wake_lock", "wake", "callback", "wake_unlock"}
AtClient == {"idle", "cs", "notify", "relock", "returned"}

Typed ==
  /\ qlock \in [Queues -> Fibers \cup {NULL}]
  /\ nodes \in [Queues -> Seq(Fibers)]
  /\ deleted \in [Fibers -> BOOLEAN]
  /\ reason \in [Fibers -> {"NONE", "READY", "TIMED_OUT"}]
  /\ timed \in [Fibers -> BOOLEAN]
  /\ res \in [Fibers -> {"OK", "ENOMEM", "ETIMEDOUT", "EAGAIN"}]
  /\ wq \in [Fibers -> Queues \cup {NULL}]
  /\ kq \in [Fibers -> Queues \cup {NULL}]
  /\ max \in [Fibers -> {1, AllWaiters}]
  /\ woken \in [Fibers -> Nat]
  /\ ret \in [Fibers -> {"idle", "notify", "insert", "returned"}]
  /\ pc \in [Fibers -> InWait \cup InWake \cup AtClient]
  /\ state \in {0, 1, 2} /\ items \in Nat /\ value \in Nat

\* The locals of the calls that a fiber is in, and where they return to.  Only
\* fev_cond_wait_recheck() wakes, on the mutex, within a wait.
Frames ==
  \A f \in Fibers :
    /\ pc[f] \in InWait => wq[f] # NULL /\ ret[f] \in {"idle", "returned"}
    /\ pc[f] \in InWake => kq[f] # NULL /\ ret[f] \in {"idle", "notify", "insert"}
    /\ pc[f] \in AtClient => wq[f] = NULL /\ ret[f] = "idle"
    /\ pc[f] \notin InWake => kq[f] = NULL
    /\ pc[f] \in InWake => (ret[f] = "insert" <=> wq[f] # NULL)
    /\ pc[f] \in InWake /\ wq[f] # NULL => wq[f] = "cond" /\ kq[f] = "mutex"
    /\ ret[f] = "notify" => kq[f] = "mutex"
    /\ ret[f] = "returned" => wq[f] = "mutex"
    /\ pc[f] = "recheck_store" => wq[f] = "mutex"
    /\ pc[f] \notin {"wake", "callback", "wake_unlock"} => woken[f] = 0
    /\ kq[f] \in {"mutex", "sem"} => max[f] = 1

\* The reason of a waiter: it has one only in its wait, READY comes with the
\* removal of its node, TIMED_OUT with a timer.
ReasonMeans(f) ==
  /\ ~InFrame(f) /\ pc[f] # "done" => reason[f] = "NONE"
  /\ InFrame(f) /\ reason[f] = "READY" => deleted[f]
  /\ InFrame(f) /\ deleted[f] => reason[f] # "NONE"
  /\ reason[f] = "TIMED_OUT" => timed[f]
  /\ pc[f] = "timers_add" => reason[f] # "TIMED_OUT"
  /\ pc[f] \in {"remove_lock", "remove"} => res[f] # "OK"
  /\ ~can_fail /\ pc[f] \in {"remove_lock", "remove"} => reason[f] = "TIMED_OUT"
  /\ ~can_fail /\ pc[f] = "done" /\ res[f] # "OK" => reason[f] = "TIMED_OUT"

Reasons == \A f \in Fibers : ReasonMeans(f)

\* The fiber is in a critical section of queue->lock.
Holds(f, q) ==
  \/ wq[f] = q /\ pc[f] \in {"recheck", "recheck_store", "no_wait", "insert", "remove"}
  \/ wq[f] = q /\ pc[f] \in InWake
  \/ kq[f] = q /\ pc[f] \in {"wake", "callback", "wake_unlock"}

Locked == \A q \in Queues : \A f \in Fibers : Holds(f, q) => qlock[q] = f

QInv == Typed /\ Frames /\ Reasons /\ Locked /\ NodesLive
-----------------------------------------------------------------------------

\* The inductive invariant holds before the fibers start.
LEMMA InitQInv == Init => QInv
  <1>. SUFFICES ASSUME Init PROVE QInv
    OBVIOUS
  <1>. USE QueueAssumption, SemAssumption, SyncAssumption
  <1>1. Typed
    <2>1. deleted \in [Fibers -> BOOLEAN] /\ timed \in [Fibers -> BOOLEAN]
      BY Zenon DEF Init, QueueInit
    <2>. QED BY <2>1 DEF Init, QueueInit, Typed, InWait, InWake, AtClient
  <1>2. Frames /\ Reasons /\ Locked
    BY DEF Init, QueueInit, Frames, Reasons, ReasonMeans, Locked, Holds, InFrame, InWait,
       InWake, AtClient
  <1>3. NodesLive
    BY DEF Init, QueueInit, NodesLive, InFrame
  <1>. QED BY <1>1, <1>2, <1>3 DEF QInv

\* The parts of the invariant, for the lemmas that need some of them.
LEMMA QParts == QInv => Typed /\ Frames /\ Reasons /\ Locked /\ NodesLive
  BY DEF QInv

-----------------------------------------------------------------------------
(* What the steps of each part leave alone. *)

Quiet == SyncUnchanged /\ UNCHANGED <<state, items, value>>
OnMutex == SyncUnchanged /\ UNCHANGED <<items, value>>
OnCond == SyncUnchanged /\ UNCHANGED value
OnSem == SyncUnchanged /\ UNCHANGED <<state, items>>

\* A client finds the mutex locked.
LockWaits(f) ==
  \E from \in {"idle", "returned"} : \E t \in BOOLEAN :
    (t => f \in Producers) /\ TryLockFails(f, from, t, "idle")

\* A client locks the mutex, or is about to wait for it.
LEMMA LockCases ==
  ASSUME NEW f \in Fibers, ClientLocks(f)
  PROVE  (\E from \in {"idle", "returned"} : TryLock(f, from)) \/ LockWaits(f)
  BY DEF ClientLocks, LockWaits

\* TAILQ_REMOVE() takes one node out and leaves the others in their order.
LEMMA WithoutIsShorter ==
  ASSUME NEW s \in Seq(Fibers), NEW i \in DOMAIN s
  PROVE  /\ Without(s, i) \in Seq(Fibers)
         /\ Len(Without(s, i)) = Len(s) - 1
         /\ \A j \in DOMAIN Without(s, i) :
              Without(s, i)[j] = IF j < i THEN s[j] ELSE s[j + 1]
         /\ \A j \in DOMAIN s \ {i} : \E k \in DOMAIN Without(s, i) : Without(s, i)[k] = s[j]
  <1>1. /\ Without(s, i) \in Seq(Fibers)
        /\ Len(Without(s, i)) = Len(s) - 1
        /\ \A j \in 1..Len(s) - 1 : Without(s, i)[j] = IF j < i THEN s[j] ELSE s[j + 1]
    BY DEF Without
  <1>2. ASSUME NEW j \in DOMAIN s \ {i}
        PROVE  \E k \in DOMAIN Without(s, i) : Without(s, i)[k] = s[j]
    <2>1. CASE j < i
      BY <1>1, <2>1
    <2>2. CASE j > i
      <3>1. j - 1 \in DOMAIN Without(s, i) /\ Without(s, i)[j - 1] = s[j]
        BY <1>1, <2>2
      <3>. QED BY <3>1
    <2>. QED BY <2>1, <2>2
  <1>. QED BY <1>1, <1>2

\* The first waiter of a queue is in its wait, and is not the one that wakes it.
LEMMA HeadWaits ==
  ASSUME QInv, NEW f \in Fibers, WakeOne(f)
  PROVE  /\ kq[f] \in Queues /\ nodes[kq[f]] \in Seq(Fibers) /\ Len(nodes[kq[f]]) > 0
         /\ Head(nodes[kq[f]]) \in Fibers \ {f}
         /\ InFrame(Head(nodes[kq[f]])) /\ ~deleted[Head(nodes[kq[f]])]
         /\ wq[Head(nodes[kq[f]])] = kq[f]
  <1>. Typed /\ Frames /\ NodesLive
    BY QParts
  <1>1. pc[f] = "wake" /\ kq[f] \in Queues /\ nodes[kq[f]] \in Seq(Fibers) /\ nodes[kq[f]] # <<>>
    BY DEF WakeOne, Typed, Frames, InWake
  <1>2. 1 \in DOMAIN nodes[kq[f]] /\ Head(nodes[kq[f]]) = nodes[kq[f]][1]
    BY <1>1
  <1>. QED BY <1>1, <1>2 DEF NodesLive, InFrame

\* The end of a wait that was not woken, but for the node.
LEMMA RemoveEnds ==
  ASSUME NEW f \in Fibers, Remove(f)
  PROVE  /\ pc[f] = "remove" /\ pc' = [pc EXCEPT ![f] = "done"]
         /\ qlock[wq[f]] = f /\ qlock' = [qlock EXCEPT ![wq[f]] = NULL]
         /\ UNCHANGED <<waitVars, wakeVars, ret>>
  BY DEF Remove, Goto, Unlock

\* Removing a node makes no queue longer.
LEMMA RemoveShrinks ==
  ASSUME QInv, NEW f \in Fibers, Remove(f)
  PROVE  /\ nodes' \in [Queues -> Seq(Fibers)]
         /\ \A q \in Queues : Len(nodes'[q]) <= Len(nodes[q]) /\ (nodes[q] = <<>> => nodes'[q] = <<>>)
  <1>. Typed /\ Frames
    BY QParts
  <1>1. wq[f] \in Queues /\ nodes[wq[f]] \in Seq(Fibers)
    BY DEF Remove, Goto, Typed, Frames, InWait
  <1>2. CASE UNCHANGED nodes
    BY <1>2 DEF Typed
  <1>3. ASSUME NEW i \in DOMAIN nodes[wq[f]],
               nodes' = [nodes EXCEPT ![wq[f]] = Without(@, i)]
        PROVE  /\ nodes' \in [Queues -> Seq(Fibers)]
               /\ \A q \in Queues :
                    Len(nodes'[q]) <= Len(nodes[q]) /\ (nodes[q] = <<>> => nodes'[q] = <<>>)
    <2>1. /\ Without(nodes[wq[f]], i) \in Seq(Fibers)
          /\ Len(Without(nodes[wq[f]], i)) = Len(nodes[wq[f]]) - 1
      BY Zenon, <1>1, <1>3, WithoutIsShorter
    <2>. QED BY <1>1, <1>3, <2>1 DEF Typed
  <1>. QED BY <1>2, <1>3 DEF Remove

\* The calls of a fiber nest.
LEMMA NextFrames == QInv /\ [Next]_vars => Frames'
  <1>. SUFFICES ASSUME QInv, [Next]_vars PROVE Frames'
    OBVIOUS
  <1>. Typed /\ Frames
    BY QParts
  <1>. USE SMTT(30), SyncAssumption, QueueAssumption DEF Typed, Frames, InWait, InWake, AtClient,
       waitVars, wakeVars, SyncUnchanged, Quiet, OnMutex, OnCond, OnSem
  <1>1. ASSUME NEW f \in Fibers, Quiet,
               WaitLock(f) \/ RemoveLock(f) \/ WakeLock(f) \/ Timeout(f) \/ WaitNot(f)
        PROVE Frames'
    BY <1>1 DEF WaitLock, Goto, Lock, RemoveLock, WakeLock, Timeout, WaitNot, Unlock
  <1>2. ASSUME NEW f \in Fibers, Quiet,
               TimersAdd(f) \/ TimersAddFails(f) \/ WaitTimedOut(f) \/ WakeLoopEnds(f)
               \/ WakeUnlock(f)
        PROVE Frames'
    BY <1>2 DEF TimersAdd, Goto, TimersAddFails, WaitTimedOut, WakeLoopEnds, WakeUnlock, Unlock
  <1>3. ASSUME NEW f \in Fibers, Quiet, Insert(f) PROVE Frames'
    BY <1>3 DEF Insert, Goto, Unlock
  <1>4. ASSUME NEW f \in Fibers, Quiet, WaitReady(f) PROVE Frames'
    BY <1>4 DEF WaitReady, Goto
  <1>5. ASSUME NEW f \in Fibers, Quiet, Remove(f) PROVE Frames'
    <2>1. pc[f] = "remove" /\ pc' = [pc EXCEPT ![f] = "done"] /\ UNCHANGED <<wq, kq, ret, max, woken>>
      BY <1>5, RemoveEnds
    <2>. QED BY <2>1
  <1>6. ASSUME NEW f \in Fibers, Quiet, WakeOne(f) PROVE Frames'
    <2>1. woken' \in [Fibers -> Nat]
      BY <1>6 DEF WakeOne, WakeNode
    <2>. QED BY <1>6, <2>1 DEF WakeOne, WakeNode
  <1>7. ASSUME NEW f \in Fibers, OnMutex,
               Recheck(f) \/ RecheckStore(f) \/ LockReturn(f) \/ UnlockCallback(f)
        PROVE Frames'
    BY <1>7 DEF Recheck, Goto, RecheckStore, LockReturn, Again, Returns, FrameEnds,
          UnlockCallback
  <1>8. ASSUME NEW f \in Fibers, OnCond, ClientLocks(f) PROVE Frames'
    <2>1. CASE \E from \in {"idle", "returned"} : TryLock(f, from)
      BY <1>8, <2>1 DEF ClientLocks, TryLock, Goto
    <2>2. CASE LockWaits(f)
      BY <1>8, <2>2 DEF LockWaits, ClientLocks, TryLockFails, CallWait, Goto
    <2>. HIDE DEF Frames
    <2>. QED BY <1>8, <2>1, <2>2, LockCases
  <1>9. ASSUME NEW f \in Fibers, OnCond,
               Produce(f) \/ Consume(f) \/ Leave(f) \/ Notify(f) \/ NotifyNoCallback(f)
        PROVE Frames'
    BY <1>9 DEF Produce, MutexUnlock, UnlockFast, UnlockSlow, CallWake, Goto, Consume, Leave,
          Notify, NotifyNoCallback
  <1>10. ASSUME NEW f \in Fibers, OnCond,
               CondWait(f) \/ CondWaitRecheck(f) \/ CondWaitWoken(f) \/ Relock(f)
        PROVE Frames'
    BY <1>10 DEF CondWait, CallWait, Goto, CondWaitRecheck, MutexUnlock, UnlockFast, UnlockSlow,
          CallWake, CondWaitWoken, FrameEnds, Relock, TryLock, TryLockFails
  <1>11. ASSUME NEW f \in Fibers, OnSem,
               SemWait(f) \/ SemPost(f) \/ SemWaitRecheck(f) \/ SemReturn(f)
               \/ SemPostCallback(f)
        PROVE Frames'
    BY <1>11 DEF SemWait, CallWait, Goto, SemPost, CallWake, SemWaitRecheck, SemReturn, Again,
          Returns, FrameEnds, SemPostCallback
  <1>12. CASE UNCHANGED vars
    BY <1>12 DEF vars, queueVars
  <1>. HIDE DEF Typed, Frames, InWait, InWake, AtClient, waitVars, wakeVars, SyncUnchanged, Quiet,
       OnMutex, OnCond, OnSem
  <1>. QED
    BY <1>1, <1>2, <1>3, <1>4, <1>5, <1>6, <1>7, <1>8, <1>9, <1>10, <1>11, <1>12
    DEF Next, ClientStarts, Acquires, LockSteps, TimesOut, Rest, QueueSteps, MutexSteps, CondSteps, 
        SemSteps, Quiet, OnMutex, OnCond, OnSem

\* Nobody but its waker and its timer gives a waiter a reason.
LEMMA NextReasons == QInv /\ [Next]_vars => Reasons'
  <1>. SUFFICES ASSUME QInv, [Next]_vars PROVE Reasons'
    OBVIOUS
  <1>. Typed /\ Frames /\ NodesLive /\ Reasons
    BY QParts
  <1>. USE SMTT(30), QueueAssumption DEF Typed, Frames, Reasons, ReasonMeans, InFrame, InWait,
       InWake, AtClient, waitVars, wakeVars, SyncUnchanged, Quiet, OnMutex, OnCond, OnSem
  <1>1. ASSUME NEW f \in Fibers, Quiet,
               WaitLock(f) \/ RemoveLock(f) \/ WakeLock(f) \/ Timeout(f) \/ WaitNot(f)
        PROVE Reasons'
    BY <1>1 DEF WaitLock, Goto, Lock, RemoveLock, WakeLock, Timeout, WaitNot, Unlock
  <1>2. ASSUME NEW f \in Fibers, Quiet,
               TimersAdd(f) \/ TimersAddFails(f) \/ WaitTimedOut(f) \/ WakeLoopEnds(f)
               \/ WakeUnlock(f)
        PROVE Reasons'
    BY <1>2 DEF TimersAdd, Goto, TimersAddFails, WaitTimedOut, WakeLoopEnds, WakeUnlock, Unlock
  <1>3. ASSUME NEW f \in Fibers, Quiet, Insert(f) PROVE Reasons'
    BY <1>3 DEF Insert, Goto, Unlock
  <1>4. ASSUME NEW f \in Fibers, Quiet, WaitReady(f) PROVE Reasons'
    BY <1>4 DEF WaitReady, Goto
  <1>5. ASSUME NEW f \in Fibers, Quiet, Remove(f) PROVE Reasons'
    BY <1>5, RemoveEnds
  <1>6. ASSUME NEW f \in Fibers, Quiet, WakeOne(f) PROVE Reasons'
    <2>. DEFINE g == Head(nodes[kq[f]])
    <2>1. g \in Fibers /\ InFrame(g)
      BY <1>6, HeadWaits
    <2>2. /\ UNCHANGED <<timed, res, pc>>
          /\ deleted' = [deleted EXCEPT ![g] = TRUE]
          /\ reason' = [reason EXCEPT ![g] = IF @ = "NONE" THEN "READY" ELSE @]
      BY <1>6 DEF WakeOne, WakeNode
    <2>. HIDE DEF g
    <2>. QED BY <1>6, <2>1, <2>2
  <1>7. ASSUME NEW f \in Fibers, OnMutex,
               Recheck(f) \/ RecheckStore(f) \/ LockReturn(f) \/ UnlockCallback(f)
        PROVE Reasons'
    BY <1>7 DEF Recheck, Goto, RecheckStore, LockReturn, Again, Returns, FrameEnds,
          UnlockCallback
  <1>8. ASSUME NEW f \in Fibers, OnCond, ClientLocks(f) PROVE Reasons'
    BY <1>8 DEF ClientLocks, TryLock, TryLockFails, CallWait, Goto
  <1>9. ASSUME NEW f \in Fibers, OnCond,
               Produce(f) \/ Consume(f) \/ Leave(f) \/ Notify(f) \/ NotifyNoCallback(f)
        PROVE Reasons'
    BY <1>9 DEF Produce, MutexUnlock, UnlockFast, UnlockSlow, CallWake, Goto, Consume, Leave,
          Notify, NotifyNoCallback
  <1>10. ASSUME NEW f \in Fibers, OnCond,
               CondWait(f) \/ CondWaitRecheck(f) \/ CondWaitWoken(f) \/ Relock(f)
        PROVE Reasons'
    BY <1>10 DEF CondWait, CallWait, Goto, CondWaitRecheck, MutexUnlock, UnlockFast, UnlockSlow,
          CallWake, CondWaitWoken, FrameEnds, Relock, TryLock, TryLockFails
  <1>11. ASSUME NEW f \in Fibers, OnSem,
               SemWait(f) \/ SemPost(f) \/ SemWaitRecheck(f) \/ SemReturn(f)
               \/ SemPostCallback(f)
        PROVE Reasons'
    BY <1>11 DEF SemWait, CallWait, Goto, SemPost, CallWake, SemWaitRecheck, SemReturn, Again,
          Returns, FrameEnds, SemPostCallback
  <1>12. CASE UNCHANGED vars
    BY <1>12 DEF vars, queueVars
  <1>. HIDE DEF Typed, Frames, Reasons, ReasonMeans, InFrame, InWait, InWake, AtClient, waitVars,
       wakeVars, SyncUnchanged, Quiet, OnMutex, OnCond, OnSem
  <1>. QED
    BY <1>1, <1>2, <1>3, <1>4, <1>5, <1>6, <1>7, <1>8, <1>9, <1>10, <1>11, <1>12
    DEF Next, ClientStarts, Acquires, LockSteps, TimesOut, Rest, QueueSteps, MutexSteps, CondSteps, 
        SemSteps, Quiet, OnMutex, OnCond, OnSem

\* queue->lock is kept from one end of each critical section to the other.
LEMMA NextLocked == QInv /\ [Next]_vars => Locked'
  <1>. SUFFICES ASSUME QInv, [Next]_vars PROVE Locked'
    OBVIOUS
  <1>. Typed /\ Frames /\ Locked
    BY QParts
  <1>. USE SMTT(30), SyncAssumption, QueueAssumption DEF Typed, Frames, Locked, Holds, InWait,
       InWake, AtClient, waitVars, wakeVars, SyncUnchanged, Quiet, OnMutex, OnCond, OnSem
  <1>1. ASSUME NEW f \in Fibers, Quiet,
               WaitLock(f) \/ RemoveLock(f) \/ WakeLock(f) \/ Timeout(f) \/ WaitNot(f)
        PROVE Locked'
    BY <1>1 DEF WaitLock, Goto, Lock, RemoveLock, WakeLock, Timeout, WaitNot, Unlock
  <1>2. ASSUME NEW f \in Fibers, Quiet,
               TimersAdd(f) \/ TimersAddFails(f) \/ WaitTimedOut(f) \/ WakeLoopEnds(f)
               \/ WakeUnlock(f)
        PROVE Locked'
    BY <1>2 DEF TimersAdd, Goto, TimersAddFails, WaitTimedOut, WakeLoopEnds, WakeUnlock, Unlock
  <1>3. ASSUME NEW f \in Fibers, Quiet, Insert(f) PROVE Locked'
    BY <1>3 DEF Insert, Goto, Unlock
  <1>4. ASSUME NEW f \in Fibers, Quiet, WaitReady(f) PROVE Locked'
    BY <1>4 DEF WaitReady, Goto
  <1>5. ASSUME NEW f \in Fibers, Quiet, Remove(f) PROVE Locked'
    <2>1. /\ pc[f] = "remove" /\ pc' = [pc EXCEPT ![f] = "done"] /\ UNCHANGED <<wq, kq>>
          /\ qlock' = [qlock EXCEPT ![wq[f]] = NULL]
      BY <1>5, RemoveEnds
    <2>2. \A g \in Fibers : \A q \in Queues : Holds(g, q)' => g # f /\ Holds(g, q)
      BY <2>1
    <2>3. wq[f] \in Queues /\ Holds(f, wq[f])
      BY <2>1
    <2>. HIDE DEF Holds
    <2>. QED BY <2>1, <2>2, <2>3
  <1>6. ASSUME NEW f \in Fibers, Quiet, WakeOne(f) PROVE Locked'
    BY <1>6 DEF WakeOne, WakeNode
  <1>7. ASSUME NEW f \in Fibers, OnMutex,
               Recheck(f) \/ RecheckStore(f) \/ LockReturn(f) \/ UnlockCallback(f)
        PROVE Locked'
    BY <1>7 DEF Recheck, Goto, RecheckStore, LockReturn, Again, Returns, FrameEnds,
          UnlockCallback
  <1>8. ASSUME NEW f \in Fibers, OnCond, ClientLocks(f) PROVE Locked'
    BY <1>8 DEF ClientLocks, TryLock, TryLockFails, CallWait, Goto
  <1>9. ASSUME NEW f \in Fibers, OnCond,
               Produce(f) \/ Consume(f) \/ Leave(f) \/ Notify(f) \/ NotifyNoCallback(f)
        PROVE Locked'
    BY <1>9 DEF Produce, MutexUnlock, UnlockFast, UnlockSlow, CallWake, Goto, Consume, Leave,
          Notify, NotifyNoCallback
  <1>10. ASSUME NEW f \in Fibers, OnCond,
               CondWait(f) \/ CondWaitRecheck(f) \/ CondWaitWoken(f) \/ Relock(f)
        PROVE Locked'
    BY <1>10 DEF CondWait, CallWait, Goto, CondWaitRecheck, MutexUnlock, UnlockFast, UnlockSlow,
          CallWake, CondWaitWoken, FrameEnds, Relock, TryLock, TryLockFails
  <1>11. ASSUME NEW f \in Fibers, OnSem,
               SemWait(f) \/ SemPost(f) \/ SemWaitRecheck(f) \/ SemReturn(f)
               \/ SemPostCallback(f)
        PROVE Locked'
    BY <1>11 DEF SemWait, CallWait, Goto, SemPost, CallWake, SemWaitRecheck, SemReturn, Again,
          Returns, FrameEnds, SemPostCallback
  <1>12. CASE UNCHANGED vars
    BY <1>12 DEF vars, queueVars
  <1>. HIDE DEF Typed, Frames, Locked, Holds, InWait, InWake, AtClient, waitVars, wakeVars,
       SyncUnchanged, Quiet, OnMutex, OnCond, OnSem
  <1>. QED
    BY <1>1, <1>2, <1>3, <1>4, <1>5, <1>6, <1>7, <1>8, <1>9, <1>10, <1>11, <1>12
    DEF Next, ClientStarts, Acquires, LockSteps, TimesOut, Rest, QueueSteps, MutexSteps, CondSteps, 
        SemSteps, Quiet, OnMutex, OnCond, OnSem

\* The frames, and what the queues hold of them, stay as they are.
FramesKept ==
  /\ UNCHANGED nodes
  /\ \A g \in Fibers :
       /\ InFrame(g)' <=> InFrame(g)
       /\ InFrame(g) => deleted'[g] = deleted[g] /\ wq'[g] = wq[g]

\* The steps that move a node or a frame.
NodesMove ==
  \E f \in Fibers :
    \/ Quiet /\ (Insert(f) \/ WaitReady(f) \/ Remove(f) \/ WakeOne(f))

\* No other step touches the frames or the queue.
LEMMA NextFramesKept == QInv /\ [Next]_vars => FramesKept \/ NodesMove
  <1>. SUFFICES ASSUME QInv, [Next]_vars, ~NodesMove PROVE FramesKept
    OBVIOUS
  <1>. Typed /\ Frames
    BY QParts
  <1>. USE SMTT(30), QueueAssumption DEF Typed, Frames, InFrame, FramesKept, InWait, InWake,
       AtClient, waitVars, wakeVars, SyncUnchanged, Quiet, OnMutex, OnCond, OnSem
  <1>1. ASSUME NEW f \in Fibers, Quiet,
               WaitLock(f) \/ RemoveLock(f) \/ WakeLock(f) \/ Timeout(f) \/ WaitNot(f)
        PROVE FramesKept
    BY <1>1 DEF WaitLock, Goto, Lock, RemoveLock, WakeLock, Timeout, WaitNot, Unlock
  <1>2. ASSUME NEW f \in Fibers, Quiet,
               TimersAdd(f) \/ TimersAddFails(f) \/ WaitTimedOut(f) \/ WakeLoopEnds(f)
               \/ WakeUnlock(f)
        PROVE FramesKept
    BY <1>2 DEF TimersAdd, Goto, TimersAddFails, WaitTimedOut, WakeLoopEnds, WakeUnlock, Unlock
  <1>3. ASSUME NEW f \in Fibers, OnMutex,
               Recheck(f) \/ RecheckStore(f) \/ LockReturn(f) \/ UnlockCallback(f)
        PROVE FramesKept
    BY <1>3 DEF Recheck, Goto, RecheckStore, LockReturn, Again, Returns, FrameEnds,
          UnlockCallback
  <1>4. ASSUME NEW f \in Fibers, OnCond, ClientLocks(f) PROVE FramesKept
    BY <1>4 DEF ClientLocks, TryLock, TryLockFails, CallWait, Goto
  <1>5. ASSUME NEW f \in Fibers, OnCond,
               Produce(f) \/ Consume(f) \/ Leave(f) \/ Notify(f) \/ NotifyNoCallback(f)
        PROVE FramesKept
    BY <1>5 DEF Produce, MutexUnlock, UnlockFast, UnlockSlow, CallWake, Goto, Consume, Leave,
          Notify, NotifyNoCallback
  <1>6. ASSUME NEW f \in Fibers, OnCond,
               CondWait(f) \/ CondWaitRecheck(f) \/ CondWaitWoken(f) \/ Relock(f)
        PROVE FramesKept
    BY <1>6 DEF CondWait, CallWait, Goto, CondWaitRecheck, MutexUnlock, UnlockFast, UnlockSlow,
          CallWake, CondWaitWoken, FrameEnds, Relock, TryLock, TryLockFails
  <1>7. ASSUME NEW f \in Fibers, OnSem,
               SemWait(f) \/ SemPost(f) \/ SemWaitRecheck(f) \/ SemReturn(f)
               \/ SemPostCallback(f)
        PROVE FramesKept
    BY <1>7 DEF SemWait, CallWait, Goto, SemPost, CallWake, SemWaitRecheck, SemReturn, Again,
          Returns, FrameEnds, SemPostCallback
  <1>8. CASE UNCHANGED vars
    BY <1>8 DEF vars, queueVars
  <1>. HIDE DEF Typed, Frames, InFrame, FramesKept, InWait, InWake, AtClient, waitVars, wakeVars,
       SyncUnchanged, Quiet, OnMutex, OnCond, OnSem
  <1>. QED
    BY <1>1, <1>2, <1>3, <1>4, <1>5, <1>6, <1>7, <1>8
    DEF Next, ClientStarts, Acquires, LockSteps, TimesOut, Rest, QueueSteps, MutexSteps, CondSteps, 
        SemSteps, Quiet, OnMutex, OnCond, OnSem, NodesMove

\* Every step keeps the types.
LEMMA NextTyped == QInv /\ [Next]_vars => Typed'
  <1>. SUFFICES ASSUME QInv, [Next]_vars PROVE Typed'
    OBVIOUS
  <1>. Typed /\ Frames /\ NodesLive
    BY QParts
  <1>. USE SMTT(30), SyncAssumption, QueueAssumption DEF Typed, InWait, InWake, AtClient,
       waitVars, wakeVars, SyncUnchanged, Quiet, OnMutex, OnCond, OnSem
  <1>1. ASSUME NEW f \in Fibers, Quiet, WaitLock(f) PROVE Typed'
    BY <1>1 DEF WaitLock, Goto, Lock, Frames
  <1>2. ASSUME NEW f \in Fibers, Quiet, RemoveLock(f) PROVE Typed'
    BY <1>2 DEF RemoveLock, Goto, Lock, Frames
  <1>3. ASSUME NEW f \in Fibers, Quiet, WakeLock(f) PROVE Typed'
    BY <1>3 DEF WakeLock, Goto, Lock, Frames
  <1>4. ASSUME NEW f \in Fibers, Quiet, Timeout(f) PROVE Typed'
    BY <1>4 DEF Timeout
  <1>5. ASSUME NEW f \in Fibers, Quiet, WaitNot(f) PROVE Typed'
    BY <1>5 DEF WaitNot, Goto, Unlock, Frames
  <1>6. ASSUME NEW f \in Fibers, Quiet, TimersAdd(f) PROVE Typed'
    BY <1>6 DEF TimersAdd, Goto
  <1>7. ASSUME NEW f \in Fibers, Quiet, TimersAddFails(f) PROVE Typed'
    BY <1>7 DEF TimersAddFails, Goto
  <1>8. ASSUME NEW f \in Fibers, Quiet, WaitTimedOut(f) PROVE Typed'
    BY <1>8 DEF WaitTimedOut, Goto
  <1>9. ASSUME NEW f \in Fibers, Quiet, WakeLoopEnds(f) PROVE Typed'
    BY <1>9 DEF WakeLoopEnds, Goto
  <1>10. ASSUME NEW f \in Fibers, Quiet, WakeUnlock(f) PROVE Typed'
    BY <1>10 DEF WakeUnlock, Goto, Unlock, Frames
  <1>11. ASSUME NEW f \in Fibers, Quiet, Insert(f) PROVE Typed'
    BY <1>11 DEF Insert, Goto, Unlock, Frames
  <1>12. ASSUME NEW f \in Fibers, Quiet, WaitReady(f) PROVE Typed'
    BY <1>12 DEF WaitReady, Goto
  <1>13. ASSUME NEW f \in Fibers, Quiet, Remove(f) PROVE Typed'
    <2>1. nodes' \in [Queues -> Seq(Fibers)]
      BY <1>13, RemoveShrinks
    <2>2. /\ pc[f] = "remove" /\ pc' = [pc EXCEPT ![f] = "done"]
          /\ qlock' = [qlock EXCEPT ![wq[f]] = NULL]
          /\ UNCHANGED <<waitVars, wakeVars, ret>>
      BY <1>13, RemoveEnds
    <2>. QED BY <1>13, <2>1, <2>2 DEF Frames
  <1>14. ASSUME NEW f \in Fibers, Quiet, WakeOne(f) PROVE Typed'
    BY <1>14 DEF WakeOne, WakeNode, Frames
  <1>15. ASSUME NEW f \in Fibers, OnMutex, Recheck(f) PROVE Typed'
    BY <1>15 DEF Recheck, Goto
  <1>16. ASSUME NEW f \in Fibers, OnMutex, RecheckStore(f) PROVE Typed'
    BY <1>16 DEF RecheckStore, Goto
  <1>17. ASSUME NEW f \in Fibers, OnMutex, LockReturn(f) PROVE Typed'
    <2>1. CASE Again(f)
      BY <1>17, <2>1 DEF LockReturn, Again, Goto
    <2>2. CASE Returns(f, "cs")
      BY <1>17, <2>2 DEF LockReturn, Returns, FrameEnds, Goto
    <2>. HIDE DEF Typed
    <2>. QED BY <1>17, <2>1, <2>2 DEF LockReturn
  <1>18. ASSUME NEW f \in Fibers, OnMutex, UnlockCallback(f) PROVE Typed'
    BY <1>18 DEF UnlockCallback, Goto
  <1>19. ASSUME NEW f \in Fibers, OnCond, ClientLocks(f) PROVE Typed'
    <2>1. CASE \E from \in {"idle", "returned"} : TryLock(f, from)
      BY <1>19, <2>1 DEF ClientLocks, TryLock, Goto
    <2>2. CASE LockWaits(f)
      BY <1>19, <2>2 DEF LockWaits, ClientLocks, TryLockFails, CallWait, Goto
    <2>. HIDE DEF Typed
    <2>. QED BY <1>19, <2>1, <2>2, LockCases
  <1>20. ASSUME NEW f \in Fibers, OnCond, Produce(f) PROVE Typed'
    <2>1. CASE UnlockFast(f, "cs", "notify")
      BY <1>20, <2>1 DEF Produce, UnlockFast, Goto
    <2>2. CASE UnlockSlow(f, "cs", "notify")
      BY <1>20, <2>2 DEF Produce, UnlockSlow, CallWake, Goto
    <2>. HIDE DEF Typed
    <2>. QED BY <1>20, <2>1, <2>2 DEF Produce, MutexUnlock
  <1>21. ASSUME NEW f \in Fibers, OnCond, Consume(f) PROVE Typed'
    <2>1. CASE UnlockFast(f, "cs", "idle")
      BY <1>21, <2>1 DEF Consume, UnlockFast, Goto
    <2>2. CASE UnlockSlow(f, "cs", "idle")
      BY <1>21, <2>2 DEF Consume, UnlockSlow, CallWake, Goto
    <2>. HIDE DEF Typed
    <2>. QED BY <1>21, <2>1, <2>2 DEF Consume, MutexUnlock
  <1>22. ASSUME NEW f \in Fibers, OnCond, Leave(f) PROVE Typed'
    <2>1. CASE UnlockFast(f, "cs", "idle")
      BY <1>22, <2>1 DEF Leave, UnlockFast, Goto
    <2>2. CASE UnlockSlow(f, "cs", "idle")
      BY <1>22, <2>2 DEF Leave, UnlockSlow, CallWake, Goto
    <2>. HIDE DEF Typed
    <2>. QED BY <1>22, <2>1, <2>2 DEF Leave, MutexUnlock
  <1>23. ASSUME NEW f \in Fibers, OnCond, Notify(f) PROVE Typed'
    BY <1>23 DEF Notify, CallWake, Goto
  <1>24. ASSUME NEW f \in Fibers, OnCond, NotifyNoCallback(f) PROVE Typed'
    BY <1>24 DEF NotifyNoCallback, Goto
  <1>25. ASSUME NEW f \in Fibers, OnCond, CondWait(f) PROVE Typed'
    BY <1>25 DEF CondWait, CallWait, Goto
  <1>26. ASSUME NEW f \in Fibers, OnCond, CondWaitRecheck(f) PROVE Typed'
    <2>1. CASE UnlockFast(f, "recheck", "insert")
      BY <1>26, <2>1 DEF CondWaitRecheck, UnlockFast, Goto
    <2>2. CASE UnlockSlow(f, "recheck", "insert")
      BY <1>26, <2>2 DEF CondWaitRecheck, UnlockSlow, CallWake, Goto
    <2>. HIDE DEF Typed
    <2>. QED BY <1>26, <2>1, <2>2 DEF CondWaitRecheck, MutexUnlock
  <1>27. ASSUME NEW f \in Fibers, OnCond, CondWaitWoken(f) PROVE Typed'
    BY <1>27 DEF CondWaitWoken, FrameEnds, Goto
  <1>28. ASSUME NEW f \in Fibers, OnCond, Relock(f) PROVE Typed'
    <2>1. CASE TryLock(f, "relock")
      BY <1>28, <2>1 DEF Relock, TryLock, Goto
    <2>2. CASE TryLockFails(f, "relock", timed[f], "returned")
      BY <1>28, <2>2 DEF Relock, TryLockFails, CallWait, Goto
    <2>. HIDE DEF Typed
    <2>. QED BY <1>28, <2>1, <2>2 DEF Relock
  <1>29. ASSUME NEW f \in Fibers, OnSem, SemWait(f) PROVE Typed'
    BY <1>29 DEF SemWait, CallWait, Goto
  <1>30. ASSUME NEW f \in Fibers, OnSem, SemPost(f) PROVE Typed'
    BY <1>30 DEF SemPost, CallWake, Goto
  <1>31. ASSUME NEW f \in Fibers, OnSem, SemWaitRecheck(f) PROVE Typed'
    BY <1>31 DEF SemWaitRecheck, Goto
  <1>32. ASSUME NEW f \in Fibers, OnSem, SemReturn(f) PROVE Typed'
    <2>1. CASE Again(f)
      BY <1>32, <2>1 DEF SemReturn, Again, Goto
    <2>2. CASE Returns(f, "idle")
      BY <1>32, <2>2 DEF SemReturn, Returns, FrameEnds, Goto
    <2>. HIDE DEF Typed
    <2>. QED BY <1>32, <2>1, <2>2 DEF SemReturn
  <1>33. ASSUME NEW f \in Fibers, OnSem, SemPostCallback(f) PROVE Typed'
    BY <1>33 DEF SemPostCallback, Goto
  <1>34. CASE UNCHANGED vars
    BY <1>34 DEF vars, queueVars
  <1>. HIDE DEF Typed, InWait, InWake, AtClient, waitVars, wakeVars, SyncUnchanged, Quiet,
       OnMutex, OnCond, OnSem
  <1>. QED
    BY <1>1, <1>2, <1>3, <1>4, <1>5, <1>6, <1>7, <1>8, <1>9, <1>10, <1>11, <1>12, <1>13, <1>14,
       <1>15, <1>16, <1>17, <1>18, <1>19, <1>20, <1>21, <1>22, <1>23, <1>24, <1>25, <1>26, <1>27,
       <1>28, <1>29, <1>30, <1>31, <1>32, <1>33, <1>34
    DEF Next, ClientStarts, Acquires, LockSteps, TimesOut, Rest, QueueSteps, MutexSteps, CondSteps, 
        SemSteps, Quiet, OnMutex, OnCond, OnSem
-----------------------------------------------------------------------------
(* The nodes of the queue, step by step. *)

\* The queue holds the same frames.
LEMMA NodesKept ==
  ASSUME QInv, FramesKept
  PROVE  NodesLive'
  <1>. Typed /\ NodesLive
    BY QParts
  <1>1. \A q \in Queues : \A i \in DOMAIN nodes[q] : nodes[q][i] \in Fibers
    BY DEF Typed
  <1>2. /\ UNCHANGED nodes
        /\ \A g \in Fibers : InFrame(g)' <=> InFrame(g)
        /\ \A g \in Fibers : InFrame(g) => deleted'[g] = deleted[g] /\ wq'[g] = wq[g]
    BY DEF FramesKept
  <1>. QED BY <1>1, <1>2 DEF NodesLive, Queued

\* The two halves of NodesLive, for a queue and for a fiber.
QueueLive(q) ==
  /\ \A i \in DOMAIN nodes[q] :
       InFrame(nodes[q][i]) /\ ~deleted[nodes[q][i]] /\ wq[nodes[q][i]] = q
  /\ \A i, j \in DOMAIN nodes[q] : nodes[q][i] = nodes[q][j] => i = j

FrameQueued(f) == InFrame(f) /\ ~deleted[f] => Queued(f, wq[f])

\* The members of the queues are fibers in their waits.
LEMMA Members ==
  ASSUME QInv, NEW q \in Queues
  PROVE  /\ nodes[q] \in Seq(Fibers)
         /\ \A i \in DOMAIN nodes[q] :
              nodes[q][i] \in Fibers /\ InFrame(nodes[q][i]) /\ ~deleted[nodes[q][i]]
  <1>. Typed /\ NodesLive
    BY QParts
  <1>1. nodes[q] \in Seq(Fibers)
    BY DEF Typed
  <1>. QED BY <1>1 DEF NodesLive

\* The node of a new frame goes to the end of the queue.
LEMMA InsertNodes ==
  ASSUME QInv, NEW f \in Fibers, Insert(f)
  PROVE  NodesLive'
  <1>. USE SMTT(30)
  <1>. Typed /\ Frames /\ NodesLive
    BY QParts
  <1>1. pc[f] = "insert" /\ wq[f] \in Queues
    BY DEF Insert, Goto, Typed, Frames, InWait
  <1>2. /\ nodes' = [nodes EXCEPT ![wq[f]] = Append(@, f)] /\ UNCHANGED wq
        /\ ~deleted'[f] /\ \A g \in Fibers \ {f} : deleted'[g] = deleted[g]
    BY DEF Insert, Typed
  <1>3. /\ ~InFrame(f) /\ InFrame(f)'
        /\ \A g \in Fibers \ {f} : InFrame(g)' <=> InFrame(g)
    BY DEF Insert, Goto, Typed, InFrame
  <1>4. \A q \in Queues : nodes[q] \in Seq(Fibers)
    BY DEF Typed
  <1>5. \A q \in Queues : \A i \in DOMAIN nodes[q] : nodes[q][i] \in Fibers \ {f}
    BY <1>3, Members
  <1>6. /\ \A q \in Queues \ {wq[f]} : nodes'[q] = nodes[q]
        /\ DOMAIN nodes'[wq[f]] = 1..Len(nodes[wq[f]]) + 1
        /\ \A i \in DOMAIN nodes'[wq[f]] :
             nodes'[wq[f]][i] = IF i = Len(nodes[wq[f]]) + 1 THEN f ELSE nodes[wq[f]][i]
    <2>1. /\ nodes[wq[f]] \in Seq(Fibers) /\ nodes'[wq[f]] = Append(nodes[wq[f]], f)
          /\ \A q \in Queues \ {wq[f]} : nodes'[q] = nodes[q]
      BY <1>1, <1>2, <1>4 DEF Typed
    <2>. QED BY <2>1
  <1>7. ASSUME NEW q \in Queues PROVE QueueLive(q)'
    <2>1. CASE q = wq[f]
      <3>1. PICK n \in Nat : n = Len(nodes[q]) /\ DOMAIN nodes[q] = 1..n
        BY <1>4
      <3>2. /\ DOMAIN nodes'[q] = 1..(n + 1) /\ nodes'[q][n + 1] = f
            /\ \A i \in 1..n : nodes'[q][i] = nodes[q][i] /\ nodes[q][i] # f
            /\ \A i, j \in 1..n : nodes[q][i] = nodes[q][j] => i = j
        BY <1>5, <1>6, <2>1, <3>1 DEF NodesLive
      <3>3. \A i \in DOMAIN nodes'[q] :
              nodes'[q][i] = f \/ \E j \in DOMAIN nodes[q] : nodes'[q][i] = nodes[q][j]
        BY <3>1, <3>2
      <3>4. \A g \in Fibers : (g = f \/ \E j \in DOMAIN nodes[q] : g = nodes[q][j])
              => InFrame(g)' /\ ~deleted'[g] /\ wq'[g] = q
        BY <1>2, <1>3, <1>5, <2>1 DEF NodesLive, InFrame
      <3>5. \A i, j \in DOMAIN nodes'[q] : nodes'[q][i] = nodes'[q][j] => i = j
        BY <3>2
      <3>. QED BY <1>5, <3>3, <3>4, <3>5 DEF QueueLive, InFrame
    <2>2. CASE q # wq[f]
      BY <1>2, <1>3, <1>5, <1>6, <2>2 DEF NodesLive, QueueLive, InFrame
    <2>. QED BY <2>1, <2>2
  <1>8. \A g \in Fibers : FrameQueued(g)'
    <2>1. Queued(f, wq[f])'
      BY <1>1, <1>2, <1>4, <1>6 DEF Queued
    <2>2. ASSUME NEW g \in Fibers \ {f}, InFrame(g), ~deleted[g] PROVE Queued(g, wq[g])'
      <3>1. wq[g] \in Queues /\ Queued(g, wq[g])
        BY <2>2 DEF NodesLive, InFrame, Frames, InWait, Typed
      <3>. QED BY <1>2, <1>4, <1>6, <3>1 DEF Queued
    <2>. QED BY <1>2, <1>3, <2>1, <2>2 DEF FrameQueued
  <1>. QED BY <1>7, <1>8 DEF NodesLive, QueueLive, FrameQueued

\* A waiter that was woken has left the queue before its frame ends.
LEMMA ReadyNodes ==
  ASSUME QInv, NEW f \in Fibers, WaitReady(f)
  PROVE  NodesLive'
  <1>. Typed /\ Reasons /\ NodesLive
    BY QParts
  <1>1. InFrame(f) /\ deleted[f] /\ ~InFrame(f)'
    BY DEF WaitReady, Goto, InFrame, Reasons, ReasonMeans, Typed
  <1>2. \A g \in Fibers \ {f} : InFrame(g)' <=> InFrame(g)
    BY DEF WaitReady, Goto, InFrame, Typed
  <1>3. UNCHANGED <<nodes, deleted, wq>>
    BY DEF WaitReady
  <1>4. \A q \in Queues : \A i \in DOMAIN nodes[q] : nodes[q][i] \in Fibers \ {f}
    BY <1>1, Members
  <1>. QED BY <1>1, <1>2, <1>3, <1>4 DEF NodesLive, Queued

\* A waiter that was not woken takes its node, which is still there, with it.
LEMMA RemoveNodes ==
  ASSUME QInv, NEW f \in Fibers, Remove(f)
  PROVE  NodesLive'
  <1>. USE SMTT(30)
  <1>. Typed /\ Frames /\ NodesLive
    BY QParts
  <1>1. InFrame(f) /\ ~InFrame(f)' /\ \A g \in Fibers \ {f} : InFrame(g)' <=> InFrame(g)
    BY RemoveEnds DEF InFrame, Typed
  <1>2. UNCHANGED <<deleted, wq>>
    BY RemoveEnds DEF waitVars
  <1>3. wq[f] \in Queues
    BY RemoveEnds DEF Typed, Frames, InWait
  <1>4. CASE deleted[f] /\ UNCHANGED nodes
    <2>1. \A q \in Queues : \A i \in DOMAIN nodes[q] : nodes[q][i] \in Fibers \ {f}
      BY <1>4, Members
    <2>. QED BY <1>1, <1>2, <1>4, <2>1 DEF NodesLive, Queued
  <1>5. ASSUME NEW i \in DOMAIN nodes[wq[f]], nodes[wq[f]][i] = f,
               nodes' = [nodes EXCEPT ![wq[f]] = Without(@, i)]
        PROVE  NodesLive'
    <2>. DEFINE s == nodes[wq[f]]
                t == Without(s, i)
    <2>1. /\ s \in Seq(Fibers) /\ t \in Seq(Fibers) /\ Len(t) = Len(s) - 1
          /\ \A j \in DOMAIN t : t[j] = IF j < i THEN s[j] ELSE s[j + 1]
          /\ \A j \in DOMAIN s \ {i} : \E k \in DOMAIN t : t[k] = s[j]
      BY Zenon, <1>3, <1>5, WithoutIsShorter, Members
    <2>2. /\ \A j, k \in DOMAIN s : s[j] = s[k] => j = k
          /\ \A j \in DOMAIN s : s[j] \in Fibers /\ InFrame(s[j]) /\ ~deleted[s[j]] /\ wq[s[j]] = wq[f]
      BY <1>3, Members DEF NodesLive
    <2>3. nodes'[wq[f]] = t /\ \A q \in Queues \ {wq[f]} : nodes'[q] = nodes[q]
      BY <1>3, <1>5 DEF Typed
    <2>4. s[i] = f
      BY <1>5
    <2>. HIDE DEF s, t
    <2>5. \A j \in DOMAIN t : t[j] \in Fibers \ {f} /\ InFrame(t[j]) /\ ~deleted[t[j]] /\ wq[t[j]] = wq[f]
      <3>1. \A j \in DOMAIN t : \E k \in DOMAIN s \ {i} : t[j] = s[k]
        BY <1>5, <2>1 DEF s
      <3>2. i \in DOMAIN s
        BY <1>5 DEF s
      <3>. QED BY <2>2, <2>4, <3>1, <3>2
    <2>6. \A j, k \in DOMAIN t : t[j] = t[k] => j = k
      <3>. DEFINE m(j) == IF j < i THEN j ELSE j + 1
      <3>1. i \in Nat /\ \A j \in DOMAIN t : j \in Nat /\ m(j) \in DOMAIN s /\ t[j] = s[m(j)]
        BY <1>5, <2>1 DEF s
      <3>2. ASSUME NEW j \in DOMAIN t, NEW k \in DOMAIN t, t[j] = t[k] PROVE m(j) = m(k)
        BY <2>2, <3>1, <3>2
      <3>. QED BY <3>1, <3>2
    <2>7. \A q \in Queues \ {wq[f]} : \A j \in DOMAIN nodes[q] : nodes[q][j] \in Fibers \ {f}
      BY Members DEF NodesLive
    <2>8. ASSUME NEW q \in Queues PROVE QueueLive(q)'
      <3>1. CASE q = wq[f]
        BY <1>1, <1>2, <2>3, <2>5, <2>6, <3>1 DEF QueueLive, InFrame
      <3>2. CASE q # wq[f]
        BY <1>1, <1>2, <2>3, <2>7, <3>2 DEF NodesLive, QueueLive, InFrame
      <3>. QED BY <3>1, <3>2
    <2>9. ASSUME NEW g \in Fibers \ {f}, InFrame(g), ~deleted[g] PROVE Queued(g, wq[g])'
      <3>1. wq[g] \in Queues /\ Queued(g, wq[g])
        BY <2>9 DEF NodesLive, InFrame, Frames, InWait, Typed
      <3>2. CASE wq[g] = wq[f]
        <4>1. PICK j \in DOMAIN s : s[j] = g
          BY <3>1, <3>2 DEF Queued, s
        <4>2. \E k \in DOMAIN t : t[k] = g
          BY <2>1, <2>4, <2>9, <4>1
        <4>. QED BY <1>2, <2>3, <3>2, <4>2 DEF Queued
      <3>3. CASE wq[g] # wq[f]
        BY <1>2, <2>3, <3>1, <3>3 DEF Queued
      <3>. QED BY <3>2, <3>3
    <2>10. \A g \in Fibers : FrameQueued(g)'
      BY <1>1, <1>2, <2>9 DEF FrameQueued
    <2>. QED BY <2>8, <2>10 DEF NodesLive, QueueLive, FrameQueued
  <1>. QED BY <1>4, <1>5 DEF Remove

\* The waker takes the first node, and marks it.
LEMMA WakeNodes ==
  ASSUME QInv, NEW f \in Fibers, WakeOne(f)
  PROVE  NodesLive'
  <1>. USE SMTT(30)
  <1>. Typed /\ Frames /\ NodesLive
    BY QParts
  <1>. DEFINE q0 == kq[f]
              s == nodes[q0]
              h == Head(s)
  <1>1. q0 \in Queues /\ s \in Seq(Fibers) /\ Len(s) > 0 /\ h \in Fibers /\ wq[h] = q0 /\ h = s[1]
    BY HeadWaits
  <1>2. /\ nodes'[q0] = Tail(s) /\ \A q \in Queues \ {q0} : nodes'[q] = nodes[q]
        /\ UNCHANGED <<wq, pc>>
    BY <1>1 DEF WakeOne, WakeNode, Typed
  <1>3. deleted'[h] /\ \A g \in Fibers \ {h} : deleted'[g] = deleted[g]
    BY Zenon, <1>1 DEF WakeOne, WakeNode, Typed
  <1>4. \A g \in Fibers : InFrame(g)' <=> InFrame(g)
    BY <1>2 DEF InFrame
  <1>5. /\ \A j, k \in DOMAIN s : s[j] = s[k] => j = k
        /\ \A j \in DOMAIN s : s[j] \in Fibers /\ InFrame(s[j]) /\ ~deleted[s[j]] /\ wq[s[j]] = q0
    BY <1>1, Members DEF NodesLive
  <1>6. \A q \in Queues \ {q0} : \A j \in DOMAIN nodes[q] : nodes[q][j] \in Fibers \ {h}
    BY <1>1, Members DEF NodesLive
  <1>. HIDE DEF q0, s, h
  <1>7. PICK t \in Seq(Fibers) :
          /\ nodes'[q0] = t /\ Len(t) = Len(s) - 1
          /\ \A j \in DOMAIN t : t[j] = s[j + 1] /\ j + 1 \in DOMAIN s /\ t[j] # h
    <2>1. /\ Tail(s) \in Seq(Fibers) /\ Len(Tail(s)) = Len(s) - 1
          /\ \A j \in DOMAIN Tail(s) : Tail(s)[j] = s[j + 1] /\ j + 1 \in DOMAIN s /\ Tail(s)[j] # h
      BY <1>1, <1>5
    <2>. QED BY Zenon, <1>2, <2>1
  <1>8. ASSUME NEW q \in Queues PROVE QueueLive(q)'
    <2>1. CASE q = q0
      <3>1. \A j, k \in DOMAIN t : t[j] = t[k] => j = k
        BY <1>5, <1>7
      <3>2. \A j \in DOMAIN t :
              t[j] \in Fibers \ {h} /\ InFrame(t[j]) /\ ~deleted[t[j]] /\ wq[t[j]] = q0
        BY <1>5, <1>7
      <3>3. \A g \in Fibers \ {h} : InFrame(g) /\ ~deleted[g] /\ wq[g] = q0
                                 => InFrame(g)' /\ ~deleted'[g] /\ wq'[g] = q0
        BY <1>2, <1>3, <1>4
      <3>4. nodes'[q] = t
        BY <1>7, <2>1
      <3>. QED BY <2>1, <3>1, <3>2, <3>3, <3>4 DEF QueueLive, InFrame
    <2>2. CASE q # q0
      BY <1>2, <1>3, <1>4, <1>6, <2>2 DEF NodesLive, QueueLive, InFrame
    <2>. QED BY <2>1, <2>2
  <1>9. ASSUME NEW g \in Fibers \ {h}, InFrame(g), ~deleted[g] PROVE Queued(g, wq[g])'
    <2>1. wq[g] \in Queues /\ Queued(g, wq[g])
      BY <1>9 DEF NodesLive, InFrame, Frames, InWait, Typed
    <2>2. CASE wq[g] = q0
      <3>1. PICK j \in DOMAIN s : s[j] = g
        BY Zenon, <2>1, <2>2 DEF Queued, s
      <3>2. j - 1 \in DOMAIN t /\ t[j - 1] = g
        BY <1>1, <1>7, <1>9, <3>1
      <3>. QED BY <1>2, <1>7, <2>2, <3>2 DEF Queued
    <2>3. CASE wq[g] # q0
      BY Zenon, <1>2, <2>1, <2>3 DEF Queued
    <2>. QED BY <2>2, <2>3
  <1>10. \A g \in Fibers : FrameQueued(g)'
    BY Zenon, <1>3, <1>4, <1>9 DEF FrameQueued
  <1>. QED BY <1>8, <1>10 DEF NodesLive, QueueLive, FrameQueued
-----------------------------------------------------------------------------
\* Nodes enter and leave the queue with their frames.
LEMMA NextNodesLive ==
  QInv /\ [Next]_vars => NodesLive'
  <1>. SUFFICES ASSUME QInv, [Next]_vars PROVE NodesLive'
    OBVIOUS
  <1>1. CASE FramesKept
    BY <1>1, NodesKept
  <1>2. ASSUME NEW f \in Fibers, Insert(f) PROVE NodesLive'
    BY <1>2, InsertNodes
  <1>3. ASSUME NEW f \in Fibers, WaitReady(f) PROVE NodesLive'
    BY <1>3, ReadyNodes
  <1>4. ASSUME NEW f \in Fibers, Remove(f) PROVE NodesLive'
    BY <1>4, RemoveNodes
  <1>5. ASSUME NEW f \in Fibers, WakeOne(f) PROVE NodesLive'
    BY <1>5, WakeNodes
  <1>. QED BY <1>1, <1>2, <1>3, <1>4, <1>5, NextFramesKept DEF NodesMove

-----------------------------------------------------------------------------

\* Every step keeps the inductive invariant.
LEMMA NextQInv == QInv /\ [Next]_vars => QInv'
  BY NextTyped, NextFrames, NextReasons, NextLocked, NextNodesLive DEF QInv

\* The fibers, however many they are, keep to the order of the calls of the
\* waiters queue, and the queue to its nodes.
THEOREM QueueInvariance == Spec => []QInv
  BY InitQInv, NextQInv, PTL DEF Spec

\* fev_waiters_queue_wait() never leaves its node in the queue when its stack
\* frame ends, and TAILQ_REMOVE() is never applied to a node that a waker has
\* taken: a queue holds exactly the undeleted nodes of live frames, once each.
THEOREM NodesAreLive == Spec => []NodesLive
  BY QueueInvariance, PTL DEF QInv

\* Where adding a timer cannot fail, a waiter that fev_waiters_queue_wake() has
\* counted returns 0 to its client.
THEOREM CountedReturns == Spec => [](~can_fail => CountedIsWoken)
  <1>1. QInv => (~can_fail => CountedIsWoken)
    BY DEF QInv, Reasons, ReasonMeans, CountedIsWoken
  <1>. QED BY <1>1, QueueInvariance, PTL
===============================================================================
