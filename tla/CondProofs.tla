------------------------------ MODULE CondProofs ------------------------------
(***************************************************************************)
(* The condition variable for any number of producers and consumers, over   *)
(* what SyncProofs shows of the mutex that it is used with.                 *)
(***************************************************************************)
EXTENDS SyncProofs

\* Consumers wait for the items, producers notify, and only these give up a
\* lock() that does not end a wait.
Clients ==
  \A f \in Fibers :
    /\ wq[f] = "cond" => f \in Consumers
    /\ pc[f] = "notify" \/ ret[f] = "notify" \/ kq[f] = "cond" => f \in Producers
    /\ wq[f] = "mutex" /\ ret[f] = "idle" /\ f \in Consumers => ~timed[f]

\* The fiber is asleep in fev_cond_wait(), or unlocks the mutex there and is
\* not in the queue of the cond yet.
Sleeps(f) ==
  /\ wq[f] = "cond"
  /\ \/ InFrame(f) /\ reason[f] = "NONE"
     \/ pc[f] = "insert" \/ pc[f] \in InWake

AwakeConsumers == {f \in Consumers : Awake(f)}
NotifyingProducers == {f \in Producers : Notifying(f)}

\* NoLostNotify, from the moment the waiter unlocks the mutex.
NotifyKept ==
  ~can_fail /\ (\E f \in Consumers : Sleeps(f)) =>
    items <= Cardinality(AwakeConsumers) + Cardinality(NotifyingProducers)

\* The items that a waiter saw are there until it unlocks the mutex.
SawNoItems ==
  \A f \in Fibers : wq[f] = "cond" /\ pc[f] \in {"wait_lock", "recheck"} => items = 0

CInv == IInv /\ Clients /\ SawNoItems /\ NotifyKept
-----------------------------------------------------------------------------

\* The inductive invariant adds these to the one of the mutex.
LEMMA CParts == CInv => IInv /\ Clients /\ SawNoItems /\ NotifyKept
  BY DEF CInv


-----------------------------------------------------------------------------
(* The items and the fibers that look after them. *)

\* A step that leaves the items alone puts nobody to sleep, and takes nobody
\* from the consumers that look at them and the producers that notify.
ItemsKept ==
  /\ UNCHANGED <<items, can_fail>>
  /\ ~can_fail =>
       /\ \A g \in Consumers : Sleeps(g)' => Sleeps(g)
       /\ \A g \in Consumers : Awake(g) => Awake(g)'
       /\ \A g \in Producers : Notifying(g) => Notifying(g)'

\* The steps that change the items or hand one over.
ItemsMove ==
  \E f \in Fibers :
    \/ Quiet /\ (WakeLoopEnds(f) \/ WakeOne(f))
    \/ OnCond /\ (Produce(f) \/ Consume(f) \/ Leave(f) \/ CondWait(f) \/ CondWaitRecheck(f))

\* No other step takes anybody from the items.
LEMMA NextItemsKept == CInv /\ [Next]_vars => ItemsKept \/ ItemsMove
  <1>. SUFFICES ASSUME CInv, [Next]_vars, ~ItemsMove PROVE ItemsKept
    OBVIOUS
  <1>. /\ pc \in [Fibers -> InWait \cup InWake \cup AtClient]
       /\ wq \in [Fibers -> Queues \cup {NULL}] /\ kq \in [Fibers -> Queues \cup {NULL}]
       /\ woken \in [Fibers -> Nat] /\ reason \in [Fibers -> {"NONE", "READY", "TIMED_OUT"}]
       /\ res \in [Fibers -> {"OK", "ENOMEM", "ETIMEDOUT", "EAGAIN"}]
       /\ ret \in [Fibers -> {"idle", "notify", "insert", "returned"}]
    BY CParts, IParts, QParts DEF Typed
  <1>a. \A g \in Fibers :
          /\ pc[g] \in AtClient => wq[g] = NULL /\ ret[g] = "idle" /\ woken[g] = 0
          /\ pc[g] = "done" => ret[g] \in {"idle", "returned"}
    BY CParts, IParts, QParts DEF Frames, InWait, AtClient
  <1>b. \A g \in Consumers : ~can_fail /\ wq[g] = "mutex" /\ pc[g] = "done" /\ res[g] # "OK"
                           => ret[g] = "returned"
    BY CondAssumption, <1>a, CParts, IParts, QParts DEF Reasons, ReasonMeans, Clients
  <1>. USE <1>a DEF InWake, AtClient
  <1>. USE CondAssumption, QueueNames DEF ItemsKept, Sleeps, Awake, Notifying, InFrame, waitVars,
       wakeVars, SyncUnchanged, Quiet, OnMutex, OnCond, OnSem
  <1>1. ASSUME NEW f \in Fibers, Quiet,
               WaitLock(f) \/ RemoveLock(f) \/ WakeLock(f) \/ Timeout(f) \/ WaitNot(f)
        PROVE ItemsKept
    BY <1>1 DEF WaitLock, Goto, Lock, RemoveLock, WakeLock, Timeout, WaitNot, Unlock
  <1>2. ASSUME NEW f \in Fibers, Quiet,
               TimersAdd(f) \/ TimersAddFails(f) \/ WaitTimedOut(f) \/ WakeUnlock(f)
        PROVE ItemsKept
    BY <1>2 DEF TimersAdd, Goto, TimersAddFails, WaitTimedOut, WakeUnlock, Unlock
  <1>3. ASSUME NEW f \in Fibers, Quiet, Insert(f) PROVE ItemsKept
    BY <1>3 DEF Insert, Goto, Unlock
  <1>4. ASSUME NEW f \in Fibers, Quiet, WaitReady(f) PROVE ItemsKept
    BY <1>4 DEF WaitReady, Goto
  <1>5. ASSUME NEW f \in Fibers, Quiet, Remove(f) PROVE ItemsKept
    BY <1>5, RemoveEnds
  <1>6. ASSUME NEW f \in Fibers, OnMutex, Recheck(f) \/ RecheckStore(f) PROVE ItemsKept
    BY <1>6 DEF Recheck, Goto, RecheckStore
  <1>7. ASSUME NEW f \in Fibers, OnMutex, LockReturn(f) PROVE ItemsKept
    BY <1>7, <1>b DEF LockReturn, Again, Returns, FrameEnds, Goto
  <1>8. ASSUME NEW f \in Fibers, OnMutex, UnlockCallback(f) PROVE ItemsKept
    BY <1>8 DEF UnlockCallback, Goto
  <1>9. ASSUME NEW f \in Fibers, OnCond, ClientLocks(f) PROVE ItemsKept
    BY <1>9 DEF ClientLocks, TryLock, TryLockFails, CallWait, Goto
  <1>10. ASSUME NEW f \in Fibers, OnCond,
               Notify(f) \/ NotifyNoCallback(f) \/ CondWaitWoken(f) \/ Relock(f)
        PROVE ItemsKept
    BY <1>10 DEF Notify, CallWake, Goto, NotifyNoCallback, CondWaitWoken, FrameEnds, Relock,
          TryLock, TryLockFails, CallWait
  <1>11. ASSUME NEW f \in Fibers, OnSem,
               SemWait(f) \/ SemPost(f) \/ SemWaitRecheck(f) \/ SemReturn(f)
               \/ SemPostCallback(f)
        PROVE ItemsKept
    BY <1>11 DEF SemWait, CallWait, Goto, SemPost, CallWake, SemWaitRecheck, SemReturn, Again,
          Returns, FrameEnds, SemPostCallback
  <1>12. CASE UNCHANGED vars
    BY <1>12 DEF vars, queueVars
  <1>. HIDE DEF ItemsKept, Sleeps, Awake, Notifying, InFrame, waitVars, wakeVars, SyncUnchanged,
       Quiet, OnMutex, OnCond, OnSem
  <1>. QED
    BY <1>1, <1>2, <1>3, <1>4, <1>5, <1>6, <1>7, <1>8, <1>9, <1>10, <1>11, <1>12
    DEF Next, ClientStarts, Acquires, LockSteps, TimesOut, Rest, QueueSteps, MutexSteps, CondSteps, 
        SemSteps, Quiet, OnMutex, OnCond, OnSem, ItemsMove

\* Every call of the condition variable is by a client of its kind.
LEMMA NextClients == CInv /\ [Next]_vars => Clients'
  <1>. SUFFICES ASSUME CInv, [Next]_vars PROVE Clients'
    OBVIOUS
  <1>. QInv /\ Clients
    BY CParts, IParts, QParts
  <1>. /\ pc \in [Fibers -> InWait \cup InWake \cup AtClient]
       /\ wq \in [Fibers -> Queues \cup {NULL}] /\ kq \in [Fibers -> Queues \cup {NULL}]
       /\ ret \in [Fibers -> {"idle", "notify", "insert", "returned"}]
       /\ timed \in [Fibers -> BOOLEAN]
    BY CParts, IParts, QParts DEF Typed
  <1>a. \A g \in Fibers : pc[g] \in AtClient \cup InWake => wq[g] # "mutex"
    BY QueueNames, QParts DEF Frames, InWake, AtClient
  <1>. USE <1>a DEF InWake, AtClient
  <1>. USE CondAssumption, QueueNames DEF Clients, waitVars, wakeVars, SyncUnchanged, Quiet,
       OnMutex, OnCond, OnSem
  <1>1. ASSUME NEW f \in Fibers, Quiet,
               WaitLock(f) \/ RemoveLock(f) \/ WakeLock(f) \/ Timeout(f) \/ WaitNot(f)
        PROVE Clients'
    BY <1>1 DEF WaitLock, Goto, Lock, RemoveLock, WakeLock, Timeout, WaitNot, Unlock
  <1>2. ASSUME NEW f \in Fibers, Quiet,
               TimersAdd(f) \/ TimersAddFails(f) \/ WaitTimedOut(f) \/ WakeLoopEnds(f)
               \/ WakeUnlock(f)
        PROVE Clients'
    BY <1>2 DEF TimersAdd, Goto, TimersAddFails, WaitTimedOut, WakeLoopEnds, WakeUnlock, Unlock
  <1>3. ASSUME NEW f \in Fibers, Quiet, Insert(f) PROVE Clients'
    BY <1>3 DEF Insert, Goto, Unlock
  <1>4. ASSUME NEW f \in Fibers, Quiet, WaitReady(f) PROVE Clients'
    BY <1>4 DEF WaitReady, Goto
  <1>5. ASSUME NEW f \in Fibers, Quiet, Remove(f) PROVE Clients'
    BY <1>5, RemoveEnds
  <1>6. ASSUME NEW f \in Fibers, Quiet, WakeOne(f) PROVE Clients'
    BY <1>6 DEF WakeOne, WakeNode
  <1>7. ASSUME NEW f \in Fibers, OnMutex,
               Recheck(f) \/ RecheckStore(f) \/ LockReturn(f) \/ UnlockCallback(f)
        PROVE Clients'
    BY <1>7 DEF Recheck, Goto, RecheckStore, LockReturn, Again, Returns, FrameEnds,
          UnlockCallback
  <1>8. ASSUME NEW f \in Fibers, OnCond, ClientLocks(f) PROVE Clients'
    BY <1>8 DEF ClientLocks, TryLock, TryLockFails, CallWait, Goto
  <1>9. ASSUME NEW f \in Fibers, OnCond,
               Produce(f) \/ Consume(f) \/ Leave(f) \/ Notify(f) \/ NotifyNoCallback(f)
        PROVE Clients'
    BY <1>9 DEF Produce, MutexUnlock, UnlockFast, UnlockSlow, CallWake, Goto, Consume, Leave,
          Notify, NotifyNoCallback
  <1>10. ASSUME NEW f \in Fibers, OnCond,
               CondWait(f) \/ CondWaitRecheck(f) \/ CondWaitWoken(f) \/ Relock(f)
        PROVE Clients'
    BY <1>10 DEF CondWait, CallWait, Goto, CondWaitRecheck, MutexUnlock, UnlockFast, UnlockSlow,
          CallWake, CondWaitWoken, FrameEnds, Relock, TryLock, TryLockFails
  <1>11. ASSUME NEW f \in Fibers, OnSem,
               SemWait(f) \/ SemPost(f) \/ SemWaitRecheck(f) \/ SemReturn(f)
               \/ SemPostCallback(f)
        PROVE Clients'
    BY <1>11 DEF SemWait, CallWait, Goto, SemPost, CallWake, SemWaitRecheck, SemReturn, Again,
          Returns, FrameEnds, SemPostCallback
  <1>12. CASE UNCHANGED vars
    BY <1>12 DEF vars, queueVars
  <1>. HIDE DEF Clients, waitVars, wakeVars, SyncUnchanged, Quiet, OnMutex, OnCond, OnSem
  <1>. QED
    BY <1>1, <1>2, <1>3, <1>4, <1>5, <1>6, <1>7, <1>8, <1>9, <1>10, <1>11, <1>12
    DEF Next, ClientStarts, Acquires, LockSteps, TimesOut, Rest, QueueSteps, MutexSteps, CondSteps, 
        SemSteps, Quiet, OnMutex, OnCond, OnSem

\* Nobody adds an item while a waiter still owns the mutex.
LEMMA NextSawNoItems == CInv /\ [Next]_vars => SawNoItems'
  <1>. SUFFICES ASSUME CInv, [Next]_vars PROVE SawNoItems'
    OBVIOUS
  <1>. SawNoItems /\ OneOwner
    BY CParts, IParts, QParts
  <1>. /\ pc \in [Fibers -> InWait \cup InWake \cup AtClient]
       /\ wq \in [Fibers -> Queues \cup {NULL}]
       /\ ret \in [Fibers -> {"idle", "notify", "insert", "returned"}]
    BY CParts, IParts, QParts DEF Typed
  <1>a. \A g, h \in Fibers : pc[g] = "cs" =>
          ~(wq[h] = "cond" /\ pc[h] \in {"wait_lock", "recheck"})
    BY DEF OneOwner, MutualExclusion, Owns
  <1>. USE QueueNames DEF SawNoItems, waitVars, wakeVars, SyncUnchanged, Quiet, OnMutex, OnCond,
       OnSem
  <1>1. ASSUME NEW f \in Fibers, Quiet,
               WaitLock(f) \/ RemoveLock(f) \/ WakeLock(f) \/ Timeout(f) \/ WaitNot(f)
        PROVE SawNoItems'
    BY <1>1 DEF WaitLock, Goto, Lock, RemoveLock, WakeLock, Timeout, WaitNot, Unlock
  <1>2. ASSUME NEW f \in Fibers, Quiet,
               TimersAdd(f) \/ TimersAddFails(f) \/ WaitTimedOut(f) \/ WakeLoopEnds(f)
               \/ WakeUnlock(f)
        PROVE SawNoItems'
    BY <1>2 DEF TimersAdd, Goto, TimersAddFails, WaitTimedOut, WakeLoopEnds, WakeUnlock, Unlock
  <1>3. ASSUME NEW f \in Fibers, Quiet, Insert(f) PROVE SawNoItems'
    BY <1>3 DEF Insert, Goto, Unlock
  <1>4. ASSUME NEW f \in Fibers, Quiet, WaitReady(f) PROVE SawNoItems'
    BY <1>4 DEF WaitReady, Goto
  <1>5. ASSUME NEW f \in Fibers, Quiet, Remove(f) PROVE SawNoItems'
    BY <1>5, RemoveEnds
  <1>6. ASSUME NEW f \in Fibers, Quiet, WakeOne(f) PROVE SawNoItems'
    BY <1>6 DEF WakeOne, WakeNode
  <1>7. ASSUME NEW f \in Fibers, OnMutex,
               Recheck(f) \/ RecheckStore(f) \/ LockReturn(f) \/ UnlockCallback(f)
        PROVE SawNoItems'
    BY <1>7 DEF Recheck, Goto, RecheckStore, LockReturn, Again, Returns, FrameEnds,
          UnlockCallback
  <1>8. ASSUME NEW f \in Fibers, OnCond, ClientLocks(f) PROVE SawNoItems'
    BY <1>8 DEF ClientLocks, TryLock, TryLockFails, CallWait, Goto
  <1>9. ASSUME NEW f \in Fibers, OnCond, Produce(f) PROVE SawNoItems'
    BY <1>9, <1>a DEF Produce, MutexUnlock, UnlockFast, UnlockSlow, CallWake, Goto
  <1>10. ASSUME NEW f \in Fibers, OnCond, Consume(f) PROVE SawNoItems'
    BY <1>10, <1>a DEF Consume, MutexUnlock, UnlockFast, UnlockSlow, CallWake, Goto
  <1>11. ASSUME NEW f \in Fibers, OnCond,
               Leave(f) \/ Notify(f) \/ NotifyNoCallback(f) \/ CondWait(f) \/ CondWaitRecheck(f)
        PROVE SawNoItems'
    BY <1>11 DEF Leave, MutexUnlock, UnlockFast, UnlockSlow, CallWake, Goto, Notify,
          NotifyNoCallback, CondWait, CallWait, CondWaitRecheck
  <1>12. ASSUME NEW f \in Fibers, OnCond, CondWaitWoken(f) \/ Relock(f) PROVE SawNoItems'
    BY <1>12 DEF CondWaitWoken, FrameEnds, Goto, Relock, TryLock, TryLockFails, CallWait
  <1>13. ASSUME NEW f \in Fibers, OnSem,
               SemWait(f) \/ SemPost(f) \/ SemWaitRecheck(f) \/ SemReturn(f)
               \/ SemPostCallback(f)
        PROVE SawNoItems'
    BY <1>13 DEF SemWait, CallWait, Goto, SemPost, CallWake, SemWaitRecheck, SemReturn, Again,
          Returns, FrameEnds, SemPostCallback
  <1>14. CASE UNCHANGED vars
    BY <1>14 DEF vars, queueVars
  <1>. HIDE DEF SawNoItems, waitVars, wakeVars, SyncUnchanged, Quiet, OnMutex, OnCond, OnSem
  <1>. QED
    BY <1>1, <1>2, <1>3, <1>4, <1>5, <1>6, <1>7, <1>8, <1>9, <1>10, <1>11, <1>12, <1>13, <1>14
    DEF Next, ClientStarts, Acquires, LockSteps, TimesOut, Rest, QueueSteps, MutexSteps, CondSteps, 
        SemSteps, Quiet, OnMutex, OnCond, OnSem

\* The sets of clients that NotifyKept counts are finite.
LEMMA FiniteClients ==
  /\ IsFiniteSet(AwakeConsumers) /\ IsFiniteSet(NotifyingProducers)
  /\ IsFiniteSet(AwakeConsumers') /\ IsFiniteSet(NotifyingProducers')
  <1>1. IsFiniteSet(Consumers) /\ IsFiniteSet(Producers)
    BY CondAssumption, FS_Subset
  <1>2. /\ AwakeConsumers \subseteq Consumers /\ AwakeConsumers' \subseteq Consumers
        /\ NotifyingProducers \subseteq Producers /\ NotifyingProducers' \subseteq Producers
    BY DEF AwakeConsumers, NotifyingProducers
  <1>. QED BY <1>1, <1>2, FS_Subset

\* Their sizes are numbers.
LEMMA ClientsNat ==
  /\ Cardinality(AwakeConsumers) \in Nat /\ Cardinality(NotifyingProducers) \in Nat
  /\ Cardinality(AwakeConsumers') \in Nat /\ Cardinality(NotifyingProducers') \in Nat
  BY FiniteClients, FS_CardinalityType

\* So is the number of items.
LEMMA ItemsNat == QInv => items \in Nat
  BY QParts DEF Typed

\* A step that changes no item, and puts no client to sleep, loses no notification.
LEMMA ItemsStay ==
  ASSUME QInv, NotifyKept, ItemsKept
  PROVE  NotifyKept'
  <1>. SUFFICES ASSUME ~can_fail', \E g \in Consumers : Sleeps(g)'
                PROVE  items' <= Cardinality(AwakeConsumers') + Cardinality(NotifyingProducers')
    BY DEF NotifyKept
  <1>1. /\ UNCHANGED items /\ ~can_fail
        /\ \A g \in Consumers : Sleeps(g)' => Sleeps(g)
        /\ \A g \in Consumers : Awake(g) => Awake(g)'
        /\ \A g \in Producers : Notifying(g) => Notifying(g)'
    BY DEF ItemsKept
  <1>2. items <= Cardinality(AwakeConsumers) + Cardinality(NotifyingProducers)
    BY <1>1 DEF NotifyKept
  <1>3. AwakeConsumers \subseteq AwakeConsumers' /\ NotifyingProducers \subseteq NotifyingProducers'
    BY <1>1 DEF AwakeConsumers, NotifyingProducers
  <1>4. /\ Cardinality(AwakeConsumers) <= Cardinality(AwakeConsumers')
        /\ Cardinality(NotifyingProducers) <= Cardinality(NotifyingProducers')
    BY <1>3, FiniteClients, FS_Subset
  <1>. QED BY <1>1, <1>2, <1>4, ClientsNat, ItemsNat

\* Without items there is nothing to look after.
LEMMA NoItems ==
  ASSUME items' = 0
  PROVE  NotifyKept'
  BY ClientsNat DEF NotifyKept

\* The fibers other than f sleep, look at the items and notify as before.
OthersKept(f) ==
  /\ \A g \in Fibers \ {f} : Sleeps(g)' => Sleeps(g)
  /\ \A g \in Fibers \ {f} : Awake(g) => Awake(g)'
  /\ \A g \in Fibers \ {f} : Notifying(g) => Notifying(g)'

\* A client that unlocks the mutex was awake.
LEMMA ClientUnlocks ==
  ASSUME CInv, NEW f \in Fibers, OnCond, Produce(f) \/ Consume(f) \/ Leave(f)
  PROVE  /\ UNCHANGED can_fail /\ OthersKept(f)
         /\ Awake(f) /\ ~Notifying(f) /\ \A g \in {f} : ~Sleeps(g)'
  <1>1. /\ pc \in [Fibers -> InWait \cup InWake \cup AtClient]
        /\ kq \in [Fibers -> Queues \cup {NULL}]
        /\ ret \in [Fibers -> {"idle", "notify", "insert", "returned"}]
    BY CParts, IParts, QParts DEF Typed
  <1>2. /\ pc[f] = "cs" /\ UNCHANGED <<can_fail, wq, reason, woken>>
        /\ \A g \in Fibers \ {f} : pc'[g] = pc[g] /\ kq'[g] = kq[g] /\ ret'[g] = ret[g]
    BY <1>1 DEF Produce, Consume, Leave, MutexUnlock, UnlockFast, UnlockSlow, CallWake, Goto,
       waitVars, wakeVars, OnCond, SyncUnchanged
  <1>3. wq[f] = NULL /\ ret[f] = "idle"
    <2>1. Frames
      BY CParts, IParts, QParts
    <2>. QED BY Zenon, <1>2, <2>1 DEF Frames, AtClient
  <1>4. Awake(f) /\ ~Notifying(f)
    BY <1>2, <1>3 DEF Awake, Notifying
  <1>5. \A g \in {f} : ~Sleeps(g)'
    BY <1>2, <1>3, QueueNames DEF Sleeps
  <1>6. OthersKept(f)
    <2>1. \A g \in Fibers \ {f} : Sleeps(g)' => Sleeps(g)
      BY <1>2 DEF Sleeps, InFrame
    <2>2. \A g \in Fibers \ {f} : Awake(g) => Awake(g)'
      BY <1>2 DEF Awake
    <2>3. \A g \in Fibers \ {f} : Notifying(g) => Notifying(g)'
      BY <1>2 DEF Notifying
    <2>. QED BY <2>1, <2>2, <2>3 DEF OthersKept
  <1>. QED BY <1>2, <1>4, <1>5, <1>6

\* A new item has the producer that is about to notify.
LEMMA OneMoreProducer ==
  ASSUME QInv, NotifyKept, UNCHANGED can_fail, items' = items + 1, NEW f \in Producers,
         ~Notifying(f), \A g \in {f} : Notifying(g)', OthersKept(f)
  PROVE  NotifyKept'
  <1>. SUFFICES ASSUME ~can_fail', \E g \in Consumers : Sleeps(g)'
                PROVE  items' <= Cardinality(AwakeConsumers') + Cardinality(NotifyingProducers')
    BY DEF NotifyKept
  <1>1. \A g \in Consumers : g \in Fibers \ {f}
    BY CondAssumption
  <1>2. items <= Cardinality(AwakeConsumers) + Cardinality(NotifyingProducers)
    BY <1>1 DEF NotifyKept, OthersKept
  <1>3. /\ AwakeConsumers \subseteq AwakeConsumers'
        /\ NotifyingProducers \cup {f} \subseteq NotifyingProducers' /\ f \notin NotifyingProducers
    BY <1>1, CondAssumption DEF AwakeConsumers, NotifyingProducers, OthersKept
  <1>4. Cardinality(AwakeConsumers) <= Cardinality(AwakeConsumers')
    BY <1>3, FiniteClients, FS_Subset
  <1>5. Cardinality(NotifyingProducers \cup {f}) = Cardinality(NotifyingProducers) + 1
    BY Zenon, <1>3, FiniteClients, FS_AddElement
  <1>6. Cardinality(NotifyingProducers \cup {f}) <= Cardinality(NotifyingProducers')
    BY <1>3, FiniteClients, FS_Subset
  <1>. QED BY <1>2, <1>4, <1>5, <1>6, ClientsNat, ItemsNat

\* A consumer that has taken an item need not look at another one.
LEMMA OneConsumerLess ==
  ASSUME QInv, NotifyKept, UNCHANGED can_fail, items' = items - 1, NEW f \in Consumers,
         Awake(f), \A g \in {f} : ~Sleeps(g)', OthersKept(f)
  PROVE  NotifyKept'
  <1>. SUFFICES ASSUME ~can_fail', \E g \in Consumers : Sleeps(g)'
                PROVE  items' <= Cardinality(AwakeConsumers') + Cardinality(NotifyingProducers')
    BY DEF NotifyKept
  <1>1. items <= Cardinality(AwakeConsumers) + Cardinality(NotifyingProducers)
    BY CondAssumption DEF NotifyKept, OthersKept
  <1>2. /\ f \in AwakeConsumers /\ AwakeConsumers \ {f} \subseteq AwakeConsumers'
        /\ NotifyingProducers \subseteq NotifyingProducers'
    BY CondAssumption DEF AwakeConsumers, NotifyingProducers, OthersKept
  <1>3. Cardinality(AwakeConsumers \ {f}) = Cardinality(AwakeConsumers) - 1
    BY Zenon, <1>2, FiniteClients, FS_RemoveElement
  <1>4. Cardinality(AwakeConsumers \ {f}) <= Cardinality(AwakeConsumers')
    BY <1>2, FiniteClients, FS_Subset
  <1>5. Cardinality(NotifyingProducers) <= Cardinality(NotifyingProducers')
    BY <1>2, FiniteClients, FS_Subset
  <1>. QED BY <1>1, <1>3, <1>4, <1>5, ClientsNat, ItemsNat

\* A producer that has woken a consumer has handed its item to it.
LEMMA ItemHandedOver ==
  ASSUME QInv, NotifyKept, UNCHANGED <<items, can_fail>>,
         NEW f \in Producers, NEW h \in Consumers,
         Sleeps(h), ~Awake(h), \A g \in {h} : Awake(g)', Notifying(f),
         \A g \in Consumers : Awake(g) => Awake(g)',
         \A g \in Producers \ {f} : Notifying(g) => Notifying(g)'
  PROVE  NotifyKept'
  <1>. SUFFICES ASSUME ~can_fail'
                PROVE  items' <= Cardinality(AwakeConsumers') + Cardinality(NotifyingProducers')
    BY DEF NotifyKept
  <1>1. items <= Cardinality(AwakeConsumers) + Cardinality(NotifyingProducers)
    BY DEF NotifyKept
  <1>2. /\ h \notin AwakeConsumers /\ AwakeConsumers \cup {h} \subseteq AwakeConsumers'
        /\ f \in NotifyingProducers /\ NotifyingProducers \ {f} \subseteq NotifyingProducers'
    BY DEF AwakeConsumers, NotifyingProducers
  <1>3. /\ Cardinality(AwakeConsumers \cup {h}) = Cardinality(AwakeConsumers) + 1
        /\ Cardinality(AwakeConsumers \cup {h}) <= Cardinality(AwakeConsumers')
    BY <1>2, FiniteClients, FS_AddElement, FS_Subset
  <1>4. /\ Cardinality(NotifyingProducers \ {f}) = Cardinality(NotifyingProducers) - 1
        /\ Cardinality(NotifyingProducers \ {f}) <= Cardinality(NotifyingProducers')
    BY <1>2, FiniteClients, FS_RemoveElement, FS_Subset
  <1>. QED BY <1>1, <1>3, <1>4, ClientsNat, ItemsNat

\* Nobody sleeps where the queue of the cond is empty and a waker has its lock.
LEMMA NobodySleeps ==
  ASSUME QInv, NEW f \in Fibers,
         pc[f] = "wake", kq[f] = "cond", nodes["cond"] = <<>>
  PROVE  \A g \in Consumers : ~Sleeps(g)
  <1>. SUFFICES ASSUME NEW g \in Fibers, Sleeps(g) PROVE FALSE
    BY CondAssumption
  <1>1. CASE InFrame(g) /\ reason[g] = "NONE"
    <2>1. Queued(g, "cond")
      BY <1>1, QParts DEF Sleeps, Reasons, ReasonMeans, NodesLive
    <2>. QED BY <2>1 DEF Queued
  <1>2. CASE pc[g] = "insert" \/ pc[g] \in InWake
    <2>1. wq[g] = "cond" /\ Holds(g, "cond") /\ Holds(f, "cond")
      BY <1>2 DEF Sleeps, Holds
    <2>2. f = g
      BY Zenon, <2>1, QueueNames, QParts DEF Locked
    <2>3. Frames
      BY QParts
    <2>. QED BY Zenon, <2>1, <2>2, <2>3, QueueNames DEF Frames, InWake
  <1>. QED BY <1>1, <1>2 DEF Sleeps


\* Every item keeps a consumer or a producer that looks after it.
LEMMA NextNotifyKept == CInv /\ [Next]_vars => NotifyKept'
  <1>. SUFFICES ASSUME CInv, [Next]_vars PROVE NotifyKept'
    OBVIOUS
  <1>. QInv /\ Clients /\ SawNoItems /\ NotifyKept
    BY CParts, IParts, QParts
  <1>t. /\ pc \in [Fibers -> InWait \cup InWake \cup AtClient]
        /\ kq \in [Fibers -> Queues \cup {NULL}] /\ woken \in [Fibers -> Nat]
        /\ max \in [Fibers -> {1, AllWaiters}]
        /\ ret \in [Fibers -> {"idle", "notify", "insert", "returned"}]
        /\ reason \in [Fibers -> {"NONE", "READY", "TIMED_OUT"}] /\ items \in Nat
    BY CParts, IParts, QParts DEF Typed
  <1>1. ASSUME NEW f \in Fibers, Quiet, WakeLoopEnds(f) PROVE NotifyKept'
    <2>1. /\ pc[f] = "wake" /\ pc' = [pc EXCEPT ![f] = "callback"]
          /\ woken[f] >= max[f] \/ nodes[kq[f]] = <<>>
          /\ UNCHANGED <<can_fail, items, reason, ret, wq, kq, woken>>
      BY <1>1 DEF WakeLoopEnds, Goto, waitVars, wakeVars, Quiet, SyncUnchanged
    <2>2. CASE kq[f] = "cond" /\ woken[f] = 0
      <3>1. max[f] \in Nat \ {0}
        BY <1>t, AllWaitersNat DEF AllWaiters
      <3>2. nodes["cond"] = <<>>
        BY <1>t, <2>1, <2>2, <3>1
      <3>3. \A g \in Consumers : ~Sleeps(g)
        BY <2>1, <2>2, <3>2, NobodySleeps
      <3>4. \A g \in Consumers : Sleeps(g)' => Sleeps(g)
        BY <1>t, <2>1, CondAssumption DEF Sleeps, InFrame, InWake
      <3>. QED BY <3>3, <3>4 DEF NotifyKept
    <2>3. CASE kq[f] # "cond" \/ woken[f] # 0
      <3>1. ItemsKept
        BY <1>t, <2>1, <2>3, CondAssumption DEF ItemsKept, Sleeps, Awake, Notifying, InFrame, InWake
      <3>. QED BY <3>1, ItemsStay
    <2>. QED BY <2>2, <2>3
  <1>2. ASSUME NEW f \in Fibers, Quiet, WakeOne(f) PROVE NotifyKept'
    <2>. DEFINE h == Head(nodes[kq[f]])
    <2>1. h \in Fibers \ {f} /\ wq[h] = kq[f] /\ InFrame(h)
      BY <1>2, HeadWaits
    <2>2. /\ pc[f] = "wake" /\ UNCHANGED <<can_fail, items, ret, wq, kq, pc>>
          /\ reason' = [reason EXCEPT ![h] = IF @ = "NONE" THEN "READY" ELSE @]
          /\ woken' = [woken EXCEPT ![f] = IF reason[h] = "NONE" THEN @ + 1 ELSE @]
      BY <1>2 DEF WakeOne, WakeNode, Quiet, SyncUnchanged
    <2>. HIDE DEF h
    <2>3. CASE kq[f] # "cond" \/ reason[h] # "NONE" \/ woken[f] # 0 \/ can_fail
      <3>1. ItemsKept
        BY <1>t, <2>1, <2>2, <2>3, CondAssumption DEF ItemsKept, Sleeps, Awake, Notifying, InFrame
      <3>. QED BY <3>1, ItemsStay
    <2>4. CASE kq[f] = "cond" /\ reason[h] = "NONE" /\ woken[f] = 0 /\ ~can_fail
      <3>1. f \in Producers /\ h \in Consumers
        BY <2>1, <2>4 DEF Clients
      <3>2. pc[h] \in {"timers_add", "waiting"}
        BY <2>1, <2>4, QParts DEF Reasons, ReasonMeans, InFrame
      <3>3. Sleeps(h) /\ ~Awake(h) /\ Notifying(f)
        BY <1>t, <2>1, <2>2, <2>4, <3>2 DEF Sleeps, Awake, Notifying
      <3>4. \A g \in {h} : Awake(g)'
        BY <1>t, <2>1, <2>2, <2>4, <3>2 DEF Awake
      <3>5. \A g \in Consumers : Awake(g) => Awake(g)'
        BY <1>t, <2>1, <2>2, CondAssumption DEF Awake
      <3>6. \A g \in Producers \ {f} : Notifying(g) => Notifying(g)'
        BY <1>t, <2>1, <2>2, CondAssumption DEF Notifying
      <3>. QED BY <2>2, <3>1, <3>3, <3>4, <3>5, <3>6, ItemHandedOver
    <2>. QED BY <2>3, <2>4
  <1>3. ASSUME NEW f \in Fibers, OnCond, Produce(f) PROVE NotifyKept'
    <2>1. f \in Producers /\ items' = items + 1
      BY <1>3 DEF Produce
    <2>2. \A g \in {f} : Notifying(g)'
      BY <1>3, <1>t DEF Produce, MutexUnlock, UnlockFast, UnlockSlow, CallWake, Goto, Notifying
    <2>. QED BY <1>3, <2>1, <2>2, ClientUnlocks, OneMoreProducer
  <1>4. ASSUME NEW f \in Fibers, OnCond, Consume(f) PROVE NotifyKept'
    <2>1. f \in Consumers /\ items' = items - 1
      BY <1>4 DEF Consume
    <2>. QED BY <1>4, <2>1, ClientUnlocks, OneConsumerLess
  <1>5. ASSUME NEW f \in Fibers, OnCond, Leave(f) PROVE NotifyKept'
    <2>1. (f \in Producers \/ items = 0) /\ UNCHANGED items
      BY <1>5 DEF Leave
    <2>2. CASE items = 0
      BY <2>1, <2>2, NoItems
    <2>3. CASE f \in Producers
      <3>1. ItemsKept
        BY <1>5, <2>1, <2>3, ClientUnlocks, CondAssumption DEF ItemsKept, OthersKept
      <3>. QED BY <3>1, ItemsStay
    <2>. QED BY <2>1, <2>2, <2>3
  <1>6. ASSUME NEW f \in Fibers, OnCond, CondWait(f) PROVE NotifyKept'
    BY <1>6, NoItems DEF CondWait
  <1>7. ASSUME NEW f \in Fibers, OnCond, CondWaitRecheck(f) PROVE NotifyKept'
    <2>1. items' = 0
      BY <1>7 DEF CondWaitRecheck, MutexUnlock, UnlockFast, UnlockSlow, CallWake, Goto, SawNoItems
    <2>. QED BY <2>1, NoItems
  <1>8. CASE ItemsKept
    BY <1>8, ItemsStay
  <1>. QED BY <1>1, <1>2, <1>3, <1>4, <1>5, <1>6, <1>7, <1>8, NextItemsKept DEF ItemsMove
-----------------------------------------------------------------------------

\* The inductive invariant holds before the fibers start.
LEMMA InitCInv == Init => CInv
  <1>. SUFFICES ASSUME Init PROVE CInv
    OBVIOUS
  <1>1. Clients /\ SawNoItems
    BY SyncAssumption, QueueAssumption DEF Init, QueueInit, Clients, SawNoItems
  <1>2. NotifyKept
    BY ClientsNat DEF Init, NotifyKept
  <1>. QED BY <1>1, <1>2, InitIInv DEF CInv

\* Every step keeps the inductive invariant.
LEMMA NextCInv == CInv /\ [Next]_vars => CInv'
  BY CParts, NextIInv, NextClients, NextSawNoItems, NextNotifyKept DEF CInv

\* The producers and consumers of the program, however many they are, keep the
\* invariant of the condition variable.
THEOREM CondInvariance == Spec => []CInv
  BY InitCInv, NextCInv, PTL DEF Spec

\* Where adding a timer cannot fail, no notification is lost: fev_cond_wait()
\* unlocks the mutex and goes to sleep in one step for a notifier.
THEOREM NotifyIsKept == Spec => [](~can_fail => NoLostNotify)
  <1>1. CInv => (~can_fail => NoLostNotify)
    <2>. SUFFICES ASSUME CInv, ~can_fail, NEW f \in Consumers, Asleep(f)
                  PROVE  items <= Cardinality(AwakeConsumers) + Cardinality(NotifyingProducers)
      BY DEF NoLostNotify, AwakeConsumers, NotifyingProducers
    <2>1. InFrame(f) /\ wq[f] = "cond" /\ reason[f] = "NONE"
      BY SyncAssumption, CParts, IParts, QParts DEF NodesLive, Asleep, Queued
    <2>2. Sleeps(f)
      BY <2>1 DEF Sleeps
    <2>. QED BY <2>2, CParts DEF NotifyKept
  <1>. QED BY <1>1, CondInvariance, PTL
===============================================================================
