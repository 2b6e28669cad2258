-------------------------------- MODULE Mutex --------------------------------
(***************************************************************************)
(* The mutex of fibers (fev_mutex.c): a state word for the uncontended      *)
(* paths over a waiters queue.  lock(), try_lock(), try_lock_for/until()    *)
(* and unlock(); the unlocker hands the mutex to the waiter it wakes.       *)
(***************************************************************************)
EXTENDS WaitersQueue

VARIABLE state   \* mutex->state: 0 unlocked, 1 locked, 2 locked, some waiters

-----------------------------------------------------------------------------

\* fev_mutex_try_lock() succeeds: in lock(), in try_lock() or in a timed lock.
TryLock(f, from) ==
  /\ Goto(f, from, "cs")
  /\ state = 0
  /\ state' = 1
  /\ timed' = [timed EXCEPT ![f] = FALSE]
  /\ UNCHANGED <<qlock, nodes, deleted, reason, res, wq, wakeVars, ret>>

\* It fails: lock() and the timed locks go on to the slow path.
TryLockFails(f, from, hasTime, failed) ==
  /\ state # 0
  /\ CallWait(f, from, "mutex", hasTime, failed)
  /\ UNCHANGED state

\* Faulty: only looks at the state and lets the owner take the fast path.
RecheckLoads(f) ==
  /\ wq[f] = "mutex"
  /\ Goto(f, "recheck", IF state = 0 THEN "recheck_store" ELSE "insert")
  /\ state' = IF state = 0 THEN 2 ELSE state
  /\ UNCHANGED <<qlock, nodes, waitVars, wakeVars, ret>>

\* fev_mutex_lock_recheck(): the exchange, then the store if it found 0.
Recheck(f) ==
  /\ wq[f] = "mutex"
  /\ Goto(f, "recheck", IF state = 0 THEN "recheck_store" ELSE "insert")
  /\ state' = 2
  /\ UNCHANGED <<qlock, nodes, waitVars, wakeVars, ret>>

RecheckStore(f) ==
  /\ Goto(f, "recheck_store", "no_wait")
  /\ state' = 1
  /\ UNCHANGED <<qlock, nodes, waitVars, wakeVars, ret>>

\* The wait has returned.
LockReturn(f) ==
  /\ wq[f] = "mutex"
  /\ Again(f) \/ Returns(f, "cs")
  /\ UNCHANGED state

\* fev_mutex_unlock(), after which the fiber goes on at `to`.
UnlockFast(f, from, to) ==
  /\ Goto(f, from, to)
  /\ state = 1
  /\ state' = 0
  /\ UNCHANGED <<qlock, nodes, waitVars, wakeVars, ret>>

UnlockSlow(f, from, to) ==
  /\ state # 1
  /\ CallWake(f, from, "mutex", 1, to)
  /\ UNCHANGED state

MutexUnlock(f, from, to) == UnlockFast(f, from, to) \/ UnlockSlow(f, from, to)

\* Faulty: unlocks whenever the queue is empty.
UnlockCallbackIgnoresWoken(f) ==
  /\ kq[f] = "mutex"
  /\ Goto(f, "callback", "wake_unlock")
  /\ state' = IF nodes["mutex"] = <<>> THEN 0 ELSE state
  /\ UNCHANGED <<qlock, nodes, waitVars, wakeVars, ret>>

\* Faulty: forgets the other waiters.
UnlockCallbackForgetsWaiters(f) ==
  /\ kq[f] = "mutex"
  /\ Goto(f, "callback", "wake_unlock")
  /\ state' = IF woken[f] = 0 THEN 0 ELSE 1
  /\ UNCHANGED <<qlock, nodes, waitVars, wakeVars, ret>>

UnlockCallback(f) ==
  /\ kq[f] = "mutex"
  /\ Goto(f, "callback", "wake_unlock")
  /\ state' = CASE woken[f] = 0 -> 0
                [] woken[f] # 0 /\ nodes["mutex"] = <<>> -> 1
                [] OTHER -> state
  /\ UNCHANGED <<qlock, nodes, waitVars, wakeVars, ret>>

MutexSteps(f) ==
  Recheck(f) \/ RecheckStore(f) \/ LockReturn(f) \/ UnlockCallback(f)

-----------------------------------------------------------------------------
(* Properties. *)

\* The fiber has locked the mutex, or the unlocker has handed it over, and the
\* fiber has not unlocked it or handed it on.
Owns(f) ==
  \/ pc[f] \in {"recheck_store", "cs"}
  \/ wq[f] = "cond" /\ pc[f] \in {"wait_lock", "recheck"}
  \/ wq[f] = "mutex" /\ pc[f] = "no_wait"
  \/ wq[f] = "mutex" /\ pc[f] = "done" /\ res[f] = "OK"
  \/ wq[f] = "mutex" /\ pc[f] \in {"timers_add", "waiting"} /\ reason[f] = "READY"
  \/ kq[f] = "mutex" /\ pc[f] \in {"wake_lock", "wake", "callback"} /\ woken[f] = 0

Owners == {f \in Fibers : Owns(f)}

\* At most one fiber owns the mutex, hand-overs in progress included.
MutualExclusion == \A f, g \in Fibers : Owns(f) /\ Owns(g) => f = g

\* A fiber in the waiters queue keeps the state at 2 whenever the queue is
\* unlocked, so that the owner cannot unlock on the fast path past it.
NoStrandedWaiter == qlock["mutex"] = NULL /\ nodes["mutex"] # <<>> => state = 2

\* A fiber that waits in lock() gets the mutex, where adding a timer cannot fail.
LockReturns ==
  \A f \in Fibers :
    ~can_fail /\ wq[f] = "mutex" /\ pc[f] = "waiting" /\ ~timed[f] ~> pc[f] = "cs"
==============================================================================
