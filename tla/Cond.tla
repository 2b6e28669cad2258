--------------------------------- MODULE Cond ---------------------------------
(***************************************************************************)
(* The condition variable of fibers (fev_cond.c) over a waiters queue of    *)
(* its own and the mutex.  Producers add items under the mutex and notify   *)
(* after unlocking it, consumers wait in a loop while there are none, the   *)
(* way tests/stress_cond_with_timeout.c and the join of fibers use it.      *)
(***************************************************************************)
EXTENDS Mutex, FiniteSets

CONSTANTS
  Producers, Consumers,
  MaxItems              \* bounds the items that wait to be consumed

ASSUME CondAssumption ==
  /\ Producers \cap Consumers = {}
  /\ Fibers = Producers \cup Consumers /\ IsFiniteSet(Fibers)
  /\ MaxItems \in Nat

VARIABLE items

\* UINT32_MAX, for notify_all: more than there are waiters.
AllWaiters == Cardinality(Fibers) + 1

-----------------------------------------------------------------------------
(* The clients. *)

\* Locks the mutex.  Consumers have come to look at the items, producers may
\* give up.
ClientLocks(f) ==
  /\ \E from \in {"idle", "returned"} :
       \/ TryLock(f, from)
       \/ \E t \in BOOLEAN :
            /\ t => f \in Producers
            /\ TryLockFails(f, from, t, "idle")
  /\ UNCHANGED items

Produce(f) ==
  /\ f \in Producers /\ items < MaxItems
  /\ MutexUnlock(f, "cs", "notify")
  /\ items' = items + 1

Consume(f) ==
  /\ f \in Consumers /\ items > 0
  /\ MutexUnlock(f, "cs", "idle")
  /\ items' = items - 1

\* Leaves without an item.
Leave(f) ==
  /\ f \in Producers \/ items = 0
  /\ MutexUnlock(f, "cs", "idle")
  /\ UNCHANGED items

-----------------------------------------------------------------------------
(* fev_cond *)

\* Faulty: does nothing if it sees no waiters, without the lock of the queue.
NotifySkipsEmpty(f) ==
  /\ IF nodes["cond"] = <<>>
       THEN Goto(f, "notify", "idle") /\ UNCHANGED <<qlock, nodes, waitVars, wakeVars, ret>>
       ELSE \E n \in {1, AllWaiters} : CallWake(f, "notify", "cond", n, "idle")
  /\ UNCHANGED <<state, items>>

\* fev_cond_notify_one() and fev_cond_notify_all(), without a callback.
Notify(f) ==
  /\ \E n \in {1, AllWaiters} : CallWake(f, "notify", "cond", n, "idle")
  /\ UNCHANGED <<state, items>>

NotifyNoCallback(f) ==
  /\ kq[f] = "cond"
  /\ Goto(f, "callback", "wake_unlock")
  /\ UNCHANGED <<state, items, qlock, nodes, waitVars, wakeVars, ret>>

\* fev_cond_wait(), fev_cond_wait_for() and fev_cond_wait_until().
CondWait(f) ==
  /\ f \in Consumers /\ items = 0
  /\ \E t \in BOOLEAN : CallWait(f, "cs", "cond", t, "idle")
  /\ UNCHANGED <<state, items>>

\* fev_cond_wait_recheck() unlocks the mutex under the lock of the queue.
CondWaitRecheck(f) ==
  /\ wq[f] = "cond"
  /\ MutexUnlock(f, "recheck", "insert")
  /\ UNCHANGED items

\* The timed waits return without the mutex if they timed out or if there was
\* no memory; otherwise the mutex is locked again.
CondWaitWoken(f) ==
  /\ wq[f] = "cond"
  /\ Goto(f, "done", IF res[f] \in {"OK", "EAGAIN"} THEN "relock" ELSE "returned")
  /\ FrameEnds(f, timed[f] /\ res[f] \in {"OK", "EAGAIN"})
  /\ UNCHANGED <<state, items, ret>>

\* fev_mutex_lock() or fev_mutex_try_lock_until() at the end of the wait.
Relock(f) ==
  /\ TryLock(f, "relock") \/ TryLockFails(f, "relock", timed[f], "returned")
  /\ UNCHANGED items

CondSteps(f) ==
  \/ Produce(f) \/ Consume(f) \/ Leave(f) \/ Notify(f) \/ NotifyNoCallback(f)
  \/ CondWait(f) \/ CondWaitRecheck(f) \/ CondWaitWoken(f) \/ Relock(f)

-----------------------------------------------------------------------------
(* Properties. *)

\* The fiber waits for a notification and nothing has decided to wake it.
Asleep(f) == reason[f] = "NONE" /\ Queued(f, "cond")

\* The fiber has been woken, or has just come, and will look at the items.
Awake(f) ==
  \/ wq[f] = "cond" /\ pc[f] \in {"timers_add", "waiting"} /\ reason[f] # "NONE"
  \/ wq[f] = "cond" /\ pc[f] \in {"remove_lock", "remove", "done"}
  \/ wq[f] = "mutex"
  \/ pc[f] \in {"relock", "returned", "cs"}

\* The fiber has yet to wake a waiter on behalf of its item.
Notifying(f) ==
  \/ pc[f] = "notify" \/ ret[f] = "notify"
  \/ kq[f] = "cond" /\ pc[f] \in {"wake_lock", "wake"} /\ woken[f] = 0

\* No notification is lost: while a consumer sleeps, every item has a consumer
\* that is awake or a producer that has yet to wake one.  Unlocking the mutex
\* and going to sleep is one step for a notifier, and a waiter that has timed
\* out does not use up fev_cond_notify_one().
NoLostNotify ==
  (\E f \in Consumers : Asleep(f)) =>
    items <= Cardinality({f \in Consumers : Awake(f)})
             + Cardinality({f \in Producers : Notifying(f)})

\* fev_cond_notify_all() leaves nobody asleep that slept when it took the lock
\* of the queue.
NotifyAllWakesAll ==
  \A f \in Fibers :
    kq[f] = "cond" /\ pc[f] = "callback" /\ max[f] = AllWaiters => nodes["cond"] = <<>>
==============================================================================
