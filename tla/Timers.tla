-------------------------------- MODULE Timers --------------------------------
(***************************************************************************)
(* Timed waits (fev_timers.c) on one bucket of timers, with the timer fd of *)
(* the bucket and the workers that poll it (fev_poller_epoll.c).  Each      *)
(* timer lies on the stack of its fiber, in fev_timed_wait().  The heap or  *)
(* tree of the bucket is a set with a first element; bucket->lock is the    *)
(* ilock of ILock, and the waiter is the one-shot event of Waiter.          *)
(***************************************************************************)
EXTENDS Integers

CONSTANTS
  Fibers, Pollers,
  NULL,
  MaxNow,       \* bounds the clock and the deadlines
  AddCanFail,   \* FEV_TIMERS_ADD_CAN_FAIL
  Past          \* whether callers pass deadlines that are over

ASSUME TimersAssumption ==
  /\ NULL \notin Fibers \cup Pollers
  /\ MaxNow \in Nat \ {0}
  /\ AddCanFail \in BOOLEAN /\ Past \in BOOLEAN

Deadlines == 1..MaxNow

Unarmed == 0

VARIABLES
  now,       \* the clock
  lock,      \* the owner of bucket->lock, or NULL
  timers,    \* the fibers whose timer is in the heap or tree of the bucket
  first,     \* fev_timers_bucket_min(), or NULL if the bucket is empty
  min,       \* bucket->min
  minLock,   \* the poller that holds bucket->min_lock, or NULL
  time,      \* timer->abs_time of each fiber
  expired,   \* fev_timer_is_expired() of each fiber's timer
  reason,    \* waiter->reason
  seen,      \* `now` in fev_timers_wake_expired()
  res,       \* what the last fev_timed_wait() returned
  pc,
  armed,     \* the deadline the timer fd is set to
  fired,     \* the timer fd has an event for epoll_wait()
  ppc, got   \* each polling worker's position and the timer it dereferences

clockVars == <<now, armed, fired>>
bucketVars == <<lock, timers, first, min>>
fiberVars == <<time, expired, reason, seen, res, pc>>
pollVars == <<minLock, ppc, got>>
vars == <<clockVars, bucketVars, fiberVars, pollVars>>

Init ==
  /\ now = 0 /\ armed = Unarmed /\ fired = FALSE
  /\ lock = NULL /\ timers = {} /\ first = NULL /\ min = NULL
  /\ time = [f \in Fibers |-> 1]
  /\ expired = [f \in Fibers |-> FALSE]
  /\ reason = [f \in Fibers |-> "NONE"]
  /\ seen = [f \in Fibers |-> 0]
  /\ res = [f \in Fibers |-> "OK"]
  /\ pc = [f \in Fibers |-> "idle"]
  /\ minLock = NULL
  /\ ppc = [p \in Pollers |-> "poll"]
  /\ got = [p \in Pollers |-> NULL]

Goto(f, from, to) ==
  /\ pc[f] = from
  /\ pc' = [pc EXCEPT ![f] = to]

\* A minimal element of the bucket: which of several is up to the heap.
IsFirst(t, s) ==
  IF s = {} THEN t = NULL ELSE t \in s /\ \A g \in s : time[t] <= time[g]

\* fev_poller_set_timeout(): timerfd_settime() forgets an earlier expiration.
SetTimeout(t) == armed' = time[t] /\ fired' = FALSE

Return(f, from, r) ==
  /\ Goto(f, from, "returned")
  /\ res' = [res EXCEPT ![f] = r]

\* The frame of fev_timed_wait(), and the timer in it, are gone.
Leave(f) ==
  /\ Goto(f, "returned", "idle")
  /\ time' = [time EXCEPT ![f] = 1]
  /\ expired' = [expired EXCEPT ![f] = FALSE]
  /\ reason' = [reason EXCEPT ![f] = "NONE"]
  /\ seen' = [seen EXCEPT ![f] = 0]
  /\ res' = [res EXCEPT ![f] = "OK"]
  /\ UNCHANGED <<clockVars, bucketVars, pollVars>>

-----------------------------------------------------------------------------
(* fev_timed_wait() and fev_timers_add() *)

TimedWait(f) ==
  /\ Goto(f, "idle", "add")
  /\ \E d \in Deadlines : (Past \/ d > now) /\ time' = [time EXCEPT ![f] = d]
  /\ UNCHANGED <<clockVars, bucketVars, pollVars, expired, reason, seen, res>>

AddFails(f) ==
  /\ AddCanFail
  /\ lock = NULL
  /\ Return(f, "add", "ENOMEM")
  /\ UNCHANGED <<clockVars, bucketVars, pollVars, time, expired, reason, seen>>

\* Not the minimum: there is nothing else to do under the lock.
AddBehind(f) ==
  /\ Goto(f, "add", "wait")
  /\ lock = NULL
  /\ first # NULL /\ time[first] <= time[f]
  /\ timers' = timers \cup {f}
  /\ UNCHANGED <<clockVars, pollVars, lock, first, min, time, expired, reason, seen, res>>

AddFirst(f) ==
  /\ Goto(f, "add", "add_min")
  /\ lock = NULL
  /\ IsFirst(f, timers \cup {f})
  /\ lock' = f
  /\ timers' = timers \cup {f}
  /\ first' = f
  /\ UNCHANGED <<clockVars, pollVars, min, time, expired, reason, seen, res>>

\* bucket->min = ..., under bucket->min_lock.
StoreMin(t) == minLock = NULL /\ min' = t

AddMin(f) ==
  /\ Goto(f, "add_min", "add_arm")
  /\ StoreMin(f)
  /\ UNCHANGED <<clockVars, pollVars, lock, timers, first, time, expired, reason, seen, res>>

AddArm(f) ==
  /\ Goto(f, "add_arm", "wait")
  /\ SetTimeout(f)
  /\ lock' = NULL
  /\ UNCHANGED <<now, timers, first, min, pollVars, time, expired, reason, seen, res>>

\* fev_waiter_wait() returns.  After TIMED_OUT_NO_CHECK there is nothing to do.
WaitReady(f) ==
  /\ Goto(f, "wait", "del")
  /\ reason[f] = "READY"
  /\ UNCHANGED <<clockVars, bucketVars, pollVars, time, expired, reason, seen, res>>

WaitTimedOut(f) ==
  /\ Return(f, "wait", "ETIMEDOUT")
  /\ reason[f] = "NO_CHECK"
  /\ UNCHANGED <<clockVars, bucketVars, pollVars, time, expired, reason, seen>>

WaitCheck(f) ==
  /\ Goto(f, "wait", "process")
  /\ reason[f] = "CHECK"
  /\ UNCHANGED <<clockVars, bucketVars, pollVars, time, expired, reason, seen, res>>

-----------------------------------------------------------------------------
(* fev_timers_del() *)

DelExpired(f) ==
  /\ lock = NULL
  /\ expired[f]
  /\ Return(f, "del", "OK")
  /\ UNCHANGED <<clockVars, bucketVars, pollVars, time, expired, reason, seen>>

DelBehind(f) ==
  /\ lock = NULL
  /\ ~expired[f] /\ first # f
  /\ Return(f, "del", "OK")
  /\ timers' = timers \ {f}
  /\ UNCHANGED <<clockVars, lock, first, min, pollVars, time, expired, reason, seen>>

DelFirst(f) ==
  /\ Goto(f, "del", "del_min")
  /\ lock = NULL
  /\ ~expired[f] /\ first = f
  /\ lock' = f
  /\ timers' = timers \ {f}
  /\ \E t \in Fibers \cup {NULL} : IsFirst(t, timers \ {f}) /\ first' = t
  /\ UNCHANGED <<clockVars, min, pollVars, time, expired, reason, seen, res>>

\* Stores the new minimum; without one there is no timeout to set.
DelMin(f) ==
  /\ Goto(f, "del_min", IF first = NULL THEN "returned" ELSE "del_arm")
  /\ StoreMin(first)
  /\ lock' = IF first = NULL THEN NULL ELSE lock
  /\ res' = [res EXCEPT ![f] = "OK"]
  /\ UNCHANGED <<clockVars, timers, first, pollVars, time, expired, reason, seen>>

\* Faulty: leaves the timer fd at the deadline of the deleted timer.
DelNoArm(f) ==
  /\ Return(f, "del_arm", "OK")
  /\ lock' = NULL
  /\ UNCHANGED <<clockVars, timers, first, min, pollVars, time, expired, reason, seen>>

DelArm(f) ==
  /\ Return(f, "del_arm", "OK")
  /\ SetTimeout(first)
  /\ lock' = NULL
  /\ UNCHANGED <<now, timers, first, min, pollVars, time, expired, reason, seen>>

-----------------------------------------------------------------------------
(* fev_timers_process() and fev_timers_wake_expired() *)

Process(f) ==
  /\ Goto(f, "process", "proc_null")
  /\ lock = NULL
  /\ lock' = f
  /\ UNCHANGED <<clockVars, timers, first, min, pollVars, time, expired, reason, seen, res>>

\* Faulty: the poller keeps a pointer to the minimum.
ProcessKeepsMin(f) ==
  /\ Goto(f, "proc_null", "expire")
  /\ seen' = [seen EXCEPT ![f] = now]
  /\ UNCHANGED <<clockVars, bucketVars, pollVars, time, expired, reason, res>>

\* Hides the minimum from the pollers and reads the clock.
ProcessNull(f) ==
  /\ Goto(f, "proc_null", "expire")
  /\ StoreMin(NULL)
  /\ seen' = [seen EXCEPT ![f] = now]
  /\ UNCHANGED <<clockVars, lock, timers, first, pollVars, time, expired, reason, res>>

\* Faulty: expires a timer that is due with the next tick.
ExpireEarly(f) ==
  /\ pc[f] = "expire"
  /\ first # NULL /\ time[first] <= seen[f] + 1
  /\ timers' = timers \ {first}
  /\ \E t \in Fibers \cup {NULL} : IsFirst(t, timers \ {first}) /\ first' = t
  /\ expired' = [expired EXCEPT ![first] = TRUE]
  /\ reason' = [reason EXCEPT ![first] = IF @ = "NONE" THEN "NO_CHECK" ELSE @]
  /\ UNCHANGED <<clockVars, lock, min, pollVars, time, seen, res, pc>>

\* One round of the loop: the timer is deleted before its fiber is woken.
Expire(f) ==
  /\ pc[f] = "expire"
  /\ first # NULL /\ time[first] <= seen[f]
  /\ timers' = timers \ {first}
  /\ \E t \in Fibers \cup {NULL} : IsFirst(t, timers \ {first}) /\ first' = t
  /\ expired' = [expired EXCEPT ![first] = TRUE]
  /\ reason' = [reason EXCEPT ![first] = IF @ = "NONE" THEN "NO_CHECK" ELSE @]
  /\ UNCHANGED <<clockVars, lock, min, pollVars, time, seen, res, pc>>

\* The fiber's own timer is deleted if it has not expired: a spurious wake-up.
ExpireEnds(f) ==
  /\ pc[f] = "expire" /\ (first # NULL => time[first] > seen[f])
  /\ timers' = timers \ {f}
  /\ \E t \in Fibers \cup {NULL} :
       /\ IsFirst(t, timers \ {f}) /\ (first # f => t = first)
       /\ first' = t
       /\ Goto(f, "expire", IF t = NULL THEN "returned" ELSE "proc_min")
       /\ lock' = IF t = NULL THEN NULL ELSE lock
  /\ res' = [res EXCEPT ![f] = IF expired[f] THEN "ETIMEDOUT" ELSE "EAGAIN"]
  /\ UNCHANGED <<clockVars, min, pollVars, time, expired, reason, seen>>

ProcessMin(f) ==
  /\ Goto(f, "proc_min", "proc_arm")
  /\ StoreMin(first)
  /\ UNCHANGED <<clockVars, lock, timers, first, pollVars, time, expired, reason, seen, res>>

\* Faulty: the remaining timers have no timeout.
ProcessNoArm(f) ==
  /\ Goto(f, "proc_arm", "returned")
  /\ lock' = NULL
  /\ UNCHANGED <<clockVars, timers, first, min, pollVars, time, expired, reason, seen, res>>

ProcessArm(f) ==
  /\ Goto(f, "proc_arm", "returned")
  /\ SetTimeout(first)
  /\ lock' = NULL
  /\ UNCHANGED <<now, timers, first, min, pollVars, time, expired, reason, seen, res>>

-----------------------------------------------------------------------------
(* The clock, the timer fd and the other wakers of the waiter. *)

Tick ==
  /\ now < MaxNow
  /\ now' = now + 1
  /\ UNCHANGED <<armed, fired, bucketVars, fiberVars, pollVars>>

Fire ==
  /\ armed # Unarmed /\ armed <= now
  /\ armed' = Unarmed
  /\ fired' = TRUE
  /\ UNCHANGED <<now, bucketVars, fiberVars, pollVars>>

\* A socket event, an unlock, a post or a notification.
Ready(f) ==
  /\ pc[f] \in {"add", "add_min", "add_arm", "wait"} /\ reason[f] = "NONE"
  /\ reason' = [reason EXCEPT ![f] = "READY"]
  /\ UNCHANGED <<clockVars, bucketVars, pollVars, time, expired, seen, res, pc>>

-----------------------------------------------------------------------------
(* fev_poller_process() and fev_process_timer_fd() *)

\* The timer fd is edge triggered: epoll_wait() reports an event once.
PollTake(p) ==
  /\ ppc[p] = "poll" /\ fired
  /\ fired' = FALSE
  /\ ppc' = [ppc EXCEPT ![p] = "lock"]
  /\ UNCHANGED <<now, armed, bucketVars, fiberVars, minLock, got>>

PollLock(p) ==
  /\ ppc[p] = "lock" /\ minLock = NULL
  /\ minLock' = p
  /\ got' = [got EXCEPT ![p] = min]
  /\ ppc' = [ppc EXCEPT ![p] = "wake"]
  /\ UNCHANGED <<clockVars, bucketVars, fiberVars>>

PollWake(p) ==
  /\ ppc[p] = "wake"
  /\ reason' = [f \in Fibers |->
       IF f = got[p] /\ reason[f] = "NONE" THEN "CHECK" ELSE reason[f]]
  /\ got' = [got EXCEPT ![p] = NULL]
  /\ minLock' = NULL
  /\ ppc' = [ppc EXCEPT ![p] = "poll"]
  /\ UNCHANGED <<clockVars, bucketVars, time, expired, seen, res, pc>>

-----------------------------------------------------------------------------

TakesLock(f) ==
  \/ AddFails(f) \/ AddBehind(f) \/ AddFirst(f)
  \/ DelExpired(f) \/ DelBehind(f) \/ DelFirst(f) \/ Process(f)

StoresMin(f) == AddMin(f) \/ DelMin(f) \/ ProcessNull(f) \/ ProcessMin(f)

Rest(f) ==
  \/ AddArm(f) \/ WaitReady(f) \/ WaitTimedOut(f) \/ WaitCheck(f) \/ DelArm(f)
  \/ Expire(f) \/ ExpireEnds(f) \/ ProcessArm(f) \/ Leave(f)

Poller(p) == PollTake(p) \/ PollLock(p) \/ PollWake(p)

Next ==
  \/ Tick \/ Fire
  \/ \E f \in Fibers : TimedWait(f) \/ Ready(f) \/ TakesLock(f) \/ StoresMin(f) \/ Rest(f)
  \/ \E p \in Pollers : Poller(p)

Spec == Init /\ [][Next]_vars

\* Time passes, an expired timer fd becomes ready, some worker polls (the
\* schedulers check the poller regularly), and fibers go on.  The locks do not
\* starve anybody: bucket->lock is FIFO, bucket->min_lock is held for moments.
FairSpec ==
  /\ Spec
  /\ WF_vars(Tick) /\ WF_vars(Fire)
  /\ \A f \in Fibers : SF_vars(TakesLock(f)) /\ SF_vars(StoresMin(f)) /\ WF_vars(Rest(f))
  /\ \A p \in Pollers : SF_vars(Poller(p))

-----------------------------------------------------------------------------
(* Properties. *)

Positions ==
  {"idle", "returned", "add", "add_min", "add_arm", "wait", "del", "del_min", "del_arm",
   "process", "proc_null", "expire", "proc_min", "proc_arm"}

\* The bucket, the timer fd and the positions keep to their ranges.
TypeOK ==
  /\ now \in 0..MaxNow /\ armed \in 0..MaxNow /\ fired \in BOOLEAN
  /\ lock \in Fibers \cup {NULL}
  /\ timers \subseteq Fibers
  /\ first \in timers \cup {NULL}
  /\ min \in Fibers \cup {NULL}
  /\ minLock \in Pollers \cup {NULL}
  /\ time \in [Fibers -> Deadlines]
  /\ expired \in [Fibers -> BOOLEAN]
  /\ reason \in [Fibers -> {"NONE", "READY", "CHECK", "NO_CHECK"}]
  /\ seen \in [Fibers -> 0..MaxNow]
  /\ res \in [Fibers -> {"OK", "EAGAIN", "ETIMEDOUT", "ENOMEM"}]
  /\ pc \in [Fibers -> Positions]
  /\ ppc \in [Pollers -> {"poll", "lock", "wake"}]
  /\ got \in [Pollers -> Fibers \cup {NULL}]

\* The frame of fev_timed_wait() and with it the timer exist.
Live(f) == pc[f] \notin {"idle", "returned"}

\* The scenario in the comment of fev_timers_process() cannot happen: a poller
\* never dereferences a timer whose fiber has left fev_timed_wait(), nor could
\* one that takes bucket->min_lock now.
NoDanglingMin ==
  /\ min # NULL => Live(min)
  /\ \A p \in Pollers : got[p] # NULL => Live(got[p])

\* No timeout is lost: while timers wait and nobody changes the bucket, the
\* timer fd is set to the first deadline, or its event is on the way to a
\* poller, or the fiber with the first deadline has a reason to come back and
\* set the next timeout.
NoLostTimeout ==
  lock = NULL /\ first # NULL =>
    \/ armed = time[first]
    \/ fired
    \/ \E p \in Pollers : ppc[p] = "lock" \/ got[p] = first
    \/ reason[first] # "NONE"

\* fev_timed_wait() returns ETIMEDOUT only after the deadline.
NoEarlyTimeout ==
  \A f \in Fibers :
    pc[f] = "returned" /\ res[f] = "ETIMEDOUT" => time[f] <= now

\* A fiber that waits with a deadline returns, if no caller passes a deadline
\* that is over.  (A stream of fibers that do, and that are made ready before
\* the poller comes to their timer, can keep the bucket's event to itself.)
TimeoutDelivered == \A f \in Fibers : pc[f] = "wait" ~> pc[f] = "returned"
===============================================================================
