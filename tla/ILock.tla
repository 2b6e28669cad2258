-------------------------------- MODULE ILock --------------------------------
(***************************************************************************)
(* The internal lock of fibers (fev_ilock.c, fev_ilock_impl.h): an atomic   *)
(* state word for the uncontended paths, and a FIFO of blocked fibers under *)
(* a thread-level lock for the others.  Unlocking with waiters hands the    *)
(* lock over.  The thread-level lock (spinlock or futex mutex) is taken as  *)
(* a mutex, taken as a lock with one owner.  A fiber that blocks keeps it until *)
(* its context is saved: the worker releases it in fev_ilock_lock_post().   *)
(***************************************************************************)
EXTENDS Integers, Sequences

CONSTANTS Fibers, NULL

ASSUME NULLAssumption == NULL \notin Fibers

VARIABLES
  state,    \* 0 unlocked, 1 locked, 2 locked with waiters
  inner,    \* the fiber on whose behalf ilock->lock is held, or NULL
  waiters,  \* ilock->waiters
  pc,       \* each fiber's position
  next,     \* the fiber fev_ilock_unlock() has returned to each unlocker
  runq      \* how often each fiber is in the scheduler's run queues

vars == <<state, inner, waiters, pc, next, runq>>

Init ==
  /\ state = 0
  /\ inner = NULL
  /\ waiters = <<>>
  /\ pc = [f \in Fibers |-> "idle"]
  /\ next = [f \in Fibers |-> NULL]
  /\ runq = [f \in Fibers |-> 0]

Goto(f, from, to) ==
  /\ pc[f] = from
  /\ pc' = [pc EXCEPT ![f] = to]

-----------------------------------------------------------------------------
(* fev_ilock_lock() and fev_ilock_lock_slow() *)

LockFast(f) ==
  /\ Goto(f, "idle", "cs")
  /\ state = 0
  /\ state' = 1
  /\ UNCHANGED <<inner, waiters, next, runq>>

\* The weak compare-and-exchange may also fail when the state is 0.
LockFastFails(f) ==
  /\ Goto(f, "idle", "slow")
  /\ UNCHANGED <<state, inner, waiters, next, runq>>

SlowAcquire(f) ==
  /\ Goto(f, "slow", "exchange")
  /\ inner = NULL
  /\ inner' = f
  /\ UNCHANGED <<state, waiters, next, runq>>

SlowExchange(f) ==
  /\ Goto(f, "exchange", IF state = 0 THEN "store" ELSE "append")
  /\ state' = 2
  /\ UNCHANGED <<inner, waiters, next, runq>>

\* Faulty: leaves the state at 2 although there are no waiters.
SlowNoStore(f) ==
  /\ Goto(f, "store", "unlock_inner")
  /\ UNCHANGED <<state, inner, waiters, next, runq>>

SlowStore(f) ==
  /\ Goto(f, "store", "unlock_inner")
  /\ state' = 1
  /\ UNCHANGED <<inner, waiters, next, runq>>

SlowUnlockInner(f) ==
  /\ Goto(f, "unlock_inner", "cs")
  /\ inner' = NULL
  /\ UNCHANGED <<state, waiters, next, runq>>

\* Faulty: releases the thread-level lock before the context is saved.
SlowAppendUnlocked(f) ==
  /\ Goto(f, "append", "switching")
  /\ waiters' = Append(waiters, f)
  /\ inner' = NULL
  /\ UNCHANGED <<state, next, runq>>

\* Faulty: the newest waiter goes first.
SlowPrepend(f) ==
  /\ Goto(f, "append", "switching")
  /\ waiters' = <<f>> \o waiters
  /\ UNCHANGED <<state, inner, next, runq>>

SlowAppend(f) ==
  /\ Goto(f, "append", "switching")
  /\ waiters' = Append(waiters, f)
  /\ UNCHANGED <<state, inner, next, runq>>

\* The context is saved; the worker still has to run fev_ilock_lock_post().
SlowSwitch(f) ==
  /\ Goto(f, "switching", "parked")
  /\ UNCHANGED <<state, inner, waiters, next, runq>>

LockPost(f) ==
  /\ pc[f] = "parked"
  /\ inner = f
  /\ inner' = NULL
  /\ UNCHANGED <<state, waiters, pc, next, runq>>

\* A worker runs the fiber again; it owns the lock.
Resume(f) ==
  /\ Goto(f, "parked", "cs")
  /\ runq[f] > 0
  /\ runq' = [runq EXCEPT ![f] = @ - 1]
  /\ UNCHANGED <<state, inner, waiters, next>>

-----------------------------------------------------------------------------
(* fev_ilock_unlock(), fev_ilock_unlock_slow() and the push by the caller *)

UnlockFast(f) ==
  /\ Goto(f, "cs", "idle")
  /\ state = 1
  /\ state' = 0
  /\ UNCHANGED <<inner, waiters, next, runq>>

UnlockFastFails(f) ==
  /\ Goto(f, "cs", "unlock_slow")
  /\ state # 1
  /\ UNCHANGED <<state, inner, waiters, next, runq>>

UnlockSlowAcquire(f) ==
  /\ Goto(f, "unlock_slow", "pop")
  /\ inner = NULL
  /\ inner' = f
  /\ UNCHANGED <<state, waiters, next, runq>>

\* Faulty: the last hand-over unlocks the state word.
UnlockSlowPopFrees(f) ==
  /\ Goto(f, "pop", "release")
  /\ waiters # <<>>
  /\ next' = [next EXCEPT ![f] = Head(waiters)]
  /\ waiters' = Tail(waiters)
  /\ state' = IF Tail(waiters) = <<>> THEN 0 ELSE state
  /\ UNCHANGED <<inner, runq>>

\* Faulty: forgets that more fibers are waiting.
UnlockSlowPopNoWaiters(f) ==
  /\ Goto(f, "pop", "release")
  /\ waiters # <<>>
  /\ next' = [next EXCEPT ![f] = Head(waiters)]
  /\ waiters' = Tail(waiters)
  /\ state' = 1
  /\ UNCHANGED <<inner, runq>>

\* Takes the first waiter out; it owns the lock from here on.
UnlockSlowPop(f) ==
  /\ Goto(f, "pop", "release")
  /\ waiters # <<>>
  /\ next' = [next EXCEPT ![f] = Head(waiters)]
  /\ waiters' = Tail(waiters)
  /\ state' = IF Tail(waiters) = <<>> THEN 1 ELSE state
  /\ UNCHANGED <<inner, runq>>

UnlockSlowRelease(f) ==
  /\ Goto(f, "release", "push")
  /\ inner' = NULL
  /\ UNCHANGED <<state, waiters, next, runq>>

UnlockWake(f) ==
  /\ Goto(f, "push", "idle")
  /\ runq' = [runq EXCEPT ![next[f]] = @ + 1]
  /\ next' = [next EXCEPT ![f] = NULL]
  /\ UNCHANGED <<state, inner, waiters>>

-----------------------------------------------------------------------------

Lock(f) ==
  \/ LockFast(f) \/ LockFastFails(f)

LockRest(f) ==
  \/ SlowAcquire(f) \/ SlowExchange(f) \/ SlowStore(f) \/ SlowUnlockInner(f)
  \/ SlowAppend(f) \/ SlowSwitch(f) \/ LockPost(f) \/ Resume(f)

Unlock(f) ==
  \/ UnlockFast(f) \/ UnlockFastFails(f) \/ UnlockSlowAcquire(f)
  \/ UnlockSlowPop(f) \/ UnlockSlowRelease(f) \/ UnlockWake(f)

Next == \E f \in Fibers : Lock(f) \/ LockRest(f) \/ Unlock(f)

Spec == Init /\ [][Next]_vars

\* Fibers do not have to start locking.  What they have started they finish,
\* and the critical sections of the library are finite.
FairSpec == Spec /\ \A f \in Fibers : WF_vars(LockRest(f)) /\ WF_vars(Unlock(f))

-----------------------------------------------------------------------------
(* Properties. *)

\* The fiber was taken out of the FIFO by an unlocker that has not pushed it yet.
Granted(f) == \E g \in Fibers : pc[g] \in {"release", "push"} /\ next[g] = f

Owns(f) ==
  \/ pc[f] \in {"store", "unlock_inner", "cs", "unlock_slow", "pop"}
  \/ Granted(f)
  \/ runq[f] > 0

Owners == {f \in Fibers : Owns(f)}

Positions ==
  {"idle", "slow", "exchange", "store", "unlock_inner", "append", "switching",
   "parked", "cs", "unlock_slow", "pop", "release", "push"}

\* The state word keeps to its three values and a fiber is made runnable once.
TypeOK ==
  /\ state \in 0..2
  /\ inner \in Fibers \cup {NULL}
  /\ waiters \in Seq(Fibers)
  /\ pc \in [Fibers -> Positions]
  /\ next \in [Fibers -> Fibers \cup {NULL}]
  /\ runq \in [Fibers -> {0, 1}]

\* At most one fiber owns the ilock, hand-overs in progress included.
MutualExclusion == \A f, g \in Fibers : Owns(f) /\ Owns(g) => f = g

\* The three values of `state` mean what fev_ilock_intf.h says whenever the
\* thread-level lock is free: unlocked, locked without waiters, locked with
\* waiters.
StateMeaning ==
  inner = NULL =>
    /\ state = 0 <=> \A f \in Fibers : ~Owns(f)
    /\ state = 2 <=> waiters # <<>>

\* The assertions of fev_ilock_unlock_slow(): state is 2 and there is a waiter.
UnlockSlowAsserts ==
  \A f \in Fibers : pc[f] = "pop" => state = 2 /\ waiters # <<>>

\* A fiber is in a run queue only after its context was saved and its worker
\* has finished fev_ilock_lock_post(): it never runs on two workers.
ResumedAfterSave ==
  \A f \in Fibers : Granted(f) \/ runq[f] > 0 => pc[f] = "parked" /\ inner # f

\* A fiber that blocked is still in the FIFO or is being handed the lock.
NoStrandedFiber ==
  \A f \in Fibers : pc[f] = "parked" =>
    Owns(f) \/ \E i \in DOMAIN waiters : waiters[i] = f

\* A blocked fiber gets the lock if every owner unlocks.
BlockedGetsLock == \A f \in Fibers : pc[f] = "parked" ~> pc[f] = "cs"

\* The refinement mapping.
Abs == INSTANCE ILockAbs WITH
  owner <- IF Owners = {} THEN NULL ELSE CHOOSE f \in Owners : TRUE,
  queue <- waiters

\* fev_ilock implements a FIFO lock with direct hand-over.
AbsRefined == Abs!AbsSpec
==============================================================================
