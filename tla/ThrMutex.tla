------------------------------- MODULE ThrMutex -------------------------------
(***************************************************************************)
(* The mutex of threads on Linux (fev_thr_mutex_linux.h and .c): a state    *)
(* word and the futex the kernel keeps for it.  It protects the fallback    *)
(* queue, the run queues and, if so configured, the internal locks.         *)
(***************************************************************************)
EXTENDS Naturals

CONSTANTS Threads

VARIABLES
  state,   \* mutex->state: 0 unlocked, 1 locked, 2 locked, maybe with waiters
  pc

vars == <<state, pc>>

Init ==
  /\ state = 0
  /\ pc = [t \in Threads |-> "idle"]

Goto(t, from, to) == pc[t] = from /\ pc' = [pc EXCEPT ![t] = to]

-----------------------------------------------------------------------------
(* fev_thr_mutex_lock() and fev_thr_mutex_lock_slow().                      *)

\* The exchange from 0 to 1, of try_lock() too.
Lock(t) ==
  /\ Goto(t, "idle", IF state = 0 THEN "cs" ELSE "load")
  /\ state' = IF state = 0 THEN 1 ELSE state

LoadState(t) ==
  /\ Goto(t, "load", IF state = 2 THEN "wait" ELSE "exchange")
  /\ UNCHANGED state

Exchange(t) ==
  /\ Goto(t, "exchange", IF state = 0 THEN "cs" ELSE "wait")
  /\ state' = 2

\* FUTEX_WAIT compares and sleeps in one step; otherwise it returns EAGAIN.
FutexWait(t) ==
  /\ Goto(t, "wait", IF state = 2 THEN "asleep" ELSE "exchange")
  /\ UNCHANGED state

\* EINTR
Interrupted(t) ==
  /\ Goto(t, "asleep", "exchange")
  /\ UNCHANGED state

-----------------------------------------------------------------------------
(* fev_thr_mutex_unlock() and fev_thr_mutex_unlock_slow().                  *)

Unlock(t) ==
  /\ Goto(t, "cs", IF state = 2 THEN "wake" ELSE "idle")
  /\ state' = 0

\* FUTEX_WAKE of one thread, if one sleeps.
FutexWake(t) ==
  /\ pc[t] = "wake"
  /\ \E u \in Threads : pc[u] = "asleep" /\ pc' = [pc EXCEPT ![t] = "idle", ![u] = "exchange"]
  /\ UNCHANGED state

FutexWakeNobody(t) ==
  /\ Goto(t, "wake", "idle")
  /\ \A u \in Threads : pc[u] # "asleep"
  /\ UNCHANGED state

-----------------------------------------------------------------------------

Next == \E t \in Threads :
  \/ Lock(t) \/ LoadState(t) \/ Exchange(t) \/ FutexWait(t)
  \/ Interrupted(t)
  \/ Unlock(t) \/ FutexWake(t) \/ FutexWakeNobody(t)

Spec == Init /\ [][Next]_vars

-----------------------------------------------------------------------------
(* Properties. *)

\* The state word keeps to its three values.
TypeOK ==
  /\ state \in 0..2
  /\ pc \in [Threads -> {"idle", "load", "exchange", "wait", "asleep", "cs", "wake"}]

\* At most one thread owns the mutex.
MutualExclusion == \A t, u \in Threads : pc[t] = "cs" /\ pc[u] = "cs" => t = u

\* While a thread sleeps on the futex, the owner will see a 2 when it unlocks,
\* or some thread is about to wake a sleeper or to set the state to 2.
NoStrandedThread ==
  (\E t \in Threads : pc[t] = "asleep") =>
    state = 2 \/ \E u \in Threads : pc[u] \in {"wake", "exchange"}
==============================================================================
