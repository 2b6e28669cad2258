----------------------------- MODULE SchedShared -----------------------------
(***************************************************************************)
(* The loop of a worker of the work sharing strategies, fev_sched_work() of *)
(* fev_sched_shr_bounded_mpmc.c and fev_sched_shr_locking.c: it pops fibers *)
(* from the run queue, checks the poller now and then, and sleeps in the    *)
(* poller or on the semaphore.                                              *)
(***************************************************************************)
EXTENDS SchedQueues

VARIABLE poller_backoff

\* The fiber has switched back: every poller_backoff switches the poller is
\* checked although there are fibers to run.
Switched(w) ==
  /\ strategy.sharing
  /\ Goto(w, "switched", IF poller_backoff = 1 THEN "check_poller" ELSE "get_fiber")
  /\ poller_backoff' = (poller_backoff - 1) % Word
  /\ cur' = [cur EXCEPT ![w] = NULL]
  /\ UNCHANGED <<queues, counters, kernel, fiber, ops, locals>>

StoreBackoff(w) ==
  /\ Goto(w, "store_backoff", IF n[w] > 0 THEN "get_fiber" ELSE "are_we_done")
  /\ poller_backoff' = n[w]
  /\ n' = [n EXCEPT ![w] = 0]
  /\ UNCHANGED <<queues, counters, kernel, fiber, ops, cur, batch, cnt, ret>>

GetFiber(w) == Pop(w, "get_fiber") \/ PopFails(w, "get_fiber", "check_poller")

\* The steps that leave the queues alone.
CheckPoller(w) ==
  Process(w, "check_poller", IF Bounded THEN "check_fallback" ELSE "load_run")

LoadRunFibers(w) == strategy.sharing /\ LoadRun(w, "load_run", "store_backoff")

ShareWait(w) ==
  \/ strategy.sharing /\ AreWeDone(w, "wait")
  \/ CountWaiting(w, "wait", "exchange")
  \/ strategy.sharing /\ ExchangePollerWaiting(w, "exchange", "poller_wait", "sem_wait")
  \/ strategy.sharing /\ SemWait(w, "waited")
  \/ strategy.sharing /\ Waited(w, "waited", "get_fiber")

ShareSteps(w) ==
  \/ Switched(w) \/ StoreBackoff(w)
  \/ GetFiber(w) /\ UNCHANGED poller_backoff
  \/ (CheckPoller(w) \/ LoadRunFibers(w) \/ ShareWait(w)) /\ UNCHANGED <<queues, poller_backoff>>
==============================================================================
