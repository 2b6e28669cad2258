----------------------------- MODULE SchedSteal ------------------------------
(***************************************************************************)
(* The loop of a worker of the work stealing strategies, fev_sched_work()   *)
(* and fev_sched_steal() of fev_sched_steal_locking.c, _bounded_spmc.c and  *)
(* _bounded_mpmc.c: it pops from its own run queue, checks the poller,      *)
(* steals from the other workers, and sleeps when there are more workers    *)
(* awake than fibers to run.  What is stolen is in batch[w] on its way.     *)
(***************************************************************************)
EXTENDS SchedQueues

CONSTANT StealCount   \* FEV_SCHED_STEAL_*_STEAL_COUNT

ASSUME StealAssumption ==
  /\ StealCount \in Nat \ {0}
  /\ \A s \in Strategies : s.queue # "locking" => StealCount < s.capacity

VARIABLE backoff    \* backoff[w]: switches left until the worker checks the poller

-----------------------------------------------------------------------------
(* fev_sched_steal().                                                       *)

\* In transit.
Taken(f) == fiber' = [fiber EXCEPT ![f] = "waking"]

\* With a lock: the first fibers of a victim.
StealLocked(w, v) ==
  LET k == Smaller(StealCount, Len(run_queue[v])) IN
  /\ strategy.queue = "locking"
  /\ v \in victims[w]
  /\ Goto(w, "steal", IF k > 0 THEN "stolen" ELSE "steal")
  /\ batch' = [batch EXCEPT ![w] = SubSeq(run_queue[v], 1, k)]
  /\ run_queue' = [run_queue EXCEPT ![v] = SubSeq(@, k + 1, Len(@))]
  /\ fiber' = [f \in Fibers |-> IF f \in ToSet(batch'[w]) THEN "waking" ELSE fiber[f]]
  /\ victims' = [victims EXCEPT ![w] = IF k > 0 THEN {} ELSE @ \ {v}]
  /\ UNCHANGED <<fallback, counters, kernel, ops, cur, cnt, n, ret>>

\* Bounded queues: one fiber after the other, all from one victim.
StealPop(w, v) ==
  /\ Bounded
  /\ v \in victims[w] /\ Len(batch[w]) < StealCount /\ CanPop(v)
  /\ Goto(w, "steal", IF strategy.queue = "mpmc" THEN "steal_release" ELSE "steal")
  /\ run_queue' = [run_queue EXCEPT ![v] = Tail(@)]
  /\ batch' = [batch EXCEPT ![w] = Append(@, Head(run_queue[v]))]
  /\ Taken(Head(run_queue[v]))
  /\ victims' = [victims EXCEPT ![w] = {v}]
  /\ UNCHANGED <<fallback, counters, kernel, ops, cur, cnt, n, ret>>

StealPopFails(w, v) ==
  /\ Bounded
  /\ v \in victims[w] /\ Len(batch[w]) < StealCount /\ ~CanPop(v)
  /\ Goto(w, "steal", "steal")
  /\ victims' = [victims EXCEPT ![w] = @ \ {v}]
  /\ UNCHANGED <<run_queue, fallback, counters, kernel, fiber, ops, cur, locals>>

StealEnds(w) ==
  /\ Bounded
  /\ batch[w] # <<>> /\ (victims[w] = {} \/ Len(batch[w]) = StealCount)
  /\ Goto(w, "steal", "stolen")
  /\ victims' = [victims EXCEPT ![w] = {}]
  /\ UNCHANGED <<run_queue, fallback, counters, kernel, fiber, ops, cur, locals>>

\* Faulty: the last stolen fiber stays behind.
StolenLosesLast(w) ==
  /\ Goto(w, "stolen", "push")
  /\ backoff' = [backoff EXCEPT ![w] = Len(batch[w])]
  /\ batch' = [batch EXCEPT ![w] = SubSeq(@, 1, Len(@) - 1)]
  /\ ret' = [ret EXCEPT ![w] = "get_local"]
  /\ UNCHANGED <<queues, counters, kernel, fiber, ops, cur, cnt, n>>

\* Pushes them to the worker's own queue, without counting them.
Stolen(w) ==
  /\ Goto(w, "stolen", "push")
  /\ backoff' = [backoff EXCEPT ![w] = Len(batch[w])]
  /\ ret' = [ret EXCEPT ![w] = "get_local"]
  /\ UNCHANGED <<queues, counters, kernel, fiber, ops, cur, batch, cnt, n>>

StolenPushed(w) ==
  /\ batch[w] = <<>> /\ cnt[w] = 0
  /\ Goto(w, "push", ret[w])
  /\ ret' = [ret EXCEPT ![w] = NULL]
  /\ UNCHANGED <<queues, backoff, counters, kernel, fiber, ops, cur, batch, cnt, n>>

NothingStolen(w) ==
  /\ victims[w] = {} /\ batch[w] = <<>>
  /\ Goto(w, "steal", "load_run")
  /\ UNCHANGED <<queues, counters, kernel, fiber, ops, cur, locals>>

StealSteps(w) ==
  \/ \E v \in Workers : StealLocked(w, v) \/ StealPop(w, v) \/ StealPopFails(w, v)
  \/ Release(w, "steal_release", "steal") \/ StealEnds(w) \/ NothingStolen(w)

-----------------------------------------------------------------------------
(* fev_sched_work().                                                        *)

SwitchedBack(w) ==
  /\ ~strategy.sharing
  /\ Goto(w, "switched", IF backoff[w] = 0 THEN "get_global" ELSE "get_local")
  /\ backoff' = [backoff EXCEPT ![w] = IF @ = 0 THEN 0 ELSE @ - 1]
  /\ cur' = [cur EXCEPT ![w] = NULL]
  /\ UNCHANGED <<queues, counters, kernel, fiber, ops, locals>>

GetLocal(w) == Pop(w, "get_local") \/ PopFails(w, "get_local", "get_global")

LoadSize(w) ==
  /\ Goto(w, "load_size", IF run_queue[w] # <<>> THEN "get_local" ELSE "steal")
  /\ backoff' = [backoff EXCEPT ![w] = Len(run_queue[w])]
  /\ victims' = [victims EXCEPT ![w] = IF run_queue[w] # <<>> THEN {} ELSE Workers \ {w}]
  /\ UNCHANGED <<run_queue, fallback, counters, kernel, fiber, ops, cur, locals>>

\* There are not fewer runnable fibers than workers that are awake.
Busy(run, waiting) == run >= (NumWorkers - waiting) % Word

LoadWaiting(w) ==
  /\ Goto(w, "load_num_waiting",
          CASE Busy(n[w], num_waiting) -> "get_global"
            [] ~Busy(n[w], num_waiting) /\ n[w] = 0 -> "are_we_done"
            [] OTHER -> "exchange")
  /\ n' = [n EXCEPT ![w] = 0]
  /\ UNCHANGED <<queues, counters, kernel, fiber, ops, cur, batch, cnt, ret>>

\* atomic_fetch_add() of num_waiting: the worker keeps the old value.
CountMe(w, from, to) ==
  /\ Goto(w, from, to)
  /\ num_waiting' = num_waiting + 1
  /\ n' = [n EXCEPT ![w] = num_waiting]
  /\ UNCHANGED <<queues, num_run_fibers, num_fibers, poller_waiting>>
  /\ UNCHANGED <<kernel, fiber, ops, cur, batch, cnt, ret>>

\* Looks at num_run_fibers again, now that wakers see that it waits.
Recheck(w, from, to, back) ==
  /\ Goto(w, from, IF Busy(num_run_fibers, n[w]) THEN back ELSE to)
  /\ n' = [n EXCEPT ![w] = 0]
  /\ UNCHANGED <<queues, counters, kernel, fiber, ops, cur, batch, cnt, ret>>

RollBackPoller(w) ==
  /\ Goto(w, "back_poller", "back")
  /\ poller_waiting' = FALSE
  /\ UNCHANGED <<queues, num_run_fibers, num_fibers, num_waiting, kernel, fiber, ops, cur, locals>>

ReloadBackoff(w) ==
  /\ Goto(w, "poller_waited", "get_local")
  /\ backoff' = [backoff EXCEPT ![w] = Len(run_queue[w])]
  /\ UNCHANGED <<queues, counters, kernel, fiber, ops, cur, locals>>

\* The steps that leave the queues alone.
GetGlobal(w) == Process(w, "get_global", IF Bounded THEN "check_fallback" ELSE "load_size")

StealWait(w) ==
  /\ ~strategy.sharing
  /\ \/ LoadRun(w, "load_run", "load_num_waiting")
     \/ AreWeDone(w, "exchange")
     \/ ExchangePollerWaiting(w, "exchange", "count_poller", "count_sem")
     \/ Waited(w, "back", "get_global")
     \/ Waited(w, "waited", "poller_waited")
     \/ SemWait(w, "sem_waited") \/ Waited(w, "sem_waited", "get_global")

StealerSteps(w) ==
  \/ Stolen(w) \/ StolenPushed(w) \/ SwitchedBack(w) \/ LoadSize(w) \/ ReloadBackoff(w)
  \/ /\ \/ StealSteps(w) \/ GetLocal(w) \/ LoadWaiting(w)
        \/ CountMe(w, "count_poller", "recheck_poller") \/ CountMe(w, "count_sem", "recheck_sem")
        \/ Recheck(w, "recheck_poller", "poller_wait", "back_poller")
        \/ Recheck(w, "recheck_sem", "sem_wait", "back")
        \/ RollBackPoller(w)
        \/ (GetGlobal(w) \/ StealWait(w)) /\ UNCHANGED queues
     /\ UNCHANGED backoff
==============================================================================
