----------------------------- MODULE Schedulers ------------------------------
(***************************************************************************)
(* The scheduler with any of its strategies: the workers run the loop of    *)
(* SchedShared or SchedSteal over the queues of SchedQueues.                *)
(***************************************************************************)
EXTENDS SchedShared, SchedSteal

loops == <<poller_backoff, backoff>>
vars == <<schedVars, queues, loops>>

Init ==
  /\ SchedInit /\ QueuesInit
  /\ poller_backoff = IF strategy.sharing THEN 1 ELSE 0
  /\ backoff = [w \in Workers |-> 0]

LoopSteps(w) ==
  \/ ShareSteps(w) /\ UNCHANGED <<strategy, backoff>>
  \/ StealerSteps(w) /\ UNCHANGED <<strategy, poller_backoff>>
  \/ QueueSteps(w) /\ UNCHANGED <<strategy, loops>>
  \/ (WakeSteps(w) \/ PostSteps(w) \/ SleepSteps(w)) /\ UNCHANGED <<strategy, queues, loops>>

Next ==
  \/ \E w \in Workers : LoopSteps(w) \/ (FiberSteps(w) /\ UNCHANGED <<strategy, queues, loops>>)
  \/ \E f \in Fibers : SocketReady(f) /\ UNCHANGED <<strategy, queues, loops>>

Spec == Init /\ [][Next]_vars

\* Every worker thread keeps running, a fiber gives up its worker some time
\* (the multitasking is cooperative, and the fiber calls the scheduler so many
\* times only), and every socket becomes ready.
Fairness ==
  /\ \A w \in Workers :
       /\ WF_vars(LoopSteps(w))
       /\ WF_vars(LeaveSteps(w) /\ UNCHANGED <<strategy, queues, loops>>)
  /\ \A f \in Fibers : WF_vars(SocketReady(f) /\ UNCHANGED <<strategy, queues, loops>>)

FairSpec == Spec /\ Fairness

-----------------------------------------------------------------------------
(* Properties. *)

\* What worker w holds to push it, but for what waits to be published.
Carried(w) == IF pc[w] \in {"publish", "move_publish"} THEN Tail(batch[w]) ELSE batch[w]

\* The places of f among the elements of s.
Holds(s, f) == Cardinality({i \in DOMAIN s : s[i] = f})

\* No fiber is lost, stolen or moved twice, or run twice: a fiber that is to be
\* run is in exactly one place, a run queue, the fallback queue or the hands of
\* a worker, and a running fiber is with exactly one worker.  A queue that is
\* locked by nobody has its length in fallback_queue_len.
FibersConserved ==
  /\ \A f \in Fibers :
       MapThenSumSet(LAMBDA w : Holds(run_queue[w], f) + Holds(Carried(w), f), Workers)
         + Holds(fallback_queue, f)
         = IF fiber[f] \in {"queued", "waking"} THEN 1 ELSE 0
  /\ \A v, w \in Workers :
       pc[v] \in {"release", "run"} /\ pc[w] \in {"release", "run"} /\ cur[v] = cur[w] => v = w
  /\ fallback_lock = NULL => fallback_len = Len(fallback_queue)

\* The workers never all sleep, with nobody to wake them, while there is a
\* fiber to run, a ready socket in the poller, or no fiber left to wait for.
NoStall ==
  (\A w \in Workers : Asleep(w) \/ pc[w] = "stopped") =>
    /\ \A w \in Workers : run_queue[w] = <<>>
    /\ fallback_queue = <<>> /\ events = {}
    /\ num_fibers = 0 => \A w \in Workers : pc[w] = "stopped"

\* With work sharing every runnable fiber gets to run, also one in the fallback
\* queue.  (Two idle workers may steal a fiber from each other for ever.)
RunnableRuns ==
  \A f \in Fibers :
    (strategy.sharing /\ fiber[f] = "queued") ~> (fiber[f] = "running")

\* Once all fibers have exited every worker stops, so fev_sched_run() returns.
AllStop == (num_fibers = 0) ~> (\A w \in Workers : pc[w] = "stopped")
==============================================================================
