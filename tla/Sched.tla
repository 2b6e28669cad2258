-------------------------------- MODULE Sched --------------------------------
(***************************************************************************)
(* What the schedulers have in common (fev_sched_common.c, fev_sched_impl.h *)
(* and the functions of fev_fiber.c and fev_waiter_impl.h that give up the  *)
(* worker): the counters, the functions that wake workers, the epoll poller *)
(* as the workers use it, and the fibers.                                   *)
(*                                                                          *)
(* A worker executes its own loop and, at "run", the fiber cur[w], which    *)
(* creates, wakes, yields, blocks or exits as it likes, so many times.      *)
(* SchedQueues has the run queues, SchedShared and SchedSteal the loops.    *)
(***************************************************************************)
EXTENDS Integers, Sequences, FiniteSets, SequencesExt

CONSTANTS
  Workers, Fibers, NULL,
  Strategies,  \* the strategies to be considered, see SchedAssumption
  Word         \* the counters wrap at Word, as uint32_t do at 2^32

\* Work is shared or stolen; capacity is that of a bounded run queue; initial
\* are the fibers put into the scheduler before it runs; ops bounds what the
\* fibers do.
ASSUME SchedAssumption ==
  /\ NULL \notin Fibers \cup Workers
  /\ \A s \in Strategies :
       /\ s.sharing \in BOOLEAN /\ s.queue \in {"locking", "mpmc", "spmc"}
       /\ s.capacity \in Nat \ {0} /\ s.ops \in Nat
       /\ s.initial \in Seq(Fibers) /\ IsInjective(s.initial)
  /\ Word \in Nat /\ Word > Cardinality(Fibers) + 1

VARIABLES
  strategy,         \* the strategy the library was built with
  num_run_fibers, num_fibers, num_waiting, poller_waiting,
  sem,
  interrupt,        \* an edge of the event fd that no epoll_wait() has taken
  events,           \* the fibers whose sockets are ready, in the poller
  fiber,            \* what each fiber is doing
  ops,
  pc, cur,
  batch, cnt, n,    \* the locals of the wake functions and of the loop
  ret

counters == <<num_run_fibers, num_fibers, num_waiting, poller_waiting>>
kernel == <<sem, interrupt, events>>
locals == <<batch, cnt, n, ret>>
schedVars == <<strategy, counters, kernel, fiber, ops, pc, cur, locals>>

NumWorkers == Cardinality(Workers)
Smaller(a, b) == IF a < b THEN a ELSE b

\* fev_sched_init(), and fev_fiber_create() of the initial fibers.
SchedInit ==
  /\ strategy \in Strategies
  /\ num_run_fibers = Len(strategy.initial) /\ num_fibers = Len(strategy.initial)
  /\ num_waiting = 0 /\ poller_waiting = FALSE
  /\ sem = 0 /\ interrupt = FALSE /\ events = {}
  /\ fiber = [f \in Fibers |-> IF f \in ToSet(strategy.initial) THEN "queued" ELSE "new"]
  /\ ops = strategy.ops
  /\ pc = [w \in Workers |-> IF strategy.sharing THEN "get_fiber" ELSE "get_local"]
  /\ cur = [w \in Workers |-> NULL]
  /\ batch = [w \in Workers |-> <<>>]
  /\ cnt = [w \in Workers |-> 0] /\ n = [w \in Workers |-> 0]
  /\ ret = [w \in Workers |-> NULL]

Goto(w, from, to) == pc[w] = from /\ pc' = [pc EXCEPT ![w] = to]

-----------------------------------------------------------------------------
(* fev_wake_one() and fev_wake_stq(): push, count, wake sleeping workers.   *)

\* Calls the wake functions for the fibers fs, to return to position to.
CallWake(w, from, fs, to) ==
  /\ Goto(w, from, "push")
  /\ batch' = [batch EXCEPT ![w] = fs]
  /\ cnt' = [cnt EXCEPT ![w] = Len(fs)]
  /\ ret' = [ret EXCEPT ![w] = to]
  /\ UNCHANGED n

\* fev_wake_up_waiting_workers().
AddRun(w) ==
  /\ batch[w] = <<>> /\ cnt[w] > 0
  /\ Goto(w, "push", "load_waiting")
  /\ num_run_fibers' = (num_run_fibers + cnt[w]) % Word
  /\ UNCHANGED <<num_fibers, num_waiting, poller_waiting, kernel,
                 fiber, ops, cur, locals>>

WakeEnds(w) ==
  /\ pc' = [pc EXCEPT ![w] = ret[w]]
  /\ cnt' = [cnt EXCEPT ![w] = 0]
  /\ n' = [n EXCEPT ![w] = 0]
  /\ ret' = [ret EXCEPT ![w] = NULL]
  /\ UNCHANGED batch

NobodyWaits(w) ==
  /\ pc[w] = "load_waiting" /\ num_waiting = 0
  /\ WakeEnds(w)
  /\ UNCHANGED <<counters, kernel, fiber, ops, cur>>

\* fev_wake_workers_slow(): at most as many workers as there are fibers.
SomebodyWaits(w) ==
  /\ num_waiting > 0
  /\ Goto(w, "load_waiting", "slow")
  /\ n' = [n EXCEPT ![w] = Smaller(cnt[w], num_waiting)]
  /\ UNCHANGED <<counters, kernel, fiber, ops, cur, batch, cnt, ret>>

\* One of them is in the poller if poller_waiting.
WakePoller(w) ==
  /\ Goto(w, "slow", "posts")
  /\ interrupt' = (interrupt \/ poller_waiting)
  /\ n' = [n EXCEPT ![w] = IF poller_waiting THEN @ - 1 ELSE @]
  /\ UNCHANGED <<counters, sem, events, fiber, ops, cur, batch, cnt, ret>>

WakePost(w) ==
  /\ pc[w] = "posts" /\ n[w] > 0
  /\ sem' = sem + 1
  /\ n' = [n EXCEPT ![w] = @ - 1]
  /\ UNCHANGED <<counters, interrupt, events, fiber, ops, pc, cur, batch, cnt, ret>>

WakePosted(w) ==
  /\ pc[w] = "posts" /\ n[w] = 0
  /\ WakeEnds(w)
  /\ UNCHANGED <<counters, kernel, fiber, ops, cur>>

-----------------------------------------------------------------------------
(* The fiber on the worker.  A running fiber counts as runnable.            *)

Operate == ops > 0 /\ ops' = ops - 1

\* fev_fiber_create().
Create(w, f) ==
  /\ fiber[f] = "new"
  /\ Operate
  /\ num_fibers' = num_fibers + 1
  /\ fiber' = [fiber EXCEPT ![f] = "waking"]
  /\ CallWake(w, "run", <<f>>, "run")
  /\ UNCHANGED <<num_run_fibers, num_waiting, poller_waiting, kernel, cur>>

\* fev_cur_wake_one() for a fiber that waits for another one.
Wake(w, f) ==
  /\ fiber[f] = "sync"
  /\ fiber' = [fiber EXCEPT ![f] = "waking"]
  /\ CallWake(w, "run", <<f>>, "run")
  /\ UNCHANGED <<counters, kernel, ops, cur>>

\* The fiber gives up the worker: num_run_fibers is decremented by the fiber,
\* before the switch to the context of the worker.
GiveUp(w, to) ==
  /\ Goto(w, "run", to)
  /\ num_run_fibers' = (num_run_fibers - 1) % Word
  /\ UNCHANGED <<num_fibers, num_waiting, poller_waiting, kernel,
                 fiber, cur, locals>>

\* fev_yield(); also a wait whose wake-up came before the fiber was switched out.
Yield(w) == Operate /\ GiveUp(w, "yielded")

YieldPost(w) ==
  /\ CallWake(w, "yielded", <<cur[w]>>, "switched")
  /\ fiber' = [fiber EXCEPT ![cur[w]] = "waking"]
  /\ UNCHANGED <<counters, kernel, ops, cur>>

\* fev_waiter_wait(), for a socket or for another fiber.
Block(w) == Operate /\ GiveUp(w, "blocked")

BlockPost(w) ==
  /\ Goto(w, "blocked", "switched")
  /\ \E why \in {"io", "sync"} : fiber' = [fiber EXCEPT ![cur[w]] = why]
  /\ UNCHANGED <<counters, kernel, ops, cur, locals>>

\* fev_fiber_exit_post(): first num_fibers, then num_run_fibers.
ExitPost(w) ==
  /\ Goto(w, "run", "exit_post")
  /\ num_fibers' = num_fibers - 1
  /\ fiber' = [fiber EXCEPT ![cur[w]] = "dead"]
  /\ UNCHANGED <<num_run_fibers, num_waiting, poller_waiting,
                 kernel, ops, cur, locals>>

ExitCount(w) ==
  /\ Goto(w, "exit_post", "switched")
  /\ num_run_fibers' = (num_run_fibers - 1) % Word
  /\ UNCHANGED <<num_fibers, num_waiting, poller_waiting, kernel,
                 fiber, ops, cur, locals>>
-----------------------------------------------------------------------------
(* The poller, and sleeping.                                                *)

\* fev_poller_process(): takes the edge of the event fd and all ready sockets,
\* and wakes the fibers that wait for them.
Process(w, from, to) ==
  /\ interrupt' = FALSE
  /\ events' = {}
  /\ IF events = {}
     THEN Goto(w, from, to) /\ UNCHANGED <<fiber, locals>>
     ELSE /\ fiber' = [f \in Fibers |-> IF f \in events THEN "waking" ELSE fiber[f]]
          /\ CallWake(w, from, SetToSeq(events), to)
  /\ UNCHANGED <<counters, sem, ops, cur>>

\* One worker waits in the poller, the others on the semaphore.
ExchangePollerWaiting(w, from, first, other) ==
  /\ Goto(w, from, IF poller_waiting THEN other ELSE first)
  /\ poller_waiting' = TRUE
  /\ UNCHANGED <<num_run_fibers, num_fibers, num_waiting, kernel, fiber, ops, cur, locals>>

CountWaiting(w, from, to) ==
  /\ Goto(w, from, to)
  /\ num_waiting' = num_waiting + 1
  /\ UNCHANGED <<num_run_fibers, num_fibers, poller_waiting, kernel, fiber, ops, cur, locals>>

PollerWait(w) ==
  /\ interrupt \/ events # {}
  /\ Process(w, "poller_wait", "poller_done")

\* Faulty: the next worker that sleeps does not wait in the poller.
PollerStillWaiting(w) ==
  /\ Goto(w, "poller_done", "waited")
  /\ UNCHANGED <<counters, kernel, fiber, ops, cur, locals>>

PollerDone(w) ==
  /\ Goto(w, "poller_done", "waited")
  /\ poller_waiting' = FALSE
  /\ UNCHANGED <<num_run_fibers, num_fibers, num_waiting, kernel, fiber, ops, cur, locals>>

SemWait(w, to) ==
  /\ Goto(w, "sem_wait", to)
  /\ sem > 0
  /\ sem' = sem - 1
  /\ UNCHANGED <<counters, interrupt, events, fiber, ops, cur, locals>>

Waited(w, from, to) ==
  /\ Goto(w, from, to)
  /\ num_waiting' = num_waiting - 1
  /\ UNCHANGED <<num_run_fibers, num_fibers, poller_waiting, kernel, fiber, ops, cur, locals>>

\* The two loads of num_run_fibers and of num_fibers.
LoadRun(w, from, to) ==
  /\ Goto(w, from, to)
  /\ n' = [n EXCEPT ![w] = num_run_fibers]
  /\ UNCHANGED <<counters, kernel, fiber, ops, cur, batch, cnt, ret>>

AreWeDone(w, to) ==
  /\ Goto(w, "are_we_done", IF num_fibers = 0 THEN "out" ELSE to)
  /\ UNCHANGED <<counters, kernel, fiber, ops, cur, locals>>

\* Faulty: does not wake the worker in the poller.
OutNoInterrupt(w) ==
  /\ Goto(w, "out", "posts")
  /\ n' = [n EXCEPT ![w] = NumWorkers]
  /\ ret' = [ret EXCEPT ![w] = "stopped"]
  /\ UNCHANGED <<counters, kernel, fiber, ops, cur, batch, cnt>>

\* fev_sched_wake_all_workers(), before the worker returns.
Out(w) ==
  /\ Goto(w, "out", "posts")
  /\ interrupt' = TRUE
  /\ n' = [n EXCEPT ![w] = NumWorkers]
  /\ ret' = [ret EXCEPT ![w] = "stopped"]
  /\ UNCHANGED <<counters, sem, events, fiber, ops, cur, batch, cnt>>

\* The kernel: a socket that a fiber waits for becomes ready.
SocketReady(f) ==
  /\ fiber[f] = "io" /\ f \notin events
  /\ events' = events \cup {f}
  /\ UNCHANGED <<counters, sem, interrupt, fiber, ops, pc, cur, locals>>

-----------------------------------------------------------------------------

WakeSteps(w) ==
  \/ AddRun(w) \/ NobodyWaits(w) \/ SomebodyWaits(w)
  \/ WakePoller(w) \/ WakePost(w) \/ WakePosted(w)

PostSteps(w) == YieldPost(w) \/ BlockPost(w) \/ ExitCount(w)

LeaveSteps(w) == Yield(w) \/ Block(w) \/ ExitPost(w)

FiberSteps(w) == LeaveSteps(w) \/ \E f \in Fibers : Create(w, f) \/ Wake(w, f)

SleepSteps(w) == PollerWait(w) \/ PollerDone(w) \/ Out(w)

-----------------------------------------------------------------------------
(* Properties. *)

\* The worker sleeps and nothing is there to wake it.
Asleep(w) ==
  \/ pc[w] = "poller_wait" /\ ~interrupt /\ events = {}
  \/ pc[w] = "sem_wait" /\ sem = 0
==============================================================================
