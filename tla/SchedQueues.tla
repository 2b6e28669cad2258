----------------------------- MODULE SchedQueues -----------------------------
(***************************************************************************)
(* The run queues of the strategies, fev_push_one() and fev_push_stq(), and *)
(* the fallback queue of the strategies whose run queues are bounded.  Work *)
(* sharing has one run queue, work stealing one per worker.                 *)
(*                                                                          *)
(* What is done under the lock of a run queue is one step.  A bounded SPMC  *)
(* queue is first in, first out.  A bounded MPMC queue is too, but a push   *)
(* first takes its place and then publishes the fiber, and a pop first      *)
(* takes the fiber and then releases the cell (see BoundedMpmc): until      *)
(* then pops and pushes by others may fail.                                 *)
(***************************************************************************)
EXTENDS Sched

VARIABLES
  run_queue,
  fallback_queue, fallback_len,
  fallback_lock,   \* the worker that moves fibers from the fallback queue
  victims          \* victims[w]: the workers that w has yet to steal from

queues == <<run_queue, fallback_queue, fallback_len, fallback_lock, victims>>
fallback == <<fallback_queue, fallback_len, fallback_lock>>

\* The initial fibers are put into the run queue of the first worker.
First == CHOOSE w \in Workers : TRUE

ASSUME WorkersAssumption == Workers # {}

\* The run queue that worker w pushes to and pops from.
Own(w) == IF strategy.sharing THEN First ELSE w

Bounded == strategy.queue # "locking"

Free(q) == strategy.capacity - Len(run_queue[q])

\* fev_sched_put() for the initial fibers; work-sharing-locking puts them at
\* the head.
QueuesInit ==
  LET fs == IF strategy.sharing /\ ~Bounded THEN Reverse(strategy.initial) ELSE strategy.initial
      k == IF Bounded THEN Smaller(Len(fs), strategy.capacity) ELSE Len(fs) IN
  /\ run_queue = [w \in Workers |-> IF w = First THEN SubSeq(fs, 1, k) ELSE <<>>]
  /\ fallback_queue = SubSeq(fs, k + 1, Len(fs))
  /\ fallback_len = Len(fallback_queue)
  /\ fallback_lock = NULL
  /\ victims = [w \in Workers |-> {}]

Queued(fs) == fiber' = [f \in Fibers |-> IF f \in ToSet(fs) THEN "queued" ELSE fiber[f]]

-----------------------------------------------------------------------------
(* Pushes the fibers of batch[w], at "push".                                *)

PushLocked(w) ==
  /\ strategy.queue = "locking"
  /\ pc[w] = "push" /\ batch[w] # <<>>
  /\ run_queue' = [run_queue EXCEPT ![Own(w)] = @ \o batch[w]]
  /\ Queued(batch[w])
  /\ batch' = [batch EXCEPT ![w] = <<>>]
  /\ UNCHANGED <<fallback, victims>>
  /\ UNCHANGED <<counters, kernel, ops, pc, cur, cnt, n, ret>>

\* fev_bounded_spmc_queue_push() and _push_stq(): as many as there is room for.
PushSpmc(w) ==
  LET k == Smaller(Len(batch[w]), Free(Own(w))) IN
  /\ strategy.queue = "spmc"
  /\ batch[w] # <<>>
  /\ Goto(w, "push", IF k = Len(batch[w]) THEN "push" ELSE "push_fallback")
  /\ run_queue' = [run_queue EXCEPT ![Own(w)] = @ \o SubSeq(batch[w], 1, k)]
  /\ Queued(SubSeq(batch[w], 1, k))
  /\ batch' = [batch EXCEPT ![w] = SubSeq(@, k + 1, Len(@))]
  /\ UNCHANGED <<fallback, victims>>
  /\ UNCHANGED <<counters, kernel, ops, cur, cnt, n, ret>>

\* fev_bounded_mpmc_queue_push() and _push_stq(): one after the other.
PushMpmc(w) ==
  /\ strategy.queue = "mpmc"
  /\ batch[w] # <<>> /\ Free(Own(w)) > 0
  /\ Goto(w, "push", "publish")
  /\ run_queue' = [run_queue EXCEPT ![Own(w)] = Append(@, Head(batch[w]))]
  /\ UNCHANGED <<fallback, victims>>
  /\ UNCHANGED <<counters, kernel, fiber, ops, cur, locals>>

\* The fiber at the head of the batch is in its cell.
Publish(w, from, to) ==
  /\ Goto(w, from, to)
  /\ Queued(<<Head(batch[w])>>)
  /\ batch' = [batch EXCEPT ![w] = Tail(@)]
  /\ UNCHANGED <<queues, counters, kernel, ops, cur, cnt, n, ret>>

\* No free cell, or another worker has yet to release one.
MayBeFull(q) ==
  \/ Free(q) = 0
  \/ \E v \in Workers : pc[v] = "release" /\ Own(v) = q
  \/ \E v \in Workers : pc[v] = "steal_release" /\ q \in victims[v]

PushMpmcFails(w) ==
  /\ strategy.queue = "mpmc"
  /\ batch[w] # <<>> /\ MayBeFull(Own(w))
  /\ Goto(w, "push", "push_fallback")
  /\ UNCHANGED <<queues, counters, kernel, fiber, ops, cur, locals>>

\* fev_push_one_fallback() and fev_push_stq_fallback(): all that is left.
PushFallback(w) ==
  /\ Goto(w, "push_fallback", "push")
  /\ fallback_lock = NULL
  /\ fallback_queue' = fallback_queue \o batch[w]
  /\ fallback_len' = fallback_len + Len(batch[w])
  /\ Queued(batch[w])
  /\ batch' = [batch EXCEPT ![w] = <<>>]
  /\ UNCHANGED <<run_queue, fallback_lock, victims, counters, kernel, ops, cur, cnt, n, ret>>

-----------------------------------------------------------------------------
(* Pops a fiber to run.                                                     *)

\* The first fiber of the queue, if it has been published.
CanPop(q) == run_queue[q] # <<>> /\ fiber[Head(run_queue[q])] = "queued"

Pop(w, from) ==
  LET q == Own(w) IN
  /\ CanPop(q)
  /\ Goto(w, from, IF strategy.queue = "mpmc" THEN "release" ELSE "run")
  /\ run_queue' = [run_queue EXCEPT ![q] = Tail(@)]
  /\ cur' = [cur EXCEPT ![w] = Head(run_queue[q])]
  /\ fiber' = [fiber EXCEPT ![Head(run_queue[q])] = "running"]
  /\ UNCHANGED <<fallback, victims, counters, kernel, ops, locals>>

Release(w, from, to) ==
  /\ Goto(w, from, to)
  /\ UNCHANGED <<queues, counters, kernel, fiber, ops, cur, locals>>

PopFails(w, from, to) ==
  /\ ~CanPop(Own(w))
  /\ Goto(w, from, to)
  /\ UNCHANGED <<queues, counters, kernel, fiber, ops, cur, locals>>

-----------------------------------------------------------------------------
(* fev_move_from_fallback().                                                *)

\* Where the loop goes on.
AfterFallback == IF strategy.sharing THEN "load_run" ELSE "load_size"

\* Faulty: does not look at the fallback queue.
CheckFallbackNot(w) ==
  /\ Goto(w, "check_fallback", AfterFallback)
  /\ UNCHANGED <<queues, counters, kernel, fiber, ops, cur, locals>>

CheckFallback(w) ==
  /\ Goto(w, "check_fallback", IF fallback_len > 0 THEN "move_lock" ELSE AfterFallback)
  /\ UNCHANGED <<queues, counters, kernel, fiber, ops, cur, locals>>

MoveLock(w) ==
  /\ Goto(w, "move_lock", "move")
  /\ fallback_lock = NULL
  /\ fallback_lock' = w
  /\ UNCHANGED <<run_queue, fallback_queue, fallback_len, victims>>
  /\ UNCHANGED <<counters, kernel, fiber, ops, cur, locals>>

MoveSpmc(w) ==
  LET k == Smaller(Len(fallback_queue), Free(Own(w))) IN
  /\ strategy.queue = "spmc"
  /\ Goto(w, "move", "move_unlock")
  /\ run_queue' = [run_queue EXCEPT ![Own(w)] = @ \o SubSeq(fallback_queue, 1, k)]
  /\ fallback_queue' = SubSeq(fallback_queue, k + 1, Len(fallback_queue))
  /\ UNCHANGED <<fallback_len, fallback_lock, victims, counters, kernel, fiber, ops, cur, locals>>

\* One fiber, which is in the hands of the worker until it is published.
MoveMpmc(w) ==
  /\ strategy.queue = "mpmc"
  /\ fallback_queue # <<>> /\ Free(Own(w)) > 0
  /\ Goto(w, "move", "move_publish")
  /\ run_queue' = [run_queue EXCEPT ![Own(w)] = Append(@, Head(fallback_queue))]
  /\ fallback_queue' = Tail(fallback_queue)
  /\ batch' = [batch EXCEPT ![w] = <<Head(fallback_queue)>>]
  /\ fiber' = [fiber EXCEPT ![Head(fallback_queue)] = "waking"]
  /\ UNCHANGED <<fallback_len, fallback_lock, victims, counters, kernel, ops, cur, cnt, n, ret>>

MoveMpmcEnds(w) ==
  /\ strategy.queue = "mpmc"
  /\ fallback_queue = <<>> \/ MayBeFull(Own(w))
  /\ Goto(w, "move", "move_unlock")
  /\ UNCHANGED <<queues, counters, kernel, fiber, ops, cur, locals>>

\* Stores the new length and unlocks.
MoveUnlock(w) ==
  /\ Goto(w, "move_unlock", AfterFallback)
  /\ fallback_len' = Len(fallback_queue)
  /\ fallback_lock' = NULL
  /\ UNCHANGED <<run_queue, fallback_queue, victims, counters, kernel, fiber, ops, cur, locals>>

QueueSteps(w) ==
  \/ PushLocked(w) \/ PushSpmc(w) \/ PushMpmc(w) \/ Publish(w, "publish", "push")
  \/ PushMpmcFails(w) \/ PushFallback(w) \/ Release(w, "release", "run")
  \/ CheckFallback(w) \/ MoveLock(w) \/ MoveSpmc(w) \/ MoveMpmc(w)
  \/ Publish(w, "move_publish", "move") \/ MoveMpmcEnds(w) \/ MoveUnlock(w)
==============================================================================
