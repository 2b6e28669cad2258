----------------------------- MODULE WaitersQueue -----------------------------
(***************************************************************************)
(* The waiters queue (fev_waiters_queue_impl.h) on which the mutex, the     *)
(* semaphore and the condition variable of fibers are built.  queue->lock   *)
(* is the FIFO lock that ILock implements and the waiter of each node is    *)
(* the one-shot event that Waiter implements: the first reason stored       *)
(* decides, and the fiber returns with it.  Timeouts come from the poller   *)
(* or from another fiber that processes the timers (fev_timers.c).          *)
(*                                                                         *)
(* A fiber waits at most once at a time, so it names its own stack node.    *)
(* Clients extend this module with a queue, a word of state, the recheck    *)
(* that runs at "recheck" and the callback that runs at "callback".  A      *)
(* recheck may wake the waiters of another queue: fev_cond_wait_recheck().  *)
(***************************************************************************)
EXTENDS Integers, Sequences

CONSTANTS
  Fibers,
  Queues,
  NULL

ASSUME QueueAssumption == NULL \notin Fibers \cup Queues

VARIABLES
  can_fail, \* FEV_TIMERS_ADD_CAN_FAIL: adding a timer can run out of memory
  qlock,    \* the owner of queue->lock, or NULL
  nodes,    \* queue->nodes, by fiber
  deleted,  \* node.deleted
  reason,   \* node.waiter.reason
  timed,    \* whether the current wait has an abs_time
  res,      \* what the last fev_waiters_queue_wait() returned
  wq,       \* the queue of the current wait, or NULL
  kq,       \* the queue of the current wake, or NULL
  max,      \* max_waiters of the current wake
  woken,    \* num_woken of the current wake
  ret,      \* where the fiber goes when a wake ends or a wait has failed
  pc

waitVars == <<deleted, reason, timed, res, wq>>
wakeVars == <<kq, max, woken>>
queueVars == <<can_fail, qlock, nodes, waitVars, wakeVars, ret, pc>>

QueueInit ==
  /\ qlock = [q \in Queues |-> NULL]
  /\ nodes = [q \in Queues |-> <<>>]
  /\ deleted = [f \in Fibers |-> FALSE]
  /\ reason = [f \in Fibers |-> "NONE"]
  /\ timed = [f \in Fibers |-> FALSE]
  /\ res = [f \in Fibers |-> "OK"]
  /\ wq = [f \in Fibers |-> NULL]
  /\ kq = [f \in Fibers |-> NULL]
  /\ max = [f \in Fibers |-> 1]
  /\ woken = [f \in Fibers |-> 0]
  /\ ret = [f \in Fibers |-> "idle"]
  /\ pc = [f \in Fibers |-> "idle"]

Goto(f, from, to) ==
  /\ pc[f] = from
  /\ pc' = [pc EXCEPT ![f] = to]

Lock(f, q) ==
  /\ qlock[q] = NULL
  /\ qlock' = [qlock EXCEPT ![q] = f]

Unlock(f, q) ==
  /\ qlock[q] = f
  /\ qlock' = [qlock EXCEPT ![q] = NULL]

-----------------------------------------------------------------------------
(* fev_waiters_queue_wait() *)

\* failed: where the client goes when the wait fails.
CallWait(f, from, q, hasTime, failed) ==
  /\ Goto(f, from, "wait_lock")
  /\ wq' = [wq EXCEPT ![f] = q]
  /\ timed' = [timed EXCEPT ![f] = hasTime]
  /\ ret' = [ret EXCEPT ![f] = failed]
  /\ UNCHANGED <<qlock, nodes, deleted, reason, res, wakeVars>>

WaitLock(f) ==
  /\ Goto(f, "wait_lock", "recheck")
  /\ Lock(f, wq[f])
  /\ reason' = [reason EXCEPT ![f] = "NONE"]
  /\ UNCHANGED <<nodes, deleted, timed, res, wq, wakeVars, ret>>

\* The recheck has said not to wait.
WaitNot(f) ==
  /\ Goto(f, "no_wait", "done")
  /\ Unlock(f, wq[f])
  /\ res' = [res EXCEPT ![f] = "OK"]
  /\ UNCHANGED <<nodes, deleted, reason, timed, wq, wakeVars, ret>>

Insert(f) ==
  /\ Goto(f, "insert", IF timed[f] THEN "timers_add" ELSE "waiting")
  /\ Unlock(f, wq[f])
  /\ nodes' = [nodes EXCEPT ![wq[f]] = Append(@, f)]
  /\ deleted' = [deleted EXCEPT ![f] = FALSE]
  /\ UNCHANGED <<reason, timed, res, wq, wakeVars, ret>>

TimersAdd(f) ==
  /\ Goto(f, "timers_add", "waiting")
  /\ UNCHANGED <<qlock, nodes, waitVars, wakeVars, ret>>

TimersAddFails(f) ==
  /\ can_fail
  /\ Goto(f, "timers_add", "remove_lock")
  /\ res' = [res EXCEPT ![f] = "ENOMEM"]
  /\ UNCHANGED <<qlock, nodes, deleted, reason, timed, wq, wakeVars, ret>>

\* The timer fires: by the poller (FEV_WAITER_TIMED_OUT_CHECK) or by a fiber
\* that expires the timers of the bucket (FEV_WAITER_TIMED_OUT_NO_CHECK).
Timeout(f) ==
  /\ pc[f] = "waiting"
  /\ timed[f]
  /\ reason[f] = "NONE"
  /\ reason' = [reason EXCEPT ![f] = "TIMED_OUT"]
  /\ UNCHANGED <<qlock, nodes, deleted, timed, res, wq, wakeVars, ret, pc>>

WaitReady(f) ==
  /\ Goto(f, "waiting", "done")
  /\ reason[f] = "READY"
  /\ res' = [res EXCEPT ![f] = "OK"]
  /\ UNCHANGED <<qlock, nodes, deleted, reason, timed, wq, wakeVars, ret>>

\* After the check of the poller's timeout, fev_timers_process() may find that
\* the timer has not expired.
WaitTimedOut(f) ==
  /\ Goto(f, "waiting", "remove_lock")
  /\ reason[f] = "TIMED_OUT"
  /\ \E r \in {"ETIMEDOUT", "EAGAIN"} : res' = [res EXCEPT ![f] = r]
  /\ UNCHANGED <<qlock, nodes, deleted, reason, timed, wq, wakeVars, ret>>

RemoveLock(f) ==
  /\ Goto(f, "remove_lock", "remove")
  /\ Lock(f, wq[f])
  /\ UNCHANGED <<nodes, waitVars, wakeVars, ret>>

\* Faulty: leaves the node of a fiber that timed out in the queue.
RemoveNothing(f) ==
  /\ Goto(f, "remove", "done")
  /\ Unlock(f, wq[f])
  /\ UNCHANGED <<nodes, waitVars, wakeVars, ret>>

\* TAILQ_REMOVE(): the list s without the node at position i.
Without(s, i) == [j \in 1..Len(s) - 1 |-> IF j < i THEN s[j] ELSE s[j + 1]]

Remove(f) ==
  /\ Goto(f, "remove", "done")
  /\ Unlock(f, wq[f])
  /\ \/ deleted[f] /\ UNCHANGED nodes
     \/ \E i \in DOMAIN nodes[wq[f]] :
          /\ ~deleted[f] /\ nodes[wq[f]][i] = f
          /\ nodes' = [nodes EXCEPT ![wq[f]] = Without(@, i)]
  /\ UNCHANGED <<waitVars, wakeVars, ret>>

\* The call returns to its client: the node and the locals are gone.
FrameEnds(f, hasTime) ==
  /\ reason' = [reason EXCEPT ![f] = "NONE"]
  /\ deleted' = [deleted EXCEPT ![f] = FALSE]
  /\ res' = [res EXCEPT ![f] = "OK"]
  /\ timed' = [timed EXCEPT ![f] = hasTime]
  /\ wq' = [wq EXCEPT ![f] = NULL]
  /\ UNCHANGED <<qlock, nodes, wakeVars>>

\* The timed waits of the mutex and of the semaphore try again after EAGAIN.
Again(f) ==
  /\ res[f] = "EAGAIN"
  /\ Goto(f, "done", "wait_lock")
  /\ reason' = [reason EXCEPT ![f] = "NONE"]
  /\ deleted' = [deleted EXCEPT ![f] = FALSE]
  /\ res' = [res EXCEPT ![f] = "OK"]
  /\ UNCHANGED <<qlock, nodes, timed, wq, wakeVars, ret>>

\* They return to the client.
Returns(f, to) ==
  /\ res[f] # "EAGAIN"
  /\ Goto(f, "done", IF res[f] = "OK" THEN to ELSE ret[f])
  /\ ret' = [ret EXCEPT ![f] = "idle"]
  /\ FrameEnds(f, FALSE)

-----------------------------------------------------------------------------
(* fev_waiters_queue_wake() *)

CallWake(f, from, q, n, to) ==
  /\ Goto(f, from, "wake_lock")
  /\ kq' = [kq EXCEPT ![f] = q]
  /\ max' = [max EXCEPT ![f] = n]
  /\ ret' = [ret EXCEPT ![f] = to]
  /\ UNCHANGED <<qlock, nodes, waitVars, woken>>

WakeLock(f) ==
  /\ Goto(f, "wake_lock", "wake")
  /\ Lock(f, kq[f])
  /\ UNCHANGED <<nodes, waitVars, wakeVars, ret>>

\* Takes the node of g, which may already have another reason, off the queue.
WakeNode(f, g, rest) ==
  /\ nodes' = [nodes EXCEPT ![kq[f]] = rest]
  /\ deleted' = [deleted EXCEPT ![g] = TRUE]
  /\ reason' = [reason EXCEPT ![g] = IF @ = "NONE" THEN "READY" ELSE @]
  /\ woken' = [woken EXCEPT ![f] = IF reason[g] = "NONE" THEN @ + 1 ELSE @]
  /\ UNCHANGED <<qlock, timed, res, wq, kq, max, ret, pc>>

\* Faulty: the newest waiter first.
WakeOneLifo(f) ==
  /\ pc[f] = "wake" /\ woken[f] < max[f] /\ nodes[kq[f]] # <<>>
  /\ WakeNode(f, nodes[kq[f]][Len(nodes[kq[f]])],
              SubSeq(nodes[kq[f]], 1, Len(nodes[kq[f]]) - 1))

\* One round of the loop: a waiter that already has a reason is not counted.
WakeOne(f) ==
  /\ pc[f] = "wake" /\ woken[f] < max[f] /\ nodes[kq[f]] # <<>>
  /\ WakeNode(f, Head(nodes[kq[f]]), Tail(nodes[kq[f]]))

\* Faulty: ends after one waiter even when more are to be woken.
WakeLoopEndsEarly(f) ==
  /\ pc[f] = "wake"
  /\ woken[f] >= 1 \/ nodes[kq[f]] = <<>>
  /\ Goto(f, "wake", "callback")
  /\ UNCHANGED <<qlock, nodes, waitVars, wakeVars, ret>>

WakeLoopEnds(f) ==
  /\ pc[f] = "wake"
  /\ woken[f] >= max[f] \/ nodes[kq[f]] = <<>>
  /\ Goto(f, "wake", "callback")
  /\ UNCHANGED <<qlock, nodes, waitVars, wakeVars, ret>>

\* Unlocks and pushes the woken fibers.
WakeUnlock(f) ==
  /\ Goto(f, "wake_unlock", ret[f])
  /\ Unlock(f, kq[f])
  /\ kq' = [kq EXCEPT ![f] = NULL]
  /\ max' = [max EXCEPT ![f] = 1]
  /\ woken' = [woken EXCEPT ![f] = 0]
  /\ ret' = [ret EXCEPT ![f] = "idle"]
  /\ UNCHANGED <<nodes, waitVars>>

-----------------------------------------------------------------------------

QueueSteps(f) ==
  \/ WaitNot(f) \/ Insert(f) \/ TimersAdd(f) \/ TimersAddFails(f)
  \/ WaitReady(f) \/ WaitTimedOut(f) \/ Remove(f)
  \/ WakeOne(f) \/ WakeLoopEnds(f) \/ WakeUnlock(f)

LockSteps(f) == WaitLock(f) \/ RemoveLock(f) \/ WakeLock(f)

-----------------------------------------------------------------------------
(* Properties. *)

\* The fibers that are inside fev_waiters_queue_wait() with a node that may be
\* in the queue: their stack frame exists.
InFrame(f) == pc[f] \in {"timers_add", "waiting", "remove_lock", "remove"}

\* The fiber f is in the list of the queue q.
Queued(f, q) == \E i \in DOMAIN nodes[q] : nodes[q][i] = f

\* A queue holds exactly the undeleted nodes of live frames, once each: no
\* node outlives the stack frame of fev_waiters_queue_wait() it lies in, and
\* TAILQ_REMOVE() is never applied to a node that has left the queue.
NodesLive ==
  /\ \A q \in Queues :
       /\ \A i \in DOMAIN nodes[q] :
            /\ InFrame(nodes[q][i]) /\ ~deleted[nodes[q][i]] /\ wq[nodes[q][i]] = q
       /\ \A i, j \in DOMAIN nodes[q] : nodes[q][i] = nodes[q][j] => i = j
  /\ \A f \in Fibers : InFrame(f) /\ ~deleted[f] => Queued(f, wq[f])

\* "We successfully set the wake reason of the waiter, and thus the waiter will
\* be woken up" (fev_waiters_queue_wake()): a waiter that was counted as woken
\* returns 0 to the client.
CountedIsWoken ==
  \A f \in Fibers : pc[f] = "done" /\ reason[f] = "READY" => res[f] = "OK"
===============================================================================
