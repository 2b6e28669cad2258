------------------------------- MODULE Waiter --------------------------------
(***************************************************************************)
(* The wake protocol of struct fev_waiter (fev_waiter_intf.h,               *)
(* fev_waiter_impl.h): one fiber that waits, the worker thread that runs    *)
(* fev_waiter_enable_wake_ups() after the fiber's context was saved, and    *)
(* any number of wakers (a queue waker, the poller, a fiber processing      *)
(* timers), each running fev_waiter_wake().  Every access to an atomic      *)
(* field is a step of its own.                                              *)
(*                                                                          *)
(* on_stack = TRUE is the waiter of fev_waiters_queue_wait() and of         *)
(* sleeping fibers: it lives in the caller's frame, is published afresh for every    *)
(* wait and must not be touched once the caller has gone on.                *)
(* on_stack = FALSE is the waiter of a socket: it outlives the waits, so a  *)
(* waker of an earlier wait may still be at work during the next one, and   *)
(* wait_for_wake stays 0.                                                   *)
(***************************************************************************)
EXTENDS Integers

CONSTANTS
  Wakers,      \* callers of fev_waiter_wake()
  Reasons,     \* READY, TIMED_OUT_CHECK, TIMED_OUT_NO_CHECK
  NONE         \* FEV_WAITER_NONE

ASSUME ReasonsAssumption == NONE \notin Reasons

VARIABLES
  on_stack,    \* where the waiter lives: a stack frame, or a socket
  reason, do_wake, wake_reason,      \* the atomics of struct fev_waiter
  wait_for_post, wait_for_wake,
  fpc,         \* the fiber's position
  post,        \* position of the worker in fev_waiter_enable_wake_ups()
  post_reason, \* its local variable `reason`
  post_fiber,  \* its local variable `fiber` is not NULL
  wpc,         \* position of each waker in fev_waiter_wake() and its caller
  wreason,     \* the argument of each waker
  runq         \* number of times the fiber is in the scheduler's run queues

fields == <<reason, do_wake, wake_reason, wait_for_post, wait_for_wake>>
postVars == <<post, post_reason, post_fiber>>
wakerVars == <<wpc, wreason>>
vars == <<on_stack, fields, fpc, postVars, wakerVars, runq>>

Init ==
  /\ on_stack \in BOOLEAN
  /\ reason = NONE
  /\ do_wake = 0
  /\ wake_reason = NONE
  /\ wait_for_post = 0
  /\ wait_for_wake = 0
  /\ fpc = "idle"
  /\ post = "none"
  /\ post_reason = NONE
  /\ post_fiber = FALSE
  /\ wpc = [w \in Wakers |-> "idle"]
  /\ wreason = [w \in Wakers |-> NONE]
  /\ runq = 0

-----------------------------------------------------------------------------
(* The fiber. *)

\* The caller prepares the waiter and makes it reachable for wakers.  A
\* socket only resets `reason` before it tries its operation.
Prepare ==
  /\ fpc = "idle"
  /\ fpc' = "armed"
  /\ reason' = NONE
  /\ IF on_stack
     THEN do_wake' = 0 /\ wait_for_wake' = 1
     ELSE UNCHANGED <<do_wake, wait_for_wake>>
  /\ UNCHANGED <<wake_reason, wait_for_post, postVars, wakerVars, runq, on_stack>>

\* The socket operation did not return EAGAIN: no wait.
OpDone ==
  /\ ~on_stack
  /\ fpc = "armed"
  /\ fpc' = "idle"
  /\ UNCHANGED <<fields, postVars, wakerVars, runq, on_stack>>

\* fev_waiter_wait() up to the switch to the scheduler.
StartWait ==
  /\ fpc = "armed"
  /\ fpc' = "switching"
  /\ wait_for_post' = 1
  /\ UNCHANGED <<reason, do_wake, wake_reason, wait_for_wake>>
  /\ UNCHANGED <<postVars, wakerVars, runq, on_stack>>

\* The context is saved; the worker goes on with the post operation.
Switch ==
  /\ fpc = "switching"
  /\ fpc' = "parked"
  /\ post' = "store_do_wake"
  /\ post_fiber' = FALSE
  /\ UNCHANGED <<fields, post_reason, wakerVars, runq, on_stack>>

\* A worker takes the fiber from a run queue and switches to it.
Resume ==
  /\ fpc = "parked"
  /\ runq > 0
  /\ runq' = runq - 1
  /\ fpc' = "spin"
  /\ UNCHANGED <<fields, postVars, wakerVars, on_stack>>

\* Faulty: waits for the post operation but not for the waker.
SpinDoneIgnoringWaker ==
  /\ fpc = "spin"
  /\ wait_for_post = 0
  /\ fpc' = "returned"
  /\ UNCHANGED <<fields, postVars, wakerVars, runq, on_stack>>

SpinDone ==
  /\ fpc = "spin"
  /\ wait_for_post = 0 /\ wait_for_wake = 0
  /\ fpc' = "returned"
  /\ UNCHANGED <<fields, postVars, wakerVars, runq, on_stack>>

\* `wait` is not 0 yet: the fiber switches away and its worker pushes it again.
SpinAgain ==
  /\ fpc = "spin"
  /\ ~(wait_for_post = 0 /\ wait_for_wake = 0)
  /\ fpc' = "parked"
  /\ runq' = runq + 1
  /\ UNCHANGED <<fields, postVars, wakerVars, on_stack>>

\* The caller goes on; from here on a stack frame may be reused.
Leave ==
  /\ fpc = "returned"
  /\ fpc' = "idle"
  /\ UNCHANGED <<fields, postVars, wakerVars, runq, on_stack>>

Fiber ==
  \/ Prepare \/ OpDone \/ StartWait \/ Switch
  \/ Resume \/ SpinDone \/ SpinAgain \/ Leave

-----------------------------------------------------------------------------
(* The worker in fev_waiter_enable_wake_ups(). *)

PostStoreDoWake ==
  /\ post = "store_do_wake"
  /\ do_wake' = 1
  /\ post' = "load_reason"
  /\ UNCHANGED <<reason, wake_reason, wait_for_post, wait_for_wake>>
  /\ UNCHANGED <<fpc, post_reason, post_fiber, wakerVars, runq, on_stack>>

\* Faulty: does not look for a reason that was set before do_wake.
PostNoRecheck ==
  /\ post = "load_reason"
  /\ post_reason' = reason
  /\ post' = "clear_post"
  /\ UNCHANGED <<fields, fpc, post_fiber, wakerVars, runq, on_stack>>

PostLoadReason ==
  /\ post = "load_reason"
  /\ post_reason' = reason
  /\ post' = IF reason # NONE THEN "exchange" ELSE "clear_post"
  /\ UNCHANGED <<fields, fpc, post_fiber, wakerVars, runq, on_stack>>

\* Faulty: wakes up the fiber without competing for do_wake.
PostAlwaysWakes ==
  /\ post = "exchange"
  /\ do_wake' = 0
  /\ post' = "store_reason"
  /\ UNCHANGED <<reason, wake_reason, wait_for_post, wait_for_wake>>
  /\ UNCHANGED <<fpc, post_reason, post_fiber, wakerVars, runq, on_stack>>

PostExchange ==
  /\ post = "exchange"
  /\ do_wake' = 0
  /\ post' = IF do_wake = 1 THEN "store_reason" ELSE "clear_post"
  /\ UNCHANGED <<reason, wake_reason, wait_for_post, wait_for_wake>>
  /\ UNCHANGED <<fpc, post_reason, post_fiber, wakerVars, runq, on_stack>>

PostStoreReason ==
  /\ post = "store_reason"
  /\ wake_reason' = post_reason
  /\ post_fiber' = TRUE
  /\ post' = "clear_post"
  /\ UNCHANGED <<reason, do_wake, wait_for_post, wait_for_wake>>
  /\ UNCHANGED <<fpc, post_reason, wakerVars, runq, on_stack>>

\* Faulty: the fiber that has been woken waits for the post operation forever.
PostClearForgotten ==
  /\ post = "clear_post"
  /\ post' = IF post_fiber THEN "push" ELSE "none"
  /\ UNCHANGED <<fields, fpc, post_reason, post_fiber, wakerVars, runq, on_stack>>

PostClear ==
  /\ post = "clear_post"
  /\ wait_for_post' = 0
  /\ post' = IF post_fiber THEN "push" ELSE "none"
  /\ UNCHANGED <<reason, do_wake, wake_reason, wait_for_wake>>
  /\ UNCHANGED <<fpc, post_reason, post_fiber, wakerVars, runq, on_stack>>

PostPush ==
  /\ post = "push"
  /\ runq' = runq + 1
  /\ post' = "none"
  /\ UNCHANGED <<fields, fpc, post_reason, post_fiber, wakerVars, on_stack>>

Post ==
  \/ PostStoreDoWake \/ PostLoadReason \/ PostExchange
  \/ PostStoreReason \/ PostClear \/ PostPush

-----------------------------------------------------------------------------
(* A waker in fev_waiter_wake(), and its caller until the fiber is pushed. *)

\* A stack waiter is reachable (in a waiters queue or a timers bucket) from its
\* publication until the waiting caller has taken it out again.
Reachable == on_stack => fpc # "idle"

\* Faulty: a plain store instead of the compare-and-exchange.
WakeOverwritesReason(w, r) ==
  /\ wpc[w] = "idle"
  /\ Reachable
  /\ reason' = r
  /\ wreason' = [wreason EXCEPT ![w] = r]
  /\ wpc' = [wpc EXCEPT ![w] = "exchange"]
  /\ UNCHANGED <<do_wake, wake_reason, wait_for_post, wait_for_wake>>
  /\ UNCHANGED <<fpc, postVars, runq, on_stack>>

\* The compare-and-exchange of `reason`.  When it fails, fev_waiter_wake()
\* returns FEV_WAITER_FAILED and has changed nothing.
WakeSetReason(w, r) ==
  /\ wpc[w] = "idle"
  /\ Reachable
  /\ reason = NONE
  /\ reason' = r
  /\ wreason' = [wreason EXCEPT ![w] = r]
  /\ wpc' = [wpc EXCEPT ![w] = "exchange"]
  /\ UNCHANGED <<do_wake, wake_reason, wait_for_post, wait_for_wake>>
  /\ UNCHANGED <<fpc, postVars, runq, on_stack>>

\* Faulty: a load instead of the exchange.
WakeReadsDoWake(w) ==
  /\ wpc[w] = "exchange"
  /\ wpc' = [wpc EXCEPT ![w] = IF do_wake = 1 THEN "store_reason" ELSE "clear_only"]
  /\ UNCHANGED <<fields, fpc, postVars, wreason, runq, on_stack>>

\* do_wake was 1: SET_AND_WAKE_UP; it was 0: SET_ONLY.
WakeExchange(w) ==
  /\ wpc[w] = "exchange"
  /\ do_wake' = 0
  /\ wpc' = [wpc EXCEPT ![w] = IF do_wake = 1 THEN "store_reason" ELSE "clear_only"]
  /\ UNCHANGED <<reason, wake_reason, wait_for_post, wait_for_wake>>
  /\ UNCHANGED <<fpc, postVars, wreason, runq, on_stack>>

WakeStoreReason(w) ==
  /\ wpc[w] = "store_reason"
  /\ wake_reason' = wreason[w]
  /\ wpc' = [wpc EXCEPT ![w] = "clear_and_push"]
  /\ UNCHANGED <<reason, do_wake, wait_for_post, wait_for_wake>>
  /\ UNCHANGED <<fpc, postVars, wreason, runq, on_stack>>

WakeClear(w) ==
  /\ wpc[w] \in {"clear_only", "clear_and_push"}
  /\ wait_for_wake' = 0
  /\ wpc' = [wpc EXCEPT ![w] = IF @ = "clear_and_push" THEN "push" ELSE "idle"]
  /\ UNCHANGED <<reason, do_wake, wake_reason, wait_for_post>>
  /\ UNCHANGED <<fpc, postVars, wreason, runq, on_stack>>

\* The caller reads waiter->fiber and hands it to the scheduler.
WakePush(w) ==
  /\ wpc[w] = "push"
  /\ runq' = runq + 1
  /\ wpc' = [wpc EXCEPT ![w] = "idle"]
  /\ UNCHANGED <<fields, fpc, postVars, wreason, on_stack>>

WakeRest(w) ==
  \/ WakeExchange(w) \/ WakeStoreReason(w) \/ WakeClear(w) \/ WakePush(w)

-----------------------------------------------------------------------------

Next ==
  \/ Fiber
  \/ Post
  \/ \E w \in Wakers, r \in Reasons : WakeSetReason(w, r)
  \/ \E w \in Wakers : WakeRest(w)

\* Threads that have started an operation of the protocol finish it, and a
\* queued fiber is eventually run; nobody has to start a wait or a wake.
Fairness ==
  /\ WF_vars(StartWait) /\ WF_vars(Switch)
  /\ WF_vars(Resume) /\ WF_vars(SpinDone) /\ WF_vars(SpinAgain)
  /\ WF_vars(Post)
  /\ \A w \in Wakers : WF_vars(WakeRest(w))

Spec == Init /\ [][Next]_vars

FairSpec == Spec /\ Fairness
-----------------------------------------------------------------------------
(* Properties. *)

FiberPositions == {"idle", "armed", "switching", "parked", "spin", "returned"}

PostPositions ==
  {"none", "store_do_wake", "load_reason", "exchange", "store_reason",
   "clear_post", "push"}

WakerPositions ==
  {"idle", "exchange", "store_reason", "clear_only", "clear_and_push", "push"}

\* The fields of struct fev_waiter keep to their enumerations, and the fiber is
\* never in the scheduler's queues twice.
TypeOK ==
  /\ on_stack \in BOOLEAN
  /\ reason \in Reasons \cup {NONE}
  /\ do_wake \in {0, 1}
  /\ wake_reason \in Reasons \cup {NONE}
  /\ wait_for_post \in {0, 1}
  /\ wait_for_wake \in {0, 1}
  /\ fpc \in FiberPositions
  /\ post \in PostPositions
  /\ post_reason \in Reasons \cup {NONE}
  /\ post_fiber \in BOOLEAN
  /\ wpc \in [Wakers -> WakerPositions]
  /\ wreason \in [Wakers -> Reasons \cup {NONE}]
  /\ runq \in {0, 1}

\* The worker in the post operation took do_wake from 1 to 0 and has not
\* pushed the fiber yet.
PostClaims ==
  \/ post \in {"store_reason", "push"}
  \/ post = "clear_post" /\ post_fiber

\* The same for a waker.
Claims(w) == wpc[w] \in {"store_reason", "clear_and_push", "push"}

\* One wait is resumed by exactly one party: when the fiber is queued its
\* context is saved, and nobody else (the post operation, a waker that won
\* do_wake, or one that still can win it) is going to queue it as well.
ResumedOnce ==
  runq = 1 =>
    /\ fpc = "parked"
    /\ do_wake = 0
    /\ post # "store_do_wake"
    /\ ~PostClaims
    /\ \A w \in Wakers : ~Claims(w)

\* No stack-use-after-return: once the caller of fev_waiter_wait() has gone on,
\* neither the post operation nor any waker has an access to the waiter left.
NoTouchAfterReturn ==
  on_stack /\ fpc = "idle" =>
    /\ post = "none"
    /\ \A w \in Wakers : wpc[w] = "idle"

\* `wake_reason` is never FEV_WAITER_NONE after a wake up, and for a waiter that
\* serves one wait it is the one reason that was accepted.
ReturnsAcceptedReason ==
  fpc = "returned" =>
    /\ wake_reason # NONE
    /\ on_stack => wake_reason = reason

\* FEV_ASSERT(do_wake == 0) on entry to fev_waiter_wait(): a stale waker of an
\* earlier wait of the same socket waiter cannot leave the flag behind.
DoWakeClearOnEntry == fpc \in {"armed", "switching"} => do_wake = 0

\* No lost wake up: while the fiber can be woken (do_wake = 1) and a reason has
\* been accepted, someone is about to look at do_wake.
NoLostWake ==
  do_wake = 1 /\ reason # NONE =>
    \/ post \in {"load_reason", "exchange"}
    \/ \E w \in Wakers : wpc[w] = "exchange"

\* An accepted reason makes the waiting fiber return from fev_waiter_wait().
WakeDelivered ==
  fpc \in {"switching", "parked"} /\ reason # NONE ~> fpc = "returned"

\* The refinement mapping.  WaiterAbs is about stack waiters: a waiter of a
\* socket is mapped to one that is never armed.
Abs == INSTANCE WaiterAbs WITH
  phase <- IF ~on_stack THEN "idle"
           ELSE IF fpc \in {"idle", "returned"} THEN fpc ELSE "armed",
  outcome <- IF on_stack THEN reason ELSE NONE,
  result <- IF on_stack /\ fpc = "returned" THEN wake_reason ELSE NONE

\* A stack waiter implements the one-shot event of WaiterAbs: `reason` is the
\* accepted outcome and wake_reason the result the wait returns.
AbsRefined == Abs!AbsSpec
==============================================================================
