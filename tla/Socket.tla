-------------------------------- MODULE Socket --------------------------------
(***************************************************************************)
(* A socket of the reactor (fev_socket_reactor.c) over epoll                *)
(* (fev_poller_epoll.c) or kqueue (fev_poller_kqueue.c): a fiber reads or   *)
(* accepts at one end, a fiber writes or connects at the other, with or     *)
(* without a timeout, and the workers poll.  Events are edge triggered, so  *)
(* a wake up that is lost is never repeated.                                *)
(*                                                                         *)
(* The waiter of an end lives in the socket and serves one wait after the   *)
(* other: a waker of an earlier wait may still be at work, so the two       *)
(* accesses of fev_waiter_wake(), to `reason` and to `do_wake`, are steps   *)
(* of their own.  The kernel is modelled by what the code uses of it.       *)
(***************************************************************************)
EXTENDS Integers, FiniteSets

CONSTANTS
  Pollers,    \* the workers that poll
  Setups      \* the cases to be considered, see SocketAssumption

Ends == {"in", "out"}   \* read_end and write_end

ASSUME SocketAssumption ==
  Setups \subseteq [backend : {"epoll", "kqueue"}, ends : SUBSET Ends,
                    pollers : SUBSET Pollers, timeouts : BOOLEAN]

VARIABLES
  setup,       \* the case at hand: backend, ends in use, workers, timeouts or not
  avail,       \* the kernel has data (in) or room (out) for the end
  shut,        \* the peer: "no", "half" (it will not send any more), "full"
  interest,    \* the ends the kernel has been told to watch
  pending,     \* the ends that the kernel has an event for
  active,      \* end->active
  error,       \* socket->error
  reason, do_wake, wake_reason,   \* end->waiter
  timer,       \* the timer of the end: "none", "set" (in its bucket), "expired"
  expirer,     \* who has set a timeout as `reason` and holds the locks of the bucket
  pc, timed, old_flags,           \* the fiber of the end
  runq,        \* the ends whose fiber was pushed
  ppc, events, wake               \* the pollers, fev_poller_process()

kernel == <<avail, shut, interest, pending>>
waiter == <<reason, do_wake, wake_reason>>
fibers == <<pc, timed, old_flags>>
pollers == <<ppc, events, wake>>
vars == <<setup, kernel, active, error, waiter, timer, expirer, fibers, runq, pollers>>

Init ==
  /\ setup \in Setups
  /\ avail \in {a \in [Ends -> BOOLEAN] : \A e \in Ends \ setup.ends : ~a[e]}
  /\ shut = "no"
  /\ interest = {} /\ pending = {}
  /\ active = [e \in Ends |-> FALSE]
  /\ error = FALSE
  /\ reason = [e \in Ends |-> "NONE"]
  /\ do_wake = [e \in Ends |-> 0]
  /\ wake_reason = [e \in Ends |-> "NONE"]
  /\ timer = [e \in Ends |-> "none"]
  /\ expirer = [e \in Ends |-> "NONE"]
  /\ pc = [e \in Ends |-> "idle"]
  /\ timed = [e \in Ends |-> FALSE]
  /\ old_flags = [e \in Ends |-> {}]
  /\ runq = {}
  /\ ppc = [p \in Pollers |-> "idle"]
  /\ events = [p \in Pollers |-> {}]
  /\ wake = [p \in Pollers |-> {}]

Goto(e, from, to) ==
  /\ pc[e] = from
  /\ pc' = [pc EXCEPT ![e] = to]

-----------------------------------------------------------------------------
(* The kernel and the peer. *)

\* The operation of the end would not return EAGAIN.
Ready(e) == avail[e] \/ shut = "full" \/ (shut = "half" /\ e = "in")

\* The events that a change of the ends es raises.  epoll has one entry for
\* the socket and reports everything that holds when it is fetched.
Raise(es) ==
  pending' = IF es \cap interest = {} THEN pending
             ELSE IF setup.backend = "epoll" THEN interest
             ELSE pending \cup (es \cap interest)

Arrive(e) ==
  /\ ~Ready(e)
  /\ avail' = [avail EXCEPT ![e] = TRUE]
  /\ Raise({e})
  /\ UNCHANGED <<shut, interest>>

\* The peer shuts down its side (EPOLLRDHUP), or the connection fails
\* (EPOLLHUP, EPOLLERR), for which epoll watches all registered sockets.
Shut ==
  /\ \/ shut = "no" /\ shut' = "half"
     \/ shut # "full" /\ shut' = "full"
  /\ Raise(IF setup.backend = "epoll" \/ shut' = "full" THEN Ends ELSE {"in"})
  /\ UNCHANGED <<avail, interest>>

Environment ==
  /\ (\E e \in setup.ends : Arrive(e)) \/ Shut
  /\ UNCHANGED <<setup, active, error, waiter, timer, expirer, fibers, runq, pollers>>

-----------------------------------------------------------------------------
(* The fiber of an end, FEV_GEN_SOCKET_OP and FEV_GEN_SOCKET_OP_TIMEOUT. *)

Call(e) ==
  /\ Goto(e, "idle", "op")
  /\ \E t \in BOOLEAN : (t => setup.timeouts) /\ timed' = [timed EXCEPT ![e] = t]
  /\ reason' = [reason EXCEPT ![e] = "NONE"]
  /\ UNCHANGED <<setup, kernel, active, error, do_wake, wake_reason, timer, expirer>>
  /\ UNCHANGED <<old_flags, runq, pollers>>

\* The call returns, and its frame with the timer is gone.
Return(e, from) ==
  /\ Goto(e, from, "idle")
  /\ timed' = [timed EXCEPT ![e] = FALSE]
  /\ UNCHANGED old_flags

\* read(), write(), accept() or connect(): it may take all there is.
OpDone(e) ==
  /\ Ready(e)
  /\ Return(e, "op")
  /\ \E left \in {FALSE, avail[e]} : avail' = [avail EXCEPT ![e] = left]
  /\ UNCHANGED <<setup, shut, interest, pending, active, error, waiter, timer, expirer>>
  /\ UNCHANGED <<runq, pollers>>

OpAgain(e) ==
  /\ ~Ready(e)
  /\ Goto(e, "op", IF active[e] THEN "check" ELSE "register")
  /\ UNCHANGED <<setup, kernel, active, error, waiter, timer, expirer>>
  /\ UNCHANGED <<timed, old_flags, runq, pollers>>

\* fev_poller_register() of epoll looks at what the other end has done.
LoadFlags(e) ==
  /\ setup.backend = "epoll"
  /\ Goto(e, "register", "ctl")
  /\ old_flags' = [old_flags EXCEPT ![e] = {f \in Ends : active[f]}]
  /\ UNCHANGED <<setup, kernel, active, error, waiter, timer, expirer, timed, runq, pollers>>

\* EPOLL_CTL_ADD succeeds once, EPOLL_CTL_MOD after that; both raise an event
\* for what holds already.
EpollCtl(e) ==
  /\ (old_flags[e] = {}) = (interest = {})
  /\ Goto(e, "ctl", "activate")
  /\ interest' = old_flags[e] \cup {e}
  /\ pending' = IF shut # "no" \/ \E f \in interest' : Ready(f) THEN interest' ELSE pending
  /\ UNCHANGED <<setup, avail, shut, active, error, waiter, timer, expirer>>
  /\ UNCHANGED <<timed, old_flags, runq, pollers>>

\* The other end is registered but not yet active: EEXIST.
EpollCtlFails(e) ==
  /\ (old_flags[e] = {}) # (interest = {})
  /\ Return(e, "ctl")
  /\ UNCHANGED <<setup, kernel, active, error, waiter, timer, expirer, runq, pollers>>

KqueueAdd(e) ==
  /\ setup.backend = "kqueue"
  /\ Goto(e, "register", "activate")
  /\ interest' = interest \cup {e}
  /\ pending' = IF Ready(e) THEN pending \cup {e} ELSE pending
  /\ UNCHANGED <<setup, avail, shut, active, error, waiter, timer, expirer>>
  /\ UNCHANGED <<timed, old_flags, runq, pollers>>

Activate(e) ==
  /\ Goto(e, "activate", "check")
  /\ active' = [active EXCEPT ![e] = TRUE]
  /\ old_flags' = [old_flags EXCEPT ![e] = {}]
  /\ UNCHANGED <<setup, kernel, error, waiter, timer, expirer, timed, runq, pollers>>

\* Faulty: waits on a socket that is known to be dead.
CheckNoError(e) ==
  /\ Goto(e, "check", IF timed[e] THEN "timers_add" ELSE "wait")
  /\ UNCHANGED <<setup, kernel, active, error, waiter, timer, expirer>>
  /\ UNCHANGED <<timed, old_flags, runq, pollers>>

Check(e) ==
  /\ \/ ~error /\ Goto(e, "check", IF timed[e] THEN "timers_add" ELSE "wait")
               /\ UNCHANGED <<timed, old_flags>>
     \/ error /\ Return(e, "check")   \* ECONNRESET
  /\ UNCHANGED <<setup, kernel, active, error, waiter, timer, expirer, runq, pollers>>

-----------------------------------------------------------------------------
(* The wait: fev_timers_add(), fev_waiter_wait() and what follows. *)

\* Faulty: does not wait for the locks of the bucket.
TimersAddUnlocked(e) ==
  /\ Goto(e, "timers_add", "wait")
  /\ timer' = [timer EXCEPT ![e] = "set"]
  /\ UNCHANGED <<setup, kernel, active, error, waiter, expirer>>
  /\ UNCHANGED <<timed, old_flags, runq, pollers>>

TimersAdd(e) ==
  /\ expirer[e] = "NONE"
  /\ Goto(e, "timers_add", "wait")
  /\ timer' = [timer EXCEPT ![e] = "set"]
  /\ UNCHANGED <<setup, kernel, active, error, waiter, expirer>>
  /\ UNCHANGED <<timed, old_flags, runq, pollers>>

\* ENOMEM, with the binary heap.
TimersAddFails(e) ==
  /\ expirer[e] = "NONE"
  /\ Return(e, "timers_add")
  /\ UNCHANGED <<setup, kernel, active, error, waiter, timer, expirer, runq, pollers>>

\* fev_waiter_wait(): the context is saved and wake ups are enabled.
EnableWakeUps(e) ==
  /\ Goto(e, "wait", "post")
  /\ do_wake' = [do_wake EXCEPT ![e] = 1]
  /\ UNCHANGED <<setup, kernel, active, error, reason, wake_reason, timer, expirer>>
  /\ UNCHANGED <<timed, old_flags, runq, pollers>>

\* The rest of fev_waiter_enable_wake_ups() looks for a reason set before.
Post(e) ==
  /\ Goto(e, "post", "parked")
  /\ IF reason[e] # "NONE" /\ do_wake[e] = 1
       THEN /\ do_wake' = [do_wake EXCEPT ![e] = 0]
            /\ wake_reason' = [wake_reason EXCEPT ![e] = reason[e]]
            /\ runq' = runq \cup {e}
       ELSE UNCHANGED <<do_wake, wake_reason, runq>>
  /\ UNCHANGED <<setup, kernel, active, error, reason, timer, expirer>>
  /\ UNCHANGED <<timed, old_flags, pollers>>

Resume(e) ==
  /\ e \in runq
  /\ runq' = runq \ {e}
  /\ Goto(e, "parked", CASE ~timed[e] -> "reset"
                         [] timed[e] /\ wake_reason[e] = "READY" -> "timers_del"
                         [] timed[e] /\ wake_reason[e] = "CHECK" -> "process"
                         [] timed[e] /\ wake_reason[e] = "NO_CHECK" -> "timed_out")
  /\ wake_reason' = [wake_reason EXCEPT ![e] = "NONE"]   \* nobody reads it again
  /\ UNCHANGED <<setup, kernel, active, error, reason, do_wake, timer, expirer>>
  /\ UNCHANGED <<timed, old_flags, pollers>>

TimersDel(e) ==
  /\ expirer[e] = "NONE"
  /\ Goto(e, "timers_del", "reset")
  /\ timer' = [timer EXCEPT ![e] = "none"]
  /\ UNCHANGED <<setup, kernel, active, error, waiter, expirer>>
  /\ UNCHANGED <<timed, old_flags, runq, pollers>>

\* fev_timers_process(), after which the timer has expired or was early.
TimersProcess(e) ==
  /\ expirer[e] = "NONE"
  /\ \E to \in {"timed_out", "reset"} : Goto(e, "process", to)
  /\ timer' = [timer EXCEPT ![e] = IF pc'[e] = "timed_out" THEN "expired" ELSE "none"]
  /\ UNCHANGED <<setup, kernel, active, error, waiter, expirer>>
  /\ UNCHANGED <<timed, old_flags, runq, pollers>>

TimedOut(e) ==
  /\ Return(e, "timed_out")
  /\ timer' = [timer EXCEPT ![e] = IF @ = "expired" THEN "none" ELSE @]
  /\ UNCHANGED <<setup, kernel, active, error, waiter, expirer, runq, pollers>>

\* The next event is to be seen by the wait after the operation.
Reset(e) ==
  /\ Goto(e, "reset", "op")
  /\ reason' = [reason EXCEPT ![e] = "NONE"]
  /\ UNCHANGED <<setup, kernel, active, error, do_wake, wake_reason, timer, expirer>>
  /\ UNCHANGED <<timed, old_flags, runq, pollers>>

Fiber(e) ==
  \/ OpDone(e) \/ OpAgain(e) \/ LoadFlags(e) \/ EpollCtl(e) \/ EpollCtlFails(e)
  \/ KqueueAdd(e) \/ Activate(e) \/ Check(e) \/ TimersAdd(e) \/ TimersAddFails(e)
  \/ EnableWakeUps(e) \/ Post(e) \/ Resume(e) \/ TimersDel(e) \/ TimersProcess(e)
  \/ TimedOut(e) \/ Reset(e)

-----------------------------------------------------------------------------
(* The wakers. *)

\* A fiber expires the timers of the bucket (NO_CHECK) or a poller the one that
\* is due first (CHECK), under a lock that the fiber of the end must take too.
Expire(e, r) ==
  /\ timer[e] = "set" /\ expirer[e] = "NONE" /\ pc[e] \notin {"process", "timed_out"}
  /\ timer' = [timer EXCEPT ![e] = IF r = "NO_CHECK" THEN "expired" ELSE @]
  /\ IF reason[e] = "NONE"
       THEN /\ reason' = [reason EXCEPT ![e] = r]
            /\ expirer' = [expirer EXCEPT ![e] = r]
       ELSE UNCHANGED <<reason, expirer>>
  /\ UNCHANGED <<setup, kernel, active, error, do_wake, wake_reason, fibers, runq, pollers>>

ExpirerWakes(e) ==
  /\ expirer[e] # "NONE"
  /\ expirer' = [expirer EXCEPT ![e] = "NONE"]
  /\ do_wake' = [do_wake EXCEPT ![e] = 0]
  /\ IF do_wake[e] = 1
       THEN /\ wake_reason' = [wake_reason EXCEPT ![e] = expirer[e]]
            /\ runq' = runq \cup {e}
       ELSE UNCHANGED <<wake_reason, runq>>
  /\ UNCHANGED <<setup, kernel, active, error, reason, timer, fibers, pollers>>

PollerGoto(p, from, to) ==
  /\ ppc[p] = from
  /\ ppc' = [ppc EXCEPT ![p] = to]

\* Where the poller goes with the ends es left to be woken: the read end first.
Left(es) == IF "in" \in es THEN "in" ELSE IF "out" \in es THEN "out" ELSE "push"

Exchange(e) == IF e = "in" THEN "exchange_in" ELSE "exchange_out"

\* Faulty: an error is taken for an event of the read end.
ErrorWakesReader ==
  {e \in interest : Ready(e)} \cup (IF shut = "no" THEN {} ELSE {"in"})

\* The ends that fev_process_socket() of epoll wakes up: all after an error.
EpollEvents == IF shut = "no" THEN {e \in interest : Ready(e)} ELSE Ends

\* epoll_wait(): the entry of the socket is fetched with all that holds.
EpollWait(p) ==
  /\ setup.backend = "epoll"
  /\ p \in setup.pollers /\ pending # {}
  /\ pending' = {}
  /\ events' = [events EXCEPT ![p] = EpollEvents]
  /\ PollerGoto(p, "idle", IF shut = "no" THEN Left(EpollEvents) ELSE "error")
  /\ UNCHANGED <<setup, avail, shut, interest, active, error, waiter, timer, expirer>>
  /\ UNCHANGED <<fibers, runq, wake>>

SetError(p) ==
  /\ PollerGoto(p, "error", Left(events[p]))
  /\ error' = TRUE
  /\ UNCHANGED <<setup, kernel, active, waiter, timer, expirer, fibers, runq, events, wake>>

\* kevent(): the filters that have fired and still hold; there is no error.
Kevent(p) ==
  /\ setup.backend = "kqueue"
  /\ p \in setup.pollers /\ pending # {}
  /\ pending' = {}
  /\ LET fired == {e \in pending : Ready(e)} IN
       /\ events' = [events EXCEPT ![p] = fired]
       /\ PollerGoto(p, "idle", Left(fired))
  /\ UNCHANGED <<setup, avail, shut, interest, active, error, waiter, timer, expirer>>
  /\ UNCHANGED <<fibers, runq, wake>>

\* fev_waiter_wake(READY): the waiter has a reason already.
WakeFails(p, e) ==
  /\ reason[e] # "NONE"
  /\ PollerGoto(p, e, Left(events[p] \ {e}))
  /\ events' = [events EXCEPT ![p] = @ \ {e}]
  /\ UNCHANGED <<setup, kernel, active, error, waiter, timer, expirer, fibers, runq, wake>>

WakeSet(p, e) ==
  /\ reason[e] = "NONE"
  /\ PollerGoto(p, e, Exchange(e))
  /\ reason' = [reason EXCEPT ![e] = "READY"]
  /\ UNCHANGED <<setup, kernel, active, error, do_wake, wake_reason, timer, expirer>>
  /\ UNCHANGED <<fibers, runq, events, wake>>

WakeExchange(p, e) ==
  /\ PollerGoto(p, Exchange(e), Left(events[p] \ {e}))
  /\ events' = [events EXCEPT ![p] = @ \ {e}]
  /\ do_wake' = [do_wake EXCEPT ![e] = 0]
  /\ IF do_wake[e] = 1
       THEN /\ wake_reason' = [wake_reason EXCEPT ![e] = "READY"]
            /\ wake' = [wake EXCEPT ![p] = @ \cup {e}]
       ELSE UNCHANGED <<wake_reason, wake>>
  /\ UNCHANGED <<setup, kernel, active, error, reason, timer, expirer, fibers, runq>>

\* fev_wake_stq()
Push(p) ==
  /\ PollerGoto(p, "push", "idle")
  /\ runq' = runq \cup wake[p]
  /\ wake' = [wake EXCEPT ![p] = {}]
  /\ UNCHANGED <<setup, kernel, active, error, waiter, timer, expirer, fibers, events>>

Poller(p) ==
  \/ EpollWait(p) \/ Kevent(p) \/ SetError(p) \/ Push(p)
  \/ \E e \in Ends : WakeFails(p, e) \/ WakeSet(p, e) \/ WakeExchange(p, e)

-----------------------------------------------------------------------------

Next ==
  \/ Environment
  \/ \E e \in setup.ends :
       \/ Call(e) \/ Fiber(e) \/ ExpirerWakes(e)
       \/ \E r \in {"CHECK", "NO_CHECK"} : Expire(e, r)
  \/ \E p \in Pollers : Poller(p)

Spec == Init /\ [][Next]_vars

\* Workers poll and run fibers, and finish what they have started; nobody has
\* to call, the peer does not have to do anything and timers need not expire.
Fairness ==
  /\ \A e \in Ends : WF_vars(Fiber(e)) /\ WF_vars(ExpirerWakes(e))
  /\ \A p \in Pollers : WF_vars(Poller(p))

FairSpec == Spec /\ Fairness

-----------------------------------------------------------------------------
(* Properties. *)

\* No event is lost: while the fiber of an end sleeps although its operation
\* would not block, or although the socket is known to be dead, the kernel has
\* an event or somebody is about to wake it up.
NoLostEvent ==
  \A e \in setup.ends :
    pc[e] = "parked" /\ do_wake[e] = 1 /\ (Ready(e) \/ error) =>
      \/ pending # {}
      \/ expirer[e] # "NONE"
      \/ \E p \in Pollers : e \in events[p]

\* "The timer must have been deleted by fev_timers_process()" when the fiber is
\* woken up with FEV_WAITER_TIMED_OUT_NO_CHECK (fev_timed_wait()), although the
\* waker may belong to an earlier wait of the same waiter: no timer stays in
\* its bucket when the frame it lies in is left.
TimeoutMeansDeleted ==
  \A e \in setup.ends :
    pc[e] \in {"timed_out", "idle", "op"} => timer[e] # "set"

\* An operation that waits returns once it can be done or the socket is known
\* to be dead, also if it is the other end that the poller has an event for.
OpReturns ==
  \A e \in Ends : pc[e] = "parked" /\ (Ready(e) \/ error) ~> pc[e] = "idle"
===============================================================================
