----------------------------- MODULE SocketProofs -----------------------------
(***************************************************************************)
(* The safety of a reactor socket for any number of polling workers, both   *)
(* backends and any combination of ends and timeouts.                       *)
(***************************************************************************)
EXTENDS Socket, TLAPS

Reasons == {"NONE", "READY", "CHECK", "NO_CHECK"}

Positions ==
  {"idle", "op", "register", "ctl", "activate", "check", "timers_add", "wait", "post", "parked",
   "timers_del", "process", "timed_out", "reset"}

\* The socket, its waiters and the positions keep to their ranges.
TypeOK ==
  /\ setup \in Setups
  /\ avail \in [Ends -> BOOLEAN] /\ shut \in {"no", "half", "full"}
  /\ interest \subseteq Ends /\ pending \subseteq Ends
  /\ active \in [Ends -> BOOLEAN] /\ error \in BOOLEAN
  /\ reason \in [Ends -> Reasons] /\ wake_reason \in [Ends -> Reasons]
  /\ do_wake \in [Ends -> {0, 1}]
  /\ timer \in [Ends -> {"none", "set", "expired"}]
  /\ expirer \in [Ends -> {"NONE", "CHECK", "NO_CHECK"}]
  /\ pc \in [Ends -> Positions] /\ timed \in [Ends -> BOOLEAN]
  /\ old_flags \in [Ends -> SUBSET Ends]
  /\ runq \subseteq Ends
  /\ ppc \in [Pollers -> {"idle", "error", "in", "out", "exchange_in", "exchange_out", "push"}]
  /\ events \in [Pollers -> SUBSET Ends] /\ wake \in [Pollers -> SUBSET Ends]

\* The kernel watches an end from its registration on, and never forgets one
\* when the other end is registered.
Registered ==
  \A e \in Ends :
    /\ e \in interest <=> active[e] \/ pc[e] = "activate"
    /\ pc[e] \in {"register", "ctl", "activate"} => ~active[e]
    /\ pc[e] \in {"check", "timers_add", "wait", "post", "parked"} => active[e]
    /\ pc[e] = "ctl" => \A f \in old_flags[e] : active[f]

\* What a poller has in its hands at each position.
PollerHolds ==
  \A p \in Pollers :
    /\ ppc[p] \in {"idle", "push"} => events[p] = {}
    /\ ppc[p] = "error" => events[p] = Ends
    /\ \A e \in Ends : ppc[p] \in {e, Exchange(e)} => e \in events[p]

\* A socket is marked as dead only by epoll and only after the peer has gone.
ErrorMeansShut ==
  error \/ (\E p \in Pollers : ppc[p] = "error") => setup.backend = "epoll" /\ shut # "no"

\* Whoever takes do_wake from 1 to 0 wakes the fiber, and nobody else does: the
\* fiber is in one list at most and only while it sleeps.
WokenOnce ==
  \A e \in Ends :
    /\ pc[e] \notin {"post", "parked"} => do_wake[e] = 0
    /\ pc[e] \notin {"post", "parked"} \/ do_wake[e] = 1 =>
         wake_reason[e] = "NONE" /\ e \notin runq /\ \A p \in Pollers : e \notin wake[p]
    /\ e \in runq => wake_reason[e] # "NONE" /\ \A p \in Pollers : e \notin wake[p]
    /\ \A p \in Pollers : e \in wake[p] => wake_reason[e] # "NONE"
    /\ \A p, q \in Pollers : e \in wake[p] /\ e \in wake[q] => p = q

\* A timer is in its bucket only during a timed wait, and whatever says that it
\* was expired by another fiber speaks of the timer of this wait.
TimerOfThisWait ==
  \A e \in Ends :
    /\ timer[e] # "none" =>
         timed[e] /\ pc[e] \in {"wait", "post", "parked", "timers_del", "process", "timed_out"}
    /\ pc[e] \in {"timers_add", "timers_del", "process", "timed_out"} => timed[e]
    /\ pc[e] = "timed_out" => timer[e] = "expired"
    /\ pc[e] \in {"op", "register", "ctl", "activate", "check", "timers_add"} =>
         reason[e] \in {"NONE", "READY"}
    /\ pc[e] \in {"wait", "post", "parked"} /\ timed[e]
         /\ "NO_CHECK" \in {reason[e], expirer[e], wake_reason[e]} => timer[e] = "expired"

\* A sleeper whose waiter has a reason is about to be woken by who has set it.
ReasonFollowed ==
  \A e \in Ends :
    pc[e] = "parked" /\ do_wake[e] = 1 /\ reason[e] # "NONE" =>
      expirer[e] # "NONE" \/ \E p \in Pollers : ppc[p] = Exchange(e)

\* The kernel has an event that a poller will take for the end.
Pending(e) == IF setup.backend = "epoll" THEN pending # {} ELSE e \in pending

\* Something still leads from the event to the waiter of the end.
Covered(e) ==
  \/ Pending(e)
  \/ \E p \in Pollers : e \in events[p] /\ ppc[p] # Exchange(e)
  \/ reason[e] # "NONE"

\* From its registration on, no change of the end is missed by a fiber that
\* goes to sleep.
EventCovered ==
  \A e \in Ends :
    /\ pc[e] \in {"activate", "check", "timers_add", "wait", "post", "parked"} /\ Ready(e) =>
         Covered(e)
    /\ pc[e] \in {"timers_add", "wait", "post", "parked"} /\ error => Covered(e)

IInv ==
  /\ TypeOK /\ Registered /\ PollerHolds /\ ErrorMeansShut /\ WokenOnce
  /\ TimerOfThisWait /\ ReasonFollowed /\ EventCovered
-----------------------------------------------------------------------------

\* The inductive invariant holds of a socket that has just been created.
LEMMA InitIInv == Init => IInv
  <1>. SUFFICES ASSUME Init PROVE IInv
    OBVIOUS
  <1>1. TypeOK
    BY Zenon DEF Init, TypeOK, Reasons, Positions
  <1>2. Registered /\ PollerHolds /\ ErrorMeansShut /\ WokenOnce /\ TimerOfThisWait
    BY DEF Init, Registered, PollerHolds, ErrorMeansShut, WokenOnce, TimerOfThisWait,
       Ends, Exchange
  <1>3. ReasonFollowed /\ EventCovered
    BY DEF Init, ReasonFollowed, EventCovered
  <1>. QED BY <1>1, <1>2, <1>3 DEF IInv

\* The fibers of a socket are those of its two ends.
LEMMA EndsUsed == TypeOK => setup.ends \subseteq Ends
  BY SocketAssumption DEF TypeOK

\* The poller goes on with an end that is left, until none is.
LEMMA LeftGoesOn ==
  ASSUME NEW es \in SUBSET Ends
  PROVE  /\ es = {} => Left(es) = "push"
         /\ es # {} => Left(es) \in es
         /\ Left(es) \in {"in", "out", "push"}
  BY Zenon DEF Left, Ends

\* Every step keeps the types.
LEMMA NextTypeOK ==
  TypeOK /\ WokenOnce /\ [Next]_vars
    => TypeOK'
  <1>. SUFFICES ASSUME TypeOK, WokenOnce, [Next]_vars PROVE TypeOK'
    OBVIOUS
  <1>. USE DEF TypeOK, Reasons, Positions, Goto, kernel, waiter, fibers, pollers
  <1>1. CASE Environment
    <2>1. avail' \in [Ends -> BOOLEAN] /\ shut' \in {"no", "half", "full"}
      BY <1>1, EndsUsed, Zenon DEF Environment, Arrive, Shut, Raise
    <2>2. pending' \subseteq Ends /\ UNCHANGED interest
      BY <1>1 DEF Environment, Arrive, Shut, Raise
    <2>. QED BY <1>1, <2>1, <2>2 DEF Environment
  <1>2. ASSUME NEW e \in Ends, Call(e) PROVE TypeOK'
    BY <1>2 DEF Call
  <1>3. ASSUME NEW e \in Ends, OpDone(e) PROVE TypeOK'
    <2>1. PICK left \in {FALSE, avail[e]} : avail' = [avail EXCEPT ![e] = left]
      BY <1>3, Zenon DEF OpDone
    <2>2. avail[e] \in BOOLEAN
      OBVIOUS
    <2>3. left \in BOOLEAN
      BY <2>2, Zenon
    <2>. QED BY <1>3, <2>1, <2>3 DEF OpDone, Return
  <1>4. ASSUME NEW e \in Ends, OpAgain(e) PROVE TypeOK'
    BY <1>4 DEF OpAgain
  <1>5. ASSUME NEW e \in Ends, LoadFlags(e) PROVE TypeOK'
    BY <1>5 DEF LoadFlags
  <1>6. ASSUME NEW e \in Ends, EpollCtl(e) PROVE TypeOK'
    BY <1>6 DEF EpollCtl
  <1>7. ASSUME NEW e \in Ends, EpollCtlFails(e) PROVE TypeOK'
    BY <1>7 DEF EpollCtlFails, Return
  <1>8. ASSUME NEW e \in Ends, KqueueAdd(e) PROVE TypeOK'
    BY <1>8 DEF KqueueAdd
  <1>9. ASSUME NEW e \in Ends, Activate(e) PROVE TypeOK'
    BY <1>9 DEF Activate
  <1>10. ASSUME NEW e \in Ends, Check(e) PROVE TypeOK'
    <2>1. CASE /\ Goto(e, "check", IF timed[e] THEN "timers_add" ELSE "wait")
               /\ UNCHANGED <<timed, old_flags>>
      BY <1>10, <2>1 DEF Check, Return
    <2>2. CASE Return(e, "check")
      BY <1>10, <2>2 DEF Check, Return
    <2>. QED BY <1>10, <2>1, <2>2 DEF Check
  <1>11. ASSUME NEW e \in Ends, TimersAdd(e) PROVE TypeOK'
    BY <1>11 DEF TimersAdd
  <1>12. ASSUME NEW e \in Ends, TimersAddFails(e) PROVE TypeOK'
    BY <1>12 DEF TimersAddFails, Return
  <1>13. ASSUME NEW e \in Ends, EnableWakeUps(e) PROVE TypeOK'
    BY <1>13 DEF EnableWakeUps
  <1>14. ASSUME NEW e \in Ends, Post(e) PROVE TypeOK'
    <2>1. CASE reason[e] # "NONE" /\ do_wake[e] = 1
      BY <1>14, <2>1 DEF Post
    <2>2. CASE ~(reason[e] # "NONE" /\ do_wake[e] = 1)
      BY <1>14, <2>2 DEF Post
    <2>. QED BY <2>1, <2>2
  <1>15. ASSUME NEW e \in Ends, Resume(e) PROVE TypeOK'
    <2>1. wake_reason[e] # "NONE"
      BY <1>15 DEF Resume, WokenOnce
    <2>2. pc' \in [Ends -> Positions]
      BY <1>15, <2>1 DEF Resume
    <2>. QED BY <1>15, <2>2, Zenon DEF Resume
  <1>16. ASSUME NEW e \in Ends, TimersDel(e) PROVE TypeOK'
    BY <1>16 DEF TimersDel
  <1>17. ASSUME NEW e \in Ends, TimersProcess(e) PROVE TypeOK'
    BY <1>17 DEF TimersProcess
  <1>18. ASSUME NEW e \in Ends, TimedOut(e) PROVE TypeOK'
    BY <1>18 DEF TimedOut, Return
  <1>19. ASSUME NEW e \in Ends, Reset(e) PROVE TypeOK'
    BY <1>19 DEF Reset
  <1>20. ASSUME NEW e \in Ends, ExpirerWakes(e) PROVE TypeOK'
    <2>1. CASE do_wake[e] = 1
      BY <1>20, <2>1 DEF ExpirerWakes
    <2>2. CASE do_wake[e] # 1
      BY <1>20, <2>2 DEF ExpirerWakes
    <2>. QED BY <2>1, <2>2
  <1>21. ASSUME NEW e \in Ends, NEW r \in {"CHECK", "NO_CHECK"}, Expire(e, r) PROVE TypeOK'
    BY <1>21 DEF Expire
  <1>22. ASSUME NEW p \in Pollers, EpollWait(p) PROVE TypeOK'
    BY <1>22 DEF EpollWait, EpollEvents, PollerGoto, Left
  <1>23. ASSUME NEW p \in Pollers, SetError(p) PROVE TypeOK'
    BY <1>23 DEF SetError, PollerGoto, Left
  <1>24. ASSUME NEW p \in Pollers, Kevent(p) PROVE TypeOK'
    BY <1>24 DEF Kevent, PollerGoto, Left
  <1>25. ASSUME NEW e \in Ends, NEW p \in Pollers, WakeFails(p, e) PROVE TypeOK'
    BY <1>25 DEF WakeFails, PollerGoto, Left
  <1>26. ASSUME NEW e \in Ends, NEW p \in Pollers, WakeSet(p, e) PROVE TypeOK'
    BY <1>26 DEF WakeSet, PollerGoto, Exchange
  <1>27. ASSUME NEW e \in Ends, NEW p \in Pollers, WakeExchange(p, e) PROVE TypeOK'
    <2>1. ppc' \in [Pollers -> {"idle", "error", "in", "out", "exchange_in", "exchange_out", "push"}]
      BY <1>27, LeftGoesOn DEF WakeExchange, PollerGoto
    <2>2. CASE do_wake[e] = 1
      <3>1. wake' \in [Pollers -> SUBSET Ends]
        BY <1>27, <2>2 DEF WakeExchange
      <3>2. events' \in [Pollers -> SUBSET Ends]
        BY <1>27, <2>2 DEF WakeExchange
      <3>. QED BY <1>27, <2>1, <2>2, <3>1, <3>2 DEF WakeExchange
    <2>3. CASE do_wake[e] # 1
      BY <1>27, <2>1, <2>3, Zenon DEF WakeExchange
    <2>. QED BY <2>2, <2>3
  <1>28. ASSUME NEW p \in Pollers, Push(p) PROVE TypeOK'
    BY <1>28 DEF Push, PollerGoto
  <1>29. CASE UNCHANGED vars
    BY <1>29 DEF vars
  <1>. HIDE DEF TypeOK, Reasons, Positions, Goto, kernel, waiter, fibers, pollers
  <1>. QED
    BY <1>1, <1>2, <1>3, <1>4, <1>5, <1>6, <1>7, <1>8, <1>9, <1>10, <1>11, <1>12, <1>13, <1>14,
       <1>15, <1>16, <1>17, <1>18, <1>19, <1>20, <1>21, <1>22, <1>23, <1>24, <1>25, <1>26, <1>27,
       <1>28, <1>29, EndsUsed
    DEF Ends, Next, Fiber, Poller

\* The registration of one end does not undo that of the other.
LEMMA NextRegistered ==
  TypeOK /\ WokenOnce /\ Registered /\ [Next]_vars
    => Registered'
  <1>. SUFFICES ASSUME TypeOK, WokenOnce, Registered, [Next]_vars PROVE Registered'
    OBVIOUS
  <1>. USE DEF TypeOK, Reasons, Positions, Goto, kernel, waiter, fibers, pollers, WokenOnce,
       Registered, Ends
  <1>1. CASE Environment
    BY <1>1 DEF Environment, Arrive, Shut, Raise
  <1>2. ASSUME NEW e \in Ends, Call(e) PROVE Registered'
    BY <1>2 DEF Call
  <1>3. ASSUME NEW e \in Ends, OpDone(e) PROVE Registered'
    BY <1>3 DEF OpDone, Return
  <1>4. ASSUME NEW e \in Ends, OpAgain(e) PROVE Registered'
    BY <1>4 DEF OpAgain
  <1>5. ASSUME NEW e \in Ends, LoadFlags(e) PROVE Registered'
    BY <1>5 DEF LoadFlags
  <1>6. ASSUME NEW e \in Ends, EpollCtl(e) PROVE Registered'
    BY <1>6 DEF EpollCtl
  <1>7. ASSUME NEW e \in Ends, EpollCtlFails(e) PROVE Registered'
    BY <1>7 DEF EpollCtlFails, Return
  <1>8. ASSUME NEW e \in Ends, KqueueAdd(e) PROVE Registered'
    BY <1>8 DEF KqueueAdd
  <1>9. ASSUME NEW e \in Ends, Activate(e) PROVE Registered'
    BY <1>9 DEF Activate
  <1>10. ASSUME NEW e \in Ends, Check(e) PROVE Registered'
    BY <1>10 DEF Check, Return
  <1>11. ASSUME NEW e \in Ends,
               TimersAdd(e) \/ TimersAddFails(e) \/ EnableWakeUps(e) \/ Post(e) \/ Resume(e)
               \/ TimersDel(e) \/ TimersProcess(e) \/ TimedOut(e) \/ Reset(e)
        PROVE Registered'
    BY <1>11 DEF TimersAdd, TimersAddFails, Return, EnableWakeUps, Post, Resume, TimersDel,
          TimersProcess, TimedOut, Reset
  <1>12. ASSUME NEW e \in Ends, NEW r \in {"CHECK", "NO_CHECK"},
               ExpirerWakes(e) \/ Expire(e, r)
        PROVE Registered'
    BY <1>12 DEF ExpirerWakes, Expire
  <1>13. ASSUME NEW e \in Ends, NEW p \in Pollers,
               EpollWait(p) \/ SetError(p) \/ Kevent(p) \/ WakeFails(p, e) \/ WakeSet(p, e)
               \/ WakeExchange(p, e) \/ Push(p)
        PROVE Registered'
    BY <1>13 DEF EpollWait, EpollEvents, PollerGoto, Left, SetError, Kevent, WakeFails, WakeSet,
          Exchange, WakeExchange, Push
  <1>14. CASE UNCHANGED vars
    BY <1>14 DEF vars
  <1>. HIDE DEF TypeOK, Reasons, Positions, Goto, kernel, waiter, fibers, pollers, WokenOnce,
       Registered, Ends
  <1>. QED
    BY <1>1, <1>2, <1>3, <1>4, <1>5, <1>6, <1>7, <1>8, <1>9, <1>10, <1>11, <1>12, <1>13, <1>14,
       EndsUsed
    DEF Ends, Next, Fiber, Poller

\* A poller wakes what it has fetched, end by end.
LEMMA NextPollerHolds ==
  TypeOK /\ PollerHolds /\ [Next]_vars
    => PollerHolds'
  <1>. SUFFICES ASSUME TypeOK, PollerHolds, [Next]_vars PROVE PollerHolds'
    OBVIOUS
  <1>. USE DEF TypeOK, Reasons, Positions, Goto, kernel, waiter, fibers, pollers, PollerHolds,
       Ends, Exchange
  <1>1. CASE Environment
    BY <1>1 DEF Environment, Arrive, Shut, Raise
  <1>2. ASSUME NEW e \in Ends,
               Call(e) \/ OpDone(e) \/ OpAgain(e) \/ LoadFlags(e) \/ EpollCtl(e)
               \/ EpollCtlFails(e) \/ KqueueAdd(e) \/ Activate(e) \/ Check(e)
        PROVE PollerHolds'
    BY <1>2 DEF Call, OpDone, Return, OpAgain, LoadFlags, EpollCtl, EpollCtlFails, KqueueAdd,
          Activate, Check
  <1>3. ASSUME NEW e \in Ends,
               TimersAdd(e) \/ TimersAddFails(e) \/ EnableWakeUps(e) \/ Post(e) \/ Resume(e)
               \/ TimersDel(e) \/ TimersProcess(e) \/ TimedOut(e) \/ Reset(e)
        PROVE PollerHolds'
    BY <1>3 DEF TimersAdd, TimersAddFails, Return, EnableWakeUps, Post, Resume, TimersDel,
          TimersProcess, TimedOut, Reset
  <1>4. ASSUME NEW e \in Ends, NEW r \in {"CHECK", "NO_CHECK"},
               ExpirerWakes(e) \/ Expire(e, r)
        PROVE PollerHolds'
    BY <1>4 DEF ExpirerWakes, Expire
  <1>5. ASSUME NEW p \in Pollers, EpollWait(p) PROVE PollerHolds'
    <2>1. EpollEvents \in SUBSET Ends /\ (shut # "no" => EpollEvents = Ends)
      BY Zenon DEF EpollEvents
    <2>. QED BY <1>5, <2>1, LeftGoesOn DEF EpollWait, PollerGoto
  <1>6. ASSUME NEW p \in Pollers, SetError(p) PROVE PollerHolds'
    BY <1>6 DEF SetError, PollerGoto, Left
  <1>7. ASSUME NEW p \in Pollers, Kevent(p) PROVE PollerHolds'
    <2>. DEFINE fired == {e \in pending : Ready(e)}
    <2>1. fired \in SUBSET Ends
      BY Zenon
    <2>. HIDE DEF fired
    <2>. QED BY <1>7, <2>1, LeftGoesOn DEF Kevent, PollerGoto, fired
  <1>8. ASSUME NEW e \in Ends, NEW p \in Pollers, WakeFails(p, e) PROVE PollerHolds'
    BY <1>8 DEF WakeFails, PollerGoto, Left
  <1>9. ASSUME NEW e \in Ends, NEW p \in Pollers, WakeSet(p, e) PROVE PollerHolds'
    BY <1>9 DEF WakeSet, PollerGoto, Exchange
  <1>10. ASSUME NEW e \in Ends, NEW p \in Pollers, WakeExchange(p, e) PROVE PollerHolds'
    BY <1>10 DEF WakeExchange, PollerGoto, Left, Exchange
  <1>11. ASSUME NEW p \in Pollers, Push(p) PROVE PollerHolds'
    BY <1>11 DEF Push, PollerGoto
  <1>12. CASE UNCHANGED vars
    BY <1>12 DEF vars
  <1>. HIDE DEF TypeOK, Reasons, Positions, Goto, kernel, waiter, fibers, pollers, PollerHolds,
       Ends, Exchange
  <1>. QED
    BY <1>1, <1>2, <1>3, <1>4, <1>5, <1>6, <1>7, <1>8, <1>9, <1>10, <1>11, <1>12, EndsUsed,
       Zenon
    DEF Ends, Next, Fiber, Poller

\* An error stays one.
LEMMA NextErrorMeansShut ==
  TypeOK /\ ErrorMeansShut /\ [Next]_vars
    => ErrorMeansShut'
  <1>. SUFFICES ASSUME TypeOK, ErrorMeansShut, [Next]_vars PROVE ErrorMeansShut'
    OBVIOUS
  <1>. USE DEF TypeOK, Reasons, Positions, Goto, kernel, waiter, fibers, pollers, ErrorMeansShut
  <1>1. CASE Environment
    BY <1>1 DEF Environment, Arrive, Shut, Raise
  <1>2. ASSUME NEW e \in Ends,
               Call(e) \/ OpDone(e) \/ OpAgain(e) \/ LoadFlags(e) \/ EpollCtl(e)
               \/ EpollCtlFails(e) \/ KqueueAdd(e) \/ Activate(e) \/ Check(e)
        PROVE ErrorMeansShut'
    BY <1>2 DEF Call, OpDone, Return, OpAgain, LoadFlags, EpollCtl, EpollCtlFails, KqueueAdd,
          Activate, Check
  <1>3. ASSUME NEW e \in Ends,
               TimersAdd(e) \/ TimersAddFails(e) \/ EnableWakeUps(e) \/ Post(e) \/ Resume(e)
               \/ TimersDel(e) \/ TimersProcess(e) \/ TimedOut(e) \/ Reset(e)
        PROVE ErrorMeansShut'
    BY <1>3 DEF TimersAdd, TimersAddFails, Return, EnableWakeUps, Post, Resume, TimersDel,
          TimersProcess, TimedOut, Reset
  <1>4. ASSUME NEW e \in Ends, NEW r \in {"CHECK", "NO_CHECK"},
               ExpirerWakes(e) \/ Expire(e, r)
        PROVE ErrorMeansShut'
    BY <1>4 DEF ExpirerWakes, Expire
  <1>5. ASSUME NEW p \in Pollers, EpollWait(p) PROVE ErrorMeansShut'
    BY <1>5 DEF EpollWait, EpollEvents, PollerGoto, Left
  <1>6. ASSUME NEW p \in Pollers, SetError(p) PROVE ErrorMeansShut'
    BY <1>6 DEF SetError, PollerGoto, Left
  <1>7. ASSUME NEW p \in Pollers, Kevent(p) PROVE ErrorMeansShut'
    BY <1>7 DEF Kevent, PollerGoto, Left
  <1>8. ASSUME NEW e \in Ends, NEW p \in Pollers, WakeFails(p, e) PROVE ErrorMeansShut'
    BY <1>8 DEF WakeFails, PollerGoto, Left
  <1>9. ASSUME NEW e \in Ends, NEW p \in Pollers, WakeSet(p, e) PROVE ErrorMeansShut'
    BY <1>9 DEF WakeSet, PollerGoto, Exchange
  <1>10. ASSUME NEW e \in Ends, NEW p \in Pollers, WakeExchange(p, e) PROVE ErrorMeansShut'
    BY <1>10 DEF WakeExchange, PollerGoto, Left, Exchange
  <1>11. ASSUME NEW p \in Pollers, Push(p) PROVE ErrorMeansShut'
    BY <1>11 DEF Push, PollerGoto
  <1>12. CASE UNCHANGED vars
    BY <1>12 DEF vars
  <1>. HIDE DEF TypeOK, Reasons, Positions, Goto, kernel, waiter, fibers, pollers, ErrorMeansShut
  <1>. QED
    BY <1>1, <1>2, <1>3, <1>4, <1>5, <1>6, <1>7, <1>8, <1>9, <1>10, <1>11, <1>12, EndsUsed
    DEF Ends, Next, Fiber, Poller

\* A sleeper is woken once.
LEMMA NextWokenOnce ==
  TypeOK /\ WokenOnce /\ [Next]_vars
    => WokenOnce'
  <1>. SUFFICES ASSUME TypeOK, WokenOnce, [Next]_vars PROVE WokenOnce'
    OBVIOUS
  <1>. USE DEF TypeOK, Reasons, Positions, Goto, kernel, waiter, fibers, pollers, WokenOnce
  <1>1. CASE Environment
    BY <1>1 DEF Environment, Arrive, Shut, Raise
  <1>2. ASSUME NEW e \in Ends,
               Call(e) \/ OpDone(e) \/ OpAgain(e) \/ LoadFlags(e) \/ EpollCtl(e)
               \/ EpollCtlFails(e) \/ KqueueAdd(e) \/ Activate(e) \/ Check(e)
        PROVE WokenOnce'
    BY <1>2 DEF Call, OpDone, Return, OpAgain, LoadFlags, EpollCtl, EpollCtlFails, KqueueAdd,
          Activate, Check
  <1>3. ASSUME NEW e \in Ends, TimersAdd(e) PROVE WokenOnce'
    BY <1>3 DEF TimersAdd
  <1>4. ASSUME NEW e \in Ends, TimersAddFails(e) PROVE WokenOnce'
    BY <1>4 DEF TimersAddFails, Return
  <1>5. ASSUME NEW e \in Ends, EnableWakeUps(e) PROVE WokenOnce'
    BY <1>5 DEF EnableWakeUps
  <1>6. ASSUME NEW e \in Ends, Post(e) PROVE WokenOnce'
    BY <1>6 DEF Post
  <1>7. ASSUME NEW e \in Ends, Resume(e) PROVE WokenOnce'
    BY <1>7 DEF Resume
  <1>8. ASSUME NEW e \in Ends, TimersDel(e) PROVE WokenOnce'
    BY <1>8 DEF TimersDel
  <1>9. ASSUME NEW e \in Ends, TimersProcess(e) PROVE WokenOnce'
    BY <1>9 DEF TimersProcess
  <1>10. ASSUME NEW e \in Ends, TimedOut(e) PROVE WokenOnce'
    BY <1>10 DEF TimedOut, Return
  <1>11. ASSUME NEW e \in Ends, Reset(e) PROVE WokenOnce'
    BY <1>11 DEF Reset
  <1>12. ASSUME NEW e \in Ends, ExpirerWakes(e) PROVE WokenOnce'
    BY <1>12 DEF ExpirerWakes
  <1>13. ASSUME NEW e \in Ends, NEW r \in {"CHECK", "NO_CHECK"}, Expire(e, r) PROVE WokenOnce'
    BY <1>13 DEF Expire
  <1>14. ASSUME NEW e \in Ends, NEW p \in Pollers,
               EpollWait(p) \/ SetError(p) \/ Kevent(p) \/ WakeFails(p, e) \/ WakeSet(p, e)
        PROVE WokenOnce'
    BY <1>14 DEF EpollWait, EpollEvents, PollerGoto, Left, SetError, Kevent, WakeFails, WakeSet,
          Exchange
  <1>15. ASSUME NEW e \in Ends, NEW p \in Pollers, WakeExchange(p, e) PROVE WokenOnce'
    <2>1. CASE do_wake[e] = 1
      <3>1. \A f \in Ends : \A q \in Pollers : f \in wake'[q] <=> f \in wake[q] \/ (q = p /\ f = e)
        BY <1>15, <2>1 DEF WakeExchange
      <3>2. \A q \in Pollers : e \notin wake[q]
        BY <2>1
      <3>. QED BY <1>15, <2>1, <3>1, <3>2 DEF WakeExchange
    <2>2. CASE do_wake[e] # 1
      BY <1>15, <2>2 DEF WakeExchange
    <2>. QED BY <2>1, <2>2
  <1>16. ASSUME NEW p \in Pollers, Push(p) PROVE WokenOnce'
    BY <1>16 DEF Push, PollerGoto
  <1>17. CASE UNCHANGED vars
    BY <1>17 DEF vars
  <1>. HIDE DEF TypeOK, Reasons, Positions, Goto, kernel, waiter, fibers, pollers, WokenOnce
  <1>. QED
    BY <1>1, <1>2, <1>3, <1>4, <1>5, <1>6, <1>7, <1>8, <1>9, <1>10, <1>11, <1>12, <1>13, <1>14,
       <1>15, <1>16, <1>17, EndsUsed
    DEF Ends, Next, Fiber, Poller

\* A timeout speaks of the timer of the wait that it ends.
LEMMA NextTimerOfThisWait ==
  TypeOK /\ WokenOnce /\ TimerOfThisWait /\ [Next]_vars
    => TimerOfThisWait'
  <1>. SUFFICES ASSUME TypeOK, WokenOnce, TimerOfThisWait, [Next]_vars PROVE TimerOfThisWait'
    OBVIOUS
  <1>. USE DEF TypeOK, Reasons, Positions, Goto, kernel, waiter, fibers, pollers, WokenOnce,
       TimerOfThisWait
  <1>1. CASE Environment
    BY <1>1 DEF Environment, Arrive, Shut, Raise
  <1>2. ASSUME NEW e \in Ends, Call(e) PROVE TimerOfThisWait'
    BY <1>2 DEF Call
  <1>3. ASSUME NEW e \in Ends, OpDone(e) PROVE TimerOfThisWait'
    BY <1>3 DEF OpDone, Return
  <1>4. ASSUME NEW e \in Ends, OpAgain(e) PROVE TimerOfThisWait'
    BY <1>4 DEF OpAgain
  <1>5. ASSUME NEW e \in Ends, LoadFlags(e) PROVE TimerOfThisWait'
    BY <1>5 DEF LoadFlags
  <1>6. ASSUME NEW e \in Ends, EpollCtl(e) PROVE TimerOfThisWait'
    BY <1>6 DEF EpollCtl
  <1>7. ASSUME NEW e \in Ends, EpollCtlFails(e) PROVE TimerOfThisWait'
    BY <1>7 DEF EpollCtlFails, Return
  <1>8. ASSUME NEW e \in Ends, KqueueAdd(e) PROVE TimerOfThisWait'
    BY <1>8 DEF KqueueAdd
  <1>9. ASSUME NEW e \in Ends, Activate(e) PROVE TimerOfThisWait'
    BY <1>9 DEF Activate
  <1>10. ASSUME NEW e \in Ends, Check(e) PROVE TimerOfThisWait'
    BY <1>10 DEF Check, Return
  <1>11. ASSUME NEW e \in Ends, TimersAdd(e) PROVE TimerOfThisWait'
    BY <1>11 DEF TimersAdd
  <1>12. ASSUME NEW e \in Ends, TimersAddFails(e) PROVE TimerOfThisWait'
    BY <1>12 DEF TimersAddFails, Return
  <1>13. ASSUME NEW e \in Ends, EnableWakeUps(e) PROVE TimerOfThisWait'
    BY <1>13 DEF EnableWakeUps
  <1>14. ASSUME NEW e \in Ends, Post(e) PROVE TimerOfThisWait'
    BY <1>14 DEF Post
  <1>15. ASSUME NEW e \in Ends, Resume(e) PROVE TimerOfThisWait'
    BY <1>15 DEF Resume
  <1>16. ASSUME NEW e \in Ends, TimersDel(e) PROVE TimerOfThisWait'
    BY <1>16 DEF TimersDel
  <1>17. ASSUME NEW e \in Ends, TimersProcess(e) PROVE TimerOfThisWait'
    BY <1>17 DEF TimersProcess
  <1>18. ASSUME NEW e \in Ends, TimedOut(e) PROVE TimerOfThisWait'
    BY <1>18 DEF TimedOut, Return
  <1>19. ASSUME NEW e \in Ends, Reset(e) PROVE TimerOfThisWait'
    BY <1>19 DEF Reset
  <1>20. ASSUME NEW e \in Ends, ExpirerWakes(e) PROVE TimerOfThisWait'
    BY <1>20 DEF ExpirerWakes
  <1>21. ASSUME NEW e \in Ends, NEW r \in {"CHECK", "NO_CHECK"},
               Expire(e, r)
        PROVE TimerOfThisWait'
    BY <1>21 DEF Expire
  <1>22. ASSUME NEW e \in Ends, NEW p \in Pollers,
               EpollWait(p) \/ SetError(p) \/ Kevent(p) \/ WakeFails(p, e) \/ Push(p)
        PROVE TimerOfThisWait'
    BY <1>22 DEF EpollWait, EpollEvents, PollerGoto, Left, SetError, Kevent, WakeFails, Push
  <1>23. ASSUME NEW e \in Ends, NEW p \in Pollers, WakeSet(p, e) PROVE TimerOfThisWait'
    BY <1>23 DEF WakeSet, PollerGoto, Exchange
  <1>24. ASSUME NEW e \in Ends, NEW p \in Pollers, WakeExchange(p, e) PROVE TimerOfThisWait'
    BY <1>24 DEF WakeExchange, PollerGoto, Left, Exchange
  <1>25. CASE UNCHANGED vars
    BY <1>25 DEF vars
  <1>. HIDE DEF TypeOK, Reasons, Positions, Goto, kernel, waiter, fibers, pollers, WokenOnce,
       TimerOfThisWait
  <1>. QED
    BY <1>1, <1>2, <1>3, <1>4, <1>5, <1>6, <1>7, <1>8, <1>9, <1>10, <1>11, <1>12, <1>13, <1>14,
       <1>15, <1>16, <1>17, <1>18, <1>19, <1>20, <1>21, <1>22, <1>23, <1>24, <1>25, EndsUsed
    DEF Ends, Next, Fiber, Poller

\* Who has set the reason goes on to wake the sleeper.
LEMMA NextReasonFollowed ==
  TypeOK /\ WokenOnce /\ PollerHolds /\ ReasonFollowed /\ [Next]_vars
    => ReasonFollowed'
  <1>. SUFFICES ASSUME TypeOK, WokenOnce, PollerHolds, ReasonFollowed, [Next]_vars
                PROVE  ReasonFollowed'
    OBVIOUS
  <1>. USE DEF TypeOK, Reasons, Positions, Goto, kernel, waiter, fibers, pollers, WokenOnce,
       PollerHolds, ReasonFollowed, Ends, Exchange
  <1>1. CASE Environment
    BY <1>1 DEF Environment, Arrive, Shut, Raise
  <1>2. ASSUME NEW e \in Ends,
               Call(e) \/ OpDone(e) \/ OpAgain(e) \/ LoadFlags(e) \/ EpollCtl(e)
               \/ EpollCtlFails(e) \/ KqueueAdd(e) \/ Activate(e) \/ Check(e)
        PROVE ReasonFollowed'
    BY <1>2 DEF Call, OpDone, Return, OpAgain, LoadFlags, EpollCtl, EpollCtlFails, KqueueAdd,
          Activate, Check
  <1>3. ASSUME NEW e \in Ends,
               TimersAdd(e) \/ TimersAddFails(e) \/ EnableWakeUps(e) \/ Post(e) \/ Resume(e)
               \/ TimersDel(e) \/ TimersProcess(e) \/ TimedOut(e) \/ Reset(e)
        PROVE ReasonFollowed'
    BY <1>3 DEF TimersAdd, TimersAddFails, Return, EnableWakeUps, Post, Resume, TimersDel,
          TimersProcess, TimedOut, Reset
  <1>4. ASSUME NEW e \in Ends, ExpirerWakes(e) PROVE ReasonFollowed'
    BY <1>4 DEF ExpirerWakes
  <1>5. ASSUME NEW e \in Ends, NEW r \in {"CHECK", "NO_CHECK"}, Expire(e, r) PROVE ReasonFollowed'
    BY <1>5 DEF Expire
  <1>6. ASSUME NEW p \in Pollers, EpollWait(p) PROVE ReasonFollowed'
    BY <1>6 DEF EpollWait, EpollEvents, PollerGoto, Left
  <1>7. ASSUME NEW p \in Pollers, SetError(p) PROVE ReasonFollowed'
    BY <1>7 DEF SetError, PollerGoto, Left
  <1>8. ASSUME NEW p \in Pollers, Kevent(p) PROVE ReasonFollowed'
    BY <1>8 DEF Kevent, PollerGoto, Left
  <1>9. ASSUME NEW e \in Ends, NEW p \in Pollers, WakeFails(p, e) PROVE ReasonFollowed'
    BY <1>9 DEF WakeFails, PollerGoto, Left
  <1>10. ASSUME NEW e \in Ends, NEW p \in Pollers, WakeSet(p, e) PROVE ReasonFollowed'
    BY <1>10 DEF WakeSet, PollerGoto, Exchange
  <1>11. ASSUME NEW e \in Ends, NEW p \in Pollers, WakeExchange(p, e) PROVE ReasonFollowed'
    BY <1>11 DEF WakeExchange, PollerGoto, Left, Exchange
  <1>12. ASSUME NEW p \in Pollers, Push(p) PROVE ReasonFollowed'
    BY <1>12 DEF Push, PollerGoto
  <1>13. CASE UNCHANGED vars
    BY <1>13 DEF vars
  <1>. HIDE DEF TypeOK, Reasons, Positions, Goto, kernel, waiter, fibers, pollers, WokenOnce,
       PollerHolds, ReasonFollowed, Ends, Exchange
  <1>. QED
    BY <1>1, <1>2, <1>3, <1>4, <1>5, <1>6, <1>7, <1>8, <1>9, <1>10, <1>11, <1>12, <1>13,
       EndsUsed
    DEF Ends, Next, Fiber, Poller

\* No event is dropped between the kernel and the waiter.
LEMMA NextEventCovered ==
  TypeOK /\ Registered /\ PollerHolds /\ ErrorMeansShut /\ EventCovered /\ [Next]_vars
    => EventCovered'
  <1>. SUFFICES ASSUME TypeOK, Registered, PollerHolds, ErrorMeansShut, EventCovered, [Next]_vars
                PROVE  EventCovered'
    OBVIOUS
  <1>. USE DEF TypeOK, Reasons, Positions, Goto, kernel, waiter, fibers, pollers, Registered,
       PollerHolds, ErrorMeansShut, EventCovered, Covered, Pending, Ready, Ends, Exchange
  <1>1. CASE Environment
    BY <1>1 DEF Environment, Arrive, Shut, Raise
  <1>2. ASSUME NEW e \in Ends, Call(e) PROVE EventCovered'
    BY <1>2 DEF Call
  <1>3. ASSUME NEW e \in Ends, OpDone(e) PROVE EventCovered'
    BY <1>3 DEF OpDone, Return
  <1>4. ASSUME NEW e \in Ends, OpAgain(e) PROVE EventCovered'
    BY <1>4 DEF OpAgain
  <1>5. ASSUME NEW e \in Ends, LoadFlags(e) PROVE EventCovered'
    BY <1>5 DEF LoadFlags
  <1>6. ASSUME NEW e \in Ends, EpollCtl(e) PROVE EventCovered'
    BY <1>6 DEF EpollCtl
  <1>7. ASSUME NEW e \in Ends, EpollCtlFails(e) PROVE EventCovered'
    BY <1>7 DEF EpollCtlFails, Return
  <1>8. ASSUME NEW e \in Ends, KqueueAdd(e) PROVE EventCovered'
    BY <1>8 DEF KqueueAdd
  <1>9. ASSUME NEW e \in Ends, Activate(e) PROVE EventCovered'
    BY <1>9 DEF Activate
  <1>10. ASSUME NEW e \in Ends, Check(e) PROVE EventCovered'
    BY <1>10 DEF Check, Return
  <1>11. ASSUME NEW e \in Ends,
               TimersAdd(e) \/ TimersAddFails(e) \/ EnableWakeUps(e) \/ Post(e) \/ Resume(e)
               \/ TimersDel(e) \/ TimersProcess(e) \/ TimedOut(e) \/ Reset(e)
        PROVE EventCovered'
    BY <1>11 DEF TimersAdd, TimersAddFails, Return, EnableWakeUps, Post, Resume, TimersDel,
          TimersProcess, TimedOut, Reset
  <1>12. ASSUME NEW e \in Ends, NEW r \in {"CHECK", "NO_CHECK"},
               ExpirerWakes(e) \/ Expire(e, r)
        PROVE EventCovered'
    BY <1>12 DEF ExpirerWakes, Expire
  <1>13. ASSUME NEW p \in Pollers, EpollWait(p) PROVE EventCovered'
    BY <1>13 DEF EpollWait, EpollEvents, PollerGoto, Left
  <1>14. ASSUME NEW p \in Pollers, SetError(p) PROVE EventCovered'
    BY <1>14 DEF SetError, PollerGoto, Left
  <1>15. ASSUME NEW p \in Pollers, Kevent(p) PROVE EventCovered'
    BY <1>15 DEF Kevent, PollerGoto, Left
  <1>16. ASSUME NEW e \in Ends, NEW p \in Pollers, WakeFails(p, e) PROVE EventCovered'
    BY <1>16 DEF WakeFails, PollerGoto, Left
  <1>17. ASSUME NEW e \in Ends, NEW p \in Pollers, WakeSet(p, e) PROVE EventCovered'
    BY <1>17 DEF WakeSet, PollerGoto, Exchange
  <1>18. ASSUME NEW e \in Ends, NEW p \in Pollers, WakeExchange(p, e) PROVE EventCovered'
    BY <1>18 DEF WakeExchange, PollerGoto, Left, Exchange
  <1>19. ASSUME NEW p \in Pollers, Push(p) PROVE EventCovered'
    BY <1>19 DEF Push, PollerGoto
  <1>20. CASE UNCHANGED vars
    BY <1>20 DEF vars, Ready, Pending, Covered
  <1>. HIDE DEF TypeOK, Reasons, Positions, Goto, kernel, waiter, fibers, pollers, Registered,
       PollerHolds, ErrorMeansShut, EventCovered, Covered, Pending, Ready, Ends, Exchange
  <1>. QED
    BY <1>1, <1>2, <1>3, <1>4, <1>5, <1>6, <1>7, <1>8, <1>9, <1>10, <1>11, <1>12, <1>13, <1>14,
       <1>15, <1>16, <1>17, <1>18, <1>19, <1>20, EndsUsed
    DEF Ends, Next, Fiber, Poller
\* The inductive invariant holds in every state of the socket.
THEOREM Invariance == Spec => []IInv
  <1>1. IInv /\ [Next]_vars => IInv'
    BY NextTypeOK, NextRegistered, NextPollerHolds, NextErrorMeansShut, NextWokenOnce,
       NextTimerOfThisWait, NextReasonFollowed, NextEventCovered DEF IInv
  <1>. QED BY InitIInv, <1>1, PTL DEF Spec

-----------------------------------------------------------------------------

\* The socket, its waiters and the positions keep to their ranges.
THEOREM TypeCorrect == Spec => []TypeOK
  <1>1. IInv => TypeOK
    BY DEF IInv
  <1>. QED BY <1>1, Invariance, PTL

\* An edge-triggered event is never lost on its way from the kernel to a fiber
\* that sleeps in fev_waiter_wait(), whoever else wakes the fiber meanwhile.
THEOREM EventKept == Spec => []NoLostEvent
  <1>1. IInv => NoLostEvent
    <2>. SUFFICES ASSUME IInv, NEW e \in setup.ends,
                         pc[e] = "parked", do_wake[e] = 1, Ready(e) \/ error
                  PROVE  \/ pending # {}
                         \/ expirer[e] # "NONE"
                         \/ \E p \in Pollers : e \in events[p]
      BY DEF NoLostEvent
    <2>1. e \in Ends
      BY EndsUsed DEF IInv
    <2>2. Covered(e)
      BY <2>1 DEF IInv, EventCovered
    <2>3. reason[e] # "NONE" => expirer[e] # "NONE" \/ \E p \in Pollers : e \in events[p]
      BY <2>1 DEF IInv, ReasonFollowed, PollerHolds
    <2>. QED BY <2>2, <2>3 DEF Covered, Pending
  <1>. QED BY <1>1, Invariance, PTL

\* No timer stays in its bucket when the frame of fev_timed_wait() is left: a
\* fiber that is told that its timer has been expired is told of this timer,
\* and a late waker of an earlier wait cannot say so.
THEOREM TimerDeleted == Spec => []TimeoutMeansDeleted
  <1>1. IInv => TimeoutMeansDeleted
    BY EndsUsed DEF IInv, TimerOfThisWait, TimeoutMeansDeleted
  <1>. QED BY <1>1, Invariance, PTL

\* A fiber is in one list of woken fibers at most, and only while it sleeps:
\* the wakers of one waiter, those of earlier waits included, resume it once.
THEOREM ResumedOnce == Spec => []WokenOnce
  <1>1. IInv => WokenOnce
    BY DEF IInv
  <1>. QED BY <1>1, Invariance, PTL
===============================================================================
