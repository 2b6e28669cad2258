---------------------------- MODULE WaiterProofs -----------------------------
(***************************************************************************)
(* Proofs about the wake protocol of fev_waiter, for any set of wakers and  *)
(* for both kinds of waiter.                                                *)
(***************************************************************************)
EXTENDS Waiter, TLAPS

\* The worker in the post operation still has accesses to the waiter to make.
PostActive ==
  post \in {"store_do_wake", "load_reason", "exchange", "store_reason", "clear_post"}

\* A waker that won `reason` and still has accesses to the waiter to make.
Active(w) ==
  wpc[w] \in {"exchange", "store_reason", "clear_only", "clear_and_push"}

\* The right to resume the parked fiber has exactly one holder.
OneClaim ==
  /\ ResumedOnce
  /\ do_wake = 1 =>
       /\ fpc = "parked"
       /\ post # "store_do_wake"
       /\ ~PostClaims
       /\ \A w \in Wakers : ~Claims(w)
  /\ \A w \in Wakers : Claims(w) =>
       /\ fpc = "parked"
       /\ post # "store_do_wake"
       /\ ~PostClaims
       /\ \A v \in Wakers : Claims(v) => v = w
  /\ PostClaims \/ post = "store_do_wake" => fpc = "parked"

\* wait_for_post covers the whole post operation.
PostCovered ==
  /\ fpc = "switching" => wait_for_post = 1 /\ post = "none"
  /\ fpc # "switching" => (wait_for_post = 1 <=> PostActive)
  /\ fpc \in {"idle", "armed", "returned"} => wait_for_post = 0
  /\ post \in {"store_do_wake", "load_reason", "exchange", "store_reason"} =>
       ~post_fiber

\* wait_for_wake covers the one waker that won `reason` of a stack waiter.
WakerCovered ==
  on_stack =>
    /\ \A w \in Wakers : Active(w) =>
         /\ wait_for_wake = 1
         /\ fpc \notin {"idle", "returned"}
         /\ \A v \in Wakers : Active(v) => v = w
    /\ \A w \in Wakers : wpc[w] # "idle" => reason = wreason[w]
    /\ fpc # "idle" /\ reason = NONE => wait_for_wake = 1

\* A reason that is on its way to wake_reason, or has arrived there.
Delivered(r) == r # NONE /\ (on_stack => r = reason)

ReasonKept ==
  /\ \A w \in Wakers : wpc[w] # "idle" => wreason[w] # NONE
  /\ \A w \in Wakers : wpc[w] \in {"clear_and_push", "push"} => Delivered(wake_reason)
  /\ post \in {"exchange", "store_reason"} => Delivered(post_reason)
  /\ (post = "clear_post" /\ post_fiber) \/ post = "push" => Delivered(wake_reason)
  /\ runq = 1 \/ fpc \in {"spin", "returned"} => Delivered(wake_reason)

\* The inductive invariant.
IInv ==
  /\ TypeOK
  /\ OneClaim
  /\ PostCovered
  /\ WakerCovered
  /\ ReasonKept
  /\ NoLostWake
-----------------------------------------------------------------------------

\* The inductive invariant holds in the initial state of every waiter.
LEMMA InitHolds == Init => IInv
  <1> SUFFICES ASSUME Init PROVE IInv
    OBVIOUS
  <1> USE DEF Init
  <1>1. TypeOK
    BY DEF TypeOK, FiberPositions, PostPositions, WakerPositions
  <1>2. OneClaim
    BY DEF OneClaim, ResumedOnce, PostClaims, Claims
  <1>3. PostCovered
    BY DEF PostCovered, PostActive
  <1>4. WakerCovered /\ ReasonKept /\ NoLostWake
    BY DEF WakerCovered, ReasonKept, NoLostWake, Active
  <1>5. QED
    BY <1>1, <1>2, <1>3, <1>4 DEF IInv

\* Every step of the fiber, of the post operation and of a waker keeps it.
LEMMA StepHolds == IInv /\ [Next]_vars => IInv'
  <1> SUFFICES ASSUME IInv, [Next]_vars PROVE IInv'
    OBVIOUS
  <1> USE ReasonsAssumption
  <1> USE DEF IInv, TypeOK, OneClaim, ResumedOnce, PostCovered, WakerCovered, ReasonKept,
     NoLostWake, PostClaims, Claims, PostActive, Active, Delivered,
     FiberPositions, PostPositions, WakerPositions, fields, postVars, wakerVars
  <1>1. CASE Prepare
    BY <1>1 DEF Prepare
  <1>2. CASE OpDone
    BY <1>2 DEF OpDone
  <1>3. CASE StartWait
    BY <1>3 DEF StartWait
  <1>4. CASE Switch
    BY <1>4 DEF Switch
  <1>5. CASE Resume
    BY <1>5 DEF Resume
  <1>6. CASE SpinDone
    BY <1>6 DEF SpinDone
  <1>7. CASE SpinAgain
    BY <1>7 DEF SpinAgain
  <1>8. CASE Leave
    BY <1>8 DEF Leave
  <1>9. CASE PostStoreDoWake
    BY <1>9 DEF PostStoreDoWake
  <1>10. CASE PostLoadReason
    BY <1>10 DEF PostLoadReason
  <1>11. CASE PostExchange
    BY <1>11 DEF PostExchange
  <1>12. CASE PostStoreReason
    BY <1>12 DEF PostStoreReason
  <1>13. CASE PostClear
    BY <1>13 DEF PostClear
  <1>14. CASE PostPush
    BY <1>14 DEF PostPush
  <1>15. ASSUME NEW w \in Wakers, NEW r \in Reasons, WakeSetReason(w, r) PROVE IInv'
    BY <1>15 DEF WakeSetReason, Reachable
  <1>16. ASSUME NEW w \in Wakers, WakeExchange(w) PROVE IInv'
    BY <1>16 DEF WakeExchange
  <1>17. ASSUME NEW w \in Wakers, WakeStoreReason(w) PROVE IInv'
    BY <1>17 DEF WakeStoreReason
  <1>18. ASSUME NEW w \in Wakers, WakeClear(w) PROVE IInv'
    BY <1>18 DEF WakeClear
  <1>19. ASSUME NEW w \in Wakers, WakePush(w) PROVE IInv'
    BY <1>19 DEF WakePush
  <1>20. CASE UNCHANGED vars
    BY <1>20 DEF vars
  <1>21. QED
    BY <1>1, <1>2, <1>3, <1>4, <1>5, <1>6, <1>7, <1>8, <1>9, <1>10, <1>11, <1>12, <1>13, <1>14, <1>15, <1>16, <1>17, <1>18, <1>19, <1>20 DEF Next, Fiber, Post, WakeRest

\* The inductive invariant holds for any number of wakers in any interleaving.
THEOREM Invariance == Spec => []IInv
  BY InitHolds, StepHolds, PTL DEF Spec

\* TypeOK: the fiber is never queued twice by fev_waiter_wake() and
\* fev_waiter_enable_wake_ups().
THEOREM TypeCorrect == Spec => []TypeOK
  <1>1. IInv => TypeOK
    BY DEF IInv
  <1>2. QED
    BY <1>1, Invariance, PTL

\* One wait is resumed by exactly one of its wakers and its post operation.
THEOREM Resumption == Spec => []ResumedOnce
  <1>1. IInv => ResumedOnce
    BY DEF IInv, OneClaim
  <1>2. QED
    BY <1>1, Invariance, PTL

\* The spinning on wait_for_post and wait_for_wake in fev_waiter_wait() is
\* enough to keep every access to a stack waiter inside the frame's life.
THEOREM FrameSafety == Spec => []NoTouchAfterReturn
  <1>1. IInv => NoTouchAfterReturn
    BY DEF IInv, TypeOK, OneClaim, PostCovered, WakerCovered, NoTouchAfterReturn,
       PostClaims, Claims, PostActive, Active, PostPositions, WakerPositions
  <1>2. QED
    BY <1>1, Invariance, PTL

\* fev_waiter_wait() returns a reason, and for a stack waiter the accepted one.
THEOREM ReasonDelivery == Spec => []ReturnsAcceptedReason
  <1>1. IInv => ReturnsAcceptedReason
    BY DEF IInv, ReasonKept, Delivered, ReturnsAcceptedReason
  <1>2. QED
    BY <1>1, Invariance, PTL

\* The assertion on entry to fev_waiter_wait() holds for reused waiters too.
THEOREM EntryAssertion == Spec => []DoWakeClearOnEntry
  <1>1. IInv => DoWakeClearOnEntry
    BY DEF IInv, TypeOK, OneClaim, DoWakeClearOnEntry
  <1>2. QED
    BY <1>1, Invariance, PTL

\* The store of do_wake, the load of reason and the two exchanges never let an
\* accepted reason go unnoticed.
THEOREM NoWakeLost == Spec => []NoLostWake
  <1>1. IInv => NoLostWake
    BY DEF IInv
  <1>2. QED
    BY <1>1, Invariance, PTL

\* Safety part of the refinement: a stack waiter accepts one reason per wait
\* and returns that one.
THEOREM Refinement == Spec => Abs!AbsSafeSpec
  <1>1. Init => Abs!AbsInit
    BY DEF Init, Abs!AbsInit
  <1>2. IInv /\ IInv' /\ [Next]_vars => [Abs!AbsNext]_(Abs!absVars)
    <2> DEFINE Step == Abs!AbsNext \/ UNCHANGED Abs!absVars
    <2> SUFFICES ASSUME IInv, IInv', [Next]_vars PROVE Step
      OBVIOUS
    <2> USE ReasonsAssumption DEF IInv, TypeOK, fields, postVars, wakerVars, Abs!absVars
    <2>1. CASE Prepare
      BY <2>1 DEF Prepare, Abs!AbsNext, Abs!Arm
    <2>2. CASE SpinDone
      BY <2>2 DEF SpinDone, ReasonKept, Delivered, Abs!AbsNext, Abs!Return
    <2>3. CASE Leave
      BY <2>3 DEF Leave, Abs!AbsNext, Abs!Leave
    <2>4. ASSUME NEW w \in Wakers, NEW r \in Reasons, WakeSetReason(w, r) PROVE Step
      BY <2>4 DEF WakeSetReason, Reachable, ReasonKept, Delivered, Abs!AbsNext, Abs!Accept
    <2>5. CASE OpDone \/ StartWait \/ Switch \/ Resume \/ SpinAgain
      BY <2>5 DEF OpDone, StartWait, Switch, Resume, SpinAgain
    <2>6. CASE Post
      <3>1. UNCHANGED <<reason, fpc, on_stack>>
        BY <2>6 DEF Post, PostStoreDoWake, PostLoadReason, PostExchange, PostStoreReason,
           PostClear, PostPush
      <3>2. fpc = "returned" => wake_reason' = wake_reason
        BY <2>6 DEF Post, PostStoreDoWake, PostLoadReason, PostExchange, PostStoreReason,
           PostClear, PostPush, OneClaim, PostClaims
      <3>3. QED
        BY <3>1, <3>2
    <2>7. ASSUME NEW w \in Wakers, WakeRest(w) PROVE Step
      <3>1. UNCHANGED <<reason, fpc, on_stack>>
        BY <2>7 DEF WakeRest, WakeExchange, WakeStoreReason, WakeClear, WakePush
      <3>2. fpc = "returned" => wake_reason' = wake_reason
        BY <2>7 DEF WakeRest, WakeExchange, WakeStoreReason, WakeClear, WakePush,
           OneClaim, Claims
      <3>3. QED
        BY <3>1, <3>2
    <2>8. CASE UNCHANGED vars
      BY <2>8 DEF vars
    <2>9. QED
      BY <2>1, <2>2, <2>3, <2>4, <2>5, <2>6, <2>7, <2>8 DEF Next, Fiber
  <1>3. QED
    BY <1>1, <1>2, Invariance, PTL DEF Spec, Abs!AbsSafeSpec
==============================================================================
