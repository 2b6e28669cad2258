----------------------------- MODULE TimersProofs -----------------------------
(***************************************************************************)
(* The safety of timed waits for any number of fibers and of polling        *)
(* workers, any clock bound and any deadlines.                              *)
(***************************************************************************)
EXTENDS Timers, TLAPS

\* Positions between taking and releasing bucket->lock.
LockPositions ==
  {"add_min", "add_arm", "del_min", "del_arm", "proc_null", "expire", "proc_min", "proc_arm"}

LockHeld == \A f \in Fibers : pc[f] \in LockPositions <=> lock = f

\* Positions at which the timer of a fiber has been added and not yet deleted
\* by the fiber itself.
AddedPositions == {"add_min", "add_arm", "wait", "del", "process", "proc_null", "expire"}

\* A timer is in the bucket from the time it is added until it has expired or
\* its fiber deletes it.
InBucket ==
  \A f \in Fibers : f \in timers <=> pc[f] \in AddedPositions /\ ~expired[f]

\* The first timer of the bucket is one with the earliest deadline.
FirstIsMin == IsFirst(first, timers)

\* Who is first at each position under bucket->lock.
FirstUnderLock ==
  \A f \in Fibers :
    /\ pc[f] \in {"add_min", "add_arm"} => first = f
    /\ pc[f] \in {"del_arm", "proc_min", "proc_arm"} => first # NULL

\* What bucket->min is at each position under bucket->lock, and without it.
MinStored ==
  /\ lock = NULL => min = first
  /\ \A f \in Fibers :
       /\ pc[f] = "add_min" => min \in timers \cup {NULL}
       /\ pc[f] = "del_min" => min = f
       /\ pc[f] \in {"add_arm", "del_arm", "proc_null", "proc_arm"} => min = first
       /\ pc[f] \in {"expire", "proc_min"} => min = NULL

\* A poller that holds bucket->min_lock looks at the current minimum.
PollerLooks ==
  \A p \in Pollers :
    /\ ppc[p] = "wake" <=> minLock = p
    /\ got[p] = IF ppc[p] = "wake" THEN min ELSE NULL

\* Timers expire, and fibers are told so, only after the deadline.
ExpiredIsOver ==
  \A f \in Fibers :
    /\ seen[f] <= now
    /\ expired[f] => /\ time[f] <= now
                      /\ pc[f] \notin {"idle", "add", "add_min", "add_arm"}
                      /\ reason[f] # "NONE"
    /\ reason[f] = "NO_CHECK" => expired[f]
    /\ res[f] = "ETIMEDOUT" => expired[f]

\* Every fiber that waits for its deadline or another reason is covered by the
\* first timer: its timer is in the bucket and the first one is due no later.
\* With NoLostTimeout, some timeout that is early enough is on its way to it.
WaiterCovered ==
  \A f \in Fibers : pc[f] = "wait" /\ reason[f] = "NONE" =>
    f \in timers /\ first # NULL /\ time[first] <= time[f]

IInv ==
  /\ TypeOK /\ LockHeld /\ InBucket /\ FirstIsMin /\ FirstUnderLock
  /\ MinStored /\ PollerLooks /\ ExpiredIsOver /\ NoLostTimeout
-----------------------------------------------------------------------------

\* The inductive invariant holds of an empty bucket.
LEMMA InitIInv == Init => IInv
  <1>. SUFFICES ASSUME Init PROVE IInv
    OBVIOUS
  <1>1. TypeOK
    <2>1. now \in 0..MaxNow /\ armed \in 0..MaxNow /\ time \in [Fibers -> Deadlines] /\ seen \in [Fibers -> 0..MaxNow]
      BY TimersAssumption DEF Init, Deadlines, Unarmed
    <2>2. fired \in BOOLEAN /\ expired \in [Fibers -> BOOLEAN]
      BY Zenon DEF Init
    <2>3. lock = NULL /\ timers = {} /\ first = NULL /\ min = NULL /\ minLock = NULL
      BY DEF Init
    <2>4. /\ pc \in [Fibers -> Positions] /\ ppc \in [Pollers -> {"poll", "lock", "wake"}]
          /\ reason \in [Fibers -> {"NONE", "READY", "CHECK", "NO_CHECK"}]
          /\ res \in [Fibers -> {"OK", "EAGAIN", "ETIMEDOUT", "ENOMEM"}]
          /\ got \in [Pollers -> Fibers \cup {NULL}]
      BY DEF Init, Positions
    <2>. QED BY <2>1, <2>2, <2>3, <2>4 DEF TypeOK
  <1>2. LockHeld /\ InBucket /\ FirstIsMin /\ FirstUnderLock /\ MinStored
    BY TimersAssumption DEF Init, LockHeld, LockPositions, InBucket, AddedPositions, FirstIsMin, IsFirst,
       FirstUnderLock, MinStored
  <1>3. PollerLooks /\ ExpiredIsOver /\ NoLostTimeout
    BY TimersAssumption DEF Init, PollerLooks, ExpiredIsOver, NoLostTimeout
  <1>. QED BY <1>1, <1>2, <1>3 DEF IInv

\* fev_timed_wait() and fev_timers_add() keep it.
LEMMA AddHolds ==
  ASSUME IInv, NEW f \in Fibers,
         TimedWait(f) \/ AddFails(f) \/ AddBehind(f) \/ AddFirst(f) \/ AddMin(f) \/ AddArm(f)
  PROVE  IInv'
  <1>. USE TimersAssumption DEF IInv, TypeOK, Positions, Deadlines, Unarmed, LockHeld, LockPositions,
       InBucket, AddedPositions, FirstIsMin, IsFirst, FirstUnderLock, MinStored, PollerLooks,
       ExpiredIsOver, NoLostTimeout, Goto, Return, StoreMin, SetTimeout,
       clockVars, bucketVars, pollVars, fiberVars
  <1>1. CASE TimedWait(f)
    BY <1>1 DEF TimedWait
  <1>2. CASE AddFails(f)
    BY <1>2 DEF AddFails
  <1>3. CASE AddBehind(f)
    BY <1>3 DEF AddBehind
  <1>4. CASE AddFirst(f)
    BY <1>4 DEF AddFirst
  <1>5. CASE AddMin(f)
    BY <1>5 DEF AddMin
  <1>6. CASE AddArm(f)
    <2>1. fired' \in BOOLEAN
      BY <1>6, Zenon DEF AddArm
    <2>. QED BY <1>6, <2>1 DEF AddArm
  <1>. QED BY <1>1, <1>2, <1>3, <1>4, <1>5, <1>6

\* So do the wake-ups and the ends of a wait.
LEMMA WaitHolds ==
  ASSUME IInv, NEW f \in Fibers,
         Ready(f) \/ WaitReady(f) \/ WaitTimedOut(f) \/ WaitCheck(f) \/ Leave(f)
  PROVE  IInv'
  <1>. USE TimersAssumption DEF IInv, TypeOK, Positions, Deadlines, Unarmed, LockHeld, LockPositions,
       InBucket, AddedPositions, FirstIsMin, IsFirst, FirstUnderLock, MinStored, PollerLooks,
       ExpiredIsOver, NoLostTimeout, Goto, Return, StoreMin, SetTimeout,
       clockVars, bucketVars, pollVars, fiberVars
  <1>1. CASE Ready(f)
    BY <1>1 DEF Ready
  <1>2. CASE WaitReady(f)
    BY <1>2 DEF WaitReady
  <1>3. CASE WaitTimedOut(f)
    BY <1>3 DEF WaitTimedOut
  <1>4. CASE WaitCheck(f)
    BY <1>4 DEF WaitCheck
  <1>5. CASE Leave(f)
    BY <1>5 DEF Leave
  <1>. QED BY <1>1, <1>2, <1>3, <1>4, <1>5

\* fev_timers_del() keeps it.
LEMMA DelHolds ==
  ASSUME IInv, NEW f \in Fibers,
         DelExpired(f) \/ DelBehind(f) \/ DelFirst(f) \/ DelMin(f) \/ DelArm(f)
  PROVE  IInv'
  <1>. USE TimersAssumption DEF IInv, TypeOK, Positions, Deadlines, Unarmed, LockHeld, LockPositions,
       InBucket, AddedPositions, FirstIsMin, IsFirst, FirstUnderLock, MinStored, PollerLooks,
       ExpiredIsOver, NoLostTimeout, Goto, Return, StoreMin, SetTimeout,
       clockVars, bucketVars, pollVars, fiberVars
  <1>1. CASE DelExpired(f)
    BY <1>1 DEF DelExpired
  <1>2. CASE DelBehind(f)
    BY <1>2 DEF DelBehind
  <1>3. CASE DelFirst(f)
    BY <1>3 DEF DelFirst
  <1>4. CASE DelMin(f)
    BY <1>4 DEF DelMin
  <1>5. CASE DelArm(f)
    <2>1. fired' \in BOOLEAN
      BY <1>5, Zenon DEF DelArm
    <2>. QED BY <1>5, <2>1 DEF DelArm
  <1>. QED BY <1>1, <1>2, <1>3, <1>4, <1>5

\* fev_timers_process() and fev_timers_wake_expired() keep it.
LEMMA ProcessHolds ==
  ASSUME IInv, NEW f \in Fibers,
         Process(f) \/ ProcessNull(f) \/ Expire(f) \/ ExpireEnds(f) \/ ProcessMin(f) \/ ProcessArm(f)
  PROVE  IInv'
  <1>. USE TimersAssumption DEF IInv, TypeOK, Positions, Deadlines, Unarmed, LockHeld, LockPositions,
       InBucket, AddedPositions, FirstIsMin, IsFirst, FirstUnderLock, MinStored, PollerLooks,
       ExpiredIsOver, NoLostTimeout, Goto, Return, StoreMin, SetTimeout,
       clockVars, bucketVars, pollVars, fiberVars
  <1>1. CASE Process(f)
    BY <1>1 DEF Process
  <1>2. CASE ProcessNull(f)
    BY <1>2 DEF ProcessNull
  <1>3. CASE Expire(f)
    BY <1>3 DEF Expire
  <1>4. CASE ExpireEnds(f)
    BY <1>4 DEF ExpireEnds
  <1>5. CASE ProcessMin(f)
    BY <1>5 DEF ProcessMin
  <1>6. CASE ProcessArm(f)
    <2>1. fired' \in BOOLEAN
      BY <1>6, Zenon DEF ProcessArm
    <2>. QED BY <1>6, <2>1 DEF ProcessArm
  <1>. QED BY <1>1, <1>2, <1>3, <1>4, <1>5, <1>6

\* The clock and the timer fd keep it.
LEMMA ClockHolds ==
  ASSUME IInv, 
         Tick \/ Fire
  PROVE  IInv'
  <1>. USE TimersAssumption DEF IInv, TypeOK, Positions, Deadlines, Unarmed, LockHeld, LockPositions,
       InBucket, AddedPositions, FirstIsMin, IsFirst, FirstUnderLock, MinStored, PollerLooks,
       ExpiredIsOver, NoLostTimeout, Goto, Return, StoreMin, SetTimeout,
       clockVars, bucketVars, pollVars, fiberVars
  <1>1. CASE Tick
    BY <1>1 DEF Tick
  <1>2. CASE Fire
    BY <1>2 DEF Fire
  <1>. QED BY <1>1, <1>2

\* A polling worker keeps it.
LEMMA PollHolds ==
  ASSUME IInv, NEW p \in Pollers,
         PollTake(p) \/ PollLock(p) \/ PollWake(p)
  PROVE  IInv'
  <1>. USE TimersAssumption DEF IInv, TypeOK, Positions, Deadlines, Unarmed, LockHeld, LockPositions,
       InBucket, AddedPositions, FirstIsMin, IsFirst, FirstUnderLock, MinStored, PollerLooks,
       ExpiredIsOver, NoLostTimeout, Goto, Return, StoreMin, SetTimeout,
       clockVars, bucketVars, pollVars, fiberVars
  <1>1. CASE PollTake(p)
    <2>1. fired' \in BOOLEAN
      BY <1>1, Zenon DEF PollTake
    <2>. QED BY <1>1, <2>1 DEF PollTake
  <1>2. CASE PollLock(p)
    BY <1>2 DEF PollLock
  <1>3. CASE PollWake(p)
    BY <1>3 DEF PollWake
  <1>. QED BY <1>1, <1>2, <1>3
\* The inductive invariant holds in every state of the bucket.
THEOREM Invariance == Spec => []IInv
  <1>1. IInv /\ [Next]_vars => IInv'
    <2>. SUFFICES ASSUME IInv, [Next]_vars PROVE IInv'
      OBVIOUS
    <2>1. CASE Tick \/ Fire
      BY <2>1, ClockHolds
    <2>2. ASSUME NEW f \in Fibers, TimedWait(f) \/ Ready(f) PROVE IInv'
      BY <2>2, AddHolds, WaitHolds
    <2>3. ASSUME NEW f \in Fibers, TakesLock(f) PROVE IInv'
      BY <2>3, AddHolds, DelHolds, ProcessHolds DEF TakesLock
    <2>4. ASSUME NEW f \in Fibers, StoresMin(f) PROVE IInv'
      BY <2>4, AddHolds, DelHolds, ProcessHolds DEF StoresMin
    <2>5. ASSUME NEW f \in Fibers, Rest(f) PROVE IInv'
      BY <2>5, AddHolds, WaitHolds, DelHolds, ProcessHolds DEF Rest
    <2>6. ASSUME NEW p \in Pollers, Poller(p) PROVE IInv'
      BY <2>6, PollHolds DEF Poller
    <2>7. CASE UNCHANGED vars
      BY <2>7 DEF vars, clockVars, bucketVars, fiberVars, pollVars, IInv, TypeOK, LockHeld, InBucket,
         FirstIsMin, IsFirst, FirstUnderLock, MinStored, PollerLooks, ExpiredIsOver, NoLostTimeout
    <2>. QED BY <2>1, <2>2, <2>3, <2>4, <2>5, <2>6, <2>7 DEF Next
  <1>. QED BY InitIInv, <1>1, PTL DEF Spec

-----------------------------------------------------------------------------

\* The bucket, the timer fd and the positions keep to their ranges.
THEOREM TypeCorrect == Spec => []TypeOK
  <1>1. IInv => TypeOK
    BY DEF IInv
  <1>. QED BY <1>1, Invariance, PTL

\* No polling worker ever dereferences a timer in a stack frame that is gone:
\* bucket->min is the first timer of the bucket or belongs to a fiber that is
\* still inside fev_timers_add(), fev_timers_del() or fev_timers_process(), and
\* it does not change while bucket->min_lock is held.
THEOREM NoDanglingTimer == Spec => []NoDanglingMin
  <1>1. IInv => NoDanglingMin
    <2>. SUFFICES ASSUME IInv PROVE NoDanglingMin
      OBVIOUS
    <2>1. min # NULL => Live(min)
      BY TimersAssumption DEF IInv, TypeOK, Positions, LockHeld, LockPositions, InBucket, AddedPositions,
         FirstUnderLock, MinStored, Live
    <2>. QED BY <2>1 DEF IInv, PollerLooks, NoDanglingMin
  <1>. QED BY <1>1, Invariance, PTL

\* While timers wait and nobody changes the bucket, the timeout of the first
\* one is set, on its way to a poller, or has reached the fiber.
THEOREM TimeoutKept == Spec => []NoLostTimeout
  <1>1. IInv => NoLostTimeout
    BY DEF IInv
  <1>. QED BY <1>1, Invariance, PTL

\* The timer of a fiber that waits is in the bucket behind one that is due no
\* later, so that TimeoutKept speaks for every fiber that waits.
THEOREM EveryWaiterCovered == Spec => []WaiterCovered
  <1>1. IInv => WaiterCovered
    BY TimersAssumption DEF IInv, TypeOK, InBucket, AddedPositions, FirstIsMin, IsFirst, ExpiredIsOver,
       WaiterCovered
  <1>. QED BY <1>1, Invariance, PTL

\* fev_timed_wait() returns ETIMEDOUT only after the deadline.
THEOREM NotEarly == Spec => []NoEarlyTimeout
  <1>1. IInv => NoEarlyTimeout
    BY DEF IInv, ExpiredIsOver, NoEarlyTimeout
  <1>. QED BY <1>1, Invariance, PTL
===============================================================================
