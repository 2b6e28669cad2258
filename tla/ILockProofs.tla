----------------------------- MODULE ILockProofs -----------------------------
(***************************************************************************)
(* Proofs about fev_ilock for any set of fibers, and about the mutex of      *)
(* threads for any set of threads.                                          *)
(***************************************************************************)
EXTENDS ILock, TLAPS

\* Positions between taking and releasing the thread-level lock.
InnerPositions ==
  {"exchange", "store", "unlock_inner", "append", "switching", "pop", "release"}

\* The thread-level lock excludes; a parked fiber holds it until its post.
InnerHeld ==
  /\ \A f \in Fibers : pc[f] \in InnerPositions => inner = f
  /\ \A f \in Fibers : inner = f => pc[f] \in InnerPositions \cup {"parked"}

\* Queued fibers are blocked, nobody's successor yet and queued once.
Queued ==
  /\ \A i \in 1..Len(waiters) :
       /\ pc[waiters[i]] \in {"switching", "parked"}
       /\ ~Granted(waiters[i])
       /\ runq[waiters[i]] = 0
  /\ \A i, j \in 1..Len(waiters) : waiters[i] = waiters[j] => i = j

\* An unlocker in the slow path carries one successor.
HandedOver ==
  /\ \A g \in Fibers : pc[g] \in {"release", "push"} =>
       next[g] \in Fibers /\ runq[next[g]] = 0
  /\ \A g, h \in Fibers :
       pc[g] \in {"release", "push"} /\ pc[h] \in {"release", "push"}
         => g = h \/ next[g] # next[h]

\* A blocked fiber is in the FIFO until it is handed the lock.
Accounted ==
  \A f \in Fibers : pc[f] \in {"switching", "parked"} =>
    Owns(f) \/ \E i \in 1..Len(waiters) : waiters[i] = f

\* The state word against the owner and the queue, at every single step.
StateWord ==
  /\ state = 0 <=> \A f \in Fibers : ~Owns(f)
  /\ state = 2 <=> \/ waiters # <<>>
                   \/ \E f \in Fibers : pc[f] \in {"append", "store"}
  /\ \A f \in Fibers : pc[f] \in {"unlock_slow", "pop"} => state = 2
  /\ \A f \in Fibers : pc[f] = "store" => waiters = <<>>

IInv ==
  /\ TypeOK
  /\ InnerHeld
  /\ Queued
  /\ HandedOver
  /\ MutualExclusion
  /\ ResumedAfterSave
  /\ StateWord
  /\ Accounted
-----------------------------------------------------------------------------

\* The inductive invariant holds of a fresh ilock.
LEMMA InitHolds == Init => IInv
  BY NULLAssumption DEF Init, IInv, TypeOK, InnerHeld, Queued, HandedOver, MutualExclusion,
     ResumedAfterSave, StateWord, Accounted, Owns, Granted, InnerPositions, Positions

\* Every step of a locking or unlocking fiber keeps it.
LEMMA StepHolds == IInv /\ [Next]_vars => IInv'
  <1> SUFFICES ASSUME IInv, [Next]_vars PROVE IInv'
    OBVIOUS
  <1> USE NULLAssumption
  <1> USE DEF IInv, TypeOK, InnerHeld, Queued, HandedOver, MutualExclusion,
     ResumedAfterSave, StateWord, Accounted, Owns, Granted, InnerPositions, Positions, Goto
  <1>1. ASSUME NEW f \in Fibers, LockFast(f) PROVE IInv'
    BY <1>1 DEF LockFast
  <1>2. ASSUME NEW f \in Fibers, LockFastFails(f) PROVE IInv'
    BY <1>2 DEF LockFastFails
  <1>3. ASSUME NEW f \in Fibers, SlowAcquire(f) PROVE IInv'
    BY <1>3 DEF SlowAcquire
  <1>4. ASSUME NEW f \in Fibers, SlowExchange(f) PROVE IInv'
    BY <1>4 DEF SlowExchange
  <1>5. ASSUME NEW f \in Fibers, SlowStore(f) PROVE IInv'
    BY <1>5 DEF SlowStore
  <1>6. ASSUME NEW f \in Fibers, SlowUnlockInner(f) PROVE IInv'
    BY <1>6 DEF SlowUnlockInner
  <1>7. ASSUME NEW f \in Fibers, SlowAppend(f) PROVE IInv'
    <2>1. TypeOK'
      BY <1>7 DEF SlowAppend
    <2>2. InnerHeld'
      BY <1>7 DEF SlowAppend
    <2>3. Queued'
      BY <1>7 DEF SlowAppend
    <2>4. HandedOver'
      BY <1>7 DEF SlowAppend
    <2>5. MutualExclusion'
      BY <1>7 DEF SlowAppend
    <2>6. ResumedAfterSave'
      BY <1>7 DEF SlowAppend
    <2>7. StateWord'
      BY <1>7 DEF SlowAppend
    <2>8. Accounted'
      BY <1>7 DEF SlowAppend
    <2>9. QED
      BY <2>1, <2>2, <2>3, <2>4, <2>5, <2>6, <2>7, <2>8
  <1>8. ASSUME NEW f \in Fibers, SlowSwitch(f) PROVE IInv'
    <2>1. TypeOK'
      BY <1>8 DEF SlowSwitch
    <2>2. InnerHeld'
      BY <1>8 DEF SlowSwitch
    <2>3. Queued'
      BY <1>8 DEF SlowSwitch
    <2>4. HandedOver'
      BY <1>8 DEF SlowSwitch
    <2>5. MutualExclusion'
      BY <1>8 DEF SlowSwitch
    <2>6. ResumedAfterSave'
      BY <1>8 DEF SlowSwitch
    <2>7. StateWord'
      BY <1>8 DEF SlowSwitch
    <2>8. Accounted'
      BY <1>8 DEF SlowSwitch
    <2>9. QED
      BY <2>1, <2>2, <2>3, <2>4, <2>5, <2>6, <2>7, <2>8
  <1>9. ASSUME NEW f \in Fibers, LockPost(f) PROVE IInv'
    BY <1>9 DEF LockPost
  <1>10. ASSUME NEW f \in Fibers, Resume(f) PROVE IInv'
    <2>1. TypeOK'
      BY <1>10 DEF Resume
    <2>2. InnerHeld'
      BY <1>10 DEF Resume
    <2>3. Queued'
      BY <1>10 DEF Resume
    <2>4. HandedOver'
      BY <1>10 DEF Resume
    <2>5. MutualExclusion'
      BY <1>10 DEF Resume
    <2>6. ResumedAfterSave'
      BY <1>10 DEF Resume
    <2>7. StateWord'
      BY <1>10 DEF Resume
    <2>8. Accounted'
      BY <1>10 DEF Resume
    <2>9. QED
      BY <2>1, <2>2, <2>3, <2>4, <2>5, <2>6, <2>7, <2>8
  <1>11. ASSUME NEW f \in Fibers, UnlockFast(f) PROVE IInv'
    BY <1>11 DEF UnlockFast
  <1>12. ASSUME NEW f \in Fibers, UnlockFastFails(f) PROVE IInv'
    BY <1>12 DEF UnlockFastFails
  <1>13. ASSUME NEW f \in Fibers, UnlockSlowAcquire(f) PROVE IInv'
    BY <1>13 DEF UnlockSlowAcquire
  <1>14. ASSUME NEW f \in Fibers, UnlockSlowPop(f) PROVE IInv'
    <2>0. Head(waiters) = waiters[1] /\ 1 \in 1..Len(waiters)
      BY <1>14 DEF UnlockSlowPop
    <2>1. TypeOK'
      BY <1>14 DEF UnlockSlowPop
    <2>2. InnerHeld'
      BY <1>14 DEF UnlockSlowPop
    <2>3. Queued'
      BY <1>14 DEF UnlockSlowPop
    <2>4. HandedOver'
      BY <1>14 DEF UnlockSlowPop
    <2>5. MutualExclusion'
      BY <1>14 DEF UnlockSlowPop
    <2>6. ResumedAfterSave'
      BY <1>14, <2>0 DEF UnlockSlowPop
    <2>7. StateWord'
      BY <1>14 DEF UnlockSlowPop
    <2>8. Accounted'
      <3> SUFFICES ASSUME NEW g \in Fibers, pc'[g] \in {"switching", "parked"}, ~Owns(g)'
                   PROVE  \E i \in 1..Len(waiters') : waiters'[i] = g
        OBVIOUS
      <3>1. ~Owns(g) /\ pc[g] \in {"switching", "parked"} /\ g # Head(waiters)
        BY <1>14 DEF UnlockSlowPop
      <3>2. PICK i \in 1..Len(waiters) : waiters[i] = g
        BY <3>1
      <3>3. i # 1 /\ i - 1 \in 1..Len(waiters') /\ waiters'[i - 1] = g
        BY <1>14, <2>0, <3>1, <3>2 DEF UnlockSlowPop
      <3>4. QED
        BY <3>3
    <2>9. QED
      BY <2>1, <2>2, <2>3, <2>4, <2>5, <2>6, <2>7, <2>8
  <1>15. ASSUME NEW f \in Fibers, UnlockSlowRelease(f) PROVE IInv'
    BY <1>15 DEF UnlockSlowRelease
  <1>16. ASSUME NEW f \in Fibers, UnlockWake(f) PROVE IInv'
    <2>1. TypeOK'
      BY <1>16 DEF UnlockWake
    <2>2. InnerHeld'
      BY <1>16 DEF UnlockWake
    <2>3. Queued'
      BY <1>16 DEF UnlockWake
    <2>4. HandedOver'
      BY <1>16 DEF UnlockWake
    <2>5. MutualExclusion'
      BY <1>16 DEF UnlockWake
    <2>6. ResumedAfterSave'
      BY <1>16 DEF UnlockWake
    <2>7. StateWord'
      BY <1>16 DEF UnlockWake
    <2>8. Accounted'
      BY <1>16 DEF UnlockWake
    <2>9. QED
      BY <2>1, <2>2, <2>3, <2>4, <2>5, <2>6, <2>7, <2>8
  <1>17. CASE UNCHANGED vars
    BY <1>17 DEF vars
  <1>18. QED
    BY <1>1, <1>2, <1>3, <1>4, <1>5, <1>6, <1>7, <1>8, <1>9, <1>10, <1>11, <1>12, <1>13, <1>14, <1>15, <1>16, <1>17 DEF Next, Lock, LockRest, Unlock

\* The inductive invariant holds for any number of fibers.
THEOREM Invariance == Spec => []IInv
  BY InitHolds, StepHolds, PTL DEF Spec

\* TypeOK: the state word keeps to 0, 1, 2 and unlocking pushes nobody twice.
THEOREM TypeCorrect == Spec => []TypeOK
  <1>1. IInv => TypeOK
    BY DEF IInv
  <1>2. QED
    BY <1>1, Invariance, PTL

\* fev_ilock_lock() and fev_ilock_unlock() keep at most one owner.
THEOREM Exclusion == Spec => []MutualExclusion
  <1>1. IInv => MutualExclusion
    BY DEF IInv
  <1>2. QED
    BY <1>1, Invariance, PTL

\* The comment on `state` in fev_ilock_intf.h is accurate.
THEOREM StateDocumented == Spec => []StateMeaning
  <1>1. IInv => StateMeaning
    BY NULLAssumption DEF IInv, StateWord, InnerHeld, InnerPositions, StateMeaning
  <1>2. QED
    BY <1>1, Invariance, PTL

\* The assertions of fev_ilock_unlock_slow() never fail.
THEOREM AssertionsHold == Spec => []UnlockSlowAsserts
  <1>1. IInv => UnlockSlowAsserts
    BY DEF IInv, StateWord, InnerHeld, InnerPositions, UnlockSlowAsserts
  <1>2. QED
    BY <1>1, Invariance, PTL

\* A fiber is never resumed while its worker is still switching away from it.
THEOREM ContextSaved == Spec => []ResumedAfterSave
  <1>1. IInv => ResumedAfterSave
    BY DEF IInv
  <1>2. QED
    BY <1>1, Invariance, PTL

\* A blocked fiber stays reachable for the unlockers.
THEOREM NobodyStranded == Spec => []NoStrandedFiber
  <1>1. IInv => NoStrandedFiber
    <2> SUFFICES ASSUME IInv PROVE NoStrandedFiber
      OBVIOUS
    <2>1. DOMAIN waiters = 1..Len(waiters)
      BY DEF IInv, TypeOK
    <2>2. QED
      BY <2>1 DEF IInv, Accounted, NoStrandedFiber
  <1>2. QED
    BY <1>1, Invariance, PTL

\* The choice in the refinement mapping is determined for a single owner.
LEMMA SingleChoice == ASSUME NEW x PROVE (CHOOSE f \in {x} : TRUE) = x
  OBVIOUS

\* fev_ilock implements the FIFO lock with direct hand-over of ILockAbs.
THEOREM Refinement == Spec => AbsRefined
  <1>1. Init => Abs!AbsInit
    BY DEF Init, Abs!AbsInit, Owners, Owns, Granted
  <1>2. IInv /\ IInv' /\ [Next]_vars => [Abs!AbsNext]_(Abs!absVars)
    <2> SUFFICES ASSUME IInv, IInv', [Next]_vars
                 PROVE  Abs!AbsNext \/ UNCHANGED Abs!absVars
      OBVIOUS
    <2> DEFINE Step == Abs!AbsNext \/ UNCHANGED Abs!absVars
    <2> USE NULLAssumption
    <2>1. ASSUME NEW f \in Fibers, Owners = {}, Owners' = {f}, UNCHANGED waiters
          PROVE  Step
      BY <2>1, SingleChoice DEF Abs!AbsNext, Abs!Acquire
    <2>2. ASSUME Owners' = Owners, UNCHANGED waiters PROVE Step
      BY <2>2 DEF Abs!absVars
    <2>3. ASSUME NEW f \in Fibers, LockFast(f) PROVE Step
      <3>1. Owners = {} /\ Owners' = {f} /\ UNCHANGED waiters
        BY <2>3 DEF LockFast, Goto, IInv, TypeOK, StateWord, Owners, Owns, Granted
      <3>2. QED
        BY <2>1, <3>1
    <2>4. ASSUME NEW f \in Fibers, SlowExchange(f) PROVE Step
      <3>1. CASE state = 0
        <4>1. Owners = {} /\ Owners' = {f} /\ UNCHANGED waiters
          BY <2>4, <3>1 DEF SlowExchange, Goto, IInv, TypeOK, StateWord, Owners, Owns, Granted
        <4>2. QED
          BY <2>1, <4>1
      <3>2. CASE state # 0
        <4>1. Owners' = Owners /\ UNCHANGED waiters
          BY <2>4, <3>2 DEF SlowExchange, Goto, IInv, TypeOK, Owners, Owns, Granted
        <4>2. QED
          BY <2>2, <4>1
      <3>3. QED
        BY <3>1, <3>2
    <2>5. ASSUME NEW f \in Fibers, SlowAppend(f) PROVE Step
      <3>1. Owners' = Owners /\ waiters' = Append(waiters, f)
        BY <2>5 DEF SlowAppend, Goto, IInv, TypeOK, Owners, Owns, Granted
      <3>2. PICK g \in Fibers : Owns(g)
        BY <2>5 DEF SlowAppend, Goto, IInv, StateWord
      <3>3. Owners = {g}
        BY <3>2 DEF IInv, MutualExclusion, Owners
      <3>4. QED
        BY <3>1, <3>3, SingleChoice DEF Abs!AbsNext, Abs!Enqueue
    <2>6. ASSUME NEW f \in Fibers, UnlockFast(f) PROVE Step
      <3>1. Owners = {f}
        BY <2>6 DEF UnlockFast, Goto, IInv, MutualExclusion, Owners, Owns
      <3>2. Owners' = {} /\ waiters = <<>> /\ UNCHANGED waiters
        BY <2>6 DEF UnlockFast, IInv, StateWord, Owners
      <3>3. QED
        BY <3>1, <3>2, SingleChoice DEF Abs!AbsNext, Abs!Release
    <2>7. ASSUME NEW f \in Fibers, UnlockSlowPop(f) PROVE Step
      <3>1. Owners = {f}
        BY <2>7 DEF UnlockSlowPop, Goto, IInv, MutualExclusion, Owners, Owns
      <3>2. PICK h \in Fibers : h = Head(waiters)
        BY <2>7 DEF UnlockSlowPop, IInv, TypeOK
      <3>3. Granted(h)'
        BY <2>7, <3>2 DEF UnlockSlowPop, Goto, IInv, TypeOK, Granted
      <3>4. Owners' = {h}
        BY <3>3 DEF IInv, MutualExclusion, Owners, Owns
      <3>5. QED
        BY <2>7, <3>1, <3>2, <3>4, SingleChoice DEF UnlockSlowPop, Abs!AbsNext, Abs!HandOff
    <2>8. ASSUME NEW f \in Fibers, LockFastFails(f) PROVE Step
      BY <2>2, <2>8 DEF LockFastFails, Goto, IInv, TypeOK, HandedOver, Owners, Owns, Granted
    <2>9. ASSUME NEW f \in Fibers, SlowAcquire(f) PROVE Step
      BY <2>2, <2>9 DEF SlowAcquire, Goto, IInv, TypeOK, HandedOver, Owners, Owns, Granted
    <2>10. ASSUME NEW f \in Fibers, SlowStore(f) PROVE Step
      BY <2>2, <2>10 DEF SlowStore, Goto, IInv, TypeOK, HandedOver, Owners, Owns, Granted
    <2>11. ASSUME NEW f \in Fibers, SlowUnlockInner(f) PROVE Step
      BY <2>2, <2>11 DEF SlowUnlockInner, Goto, IInv, TypeOK, HandedOver, Owners, Owns, Granted
    <2>12. ASSUME NEW f \in Fibers, SlowSwitch(f) PROVE Step
      BY <2>2, <2>12 DEF SlowSwitch, Goto, IInv, TypeOK, HandedOver, Owners, Owns, Granted
    <2>13. ASSUME NEW f \in Fibers, LockPost(f) PROVE Step
      BY <2>2, <2>13 DEF LockPost, Goto, IInv, TypeOK, HandedOver, Owners, Owns, Granted
    <2>14. ASSUME NEW f \in Fibers, Resume(f) PROVE Step
      BY <2>2, <2>14 DEF Resume, Goto, IInv, TypeOK, HandedOver, Owners, Owns, Granted
    <2>15. ASSUME NEW f \in Fibers, UnlockFastFails(f) PROVE Step
      BY <2>2, <2>15 DEF UnlockFastFails, Goto, IInv, TypeOK, HandedOver, Owners, Owns, Granted
    <2>16. ASSUME NEW f \in Fibers, UnlockSlowAcquire(f) PROVE Step
      BY <2>2, <2>16 DEF UnlockSlowAcquire, Goto, IInv, TypeOK, HandedOver, Owners, Owns, Granted
    <2>17. ASSUME NEW f \in Fibers, UnlockSlowRelease(f) PROVE Step
      BY <2>2, <2>17 DEF UnlockSlowRelease, Goto, IInv, TypeOK, HandedOver, Owners, Owns, Granted
    <2>18. ASSUME NEW f \in Fibers, UnlockWake(f) PROVE Step
      BY <2>2, <2>18 DEF UnlockWake, Goto, IInv, TypeOK, HandedOver, Owners, Owns, Granted
    <2>19. CASE UNCHANGED vars
      BY <2>2, <2>19 DEF vars, Owners, Owns, Granted
    <2>20. QED
      BY <2>3, <2>4, <2>5, <2>6, <2>7, <2>8, <2>9, <2>10, <2>11, <2>12, <2>13, <2>14, <2>15, <2>16, <2>17, <2>18, <2>19 DEF Next, Lock, LockRest, Unlock
  <1>3. QED
    BY <1>1, <1>2, Invariance, PTL DEF Spec, AbsRefined, Abs!AbsSpec

-----------------------------------------------------------------------------
\* The mutex of threads on Linux, which is the lock inside fev_ilock, for any
\* set of threads.

CONSTANT Threads

VARIABLES thr_state, thr_pc

Thr == INSTANCE ThrMutex WITH state <- thr_state, pc <- thr_pc

\* A thread that owns the mutex keeps the state away from 0, which is what the
\* exchanges of fev_thr_mutex_lock() test.
OwnedIsLocked == \A t \in Threads : thr_pc[t] = "cs" => thr_state # 0

ThrIInv == Thr!TypeOK /\ Thr!MutualExclusion /\ OwnedIsLocked /\ Thr!NoStrandedThread

-----------------------------------------------------------------------------

\* The inductive invariant holds of a mutex that fev_thr_mutex_init() has set up.
LEMMA ThrInitIInv == Thr!Init => ThrIInv
  <1>. USE DEF Thr!Init, ThrIInv
  <1>1. Thr!Init => Thr!TypeOK
    BY DEF Thr!TypeOK
  <1>2. Thr!Init => Thr!MutualExclusion /\ OwnedIsLocked /\ Thr!NoStrandedThread
    BY DEF Thr!MutualExclusion, OwnedIsLocked, Thr!NoStrandedThread
  <1>. QED BY <1>1, <1>2

\* Each step of a thread keeps the types.
LEMMA ThrNextTypeOK == Thr!TypeOK /\ [Thr!Next]_(Thr!vars) => Thr!TypeOK'
  <1>. SUFFICES ASSUME Thr!TypeOK, [Thr!Next]_(Thr!vars) PROVE Thr!TypeOK'
    OBVIOUS
  <1>. USE DEF Thr!TypeOK, Thr!Goto
  <1>1. ASSUME NEW t \in Threads, Thr!Lock(t) PROVE Thr!TypeOK'
    BY <1>1 DEF Thr!Lock
  <1>2. ASSUME NEW t \in Threads, Thr!LoadState(t) \/ Thr!FutexWait(t) \/ Thr!Interrupted(t)
        PROVE Thr!TypeOK'
    BY <1>2 DEF Thr!LoadState, Thr!FutexWait, Thr!Interrupted
  <1>3. ASSUME NEW t \in Threads, Thr!Exchange(t) \/ Thr!Unlock(t) PROVE Thr!TypeOK'
    BY <1>3 DEF Thr!Exchange, Thr!Unlock
  <1>4. ASSUME NEW t \in Threads, Thr!FutexWake(t) \/ Thr!FutexWakeNobody(t) PROVE Thr!TypeOK'
    BY <1>4 DEF Thr!FutexWake, Thr!FutexWakeNobody
  <1>5. CASE UNCHANGED Thr!vars
    BY <1>5 DEF Thr!vars
  <1>. QED BY <1>1, <1>2, <1>3, <1>4, <1>5 DEF Thr!Next

\* The owner is unique: a thread becomes the owner only by an exchange that
\* found the state 0, when there was none.
LEMMA ThrNextExclusion ==
  Thr!TypeOK /\ Thr!MutualExclusion /\ OwnedIsLocked /\ [Thr!Next]_(Thr!vars)
    => (Thr!MutualExclusion /\ OwnedIsLocked)'
  <1>. SUFFICES ASSUME Thr!TypeOK, Thr!MutualExclusion, OwnedIsLocked, [Thr!Next]_(Thr!vars)
                PROVE (Thr!MutualExclusion /\ OwnedIsLocked)'
    OBVIOUS
  <1>. USE DEF Thr!TypeOK, Thr!MutualExclusion, OwnedIsLocked, Thr!Goto
  <1>1. ASSUME NEW t \in Threads, Thr!Lock(t) PROVE (Thr!MutualExclusion /\ OwnedIsLocked)'
    BY <1>1 DEF Thr!Lock
  <1>2. ASSUME NEW t \in Threads, Thr!LoadState(t) \/ Thr!FutexWait(t) \/ Thr!Interrupted(t)
        PROVE (Thr!MutualExclusion /\ OwnedIsLocked)'
    BY <1>2 DEF Thr!LoadState, Thr!FutexWait, Thr!Interrupted
  <1>3. ASSUME NEW t \in Threads, Thr!Exchange(t) PROVE (Thr!MutualExclusion /\ OwnedIsLocked)'
    BY <1>3 DEF Thr!Exchange
  <1>4. ASSUME NEW t \in Threads, Thr!Unlock(t) PROVE (Thr!MutualExclusion /\ OwnedIsLocked)'
    BY <1>4 DEF Thr!Unlock
  <1>5. ASSUME NEW t \in Threads, Thr!FutexWake(t) \/ Thr!FutexWakeNobody(t)
        PROVE (Thr!MutualExclusion /\ OwnedIsLocked)'
    BY <1>5 DEF Thr!FutexWake, Thr!FutexWakeNobody
  <1>6. CASE UNCHANGED Thr!vars
    BY <1>6 DEF Thr!vars
  <1>. QED BY <1>1, <1>2, <1>3, <1>4, <1>5, <1>6 DEF Thr!Next

\* A sleeper stays covered: the state leaves 2 only in Unlock, which then wakes,
\* and a thread leaves "exchange" only with the state at 2.
LEMMA ThrNextCovered ==
  Thr!TypeOK /\ Thr!NoStrandedThread /\ [Thr!Next]_(Thr!vars) => Thr!NoStrandedThread'
  <1>. SUFFICES ASSUME Thr!TypeOK, Thr!NoStrandedThread, [Thr!Next]_(Thr!vars)
                PROVE Thr!NoStrandedThread'
    OBVIOUS
  <1>. USE DEF Thr!TypeOK, Thr!NoStrandedThread, Thr!Goto
  <1>1. ASSUME NEW t \in Threads, Thr!Lock(t) PROVE Thr!NoStrandedThread'
    BY <1>1 DEF Thr!Lock
  <1>2. ASSUME NEW t \in Threads, Thr!LoadState(t) PROVE Thr!NoStrandedThread'
    BY <1>2 DEF Thr!LoadState
  <1>3. ASSUME NEW t \in Threads, Thr!Exchange(t) PROVE Thr!NoStrandedThread'
    BY <1>3 DEF Thr!Exchange
  <1>4. ASSUME NEW t \in Threads, Thr!FutexWait(t) PROVE Thr!NoStrandedThread'
    BY <1>4 DEF Thr!FutexWait
  <1>5. ASSUME NEW t \in Threads, Thr!Interrupted(t) PROVE Thr!NoStrandedThread'
    BY <1>5 DEF Thr!Interrupted
  <1>6. ASSUME NEW t \in Threads, Thr!Unlock(t) PROVE Thr!NoStrandedThread'
    BY <1>6 DEF Thr!Unlock
  <1>7. ASSUME NEW t \in Threads, Thr!FutexWake(t) PROVE Thr!NoStrandedThread'
    BY <1>7 DEF Thr!FutexWake
  <1>8. ASSUME NEW t \in Threads, Thr!FutexWakeNobody(t) PROVE Thr!NoStrandedThread'
    BY <1>8 DEF Thr!FutexWakeNobody
  <1>9. CASE UNCHANGED Thr!vars
    BY <1>9 DEF Thr!vars
  <1>. QED BY <1>1, <1>2, <1>3, <1>4, <1>5, <1>6, <1>7, <1>8, <1>9 DEF Thr!Next

\* The inductive invariant holds in every state of the mutex.
THEOREM ThrInvariance == Thr!Spec => []ThrIInv
  <1>1. ThrIInv /\ [Thr!Next]_(Thr!vars) => ThrIInv'
    BY ThrNextTypeOK, ThrNextExclusion, ThrNextCovered DEF ThrIInv
  <1>. QED BY ThrInitIInv, <1>1, PTL DEF Thr!Spec

\* The state word is always 0, 1 or 2.
THEOREM ThrTypeCorrect == Thr!Spec => []Thr!TypeOK
  <1>1. ThrIInv => Thr!TypeOK
    BY DEF ThrIInv
  <1>. QED BY <1>1, ThrInvariance, PTL

\* No two threads are ever between fev_thr_mutex_lock() and
\* fev_thr_mutex_unlock() at a time.
THEOREM ThrExclusion == Thr!Spec => []Thr!MutualExclusion
  <1>1. ThrIInv => Thr!MutualExclusion
    BY DEF ThrIInv
  <1>. QED BY <1>1, ThrInvariance, PTL

\* No thread sleeps on the futex without a thread that will wake it.
THEOREM ThrNobodyStranded == Thr!Spec => []Thr!NoStrandedThread
  <1>1. ThrIInv => Thr!NoStrandedThread
    BY DEF ThrIInv
  <1>. QED BY <1>1, ThrInvariance, PTL
===============================================================================
