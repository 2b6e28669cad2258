----------------------------- MODULE FiberProofs -----------------------------
(***************************************************************************)
(* The life of fibers for any number of them: who frees a fiber, and who    *)
(* may still touch it.                                                      *)
(***************************************************************************)
EXTENDS Fiber, FiniteSetTheorems, TLAPS

Positions ==
  CallPositions \cup ExitPositions \cup {"none", "run", "exit_count", "exited"}

\* The types of everything that the arguments below do not bound.
Typed ==
  /\ mem \in [Fibers -> {"none", "alive", "freed"}]
  /\ flags \in [Fibers -> SUBSET Flags]
  /\ ref_count \in [Fibers -> Int]
  /\ mutex \in [Fibers -> Fibers \cup {NULL}]
  /\ waiting \in [Fibers -> Fibers \cup {NULL}]
  /\ handle \in [Fibers -> BOOLEAN]
  /\ overlap \in [Fibers -> BOOLEAN]
  /\ target \in [Fibers -> Fibers]
  /\ pc \in [Fibers -> Positions]

\* The fiber f is in a call on t.
On(f, t) == pc[f] \in CallPositions /\ target[f] = t

\* The positions of a joiner that has set FEV_FIBER_JOINING.
Joining == {"join_loop", "join_wait", "join_woken", "join_unlock", "join_release"}

\* The positions of a detacher that has cleared FEV_FIBER_JOINABLE.
Detaching == {"detach_unlock", "detach_release"}

\* The fiber has not dropped its own reference yet.
Runs(t) == pc[t] \notin {"none", "exit_count", "exited"}

\* A call is about another fiber, which has been created.
Targets ==
  \A f \in Fibers :
    /\ pc[f] \notin CallPositions => target[f] = f
    /\ pc[f] \in CallPositions => target[f] # f /\ pc[target[f]] # "none"

\* Nothing is known of a fiber before it is created, and it is not freed then.
Created ==
  \A t \in Fibers :
    /\ pc[t] = "none" =>
         ~handle[t] /\ waiting[t] = NULL /\ ref_count[t] = 0 /\ mem[t] = "none"
    /\ pc[t] # "none" => mem[t] = (IF ref_count[t] <= 0 THEN "freed" ELSE "alive")

\* The flags against the positions.
FlagsMean ==
  \A t \in Fibers :
    /\ pc[t] # "none" =>
         ("DEAD" \in flags[t] <=>
            pc[t] \in {"exit_unlock", "exit_notify", "exit_post", "exit_count", "exited"})
    /\ \A f \in Fibers : target[f] = t =>
         /\ pc[f] \in Joining => "JOINING" \in flags[t]
         /\ pc[f] \in Detaching => "JOINABLE" \notin flags[t]

\* FEV_FIBER_JOINING lets one joiner in, FEV_FIBER_JOINABLE one detacher.
OneEach ==
  \A f, g \in Fibers : target[f] = target[g] =>
    /\ pc[f] \in Joining /\ pc[g] \in Joining => f = g
    /\ pc[f] \in Detaching /\ pc[g] \in Detaching => f = g

\* The sleeper on a fiber's cond, and that nobody sleeps after the notification.
Sleeper ==
  \A t \in Fibers :
    /\ waiting[t] # NULL => pc[waiting[t]] = "join_wait" /\ target[waiting[t]] = t
    /\ \A f \in Fibers : pc[f] = "join_wait" /\ target[f] = t =>
         waiting[t] = f /\ pc[t] \notin {"exit_post", "exit_count", "exited"}

\* The references that may still be dropped by those who hold one.
One(b) == IF b THEN 1 ELSE 0
JoinLeft(t) == One("JOINING" \notin flags[t] \/ \E f \in Fibers : target[f] = t /\ pc[f] \in Joining)
DetachLeft(t) == One("JOINABLE" \in flags[t] \/ \E f \in Fibers : target[f] = t /\ pc[f] \in Detaching)

\* The count covers the fiber and its handle, if calls on the handle do not
\* overlap; otherwise a join and a detach may both drop the handle's reference.
RefCount ==
  \A t \in Fibers : pc[t] # "none" =>
    /\ ref_count[t] <= One(handle[t]) + One(Runs(t))
    /\ ref_count[t] >= JoinLeft(t) + DetachLeft(t) + One(Runs(t)) - 1
    /\ ~overlap[t] => ref_count[t] = One(handle[t]) + One(Runs(t))

\* Without overlap there is one call at a time, and it finds the flags as
\* fev_fiber_create() or itself has left them.
Alone ==
  \A t \in Fibers : ~overlap[t] =>
    /\ \A f, g \in Fibers : On(f, t) /\ On(g, t) => f = g
    /\ \A f \in Fibers : On(f, t) =>
         /\ handle[t] /\ pc[f] # "fail"
         /\ pc[f] \notin Joining => "JOINING" \notin flags[t]
         /\ pc[f] \notin Detaching => "JOINABLE" \in flags[t]
    /\ handle[t] /\ (\A f \in Fibers : ~On(f, t)) =>
         "JOINABLE" \in flags[t] /\ "JOINING" \notin flags[t]

\* The scheduler counts the fibers that have not finished.
Unfinished == {f \in Fibers : pc[f] \notin {"none", "exited"}}
Counted == num_fibers = Cardinality(Unfinished)

IInv ==
  /\ Typed /\ Targets /\ Created /\ FlagsMean /\ OneEach /\ Sleeper
  /\ RefCount /\ Alone /\ Counted
-----------------------------------------------------------------------------

\* The inductive invariant holds when only the first fiber is there.
LEMMA InitIInv == Init => IInv
  <1>. SUFFICES ASSUME Init PROVE IInv
    OBVIOUS
  <1>. USE FiberAssumption
  <1>1. mem \in [Fibers -> {"none", "alive", "freed"}] /\ pc \in [Fibers -> Positions]
    BY DEF Init, Positions
  <1>2. /\ flags \in [Fibers -> SUBSET Flags]
        /\ handle \in [Fibers -> BOOLEAN] /\ overlap \in [Fibers -> BOOLEAN]
    BY Zenon DEF Init
  <1>3. Typed
    BY <1>1, <1>2 DEF Init, Typed
  <1>4. Targets /\ Created /\ FlagsMean /\ OneEach /\ Sleeper /\ Alone
    BY DEF Init, Targets, Created, FlagsMean, OneEach, Sleeper, Alone, On, Joining,
       Detaching, CallPositions, JoinPositions
  <1>5. RefCount
    BY DEF Init, RefCount, One, JoinLeft, DetachLeft, Runs, Joining, Detaching
  <1>6. Counted
    <2>1. Unfinished = {Main}
      BY Zenon DEF Init, Unfinished
    <2>. QED BY <2>1, FS_Singleton, Zenon DEF Init, Counted
  <1>. QED BY <1>3, <1>4, <1>5, <1>6 DEF IInv

\* The exit of f wakes the joiner that sleeps on f, and nobody else.
Woken(f) ==
  /\ pc' \in [Fibers -> Positions]
  /\ pc'[f] = "exit_post"
  /\ \A g \in Fibers \ {f} :
       pc'[g] = IF pc[g] = "join_wait" /\ target[g] = f THEN "join_woken" ELSE pc[g]

\* ExitNotify() is such an exit: the joiner it finds in the struct is the one that sleeps.
LEMMA NotifyWakes ==
  ASSUME Typed, Sleeper, NEW f \in Fibers, ExitNotify(f)
  PROVE  Woken(f)
  <1>1. \A g \in Fibers \ {f} :
          pc'[g] = IF g = waiting[f] THEN "join_woken" ELSE pc[g]
    BY DEF ExitNotify
  <1>2. \A g \in Fibers : g = waiting[f] <=> pc[g] = "join_wait" /\ target[g] = f
    BY FiberAssumption DEF Typed, Sleeper
  <1>3. pc'[f] = "exit_post"
    BY <1>2 DEF ExitNotify
  <1>4. \A g \in Fibers : pc'[g] \in Positions
    BY <1>1, <1>3 DEF Typed, Positions, CallPositions, JoinPositions, ExitPositions
  <1>5. pc' \in [Fibers -> Positions]
    BY <1>4 DEF ExitNotify
  <1>. QED BY <1>1, <1>2, <1>3, <1>5 DEF Woken

\* A fiber that is not spawned detached comes with a handle.
LEMMA CreateHandle ==
  ASSUME Typed, NEW f \in Fibers, NEW t \in Fibers, NEW d \in BOOLEAN, Create(f, t, d), ~d
  PROVE  handle'[t]
  <1>1. handle' = [handle EXCEPT ![t] = ~d] /\ handle \in [Fibers -> BOOLEAN]
    BY DEF Create, Typed
  <1>2. handle'[t] = ~d
    BY <1>1, Zenon
  <1>. QED BY <1>2, Zenon

\* The fibers that the scheduler counts are finitely many.
LEMMA UnfinishedFinite == IsFiniteSet(Unfinished)
  BY FiberAssumption, FS_Subset DEF Unfinished

\* Every step keeps the types.
LEMMA NextTyped ==
  Typed /\ Sleeper /\ [Next]_vars
    => Typed'
  <1>. SUFFICES ASSUME Typed, Sleeper, [Next]_vars PROVE Typed'
    OBVIOUS
  <1>. USE DEF Typed, Flags, Positions, CallPositions, JoinPositions, ExitPositions
  <1>1. ASSUME NEW f \in Fibers, NEW t \in Fibers, NEW d \in BOOLEAN, Create(f, t, d) PROVE Typed'
    BY <1>1 DEF Create
  <1>2. ASSUME NEW f \in Fibers, NEW t \in Fibers, CallJoin(f, t) PROVE Typed'
    BY <1>2 DEF CallJoin, Call, Goto
  <1>3. ASSUME NEW f \in Fibers, NEW t \in Fibers, CallDetach(f, t) PROVE Typed'
    BY <1>3 DEF CallDetach, Call, Goto
  <1>4. ASSUME NEW f \in Fibers, JoinLock(f) \/ JoinCheck(f) \/ JoinNotJoinable(f) PROVE Typed'
    BY <1>4 DEF JoinLock, Goto, Acquire, JoinCheck, JoinNotJoinable
  <1>5. ASSUME NEW f \in Fibers, JoinDead(f) \/ JoinWait(f) \/ JoinWoken(f) PROVE Typed'
    BY <1>5 DEF JoinDead, Goto, JoinWait, JoinWoken, Acquire
  <1>6. ASSUME NEW f \in Fibers, JoinUnlock(f) PROVE Typed'
    BY <1>6 DEF JoinUnlock, Goto, Release
  <1>7. ASSUME NEW f \in Fibers, JoinRelease(f) PROVE Typed'
    <2>1. handle' \in [Fibers -> BOOLEAN]
      BY <1>7, Zenon DEF JoinRelease, LastUse
    <2>. QED BY <1>7, <2>1 DEF JoinRelease, LastUse, DropRef, Goto
  <1>8. ASSUME NEW f \in Fibers,
               DetachLock(f) \/ DetachNotJoinable(f) \/ DetachClear(f)
        PROVE Typed'
    BY <1>8 DEF DetachLock, Goto, Acquire, DetachNotJoinable, DetachClear
  <1>9. ASSUME NEW f \in Fibers, DetachUnlock(f) PROVE Typed'
    BY <1>9 DEF DetachUnlock, Goto, Release
  <1>10. ASSUME NEW f \in Fibers, DetachRelease(f) PROVE Typed'
    <2>1. handle' \in [Fibers -> BOOLEAN]
      BY <1>10, Zenon DEF DetachRelease, LastUse
    <2>. QED BY <1>10, <2>1 DEF DetachRelease, LastUse, DropRef, Goto
  <1>11. ASSUME NEW f \in Fibers, Fail(f) \/ Exit(f) \/ ExitLock(f) PROVE Typed'
    BY <1>11 DEF Fail, Goto, Exit, ExitLock, Acquire
  <1>12. ASSUME NEW f \in Fibers, ExitSet(f) \/ ExitUnlock(f) PROVE Typed'
    BY <1>12 DEF ExitSet, Goto, ExitUnlock, Release
  <1>13. ASSUME NEW f \in Fibers, ExitNotify(f) PROVE Typed'
    BY <1>13 DEF ExitNotify
  <1>14. ASSUME NEW f \in Fibers, ExitPost(f) \/ ExitCount(f) PROVE Typed'
    BY <1>14 DEF ExitPost, DropRef, Goto, ExitCount
  <1>15. CASE UNCHANGED vars
    BY <1>15 DEF vars
  <1>. HIDE DEF Typed, Flags, Positions, CallPositions, JoinPositions, ExitPositions
  <1>. QED
    BY <1>1, <1>2, <1>3, <1>4, <1>5, <1>6, <1>7, <1>8, <1>9, <1>10, <1>11, <1>12, <1>13, <1>14,
       <1>15
    DEF Next, JoinSteps, DetachSteps, ExitSteps

\* A call ends where it began: at the fiber itself.
LEMMA NextTargets ==
  Typed /\ Targets /\ Created /\ Sleeper /\ [Next]_vars
    => Targets'
  <1>. SUFFICES ASSUME Typed, Targets, Created, Sleeper, [Next]_vars PROVE Targets'
    OBVIOUS
  <1>. USE DEF Typed, Targets, Created, Sleeper, Positions, CallPositions, JoinPositions,
       ExitPositions
  <1>1. ASSUME NEW f \in Fibers, NEW t \in Fibers, NEW d \in BOOLEAN,
               Create(f, t, d)
        PROVE Targets'
    BY <1>1 DEF Create
  <1>2. ASSUME NEW f \in Fibers, NEW t \in Fibers, CallJoin(f, t) PROVE Targets'
    BY <1>2 DEF CallJoin, Call, Goto
  <1>3. ASSUME NEW f \in Fibers, NEW t \in Fibers, CallDetach(f, t) PROVE Targets'
    BY <1>3 DEF CallDetach, Call, Goto
  <1>4. ASSUME NEW f \in Fibers, JoinLock(f) \/ JoinCheck(f) \/ JoinNotJoinable(f) PROVE Targets'
    BY <1>4 DEF JoinLock, Goto, Acquire, JoinCheck, JoinNotJoinable
  <1>5. ASSUME NEW f \in Fibers, JoinDead(f) \/ JoinWait(f) \/ JoinWoken(f) PROVE Targets'
    BY <1>5 DEF JoinDead, Goto, JoinWait, JoinWoken, Acquire
  <1>6. ASSUME NEW f \in Fibers, JoinUnlock(f) \/ JoinRelease(f) \/ DetachLock(f) PROVE Targets'
    BY <1>6 DEF JoinUnlock, Goto, Release, JoinRelease, LastUse, DropRef, DetachLock, Acquire
  <1>7. ASSUME NEW f \in Fibers,
               DetachNotJoinable(f) \/ DetachClear(f) \/ DetachUnlock(f)
        PROVE Targets'
    BY <1>7 DEF DetachNotJoinable, Goto, DetachClear, DetachUnlock, Release
  <1>8. ASSUME NEW f \in Fibers, DetachRelease(f) \/ Fail(f) \/ Exit(f) PROVE Targets'
    BY <1>8 DEF DetachRelease, LastUse, DropRef, Goto, Fail, Exit
  <1>9. ASSUME NEW f \in Fibers, ExitLock(f) \/ ExitSet(f) \/ ExitUnlock(f) PROVE Targets'
    BY <1>9 DEF ExitLock, Goto, Acquire, ExitSet, ExitUnlock, Release
  <1>10. ASSUME NEW f \in Fibers, ExitNotify(f) PROVE Targets'
    <2>1. Woken(f)
      BY <1>10, NotifyWakes
    <2>. QED BY <1>10, <2>1 DEF ExitNotify, Woken
  <1>11. ASSUME NEW f \in Fibers, ExitPost(f) \/ ExitCount(f) PROVE Targets'
    BY <1>11 DEF ExitPost, DropRef, Goto, ExitCount
  <1>12. CASE UNCHANGED vars
    BY <1>12 DEF vars
  <1>. HIDE DEF Typed, Targets, Created, Sleeper, Positions, CallPositions, JoinPositions,
       ExitPositions
  <1>. QED
    BY <1>1, <1>2, <1>3, <1>4, <1>5, <1>6, <1>7, <1>8, <1>9, <1>10, <1>11, <1>12
    DEF Next, JoinSteps, DetachSteps, ExitSteps

\* The struct is freed by the drop that takes the count to 0, and only then.
LEMMA NextCreated ==
  Typed /\ Targets /\ Sleeper /\ Created /\ [Next]_vars
    => Created'
  <1>. SUFFICES ASSUME Typed, Targets, Sleeper, Created, [Next]_vars PROVE Created'
    OBVIOUS
  <1>. USE DEF Typed, Targets, Created, Positions, CallPositions, JoinPositions, ExitPositions
  <1>1. ASSUME NEW f \in Fibers, NEW t \in Fibers, NEW d \in BOOLEAN,
               Create(f, t, d)
        PROVE Created'
    BY <1>1 DEF Create
  <1>2. ASSUME NEW f \in Fibers, NEW t \in Fibers, CallJoin(f, t) PROVE Created'
    BY <1>2 DEF CallJoin, Call, Goto
  <1>3. ASSUME NEW f \in Fibers, NEW t \in Fibers, CallDetach(f, t) PROVE Created'
    BY <1>3 DEF CallDetach, Call, Goto
  <1>4. ASSUME NEW f \in Fibers, JoinLock(f) \/ JoinCheck(f) \/ JoinNotJoinable(f) PROVE Created'
    BY <1>4 DEF JoinLock, Goto, Acquire, JoinCheck, JoinNotJoinable
  <1>5. ASSUME NEW f \in Fibers, JoinDead(f) \/ JoinWait(f) \/ JoinWoken(f) PROVE Created'
    BY <1>5 DEF JoinDead, Goto, JoinWait, JoinWoken, Acquire
  <1>6. ASSUME NEW f \in Fibers, JoinUnlock(f) \/ JoinRelease(f) \/ DetachLock(f) PROVE Created'
    BY <1>6 DEF JoinUnlock, Goto, Release, JoinRelease, LastUse, DropRef, DetachLock, Acquire
  <1>7. ASSUME NEW f \in Fibers,
               DetachNotJoinable(f) \/ DetachClear(f) \/ DetachUnlock(f)
        PROVE Created'
    BY <1>7 DEF DetachNotJoinable, Goto, DetachClear, DetachUnlock, Release
  <1>8. ASSUME NEW f \in Fibers, DetachRelease(f) \/ Fail(f) \/ Exit(f) PROVE Created'
    BY <1>8 DEF DetachRelease, LastUse, DropRef, Goto, Fail, Exit
  <1>9. ASSUME NEW f \in Fibers, ExitLock(f) \/ ExitSet(f) \/ ExitUnlock(f) PROVE Created'
    BY <1>9 DEF ExitLock, Goto, Acquire, ExitSet, ExitUnlock, Release
  <1>10. ASSUME NEW f \in Fibers, ExitNotify(f) PROVE Created'
    <2>1. Woken(f)
      BY <1>10, NotifyWakes
    <2>. QED BY <1>10, <2>1 DEF ExitNotify, Woken
  <1>11. ASSUME NEW f \in Fibers, ExitPost(f) \/ ExitCount(f) PROVE Created'
    BY <1>11 DEF ExitPost, DropRef, Goto, ExitCount
  <1>12. CASE UNCHANGED vars
    BY <1>12 DEF vars
  <1>. HIDE DEF Typed, Targets, Created, Positions, CallPositions, JoinPositions, ExitPositions
  <1>. QED
    BY <1>1, <1>2, <1>3, <1>4, <1>5, <1>6, <1>7, <1>8, <1>9, <1>10, <1>11, <1>12
    DEF Next, JoinSteps, DetachSteps, ExitSteps

\* A fiber is marked dead once, and the marks of a joiner and of a detacher stay.
LEMMA NextFlagsMean ==
  Typed /\ Targets /\ Created /\ Sleeper /\ FlagsMean /\ [Next]_vars
    => FlagsMean'
  <1>. SUFFICES ASSUME Typed, Targets, Created, Sleeper, FlagsMean, [Next]_vars PROVE FlagsMean'
    OBVIOUS
  <1>. USE DEF Typed, Flags, Targets, Created, Sleeper, FlagsMean, Joining, Detaching, Positions,
       CallPositions, JoinPositions, ExitPositions
  <1>1. ASSUME NEW f \in Fibers, NEW t \in Fibers, NEW d \in BOOLEAN,
               Create(f, t, d)
        PROVE FlagsMean'
    BY <1>1 DEF Create
  <1>2. ASSUME NEW f \in Fibers, NEW t \in Fibers, CallJoin(f, t) PROVE FlagsMean'
    BY <1>2 DEF CallJoin, Call, Goto
  <1>3. ASSUME NEW f \in Fibers, NEW t \in Fibers, CallDetach(f, t) PROVE FlagsMean'
    BY <1>3 DEF CallDetach, Call, Goto
  <1>4. ASSUME NEW f \in Fibers, JoinLock(f) PROVE FlagsMean'
    BY <1>4 DEF JoinLock, Goto, Acquire
  <1>5. ASSUME NEW f \in Fibers, JoinCheck(f) PROVE FlagsMean'
    BY <1>5 DEF JoinCheck, Goto
  <1>6. ASSUME NEW f \in Fibers, JoinNotJoinable(f) PROVE FlagsMean'
    BY <1>6 DEF JoinNotJoinable, Goto
  <1>7. ASSUME NEW f \in Fibers, JoinDead(f) PROVE FlagsMean'
    BY <1>7 DEF JoinDead, Goto
  <1>8. ASSUME NEW f \in Fibers, JoinWait(f) PROVE FlagsMean'
    BY <1>8 DEF JoinWait, Goto
  <1>9. ASSUME NEW f \in Fibers, JoinWoken(f) PROVE FlagsMean'
    BY <1>9 DEF JoinWoken, Goto, Acquire
  <1>10. ASSUME NEW f \in Fibers, JoinUnlock(f) PROVE FlagsMean'
    BY <1>10 DEF JoinUnlock, Goto, Release
  <1>11. ASSUME NEW f \in Fibers, JoinRelease(f) PROVE FlagsMean'
    BY <1>11 DEF JoinRelease, LastUse, DropRef, Goto
  <1>12. ASSUME NEW f \in Fibers, DetachLock(f) PROVE FlagsMean'
    BY <1>12 DEF DetachLock, Goto, Acquire
  <1>13. ASSUME NEW f \in Fibers, DetachNotJoinable(f) PROVE FlagsMean'
    BY <1>13 DEF DetachNotJoinable, Goto
  <1>14. ASSUME NEW f \in Fibers, DetachClear(f) PROVE FlagsMean'
    BY <1>14 DEF DetachClear, Goto
  <1>15. ASSUME NEW f \in Fibers, DetachUnlock(f) PROVE FlagsMean'
    BY <1>15 DEF DetachUnlock, Goto, Release
  <1>16. ASSUME NEW f \in Fibers, DetachRelease(f) PROVE FlagsMean'
    BY <1>16 DEF DetachRelease, LastUse, DropRef, Goto
  <1>17. ASSUME NEW f \in Fibers, Fail(f) PROVE FlagsMean'
    BY <1>17 DEF Fail, Goto
  <1>18. ASSUME NEW f \in Fibers, Exit(f) PROVE FlagsMean'
    BY <1>18 DEF Exit, Goto
  <1>19. ASSUME NEW f \in Fibers, ExitLock(f) PROVE FlagsMean'
    BY <1>19 DEF ExitLock, Goto, Acquire
  <1>20. ASSUME NEW f \in Fibers, ExitSet(f) PROVE FlagsMean'
    BY <1>20 DEF ExitSet, Goto
  <1>21. ASSUME NEW f \in Fibers, ExitUnlock(f) PROVE FlagsMean'
    BY <1>21 DEF ExitUnlock, Goto, Release
  <1>22. ASSUME NEW f \in Fibers, ExitNotify(f) PROVE FlagsMean'
    <2>1. Woken(f)
      BY <1>22, NotifyWakes
    <2>. QED BY <1>22, <2>1 DEF ExitNotify, Woken
  <1>23. ASSUME NEW f \in Fibers, ExitPost(f) PROVE FlagsMean'
    BY <1>23 DEF ExitPost, DropRef, Goto
  <1>24. ASSUME NEW f \in Fibers, ExitCount(f) PROVE FlagsMean'
    BY <1>24 DEF ExitCount, Goto
  <1>25. CASE UNCHANGED vars
    BY <1>25 DEF vars
  <1>. HIDE DEF Typed, Flags, Targets, Created, Sleeper, FlagsMean, Joining, Detaching, Positions,
       CallPositions, JoinPositions, ExitPositions
  <1>. QED
    BY <1>1, <1>2, <1>3, <1>4, <1>5, <1>6, <1>7, <1>8, <1>9, <1>10, <1>11, <1>12, <1>13, <1>14,
       <1>15, <1>16, <1>17, <1>18, <1>19, <1>20, <1>21, <1>22, <1>23, <1>24, <1>25
    DEF Next, JoinSteps, DetachSteps, ExitSteps

\* The mark that the first joiner sets, and the one that the first detacher clears,
\* keep every other one out.
LEMMA NextOneEach ==
  Typed /\ Targets /\ Sleeper /\ FlagsMean /\ OneEach /\ [Next]_vars
    => OneEach'
  <1>. SUFFICES ASSUME Typed, Targets, Sleeper, FlagsMean, OneEach, [Next]_vars PROVE OneEach'
    OBVIOUS
  <1>. USE DEF Typed, Flags, Targets, Sleeper, FlagsMean, OneEach, Joining, Detaching, Positions,
       CallPositions, JoinPositions, ExitPositions
  <1>1. ASSUME NEW f \in Fibers, NEW t \in Fibers, NEW d \in BOOLEAN,
               Create(f, t, d)
        PROVE OneEach'
    BY <1>1 DEF Create
  <1>2. ASSUME NEW f \in Fibers, NEW t \in Fibers, CallJoin(f, t) PROVE OneEach'
    BY <1>2 DEF CallJoin, Call, Goto
  <1>3. ASSUME NEW f \in Fibers, NEW t \in Fibers, CallDetach(f, t) PROVE OneEach'
    BY <1>3 DEF CallDetach, Call, Goto
  <1>4. ASSUME NEW f \in Fibers, JoinLock(f) \/ JoinCheck(f) \/ JoinNotJoinable(f) PROVE OneEach'
    BY <1>4 DEF JoinLock, Goto, Acquire, JoinCheck, JoinNotJoinable
  <1>5. ASSUME NEW f \in Fibers, JoinDead(f) \/ JoinWait(f) \/ JoinWoken(f) PROVE OneEach'
    BY <1>5 DEF JoinDead, Goto, JoinWait, JoinWoken, Acquire
  <1>6. ASSUME NEW f \in Fibers, JoinUnlock(f) \/ JoinRelease(f) \/ DetachLock(f) PROVE OneEach'
    BY <1>6 DEF JoinUnlock, Goto, Release, JoinRelease, LastUse, DropRef, DetachLock, Acquire
  <1>7. ASSUME NEW f \in Fibers,
               DetachNotJoinable(f) \/ DetachClear(f) \/ DetachUnlock(f)
        PROVE OneEach'
    BY <1>7 DEF DetachNotJoinable, Goto, DetachClear, DetachUnlock, Release
  <1>8. ASSUME NEW f \in Fibers, DetachRelease(f) \/ Fail(f) \/ Exit(f) PROVE OneEach'
    BY <1>8 DEF DetachRelease, LastUse, DropRef, Goto, Fail, Exit
  <1>9. ASSUME NEW f \in Fibers, ExitLock(f) \/ ExitSet(f) \/ ExitUnlock(f) PROVE OneEach'
    BY <1>9 DEF ExitLock, Goto, Acquire, ExitSet, ExitUnlock, Release
  <1>10. ASSUME NEW f \in Fibers, ExitNotify(f) PROVE OneEach'
    <2>1. Woken(f)
      BY <1>10, NotifyWakes
    <2>. QED BY <1>10, <2>1 DEF ExitNotify, Woken
  <1>11. ASSUME NEW f \in Fibers, ExitPost(f) \/ ExitCount(f) PROVE OneEach'
    BY <1>11 DEF ExitPost, DropRef, Goto, ExitCount
  <1>12. CASE UNCHANGED vars
    BY <1>12 DEF vars
  <1>. HIDE DEF Typed, Flags, Targets, Sleeper, FlagsMean, OneEach, Joining, Detaching, Positions,
       CallPositions, JoinPositions, ExitPositions
  <1>. QED
    BY <1>1, <1>2, <1>3, <1>4, <1>5, <1>6, <1>7, <1>8, <1>9, <1>10, <1>11, <1>12
    DEF Next, JoinSteps, DetachSteps, ExitSteps

\* A joiner that sleeps is the one the exit notifies, and the exit has not done so yet.
LEMMA NextSleeper ==
  Typed /\ Targets /\ Created /\ FlagsMean /\ OneEach /\ Sleeper /\ [Next]_vars
    => Sleeper'
  <1>. SUFFICES ASSUME Typed, Targets, Created, FlagsMean, OneEach, Sleeper, [Next]_vars
                PROVE  Sleeper'
    OBVIOUS
  <1>. USE FiberAssumption DEF Typed, Flags, Targets, Created, FlagsMean, OneEach, Sleeper, Joining,
       Detaching, Positions, CallPositions, JoinPositions, ExitPositions
  <1>1. ASSUME NEW f \in Fibers, NEW t \in Fibers, NEW d \in BOOLEAN,
               Create(f, t, d)
        PROVE Sleeper'
    BY <1>1 DEF Create
  <1>2. ASSUME NEW f \in Fibers, NEW t \in Fibers, CallJoin(f, t) PROVE Sleeper'
    BY <1>2 DEF CallJoin, Call, Goto
  <1>3. ASSUME NEW f \in Fibers, NEW t \in Fibers, CallDetach(f, t) PROVE Sleeper'
    BY <1>3 DEF CallDetach, Call, Goto
  <1>4. ASSUME NEW f \in Fibers, JoinLock(f) PROVE Sleeper'
    BY <1>4 DEF JoinLock, Goto, Acquire
  <1>5. ASSUME NEW f \in Fibers, JoinCheck(f) PROVE Sleeper'
    BY <1>5 DEF JoinCheck, Goto
  <1>6. ASSUME NEW f \in Fibers, JoinNotJoinable(f) PROVE Sleeper'
    BY <1>6 DEF JoinNotJoinable, Goto
  <1>7. ASSUME NEW f \in Fibers, JoinDead(f) PROVE Sleeper'
    BY <1>7 DEF JoinDead, Goto
  <1>8. ASSUME NEW f \in Fibers, JoinWait(f) PROVE Sleeper'
    BY <1>8 DEF JoinWait, Goto
  <1>9. ASSUME NEW f \in Fibers, JoinWoken(f) PROVE Sleeper'
    BY <1>9 DEF JoinWoken, Goto, Acquire
  <1>10. ASSUME NEW f \in Fibers, JoinUnlock(f) PROVE Sleeper'
    BY <1>10 DEF JoinUnlock, Goto, Release
  <1>11. ASSUME NEW f \in Fibers, JoinRelease(f) PROVE Sleeper'
    BY <1>11 DEF JoinRelease, LastUse, DropRef, Goto
  <1>12. ASSUME NEW f \in Fibers, DetachLock(f) PROVE Sleeper'
    BY <1>12 DEF DetachLock, Goto, Acquire
  <1>13. ASSUME NEW f \in Fibers, DetachNotJoinable(f) PROVE Sleeper'
    BY <1>13 DEF DetachNotJoinable, Goto
  <1>14. ASSUME NEW f \in Fibers, DetachClear(f) PROVE Sleeper'
    BY <1>14 DEF DetachClear, Goto
  <1>15. ASSUME NEW f \in Fibers, DetachUnlock(f) PROVE Sleeper'
    BY <1>15 DEF DetachUnlock, Goto, Release
  <1>16. ASSUME NEW f \in Fibers, DetachRelease(f) PROVE Sleeper'
    BY <1>16 DEF DetachRelease, LastUse, DropRef, Goto
  <1>17. ASSUME NEW f \in Fibers, Fail(f) PROVE Sleeper'
    BY <1>17 DEF Fail, Goto
  <1>18. ASSUME NEW f \in Fibers, Exit(f) PROVE Sleeper'
    BY <1>18 DEF Exit, Goto
  <1>19. ASSUME NEW f \in Fibers, ExitLock(f) PROVE Sleeper'
    BY <1>19 DEF ExitLock, Goto, Acquire
  <1>20. ASSUME NEW f \in Fibers, ExitSet(f) PROVE Sleeper'
    BY <1>20 DEF ExitSet, Goto
  <1>21. ASSUME NEW f \in Fibers, ExitUnlock(f) PROVE Sleeper'
    BY <1>21 DEF ExitUnlock, Goto, Release
  <1>22. ASSUME NEW f \in Fibers, ExitNotify(f) PROVE Sleeper'
    <2>1. Woken(f)
      BY <1>22, NotifyWakes
    <2>. QED BY <1>22, <2>1 DEF ExitNotify, Woken
  <1>23. ASSUME NEW f \in Fibers, ExitPost(f) PROVE Sleeper'
    BY <1>23 DEF ExitPost, DropRef, Goto
  <1>24. ASSUME NEW f \in Fibers, ExitCount(f) PROVE Sleeper'
    BY <1>24 DEF ExitCount, Goto
  <1>25. CASE UNCHANGED vars
    BY <1>25 DEF vars
  <1>. HIDE DEF Typed, Flags, Targets, Created, FlagsMean, OneEach, Sleeper, Joining, Detaching,
       Positions, CallPositions, JoinPositions, ExitPositions
  <1>. QED
    BY <1>1, <1>2, <1>3, <1>4, <1>5, <1>6, <1>7, <1>8, <1>9, <1>10, <1>11, <1>12, <1>13, <1>14,
       <1>15, <1>16, <1>17, <1>18, <1>19, <1>20, <1>21, <1>22, <1>23, <1>24, <1>25
    DEF Next, JoinSteps, DetachSteps, ExitSteps

\* The scheduler counts a fiber from its creation to its exit.
LEMMA NextCounted ==
  Typed /\ Targets /\ Sleeper /\ Counted /\ [Next]_vars
    => Counted'
  <1>. SUFFICES ASSUME Typed, Targets, Sleeper, Counted, [Next]_vars PROVE Counted'
    OBVIOUS
  <1>. USE DEF Typed, Positions, CallPositions, JoinPositions, ExitPositions
  <1>1. ASSUME NEW f \in Fibers, NEW t \in Fibers, NEW d \in BOOLEAN,
               Create(f, t, d)
        PROVE Counted'
    <2>1. Unfinished' = Unfinished \cup {t} /\ t \notin Unfinished
      BY <1>1, Zenon DEF Create, Unfinished
    <2>. QED BY <1>1, <2>1, UnfinishedFinite, FS_AddElement, Zenon DEF Create, Counted
  <1>2. ASSUME NEW f \in Fibers, NEW t \in Fibers, CallJoin(f, t) PROVE Counted'
    <2>1. Unfinished' = Unfinished /\ UNCHANGED num_fibers
      BY <1>2 DEF CallJoin, Call, Goto, Unfinished
    <2>. QED BY <2>1 DEF Counted
  <1>3. ASSUME NEW f \in Fibers, NEW t \in Fibers, CallDetach(f, t) PROVE Counted'
    <2>1. Unfinished' = Unfinished /\ UNCHANGED num_fibers
      BY <1>3 DEF CallDetach, Call, Goto, Unfinished
    <2>. QED BY <2>1 DEF Counted
  <1>4. ASSUME NEW f \in Fibers,
               JoinLock(f) \/ JoinCheck(f) \/ JoinNotJoinable(f) \/ JoinDead(f) \/ JoinWait(f)
               \/ JoinWoken(f)
        PROVE Counted'
    <2>1. Unfinished' = Unfinished /\ UNCHANGED num_fibers
      BY <1>4 DEF JoinLock, Goto, Acquire, JoinCheck, JoinNotJoinable, JoinDead, JoinWait,
          JoinWoken, Unfinished
    <2>. QED BY <2>1 DEF Counted
  <1>5. ASSUME NEW f \in Fibers,
               JoinUnlock(f) \/ JoinRelease(f) \/ DetachLock(f) \/ DetachNotJoinable(f)
               \/ DetachClear(f) \/ DetachUnlock(f)
        PROVE Counted'
    <2>1. Unfinished' = Unfinished /\ UNCHANGED num_fibers
      BY <1>5 DEF JoinUnlock, Goto, Release, JoinRelease, LastUse, DropRef, DetachLock, Acquire,
          DetachNotJoinable, DetachClear, DetachUnlock, Unfinished
    <2>. QED BY <2>1 DEF Counted
  <1>6. ASSUME NEW f \in Fibers,
               DetachRelease(f) \/ Fail(f) \/ Exit(f) \/ ExitLock(f) \/ ExitSet(f)
               \/ ExitUnlock(f)
        PROVE Counted'
    <2>1. Unfinished' = Unfinished /\ UNCHANGED num_fibers
      BY <1>6 DEF DetachRelease, LastUse, DropRef, Goto, Fail, Exit, ExitLock, Acquire, ExitSet,
          ExitUnlock, Release, Unfinished
    <2>. QED BY <2>1 DEF Counted
  <1>7. ASSUME NEW f \in Fibers, ExitNotify(f) PROVE Counted'
    <2>1. Woken(f)
      BY <1>7, NotifyWakes
    <2>2. Unfinished' = Unfinished
      BY <1>7, <2>1 DEF ExitNotify, Woken, Unfinished
    <2>. QED BY <1>7, <2>2 DEF ExitNotify, Counted
  <1>8. ASSUME NEW f \in Fibers, ExitPost(f) PROVE Counted'
    <2>1. Unfinished' = Unfinished /\ UNCHANGED num_fibers
      BY <1>8 DEF ExitPost, DropRef, Goto, Unfinished
    <2>. QED BY <2>1 DEF Counted
  <1>9. ASSUME NEW f \in Fibers, ExitCount(f) PROVE Counted'
    <2>1. Unfinished' = Unfinished \ {f} /\ f \in Unfinished
      BY <1>9, Zenon DEF ExitCount, Goto, Unfinished
    <2>. QED BY <1>9, <2>1, UnfinishedFinite, FS_RemoveElement, Zenon DEF ExitCount, Counted
  <1>10. CASE UNCHANGED vars
    BY <1>10 DEF vars, Counted, Unfinished
  <1>. HIDE DEF Typed, Positions, CallPositions, JoinPositions, ExitPositions
  <1>. QED
    BY <1>1, <1>2, <1>3, <1>4, <1>5, <1>6, <1>7, <1>8, <1>9, <1>10
    DEF Next, JoinSteps, DetachSteps, ExitSteps

\* Each of the fiber, a join and a detach drops a reference once.
LEMMA NextRefCount ==
  Typed /\ Targets /\ FlagsMean /\ OneEach /\ Sleeper /\ Alone /\ RefCount /\ [Next]_vars
    => RefCount'
  <1>. SUFFICES ASSUME Typed, Targets, FlagsMean, OneEach, Sleeper, Alone, RefCount, [Next]_vars
                PROVE  RefCount'
    OBVIOUS
  <1>. USE DEF Typed, Flags, Targets, FlagsMean, OneEach, Alone, RefCount, On, One, JoinLeft,
       DetachLeft, Runs, Joining, Detaching, Positions, CallPositions, JoinPositions,
       ExitPositions
  <1>1. ASSUME NEW f \in Fibers, NEW t \in Fibers, NEW d \in BOOLEAN,
               Create(f, t, d)
        PROVE RefCount'
    <2>1. CASE d
      BY <1>1, <2>1 DEF Create
    <2>2. CASE ~d
      <3>1. handle'[t]
        BY <1>1, <2>2, CreateHandle
      <3>2. \A u \in Fibers \ {t} : handle'[u] = handle[u]
        BY <1>1 DEF Create
      <3>3. /\ flags' = [flags EXCEPT ![t] = {"JOINABLE"}]
            /\ ref_count' = [ref_count EXCEPT ![t] = 2]
            /\ pc[t] = "none" /\ pc' = [pc EXCEPT ![t] = "run"]
            /\ UNCHANGED <<overlap, target>>
        BY <1>1, <2>2 DEF Create
      <3>. QED BY <3>1, <3>2, <3>3
    <2>. QED BY <2>1, <2>2, Zenon
  <1>2. ASSUME NEW f \in Fibers, NEW t \in Fibers, CallJoin(f, t) PROVE RefCount'
    BY <1>2 DEF CallJoin, Call, Goto
  <1>3. ASSUME NEW f \in Fibers, NEW t \in Fibers, CallDetach(f, t) PROVE RefCount'
    BY <1>3 DEF CallDetach, Call, Goto
  <1>4. ASSUME NEW f \in Fibers, JoinLock(f) PROVE RefCount'
    BY <1>4 DEF JoinLock, Goto, Acquire
  <1>5. ASSUME NEW f \in Fibers, JoinCheck(f) PROVE RefCount'
    <2>1. CASE "JOINING" \in flags[target[f]]
      BY <1>5, <2>1 DEF JoinCheck, Goto
    <2>2. CASE "JOINING" \notin flags[target[f]]
      BY <1>5, <2>2 DEF JoinCheck, Goto
    <2>. QED BY <2>1, <2>2
  <1>6. ASSUME NEW f \in Fibers, JoinNotJoinable(f) PROVE RefCount'
    BY <1>6 DEF JoinNotJoinable, Goto
  <1>7. ASSUME NEW f \in Fibers, JoinDead(f) PROVE RefCount'
    BY <1>7 DEF JoinDead, Goto
  <1>8. ASSUME NEW f \in Fibers, JoinWait(f) PROVE RefCount'
    BY <1>8 DEF JoinWait, Goto
  <1>9. ASSUME NEW f \in Fibers, JoinWoken(f) PROVE RefCount'
    BY <1>9 DEF JoinWoken, Goto, Acquire
  <1>10. ASSUME NEW f \in Fibers, JoinUnlock(f) PROVE RefCount'
    BY <1>10 DEF JoinUnlock, Goto, Release
  <1>11. ASSUME NEW f \in Fibers, JoinRelease(f) PROVE RefCount'
    BY <1>11 DEF JoinRelease, LastUse, DropRef, Goto
  <1>12. ASSUME NEW f \in Fibers, DetachLock(f) PROVE RefCount'
    BY <1>12 DEF DetachLock, Goto, Acquire
  <1>13. ASSUME NEW f \in Fibers, DetachNotJoinable(f) PROVE RefCount'
    BY <1>13 DEF DetachNotJoinable, Goto
  <1>14. ASSUME NEW f \in Fibers, DetachClear(f) PROVE RefCount'
    BY <1>14 DEF DetachClear, Goto
  <1>15. ASSUME NEW f \in Fibers, DetachUnlock(f) PROVE RefCount'
    BY <1>15 DEF DetachUnlock, Goto, Release
  <1>16. ASSUME NEW f \in Fibers, DetachRelease(f) PROVE RefCount'
    BY <1>16 DEF DetachRelease, LastUse, DropRef, Goto
  <1>17. ASSUME NEW f \in Fibers, Fail(f) PROVE RefCount'
    BY <1>17 DEF Fail, Goto
  <1>18. ASSUME NEW f \in Fibers, Exit(f) PROVE RefCount'
    BY <1>18 DEF Exit, Goto
  <1>19. ASSUME NEW f \in Fibers, ExitLock(f) PROVE RefCount'
    BY <1>19 DEF ExitLock, Goto, Acquire
  <1>20. ASSUME NEW f \in Fibers, ExitSet(f) PROVE RefCount'
    BY <1>20 DEF ExitSet, Goto
  <1>21. ASSUME NEW f \in Fibers, ExitUnlock(f) PROVE RefCount'
    BY <1>21 DEF ExitUnlock, Goto, Release
  <1>22. ASSUME NEW f \in Fibers, ExitNotify(f) PROVE RefCount'
    <2>1. Woken(f)
      BY <1>22, NotifyWakes
    <2>2. \A t \in Fibers : JoinLeft(t)' = JoinLeft(t) /\ DetachLeft(t)' = DetachLeft(t)
      BY <1>22, <2>1 DEF ExitNotify, Woken
    <2>. HIDE DEF JoinLeft, DetachLeft
    <2>. QED BY <1>22, <2>1, <2>2 DEF ExitNotify, Woken
  <1>23. ASSUME NEW f \in Fibers, ExitPost(f) PROVE RefCount'
    <2>1. \A t \in Fibers : JoinLeft(t)' = JoinLeft(t) /\ DetachLeft(t)' = DetachLeft(t)
      BY <1>23 DEF ExitPost, Goto
    <2>. HIDE DEF JoinLeft, DetachLeft
    <2>2. \A t \in Fibers : JoinLeft(t) \in Int /\ DetachLeft(t) \in Int
      BY DEF JoinLeft, DetachLeft
    <2>. QED BY <1>23, <2>1, <2>2 DEF ExitPost, DropRef, Goto
  <1>24. ASSUME NEW f \in Fibers, ExitCount(f) PROVE RefCount'
    BY <1>24 DEF ExitCount, Goto
  <1>25. CASE UNCHANGED vars
    BY <1>25 DEF vars
  <1>. HIDE DEF Typed, Flags, Targets, FlagsMean, OneEach, Alone, RefCount, On, One, JoinLeft,
       DetachLeft, Runs, Joining, Detaching, Positions, CallPositions, JoinPositions,
       ExitPositions
  <1>. QED
    BY <1>1, <1>2, <1>3, <1>4, <1>5, <1>6, <1>7, <1>8, <1>9, <1>10, <1>11, <1>12, <1>13, <1>14,
       <1>15, <1>16, <1>17, <1>18, <1>19, <1>20, <1>21, <1>22, <1>23, <1>24, <1>25
    DEF Next, JoinSteps, DetachSteps, ExitSteps

\* A call that does not overlap with another one finds the fiber joinable.
LEMMA NextAlone ==
  Typed /\ Targets /\ Sleeper /\ Alone /\ [Next]_vars
    => Alone'
  <1>. SUFFICES ASSUME Typed, Targets, Sleeper, Alone, [Next]_vars PROVE Alone'
    OBVIOUS
  <1>. USE DEF Typed, Flags, Targets, Alone, On, Joining, Detaching, Positions, CallPositions,
       JoinPositions, ExitPositions
  <1>1. ASSUME NEW f \in Fibers, NEW t \in Fibers, NEW d \in BOOLEAN, Create(f, t, d) PROVE Alone'
    BY <1>1 DEF Create
  <1>2. ASSUME NEW f \in Fibers, NEW t \in Fibers, CallJoin(f, t) PROVE Alone'
    BY <1>2 DEF CallJoin, Call, Goto
  <1>3. ASSUME NEW f \in Fibers, NEW t \in Fibers, CallDetach(f, t) PROVE Alone'
    BY <1>3 DEF CallDetach, Call, Goto
  <1>4. ASSUME NEW f \in Fibers, JoinLock(f) PROVE Alone'
    BY <1>4 DEF JoinLock, Goto, Acquire
  <1>5. ASSUME NEW f \in Fibers, JoinCheck(f) PROVE Alone'
    BY <1>5 DEF JoinCheck, Goto
  <1>6. ASSUME NEW f \in Fibers, JoinNotJoinable(f) PROVE Alone'
    BY <1>6 DEF JoinNotJoinable, Goto
  <1>7. ASSUME NEW f \in Fibers, JoinDead(f) PROVE Alone'
    BY <1>7 DEF JoinDead, Goto
  <1>8. ASSUME NEW f \in Fibers, JoinWait(f) PROVE Alone'
    BY <1>8 DEF JoinWait, Goto
  <1>9. ASSUME NEW f \in Fibers, JoinWoken(f) PROVE Alone'
    BY <1>9 DEF JoinWoken, Goto, Acquire
  <1>10. ASSUME NEW f \in Fibers, JoinUnlock(f) PROVE Alone'
    BY <1>10 DEF JoinUnlock, Goto, Release
  <1>11. ASSUME NEW f \in Fibers, JoinRelease(f) PROVE Alone'
    BY <1>11 DEF JoinRelease, LastUse, DropRef, Goto
  <1>12. ASSUME NEW f \in Fibers, DetachLock(f) PROVE Alone'
    BY <1>12 DEF DetachLock, Goto, Acquire
  <1>13. ASSUME NEW f \in Fibers, DetachNotJoinable(f) PROVE Alone'
    BY <1>13 DEF DetachNotJoinable, Goto
  <1>14. ASSUME NEW f \in Fibers, DetachClear(f) PROVE Alone'
    BY <1>14 DEF DetachClear, Goto
  <1>15. ASSUME NEW f \in Fibers, DetachUnlock(f) PROVE Alone'
    BY <1>15 DEF DetachUnlock, Goto, Release
  <1>16. ASSUME NEW f \in Fibers, DetachRelease(f) PROVE Alone'
    BY <1>16 DEF DetachRelease, LastUse, DropRef, Goto
  <1>17. ASSUME NEW f \in Fibers, Fail(f) PROVE Alone'
    BY <1>17 DEF Fail, Goto
  <1>18. ASSUME NEW f \in Fibers, Exit(f) PROVE Alone'
    BY <1>18 DEF Exit, Goto
  <1>19. ASSUME NEW f \in Fibers, ExitLock(f) PROVE Alone'
    BY <1>19 DEF ExitLock, Goto, Acquire
  <1>20. ASSUME NEW f \in Fibers, ExitSet(f) PROVE Alone'
    BY <1>20 DEF ExitSet, Goto
  <1>21. ASSUME NEW f \in Fibers, ExitUnlock(f) PROVE Alone'
    BY <1>21 DEF ExitUnlock, Goto, Release
  <1>22. ASSUME NEW f \in Fibers, ExitNotify(f) PROVE Alone'
    <2>1. Woken(f)
      BY <1>22, NotifyWakes
    <2>. QED BY <1>22, <2>1 DEF ExitNotify, Woken
  <1>23. ASSUME NEW f \in Fibers, ExitPost(f) PROVE Alone'
    BY <1>23 DEF ExitPost, DropRef, Goto
  <1>24. ASSUME NEW f \in Fibers, ExitCount(f) PROVE Alone'
    BY <1>24 DEF ExitCount, Goto
  <1>25. CASE UNCHANGED vars
    BY <1>25 DEF vars
  <1>. HIDE DEF Typed, Flags, Targets, Alone, On, Joining, Detaching, Positions, CallPositions,
       JoinPositions, ExitPositions
  <1>. QED
    BY <1>1, <1>2, <1>3, <1>4, <1>5, <1>6, <1>7, <1>8, <1>9, <1>10, <1>11, <1>12, <1>13, <1>14,
       <1>15, <1>16, <1>17, <1>18, <1>19, <1>20, <1>21, <1>22, <1>23, <1>24, <1>25
    DEF Next, JoinSteps, DetachSteps, ExitSteps

-----------------------------------------------------------------------------

\* The inductive invariant holds of every behaviour.
THEOREM Invariance == Spec => []IInv
  <1>1. IInv /\ [Next]_vars => IInv'
    BY NextTyped, NextTargets, NextCreated, NextFlagsMean, NextOneEach, NextSleeper,
       NextRefCount, NextAlone, NextCounted
    DEF IInv
  <1>. QED BY InitIInv, <1>1, PTL DEF Spec

\* The variables of every fiber keep their types: a count stays between -1 and 2,
\* since the fiber, one join and one detach drop a reference each, and the
\* scheduler's num_fibers is that of fibers that are there.
THEOREM TypeCorrect == Spec => []TypeOK
  <1>1. IInv => TypeOK
    <2>. SUFFICES ASSUME IInv PROVE TypeOK
      OBVIOUS
    <2>1. ref_count \in [Fibers -> -1..2]
      <3>1. \A t \in Fibers : ref_count[t] \in -1..2
        BY DEF IInv, Typed, Created, RefCount, One, JoinLeft, DetachLeft
      <3>. QED BY <3>1 DEF IInv, Typed
    <2>2. num_fibers \in 0..Cardinality(Fibers)
      <3>1. Unfinished \subseteq Fibers
        BY DEF Unfinished
      <3>. QED BY <3>1, UnfinishedFinite, FiberAssumption, FS_Subset, FS_CardinalityType
           DEF IInv, Counted
    <2>. QED BY <2>1, <2>2 DEF IInv, Typed, TypeOK, Positions
  <1>. QED BY Invariance, <1>1, PTL

\* For any number of fibers, a fiber that exits, joins or detaches touches a
\* struct fev_fiber that has not been freed, as long as the calls on its handle
\* do not overlap.
THEOREM TouchedIsAlive == Spec => []NoUseAfterFree
  <1>1. IInv => NoUseAfterFree
    <2>. SUFFICES ASSUME IInv, NEW f \in Fibers,
                         pc[f] \in CallPositions \cup ExitPositions, ~overlap[target[f]]
                  PROVE  mem[target[f]] = "alive"
      BY DEF NoUseAfterFree
    <2>1. target[f] \in Fibers /\ pc[target[f]] # "none"
      BY DEF IInv, Typed, Targets, ExitPositions, CallPositions, JoinPositions
    <2>2. CASE pc[f] \in CallPositions
      BY <2>1, <2>2 DEF IInv, Created, RefCount, Alone, On, One
    <2>3. CASE pc[f] \in ExitPositions
      BY <2>1, <2>3 DEF IInv, Typed, Targets, Created, RefCount, One, Runs, ExitPositions,
         CallPositions, JoinPositions
    <2>. QED BY <2>2, <2>3
  <1>. QED BY Invariance, <1>1, PTL

\* A fiber that has exited and that nobody can join or detach any more has been
\* freed, whether or not calls on its handle overlapped.
THEOREM NothingLeaks == Spec => []NoLeak
  <1>1. IInv => NoLeak
    BY DEF IInv, Typed, Created, RefCount, One, Runs, NoLeak
  <1>. QED BY Invariance, <1>1, PTL

\* Two fibers never wait to join the same one, even when their calls overlap.
THEOREM AtMostOneJoiner == Spec => []OneJoiner
  <1>1. IInv => OneJoiner
    <2>. SUFFICES ASSUME IInv, NEW t \in Fibers
                  PROVE  Cardinality({f \in Fibers : target[f] = t /\ pc[f] \in
                           {"join_wait", "join_woken", "join_unlock", "join_release"}}) <= 1
      BY DEF OneJoiner
    <2>. DEFINE S == {f \in Fibers : target[f] = t /\ pc[f] \in
                        {"join_wait", "join_woken", "join_unlock", "join_release"}}
    <2>1. \A f, g \in S : f = g
      BY DEF IInv, OneEach, Joining
    <2>2. S = {} \/ \E f \in S : S = {f}
      BY <2>1
    <2>. HIDE DEF S
    <2>3. Cardinality(S) <= 1
      <3>1. CASE S = {}
        BY <3>1, FS_EmptySet
      <3>2. ASSUME NEW f \in S, S = {f} PROVE Cardinality(S) <= 1
        BY <3>2, FS_Singleton
      <3>. QED BY <2>2, <3>1, <3>2
    <2>. QED BY <2>3 DEF S
  <1>. QED BY Invariance, <1>1, PTL

\* The safety half of JoinReturns: a joiner that sleeps in fev_cond_wait() is on
\* the cond of a fiber that has not notified it yet, and it is the fiber that the
\* notification wakes, however the calls on the handle overlap.
THEOREM SleeperIsNotified == Spec => []Sleeper
  BY Invariance, PTL DEF IInv

\* num_fibers, at 0 of which the workers stop, is the number of fibers that were
\* created and have not exited.
THEOREM CountIsExact == Spec => []Counted
  BY Invariance, PTL DEF IInv
===============================================================================
