-------------------------------- MODULE Fiber --------------------------------
(***************************************************************************)
(* The life of fibers (fev_fiber.c): creation, exit, detach and join, their *)
(* flags and the reference count that decides who frees a fiber.            *)
(*                                                                          *)
(* The mutex and the condition variable of a fiber are taken as what Mutex  *)
(* and Cond show them to be: one owner at a time, and a wait that releases  *)
(* the mutex and sleeps in one step.  A call of join or detach consumes the *)
(* handle that fev_fiber_create() returned.  Until then other fibers may    *)
(* call on it as well; overlap records that they did.                       *)
(***************************************************************************)
EXTENDS Integers, FiniteSets

CONSTANTS
  Fibers,
  Main,      \* the fiber that is put into the scheduler before it runs
  NULL

ASSUME FiberAssumption == Main \in Fibers /\ NULL \notin Fibers /\ IsFiniteSet(Fibers)

VARIABLES
  mem,         \* mem[t]: is the struct fev_fiber allocated?
  flags,
  ref_count,
  mutex,       \* mutex[t]: the owner of t's mutex, or NULL
  waiting,     \* waiting[t]: the fiber that sleeps on t's cond, or NULL
  handle,      \* handle[t]: may a fiber still call join or detach on t?
  overlap,     \* overlap[t]: did two calls on t overlap?
  num_fibers,  \* of the scheduler
  target,      \* the fiber that f's current call is about
  pc

vars == <<mem, flags, ref_count, mutex, waiting, handle, overlap, num_fibers, target, pc>>

Flags == {"DEAD", "JOINABLE", "JOINING"}

\* Main was spawned: it is detached.
Init ==
  /\ mem = [t \in Fibers |-> IF t = Main THEN "alive" ELSE "none"]
  /\ flags = [t \in Fibers |-> {}]
  /\ ref_count = [t \in Fibers |-> IF t = Main THEN 1 ELSE 0]
  /\ mutex = [t \in Fibers |-> NULL]
  /\ waiting = [t \in Fibers |-> NULL]
  /\ handle = [t \in Fibers |-> FALSE]
  /\ overlap = [t \in Fibers |-> FALSE]
  /\ num_fibers = 1
  /\ target = [f \in Fibers |-> f]
  /\ pc = [f \in Fibers |-> IF f = Main THEN "run" ELSE "none"]

Goto(f, from, to) == pc[f] = from /\ pc' = [pc EXCEPT ![f] = to]

-----------------------------------------------------------------------------
(* fev_mutex_lock() and fev_mutex_unlock() on the target's mutex, and       *)
(* fev_fiber_release().                                                     *)

Acquire(f, from, to) ==
  /\ Goto(f, from, to)
  /\ mutex[target[f]] = NULL
  /\ mutex' = [mutex EXCEPT ![target[f]] = f]
  /\ UNCHANGED <<mem, flags, ref_count, waiting, handle, overlap, num_fibers, target>>

Release(f, from, to) ==
  /\ Goto(f, from, to)
  /\ mutex' = [mutex EXCEPT ![target[f]] = NULL]
  /\ UNCHANGED <<mem, flags, ref_count, waiting, handle, overlap, num_fibers, target>>

\* Faulty: frees when the count was 2.
DropRefEarly(t) ==
  /\ ref_count' = [ref_count EXCEPT ![t] = @ - 1]
  /\ mem' = [mem EXCEPT ![t] = IF ref_count[t] <= 2 THEN "freed" ELSE @]

\* Faulty: never frees.
DropRefLeaks(t) ==
  /\ ref_count' = [ref_count EXCEPT ![t] = @ - 1]
  /\ UNCHANGED mem

DropRef(t) ==
  /\ ref_count' = [ref_count EXCEPT ![t] = @ - 1]
  /\ mem' = [mem EXCEPT ![t] = IF ref_count[t] = 1 THEN "freed" ELSE @]

-----------------------------------------------------------------------------
(* fev_fiber_create() and fev_fiber_spawn(), in a running fiber.            *)

Create(f, t, detached) ==
  /\ pc[f] = "run" /\ pc[t] = "none"
  /\ mem' = [mem EXCEPT ![t] = "alive"]
  /\ flags' = [flags EXCEPT ![t] = IF detached THEN {} ELSE {"JOINABLE"}]
  /\ ref_count' = [ref_count EXCEPT ![t] = IF detached THEN 1 ELSE 2]
  /\ handle' = [handle EXCEPT ![t] = ~detached]
  /\ num_fibers' = num_fibers + 1
  /\ pc' = [pc EXCEPT ![t] = "run"]
  /\ UNCHANGED <<mutex, waiting, overlap, target>>

-----------------------------------------------------------------------------
(* fev_fiber_join() and fev_fiber_detach().                                 *)

JoinPositions ==
  {"join_check", "join_loop", "join_wait", "join_woken", "join_unlock", "join_release"}

CallPositions ==
  JoinPositions \cup {"join_lock", "detach_lock", "detach_check", "detach_unlock",
                      "detach_release", "fail"}

\* A call from another fiber.  The handle stays usable until the first call on
\* it has dropped the reference.
Call(f, t, to) ==
  /\ handle[t] /\ t # f
  /\ Goto(f, "run", to)
  /\ overlap' = [overlap EXCEPT ![t] =
       @ \/ \E g \in Fibers : pc[g] \in CallPositions /\ target[g] = t]
  /\ target' = [target EXCEPT ![f] = t]
  /\ UNCHANGED <<mem, flags, ref_count, mutex, waiting, handle, num_fibers>>

CallJoin(f, t) == Call(f, t, "join_lock")
CallDetach(f, t) == Call(f, t, "detach_lock")

JoinLock(f) == Acquire(f, "join_lock", "join_check")

\* Faulty: lets a second joiner in.
JoinNoCheck(f) ==
  /\ Goto(f, "join_check", "join_loop")
  /\ flags' = [flags EXCEPT ![target[f]] = @ \cup {"JOINING"}]
  /\ UNCHANGED <<mem, ref_count, mutex, waiting, handle, overlap, num_fibers, target>>

\* Checks that nobody else joins the fiber.
JoinCheck(f) ==
  /\ Goto(f, "join_check", IF "JOINING" \in flags[target[f]] THEN "fail" ELSE "join_loop")
  /\ flags' = [flags EXCEPT ![target[f]] = @ \cup {"JOINING"}]
  /\ UNCHANGED <<mem, ref_count, mutex, waiting, handle, overlap, num_fibers, target>>

JoinNotJoinable(f) ==
  /\ Goto(f, "join_loop", "fail")
  /\ "JOINABLE" \notin flags[target[f]]
  /\ UNCHANGED <<mem, flags, ref_count, mutex, waiting, handle, overlap, num_fibers, target>>

JoinDead(f) ==
  /\ Goto(f, "join_loop", "join_unlock")
  /\ {"JOINABLE", "DEAD"} \subseteq flags[target[f]]
  /\ UNCHANGED <<mem, flags, ref_count, mutex, waiting, handle, overlap, num_fibers, target>>

\* fev_cond_wait(): unlocks the mutex and sleeps.
JoinWait(f) ==
  /\ Goto(f, "join_loop", "join_wait")
  /\ "JOINABLE" \in flags[target[f]] /\ "DEAD" \notin flags[target[f]]
  /\ waiting' = [waiting EXCEPT ![target[f]] = f]
  /\ mutex' = [mutex EXCEPT ![target[f]] = NULL]
  /\ UNCHANGED <<mem, flags, ref_count, handle, overlap, num_fibers, target>>

\* The end of fev_cond_wait().
JoinWoken(f) == Acquire(f, "join_woken", "join_loop")

JoinUnlock(f) == Release(f, "join_unlock", "join_release")

\* The end of a successful call: the reference of the handle is dropped.
LastUse(f, from) ==
  /\ Goto(f, from, "run")
  /\ DropRef(target[f])
  /\ handle' = [handle EXCEPT ![target[f]] = FALSE]
  /\ target' = [target EXCEPT ![f] = f]
  /\ UNCHANGED <<flags, mutex, waiting, overlap, num_fibers>>

JoinRelease(f) == LastUse(f, "join_release")

DetachLock(f) == Acquire(f, "detach_lock", "detach_check")

DetachNotJoinable(f) ==
  /\ Goto(f, "detach_check", "fail")
  /\ "JOINABLE" \notin flags[target[f]]
  /\ UNCHANGED <<mem, flags, ref_count, mutex, waiting, handle, overlap, num_fibers, target>>

DetachClear(f) ==
  /\ Goto(f, "detach_check", "detach_unlock")
  /\ "JOINABLE" \in flags[target[f]]
  /\ flags' = [flags EXCEPT ![target[f]] = @ \ {"JOINABLE"}]
  /\ UNCHANGED <<mem, ref_count, mutex, waiting, handle, overlap, num_fibers, target>>

DetachUnlock(f) == Release(f, "detach_unlock", "detach_release")

DetachRelease(f) == LastUse(f, "detach_release")

\* Both calls unlock the mutex and return -EINVAL.
Fail(f) ==
  /\ Goto(f, "fail", "run")
  /\ mutex' = [mutex EXCEPT ![target[f]] = NULL]
  /\ target' = [target EXCEPT ![f] = f]
  /\ UNCHANGED <<mem, flags, ref_count, waiting, handle, overlap, num_fibers>>

-----------------------------------------------------------------------------
(* fev_fiber_exit() and fev_fiber_exit_post().                              *)

Exit(f) ==
  /\ Goto(f, "run", "exit_lock")
  /\ UNCHANGED <<mem, flags, ref_count, mutex, waiting, handle, overlap, num_fibers, target>>

ExitLock(f) == Acquire(f, "exit_lock", "exit_set")

ExitSet(f) ==
  /\ Goto(f, "exit_set", "exit_unlock")
  /\ flags' = [flags EXCEPT ![f] = @ \cup {"DEAD"}]
  /\ UNCHANGED <<mem, ref_count, mutex, waiting, handle, overlap, num_fibers, target>>

ExitUnlock(f) == Release(f, "exit_unlock", "exit_notify")

\* Faulty: the joiner is not notified.
ExitNoNotify(f) ==
  /\ Goto(f, "exit_notify", "exit_post")
  /\ UNCHANGED <<mem, flags, ref_count, mutex, waiting, handle, overlap, num_fibers, target>>

\* fev_cond_notify_one().
ExitNotify(f) ==
  /\ pc[f] = "exit_notify"
  /\ pc' = [g \in Fibers |-> CASE g = f -> "exit_post"
                               [] g = waiting[f] -> "join_woken"
                               [] OTHER -> pc[g]]
  /\ waiting' = [waiting EXCEPT ![f] = NULL]
  /\ UNCHANGED <<mem, flags, ref_count, mutex, handle, overlap, num_fibers, target>>

ExitPost(f) ==
  /\ Goto(f, "exit_post", "exit_count")
  /\ DropRef(f)
  /\ UNCHANGED <<flags, mutex, waiting, handle, overlap, num_fibers, target>>

ExitCount(f) ==
  /\ Goto(f, "exit_count", "exited")
  /\ num_fibers' = num_fibers - 1
  /\ UNCHANGED <<mem, flags, ref_count, mutex, waiting, handle, overlap, target>>

-----------------------------------------------------------------------------

JoinSteps(f) ==
  \/ JoinLock(f) \/ JoinCheck(f) \/ JoinNotJoinable(f) \/ JoinDead(f) \/ JoinWait(f)
  \/ JoinWoken(f) \/ JoinUnlock(f) \/ JoinRelease(f)

DetachSteps(f) ==
  \/ DetachLock(f) \/ DetachNotJoinable(f) \/ DetachClear(f)
  \/ DetachUnlock(f) \/ DetachRelease(f)

ExitSteps(f) ==
  \/ ExitLock(f) \/ ExitSet(f) \/ ExitUnlock(f) \/ ExitNotify(f)
  \/ ExitPost(f) \/ ExitCount(f)

Next ==
  \E f \in Fibers :
    \/ \E t \in Fibers :
         \/ \E d \in BOOLEAN : Create(f, t, d)
         \/ CallJoin(f, t) \/ CallDetach(f, t)
    \/ JoinSteps(f) \/ DetachSteps(f) \/ Fail(f)
    \/ Exit(f) \/ ExitSteps(f)

Spec == Init /\ [][Next]_vars

\* The scheduler runs every fiber that has something left to do; the mutex is
\* handed over in order.  Nothing makes a fiber call join or exit.
Fairness ==
  \A f \in Fibers :
    WF_vars(JoinSteps(f) \/ DetachSteps(f) \/ Fail(f) \/ ExitSteps(f))

FairSpec == Spec /\ Fairness

-----------------------------------------------------------------------------
(* Properties. *)

ExitPositions ==
  {"exit_lock", "exit_set", "exit_unlock", "exit_notify", "exit_post"}

\* A count goes below 0 only when overlapping calls both drop the reference of
\* the handle.
TypeOK ==
  /\ mem \in [Fibers -> {"none", "alive", "freed"}]
  /\ flags \in [Fibers -> SUBSET Flags]
  /\ ref_count \in [Fibers -> -1..2]
  /\ mutex \in [Fibers -> Fibers \cup {NULL}]
  /\ waiting \in [Fibers -> Fibers \cup {NULL}]
  /\ handle \in [Fibers -> BOOLEAN]
  /\ overlap \in [Fibers -> BOOLEAN]
  /\ num_fibers \in 0..Cardinality(Fibers)
  /\ target \in [Fibers -> Fibers]
  /\ pc \in [Fibers -> CallPositions \cup ExitPositions
                         \cup {"none", "run", "exit_count", "exited"}]

\* A fiber that exits, joins or detaches only touches a struct fev_fiber that
\* has not been freed, whoever drops the last reference, as long as the calls on
\* its handle do not overlap.
NoUseAfterFree ==
  \A f \in Fibers :
    pc[f] \in CallPositions \cup ExitPositions /\ ~overlap[target[f]] =>
      mem[target[f]] = "alive"

\* Nothing leaks: a fiber that has exited and that nobody can join or detach
\* any more has been freed.
NoLeak ==
  \A t \in Fibers :
    /\ pc[t] \in {"exit_count", "exited"}
    /\ ~handle[t]
    /\ \A f \in Fibers : pc[f] \in CallPositions => target[f] # t
    => mem[t] = "freed"

\* A joiner of a fiber that has exited gets out of fev_fiber_join(): its wait is
\* notified, whenever it began to wait, unless another call on the fiber begins.
JoinReturns ==
  \A f, t \in Fibers :
    (pc[f] \in JoinPositions /\ target[f] = t /\ pc[t] = "exit_lock" /\ ~overlap[t])
      ~> (pc[f] = "run" \/ overlap[t])

\* Two fibers never sleep on the cond of one fiber, whose exit only wakes one:
\* the second caller of fev_fiber_join() gets -EINVAL.
OneJoiner ==
  \A t \in Fibers :
    Cardinality({f \in Fibers :
      target[f] = t /\ pc[f] \in {"join_wait", "join_woken", "join_unlock", "join_release"}}) <= 1
==============================================================================
