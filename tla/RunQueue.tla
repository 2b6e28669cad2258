------------------------------- MODULE RunQueue -------------------------------
(***************************************************************************)
(* The lock-free structures that hold the runnable fibers.  Which of them   *)
(* there is, and the threads that use it, depends on the strategy that the  *)
(* library was built for: both are chosen at the start.                     *)
(***************************************************************************)
EXTENDS BoundedMpmc, BoundedSpmc, SimpleMpmc

bufferVars == <<data, head, tail, pos, val>>

vars == <<setup, callers, pc, bufferVars, mpmcVars, owner, simpleVars, poolVars>>

Init ==
  /\ CallsInit
  /\ BufferInit
  /\ MpmcInit
  /\ owner \in IF setup.kind = "spmc" THEN callers ELSE {NULL}
  /\ SimpleInit
  /\ PoolInit

Next ==
  /\ UNCHANGED <<setup, callers>>
  /\ \E t \in callers :
       \/ /\ setup.kind = "mpmc" /\ MpmcSteps(t)
          /\ UNCHANGED <<owner, simpleVars, poolVars>>
       \/ /\ setup.kind = "spmc" /\ SpmcSteps(t)
          /\ UNCHANGED <<mpmcVars, simpleVars, poolVars>>
       \/ /\ setup.kind = "simple" /\ SimpleSteps(t)
          /\ UNCHANGED <<bufferVars, mpmcVars, owner, poolVars>>
       \/ /\ setup.kind = "pool" /\ PoolSteps(t)
          /\ UNCHANGED <<bufferVars, mpmcVars, owner, simpleVars>>

Spec == Init /\ [][Next]_vars

-----------------------------------------------------------------------------
(* Properties. *)

\* A push fails only if the queue is full or, with many producers, a thread that
\* pops the element of the round before is still at the cell; a pop only if the
\* queue is empty or a thread that pushes the first element is still at the cell.
FailureJustified ==
  [][\A t \in callers :
       /\ setup.kind = "mpmc" => MpmcFailureJustified(t)
       /\ setup.kind = "spmc" /\ SpmcPopFails(t) => Length = 0]_vars

Contents ==
  [i \in 1..Length |->
     LET p == (head + i - 1) % Word IN
     IF setup.kind = "mpmc" THEN MpmcAt(p) ELSE data[p % Capacity]]

\* The refinement mapping.
Abs == INSTANCE QueueAbs WITH
  queue <- Contents,
  taken <- [t \in Threads |-> IF setup.kind = "mpmc" THEN MpmcTaken(t) ELSE SpmcTaken(t)]

\* The two bounded queues implement the first in, first out queue of QueueAbs: a
\* push takes effect with the exchange (or the store) of the tail, a pop with
\* the exchange of the head.
AbsRefined == Abs!AbsSpec

\* Whatever nodes are used again meanwhile, a fiber in the linked queue is popped
\* once, and until then it is in one node, which is in the queue or hangs on a
\* node about to be linked; and a node is in use, free, or on its way from one
\* to the other, once: no two calls get the same node and none is lost.
NothingLost ==
  /\ setup.kind = "simple" => SimpleConserved
  /\ setup.kind = "pool" => PoolConserved

\* docs/SchedulerStrategies.md says of work sharing that "fibers are scheduled
\* fairly (FIFO)": the fibers that one thread makes runnable leave the linked
\* queue in that order.
LinkedFifo == setup.kind = "simple" => SimpleFifo
==============================================================================
