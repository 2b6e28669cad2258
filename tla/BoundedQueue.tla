---------------------------- MODULE BoundedQueue ------------------------------
(***************************************************************************)
(* What the two bounded run queues have in common: a buffer of Capacity     *)
(* cells used round-robin between the positions `head` and `tail`, which    *)
(* are uint32_t and wrap, at Word here.                                     *)
(***************************************************************************)
EXTENDS QueueCalls

CONSTANTS
  Values,
  Capacity,   \* buffer_mask + 1
  Word        \* 2^32 in the code

ASSUME BoundedQueueAssumption ==
  /\ NULL \notin Values
  /\ Capacity \in Nat /\ Capacity >= 2
  /\ Word \in Nat /\ Word % Capacity = 0 /\ Word >= 4 * Capacity

VARIABLES
  data,             \* of each cell
  head, tail,
  pos,              \* pos[t]: the local `head` or `tail` of a call
  val               \* val[t]: what t pushes or has popped

Cells == 0..(Capacity - 1)

BufferInit ==
  /\ data = [c \in Cells |-> NULL]
  /\ head = 0 /\ tail = 0
  /\ pos = [t \in Threads |-> 0]
  /\ val = [t \in Threads |-> NULL]

Load(t, p) == pos' = [pos EXCEPT ![t] = p]

Holds(t, v) == val' = [val EXCEPT ![t] = v]

Cell(t) == pos[t] % Capacity

\* No call is overtaken by half of the range of the positions, less the cells:
\* the one assumption about time that the code makes.  (The single producer is
\* ahead of the others.)
NotLapped(p) ==
  \A t \in Threads :
    pc[t] \notin {"idle", "spmc_fill"} => (p - pos[t]) % Word < Word \div 2 - Capacity

\* The call is over: its locals are dead.
Return(t, from) ==
  /\ Goto(t, from, "idle")
  /\ Load(t, 0)
  /\ Holds(t, NULL)

\* The number of elements, from which the schedulers set their back-off: two
\* loads that are not one step.
Size(t) ==
  /\ Goto(t, "idle", "size")
  /\ Load(t, head)
  /\ UNCHANGED <<data, head, tail, val>>

SizeReturns(t) ==
  /\ Return(t, "size")
  /\ UNCHANGED <<data, head, tail>>

Length == (tail - head) % Word
==============================================================================
