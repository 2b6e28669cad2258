------------------------------ MODULE QueueCalls ------------------------------
(***************************************************************************)
(* The threads that call the operations of a run queue, or of the pool of   *)
(* its nodes: workers, and threads that put a first fiber.                  *)
(***************************************************************************)
EXTENDS Integers, Sequences, FiniteSets

CONSTANTS
  Threads, NULL,
  Setups   \* records: the kind of structure, the number of threads, whether
           \* lists of fibers are pushed, and the number of nodes that the
           \* allocator has

VARIABLES
  setup,     \* the one that is checked
  callers,   \* the threads that take part
  pc

CallsInit ==
  /\ setup \in Setups
  /\ callers \in {c \in SUBSET Threads : Cardinality(c) = setup.threads}
  /\ pc = [t \in Threads |-> "idle"]

Goto(t, from, to) == pc[t] = from /\ pc' = [pc EXCEPT ![t] = to]
==============================================================================
