----------------------------- MODULE MCRunQueue -------------------------------
EXTENDS RunQueue

AllSetups ==
  {[kind |-> "mpmc", threads |-> 3, lists |-> FALSE, nodes |-> 0],
   [kind |-> "mpmc", threads |-> 2, lists |-> TRUE, nodes |-> 0],
   [kind |-> "spmc", threads |-> 3, lists |-> TRUE, nodes |-> 0],
   [kind |-> "simple", threads |-> 2, lists |-> FALSE, nodes |-> 4],
   [kind |-> "pool", threads |-> 2, lists |-> FALSE, nodes |-> 3]}

LinkedQueue == {[kind |-> "simple", threads |-> 2, lists |-> FALSE, nodes |-> 4]}

\* Threads and values are interchangeable, and the properties are safety
\* ones.
Symmetry == Permutations(Threads) \cup Permutations(Values)
==============================================================================
