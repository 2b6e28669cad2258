------------------------------ MODULE MCBinHeap ------------------------------
(* The heap with interchangeable timers. *)
EXTENDS BinHeap

Symmetry == Permutations(Timers)
==============================================================================
