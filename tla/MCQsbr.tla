-------------------------------- MODULE MCQsbr --------------------------------
(* Qsbr with interchangeable workers and interchangeable sockets. *)
EXTENDS Qsbr, TLC

Symmetry == Permutations(Threads) \cup Permutations(Entries)
==============================================================================
