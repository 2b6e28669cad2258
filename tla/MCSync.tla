-------------------------------- MODULE MCSync --------------------------------
(***************************************************************************)
(* The programs of Sync for TLC.                                            *)
(***************************************************************************)
EXTENDS SyncRefinement

\* Both programs where adding a timer cannot fail, and the semaphore where it can.
AllBuilds ==
  {[program |-> p, can_fail |-> FALSE] : p \in {"cond", "sem"}}
    \cup {[program |-> "sem", can_fail |-> TRUE]}

\* The mutex where adding a timer can fail.
NoMemBuilds == {[program |-> "cond", can_fail |-> TRUE]}
===============================================================================
