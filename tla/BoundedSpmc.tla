----------------------------- MODULE BoundedSpmc ------------------------------
(***************************************************************************)
(* The bounded queue with one producer (fev_bounded_spmc_queue.h): each     *)
(* worker pushes to its own one, and pops from its own and, to steal, from  *)
(* those of the others.  A pop reads the cell before it takes the position. *)
(***************************************************************************)
EXTENDS BoundedQueue, SequencesExt

VARIABLES
  owner   \* the worker whose queue this is

-----------------------------------------------------------------------------
(* push() of one fiber and push_stq() of a list, which is val[owner].       *)

SpmcPush(t) ==
  /\ t = owner
  /\ Goto(t, "idle", "spmc_fill")
  /\ \E s \in SeqOf(Values, 2) \ {<<>>} :
       Holds(t, SubSeq(s, 1, Min({Len(s), Capacity - Length})))
  /\ Load(t, tail)
  /\ UNCHANGED <<data, head, tail, owner>>

SpmcFill(t) ==
  LET i == ((pos[t] - tail) % Word) + 1 IN
  /\ Goto(t, "spmc_fill", "spmc_fill")
  /\ i <= Len(val[t])
  /\ data' = [data EXCEPT ![Cell(t)] = val[t][i]]
  /\ Load(t, (pos[t] + 1) % Word)
  /\ UNCHANGED <<head, tail, val, owner>>

SpmcPublish(t) ==
  /\ pc[t] = "spmc_fill" /\ (pos[t] - tail) % Word = Len(val[t])
  /\ Return(t, "spmc_fill")
  /\ NotLapped(pos[t])
  /\ tail' = pos[t]
  /\ UNCHANGED <<data, head, owner>>

-----------------------------------------------------------------------------
(* fev_bounded_spmc_queue_pop(): the fiber read from the cell is the one at *)
(* `head` only if the exchange succeeds.                                    *)

SpmcPop(t) ==
  /\ Goto(t, "idle", "spmc_tail")
  /\ Load(t, head)
  /\ UNCHANGED <<data, head, tail, val, owner>>

SpmcPopTail(t) ==
  /\ pos[t] # tail
  /\ Goto(t, "spmc_tail", "spmc_data")
  /\ UNCHANGED <<data, head, tail, pos, val, owner>>

SpmcPopFails(t) ==
  /\ pos[t] = tail
  /\ Return(t, "spmc_tail")
  /\ UNCHANGED <<data, head, tail, owner>>

SpmcPopData(t) ==
  /\ Goto(t, "spmc_data", "spmc_cas")
  /\ Holds(t, data[Cell(t)])
  /\ UNCHANGED <<data, head, tail, pos, owner>>

\* Faulty: does not read the cell of the new head after a failed exchange.
SpmcPopCasKeepsData(t) ==
  /\ Goto(t, "spmc_cas", IF head = pos[t] THEN "spmc_popped" ELSE "spmc_cas")
  /\ head = pos[t] => NotLapped(head + 1)
  /\ head' = IF head = pos[t] THEN (head + 1) % Word ELSE head
  /\ Load(t, head)
  /\ UNCHANGED <<data, tail, val, owner>>

SpmcPopCas(t) ==
  /\ Goto(t, "spmc_cas", IF head = pos[t] THEN "spmc_popped" ELSE "spmc_tail")
  /\ head = pos[t] => NotLapped(head + 1)
  /\ head' = IF head = pos[t] THEN (head + 1) % Word ELSE head
  /\ Load(t, head)
  /\ Holds(t, IF head = pos[t] THEN val[t] ELSE NULL)
  /\ UNCHANGED <<data, tail, owner>>

SpmcPopped(t) ==
  /\ Return(t, "spmc_popped")
  /\ UNCHANGED <<data, head, tail, owner>>

SpmcSteps(t) ==
  \/ SpmcPush(t) \/ SpmcFill(t) \/ SpmcPublish(t)
  \/ SpmcPop(t) \/ SpmcPopTail(t) \/ SpmcPopFails(t) \/ SpmcPopData(t)
  \/ SpmcPopCas(t) \/ SpmcPopped(t)
  \/ (Size(t) \/ SizeReturns(t)) /\ UNCHANGED owner

SpmcTaken(t) == IF pc[t] = "spmc_popped" THEN val[t] ELSE NULL
==============================================================================
