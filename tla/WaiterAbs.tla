------------------------------ MODULE WaiterAbs ------------------------------
(***************************************************************************)
(* What one fev_waiter on a fiber's stack promises to its users: between    *)
(* the moment it is published and the moment fev_waiter_wait() returns, at  *)
(* most one wake reason is accepted, and that reason is what the wait       *)
(* returns.                                                                 *)
(***************************************************************************)
CONSTANTS Reasons, NONE

VARIABLES phase, outcome, result

absVars == <<phase, outcome, result>>

AbsInit ==
  /\ phase = "idle"
  /\ outcome = NONE
  /\ result = NONE

Arm ==
  /\ phase = "idle"
  /\ phase' = "armed"
  /\ outcome' = NONE
  /\ UNCHANGED result

Accept(r) ==
  /\ phase # "idle"
  /\ outcome = NONE
  /\ outcome' = r
  /\ UNCHANGED <<phase, result>>

Return ==
  /\ phase = "armed"
  /\ outcome # NONE
  /\ phase' = "returned"
  /\ result' = outcome
  /\ UNCHANGED outcome

Leave ==
  /\ phase = "returned"
  /\ phase' = "idle"
  /\ result' = NONE
  /\ UNCHANGED outcome

AbsNext ==
  \/ Arm
  \/ \E r \in Reasons : Accept(r)
  \/ Return
  \/ Leave

AbsSafeSpec == AbsInit /\ [][AbsNext]_absVars

\* An accepted reason is eventually returned.
AbsSpec == AbsSafeSpec /\ WF_absVars(Return)
==============================================================================
