-------------------------------- MODULE SemAbs --------------------------------
(***************************************************************************)
(* A counting semaphore with a FIFO of waiting fibers: a permit is free, or *)
(* held by a fiber, or not posted yet; a post goes to the longest waiting   *)
(* fiber, and nobody takes a free permit while another waits.               *)
(***************************************************************************)
EXTENDS Naturals, Sequences

CONSTANTS Fibers, Value

VARIABLES permits, granted, waiting

absVars == <<permits, granted, waiting>>

AbsInit == permits = Value /\ granted = {} /\ waiting = <<>>

Take(f) ==
  /\ permits > 0 /\ waiting = <<>> /\ f \notin granted
  /\ permits' = permits - 1
  /\ granted' = granted \cup {f}
  /\ UNCHANGED waiting

Enqueue(f) ==
  /\ permits = 0
  /\ waiting' = Append(waiting, f)
  /\ UNCHANGED <<permits, granted>>

GiveUp(f) ==
  /\ \E i \in DOMAIN waiting : waiting[i] = f
  /\ waiting' = SelectSeq(waiting, LAMBDA g : g # f)
  /\ UNCHANGED <<permits, granted>>

Post ==
  IF waiting = <<>>
    THEN permits' = permits + 1 /\ UNCHANGED <<granted, waiting>>
    ELSE /\ granted' = granted \cup {Head(waiting)}
         /\ waiting' = Tail(waiting)
         /\ UNCHANGED permits

\* fev_sem_wait() returns with the permit.
Return(f) ==
  /\ f \in granted
  /\ granted' = granted \ {f}
  /\ UNCHANGED <<permits, waiting>>

AbsNext ==
  Post \/ \E f \in Fibers : Take(f) \/ Enqueue(f) \/ GiveUp(f) \/ Return(f)

AbsSpec == AbsInit /\ [][AbsNext]_absVars
===============================================================================
