SPECIFICATION FairSpec
CONSTANTS
  Fibers = {f1, f2}
  Pollers = {p1, p2}
  NULL = NULL
  MaxNow = 2
  AddCanFail = TRUE
  Past = FALSE
INVARIANTS NoDanglingMin NoLostTimeout NoEarlyTimeout
PROPERTY TimeoutDelivered
CHECK_DEADLOCK FALSE
