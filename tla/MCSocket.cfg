SPECIFICATION FairSpec
CONSTANTS
  p1 = p1
  p2 = p2
  Pollers = {p1, p2}
  Setups <- AllSetups
INVARIANTS NoLostEvent TimeoutMeansDeleted
PROPERTY OpReturns
