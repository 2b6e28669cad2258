SPECIFICATION FairSpec
CONSTANTS
  Workers = {w1, w2}
  Fibers = {f1, f2, f3}
  f1 = f1
  f2 = f2
  f3 = f3
  NULL = NULL
  Strategies <- AllStrategies
  StealCount = 1
  Word = 6
INVARIANTS FibersConserved NoStall
PROPERTIES RunnableRuns AllStop
CHECK_DEADLOCK FALSE
