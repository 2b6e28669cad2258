SPECIFICATION FairSpec
CONSTANTS
  Fibers = {f1, f2, f3}
  Main = f1
  NULL = NULL
INVARIANTS NoUseAfterFree NoLeak OneJoiner
PROPERTY JoinReturns
CHECK_DEADLOCK FALSE
