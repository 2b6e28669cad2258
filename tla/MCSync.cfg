SPECIFICATION FairSpec
CONSTANTS
  p1 = p1
  c1 = c1
  c2 = c2
  Fibers = {p1, c1, c2}
  Producers = {p1}
  Consumers = {c1, c2}
  Queues = {"mutex", "cond", "sem"}
  NULL = NULL
  Builds <- AllBuilds
  MaxItems = 1
  Value = 1
  MaxValue = 2
INVARIANTS NodesLive MutualExclusion NoStrandedWaiter NoLostNotify NotifyAllWakesAll
PROPERTIES LockReturns MutexRefined SemRefined
