SPECIFICATION FairSpec
CONSTANTS
  Fibers = {f1, f2, f3, f4}
  NULL = NULL
INVARIANTS MutualExclusion StateMeaning ResumedAfterSave
PROPERTIES BlockedGetsLock AbsRefined
