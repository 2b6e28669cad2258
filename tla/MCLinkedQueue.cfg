SPECIFICATION Spec
CONSTANTS
  Threads = {t1, t2, t3}
  Values = {a, b}
  MaxNodes = 4
  NULL = NULL
  Capacity = 2
  Word = 12
  Counts = 5
  MaxPushes = 2
  MaxCache = 1
  Setups <- LinkedQueue
INVARIANTS LinkedFifo
SYMMETRY Symmetry
