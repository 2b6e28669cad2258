SPECIFICATION Spec
CONSTANTS
  Threads = {t1, t2, t3}
  Entries = {e1, e2, e3}
  NULL = NULL
  Word = 4
INVARIANTS NoUseAfterFree RetiredConserved
SYMMETRY Symmetry
