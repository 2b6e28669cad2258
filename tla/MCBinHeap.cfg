SPECIFICATION Spec
CONSTANTS
  Timers = {t1, t2, t3, t4, t5, t6, t7}
  NULL = NULL
  Times = {1, 2, 3, 4}
PROPERTIES AbsRefined
SYMMETRY Symmetry
