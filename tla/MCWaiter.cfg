SPECIFICATION FairSpec
CONSTANTS
  Wakers = {w1, w2, w3}
  Reasons = {READY, TIMED_OUT_CHECK, TIMED_OUT_NO_CHECK}
  NONE = NONE
INVARIANTS ResumedOnce NoTouchAfterReturn DoWakeClearOnEntry NoLostWake
PROPERTIES WakeDelivered AbsRefined
