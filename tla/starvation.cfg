SPECIFICATION NoBadLuckSpec
CONSTANTS
  Threads = {t1, t2, t3}
  Disjoint = {t3}
  SPIN_LIMIT = 0
  YIELD_LIMIT = 1
  MAX_ELAPSED = 1
INVARIANTS
  StarvationTypeOK
  ControlAccounted
  FairHandoff
  StarveInv
PROPERTIES
  FailedProgress
