SPECIFICATION Spec
CONSTANTS
  LOCK_BIT = 16
  Threads = {t1, t2}
  Cells = {c}
  BAG_COUNT = 2
  MaxEpoch = 5
  DestructorsPanic = FALSE
  Buffered = {t1, t2}
  None = None
  CrowdEpoch = 5
  Visitors = {}
SYMMETRY Symmetry
INVARIANTS
  NoUseAfterFree
