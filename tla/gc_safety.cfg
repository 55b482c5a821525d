SPECIFICATION Spec
CONSTANTS
  LOCK_BIT = 16
  Threads = {t1, t2, t3}
  Cells = {c}
  BAG_COUNT = 3
  MaxEpoch = 9
  DestructorsPanic = FALSE
  Buffered = {}
  None = None
  CrowdEpoch = 5
  Visitors = {}
SYMMETRY Symmetry
ACTION_CONSTRAINT Crowd
INVARIANTS
  GcTypeOK
  NoUseAfterFree
  BagsConserved
  NothingLeftBehind
  GcInv
PROPERTY
  ListFrozen
