SPECIFICATION RolesSpec
CONSTANTS
  LOCK_BIT = 16
  Threads = {t1, t2, t3}
  Cells = {c}
  BAG_COUNT = 2
  MaxEpoch = 7
  DestructorsPanic = TRUE
  Buffered = {t1}
  None = None
  CrowdEpoch = 5
  Visitors = {t3}
ACTION_CONSTRAINT Roles
INVARIANT
  NoCircularWait
PROPERTIES
  EveryoneReturns
