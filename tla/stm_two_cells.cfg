SPECIFICATION FairSpec
CONSTANTS
  LOCK_BIT = 6
  Threads = {t1, t2}
  Cells = {a, b}
  Words = {1}
  Vals = {v0, t1, t2}
  v0 = v0
  CellVals <- MCCellVals
  InitVal <- MCInitVal
  None = None
  Htm = TRUE
  MaxClock = 7
  MaxAccesses = 2
CONSTRAINT ClockBound
ACTION_CONSTRAINTS
  Frugal
INVARIANTS
  TypeOK
  Opacity
  GarbageExact
  LockDiscipline
  IInv
PROPERTY LocksReleased
