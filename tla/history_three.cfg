SPECIFICATION HistorySpec
CONSTANTS
  LOCK_BIT = 8
  Threads = {t1, t2, t3}
  Cells = {a, b}
  Words = {1}
  Vals = {v0, t1, t2, t3}
  v0 = v0
  CellVals <- MCCellVals
  InitVal <- MCInitVal
  None = None
  Htm = TRUE
  MaxAccesses = 2
SYMMETRY Symmetry
ACTION_CONSTRAINT OneAttempt
INVARIANTS
  WritersSerialize
  ReadersSerialize
  HInv
PROPERTY IsSerial
