SPECIFICATION Spec
CONSTANTS
  LOCK_BIT = 16
  Threads = {t1, t2}
  root = root
  node = node
  other = other
  Cells = {root, node, other}
  Guard <- RootAndNode
  Logs <- GuardedLogs
  WriteLogs <- BothLogs
  Htm = TRUE
  DropsPanic = TRUE
  MaxEpoch = 9
  None = None
INVARIANT NoFreedCellCleaned
CHECK_DEADLOCK FALSE
