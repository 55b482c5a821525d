CONSTANTS
  Impls = {i1, i2, i3, i4}
  LOCK_BIT = 32
  BAG_COUNT = 3
  MaxKeys = 2
  MaxEpoch = 11
  None = None
  Unborn = Unborn
  Destroyed = Destroyed
SPECIFICATION Spec
SYMMETRY Symmetry
INVARIANTS
  ThreadKeyTypeOK
  RefCounted
  LogsUnique
  OnlyNestedSelfWaits
  KeyInv
CHECK_DEADLOCK FALSE
