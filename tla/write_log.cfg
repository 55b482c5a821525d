SPECIFICATION Spec
CONSTANTS
  Cells = {a, b, c}
  Vals = {x, y}
  Bits = {b1, b2}
  None = None
  MaxEntries = 3
SYMMETRY Symmetry
CONSTRAINT EntryBound
ACTION_CONSTRAINT OneInvalid
INVARIANTS
  WriteLogTypeOK
  MapOnlyOverflowed
  ReadsOwnWrites
  PublishesPending
  LogInv
PROPERTY OnlyWritesRemoved
CHECK_DEADLOCK FALSE
