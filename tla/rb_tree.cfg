SPECIFICATION Spec
CONSTANTS
  Threads = {t1, t2}
  Keys = {1, 2, 3, 4, 5, 6, 7, 8}
  Values = {1, 2}
  None = None
  MAX_NODES = 4
  SharedKeys = 4
  MovedKeys = 2
  Closures <- EntryClosures
SYMMETRY Symmetry
ACTION_CONSTRAINT SmallOverlap
INVARIANT
  Verified
PROPERTY
  IsDictionary
