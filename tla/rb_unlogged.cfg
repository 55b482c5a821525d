SPECIFICATION Spec
CONSTANTS
  Threads = {t1, t2}
  Keys = {1, 2, 3, 4}
  Values = {1}
  None = None
  MAX_NODES = 4
  SharedKeys = 4
  MovedKeys = 0
  Closures <- InsertClosures
INVARIANT
  Verified
