SPECIFICATION Spec
CONSTANTS
  Size = 4
  Writers = {w1, w2}
  Readers = {r1, r2}
  ReadSize <- CatAndReader
  WriteSizes = {1, 4}
  FdOf <- OwnFds
  MaxBytes = 7
  Ends = {}
  None = None
  w1 = w1
  w2 = w2
  r1 = r1
  r2 = r2
INVARIANTS NotAllAsleep
CHECK_DEADLOCK FALSE
