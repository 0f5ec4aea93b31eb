SPECIFICATION FairSpec
CONSTANTS
  Size = 4
  Writers = {w1}
  Readers = {r1}
  ReadSize <- AllHalf
  WriteSizes = {1, 3, 6}
  FdOf <- OnePipe
  MaxBytes = 14
  Ends = {"exit", "kill"}
  None = None
  w1 = w1
  r1 = r1
INVARIANTS RingOK
PROPERTIES IsPipe BytesArrive
CHECK_DEADLOCK FALSE
