SPECIFICATION FairSpec
CONSTANTS
  NTty = 2
  Procs = {r1, r2}
  TtyOf <- BothOfFirst
  BUFFER_SIZE = 3
  Full = 1
  CtrlKeys = {"lCtrl"}
  Other = other
  MaxKeys = 4
  r1 = r1
  r2 = r2
INVARIANTS KeysInOrder AsleepForCause
PROPERTIES StraysToScreen KeyIsRead
