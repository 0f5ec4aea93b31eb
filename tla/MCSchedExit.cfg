SPECIFICATION Spec
CONSTANTS
  ProcMax  = 4
  NTty     = 1
  PQSize   = 1
  MaxPrio  = 0
  MaxPid   = 4
  SleepTimes = {1}
  MaxSpare = 2
  Calls    = {"pcreate", "exit", "waitpid", "sleep", "read", "rr", "priority"}
INVARIANT
  RunsAfterPRun
PROPERTIES
  OnlyExitsStrand
  OnlyLateWaitsAreLost
