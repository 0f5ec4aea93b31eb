SPECIFICATION FairSpec
CONSTANTS
  ProcMax  = 4
  NTty     = 1
  PQSize   = 2
  MaxPrio  = 1
  MaxPid   = 3
  SleepTimes = {1}
  MaxSpare = 2
  Calls    = {"pcreate", "rr", "setp", "sleep"}
PROPERTIES
  ReadyRuns
  SleeperWakes
