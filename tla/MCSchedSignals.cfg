SPECIFICATION Spec
CONSTANTS
  ProcMax  = 4
  NTty     = 1
  PQSize   = 2
  MaxPrio  = 1
  MaxPid   = 4
  SleepTimes = {1}
  MaxSpare = 2
  Calls    = {"pcreate", "waitpid", "kill", "ctrl-c"}
INVARIANT
  ShellsSurvive
