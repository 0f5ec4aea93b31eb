SPECIFICATION Spec
CONSTANTS
  Procs = {p1, p2}
  Idle = idle
  Signals = {9}
  Pids = {1}
  MaxCalls = 4
  MaxKeys = 2
INVARIANTS FiredAsAsked SignalKept
PROPERTIES CallKept
SYMMETRY Same
CHECK_DEADLOCK FALSE
