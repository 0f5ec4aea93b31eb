SPECIFICATION Spec
CONSTANTS
  NProgs = 4
  NSlots = 6
  NFifos = 4
  NFiles = 3
  NInodes = 6
  Lines <- Piped
  MaxBytes = 1
  Budget = 4
INVARIANTS TypeOK TtyCounted PrivatePipes NoWild
PROPERTIES PipeKept
CHECK_DEADLOCK FALSE
