SPECIFICATION Spec
CONSTANTS
  Root = root
  Guest = guest
  Names = {ann, b}
  Short = {b}
  Gids = {0, 1}
  Ttys = {0}
  Inodes = {2, 3}
  MaxCreates = 3
  MaxCalls = 5
  MaxBoots = 2
INVARIANTS TypeOK UidsFresh FileIsTable
CHECK_DEADLOCK FALSE
