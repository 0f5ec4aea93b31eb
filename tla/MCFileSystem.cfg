SPECIFICATION Spec
CONSTANTS
  NInodes = 8
  NBlocks = 12
  NLog = 3
  Cap = 5
  Names = {"a", "b"}
  BootDirs = {"tmp"}
  Uids = {0, 1}
  Gid <- OneGroup
  Perms = {{"ur", "uw"}}
  Setups <- EmptyAndDeep
  Calls = {"open", "write", "mkdir", "rm", "cd", "link", "cp", "mv", "chmod",
           "chown", "login", "restart"}
  MaxCalls = 4
INVARIANTS
  TypeOK
  EntriesLive
  PathLeadsBack
  BlocksOwned
PROPERTIES
  RmRemovesTree
  CpCopies
CHECK_DEADLOCK FALSE
