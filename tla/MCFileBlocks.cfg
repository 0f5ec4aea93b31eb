SPECIFICATION DiskSpec
CONSTANTS
  Inodes = {2, 3}
  NBlocks = 10
  NDirect = 1
  Cells = 2
  Byte <- FileAndPlace
  WriteSizes = {1, 5}
  ReadSizes = {3}
  MaxLen = 10
  MaxCalls = 7
  GroupCount = 2
  InodeTableSize = 1
  InodesPerBlock = 2
  DataTableSize = 5
  BitmapSize = 6
INVARIANTS
  TypeOK
  OneOwner
  NoLeak
  DiskHolds
  MountFinds
PROPERTY
  IsFiles
CHECK_DEADLOCK FALSE
