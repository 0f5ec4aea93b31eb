SPECIFICATION FairSpec
CONSTANTS
  NFam = 3
  GroupSize = 2
  HistCount = 3
  FlushOver = 1
  ReadsTop = 100
  Width = 50
  NGroups = 4
  Used <- FewBlocks
  Values = {0, 1}
  Zero = 0
  MaxPinned = 2
  MaxCalls = 6
INVARIANTS NotDirtyIsOnDisk
PROPERTIES LostOnlyByEviction WritesReachDisk
