SPECIFICATION Spec
CONSTANTS
  PAGE = 2
  BLOCK = 4
  PagePool <- MCPagePool
  TotalBlockNum = 6
  BlockPool <- MCBlockPool
  LogArea = 3
  Starts = {0, 1, 2}
  Sizes = {1, 3, 6}
  FileLen = 8
  MaxOps = 5
INVARIANTS
  FileInv CrashLeavesPrefix RebuildSame SpacePartitioned ReadsWritten StatTrue
CHECK_DEADLOCK FALSE
