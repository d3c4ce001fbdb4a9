SPECIFICATION Spec
CONSTANTS
  p1 = p1
  p2 = p2
  p3 = p3
  p4 = p4
  a = a
  b = b
  Pages <- MCPages
  Names <- MCNames
  maxInodeNum = 4
  AreaEntries = 2
  DEFAULT_SIZE = 3
  MaxCalls = 6
  MaxCrashes = 2
SYMMETRY Symmetry
INVARIANTS TreeInv CrashConsistent CacheIsReplay SpaceAccounted FreeListSound RecoveredOnce ReaddirLists
CHECK_DEADLOCK FALSE
