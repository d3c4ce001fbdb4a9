SPECIFICATION MCSpec
CONSTANTS
  t1 = t1
  t2 = t2
  Threads <- MCThreads
  NvmBlocks = 512
  reserveDataSize = 2097152
  PageNum = 2
  EntryPages = 7
  STEP_WEAR_COUNT = 1
  LOCK_RANGE = 4
  MaxEntries = 2
  MaxOps = 3
  MaxMoves = 2
CONSTRAINTS LostBriefly LastSwap
SYMMETRY Symmetry
INVARIANTS TypeOK UnmapInverse SwapRecoverable PageDataKept PageReadAtomic
