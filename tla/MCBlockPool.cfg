CONSTANTS
  TotalBlockNum = 6
  MAX_CACHE_BLOCK_NUM = 3
  Sizes = {1, 2, 3}
  MaxOps = 6
SPECIFICATION MCSpec
INVARIANTS PoolInv CountNeverShort RefusedOnlyWhenEmpty
