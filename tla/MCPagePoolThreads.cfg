CONSTANTS
  t1 = t1
  t2 = t2
  t3 = t3
  Threads = {t1, t2, t3}
  b1 = b1
  b2 = b2
  b3 = b3
  Blocks = {b1, b2, b3}
  NoBlock = NoBlock
  NoSub = NoSub
  PAGES = 2
  KEEP = 2
  SubPools = {1, 2, 3, 4, 5, 6, 7, 8}
  MaxOps = 10
SPECIFICATION MCSpec
SYMMETRY Symmetry
INVARIANTS PoolInv CountsRight
PROPERTIES ServedWhenAlone
