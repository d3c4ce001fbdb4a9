CONSTANTS
  t1 = t1
  Threads = {t1}
  BlockNum = 3
  STEP_WEAR_COUNT = 2
  WEAR_STEP_NUMS = 8
  LOCK_RANGE = 64
  LOG_ENTRY_NUM = 4
  v1 = v1
  v2 = v2
  Values = {v1, v2}
  Blank = Blank
  Increases = {1, 2}
  MergeWear = {0}
  Ops = {"read", "write"}
  MaxOps = 5
SPECIFICATION MCSpec
PROPERTY WrittenDataReadsBack
