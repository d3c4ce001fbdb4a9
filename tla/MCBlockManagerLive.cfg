CONSTANTS
  t1 = t1
  t2 = t2
  Threads = {t1, t2}
  BlockNum = 4
  STEP_WEAR_COUNT = 2
  WEAR_STEP_NUMS = 4
  LOCK_RANGE = 64
  LOG_ENTRY_NUM = 2
  v1 = v1
  Values = {v1}
  Blank = Blank
  Increases = {2}
  MergeWear = {2}
  Ops = {"read", "write", "trim", "split", "merge"}
  MaxOps = 2
SPECIFICATION UnmixedSpec
CHECK_DEADLOCK FALSE
PROPERTY OperationsEnd
