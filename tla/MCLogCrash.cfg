CONSTANTS
  p1 = p1
  p2 = p2
  p3 = p3
  p4 = p4
  Pages = {p1, p2, p3, p4}
  NoPage = NoPage
  AREA_WORDS = 3
  RESERVE = 1
  SIZE_RANGE = 64
  ty1 = ty1
  Types = {ty1}
  Sizes = {0, 1, 3}
  INLINE_ARRAY = 1
  RecoveryReserves = {1}
  MaxOps = 6
SPECIFICATION MCSpec
SYMMETRY PageSymmetry
PROPERTIES OnlyWholeEntries
INVARIANTS LogInv AckedSurvive SameAsRebuilt AreasOwned
