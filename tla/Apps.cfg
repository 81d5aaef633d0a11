SPECIFICATION MCSpec
CONSTANTS
  Request = {r1, r2}
  b1 = b1
  Board = {b1}
  Player <- MCPlayer
  MIN_SCORE = 1
  MAX_SCORE = 2
  ENTRIES_PER_PAGE = 1
  MOST_ENTRIES_PER_PAGE = 2
  Holder = {p1}
  Held = {i1, i2}
  MAX_QUANTITY = 1
  MAX_LINES = 2
  Catalogued = {i1}
  Attributes = {"small", "big", "huge"}
  Schema = {"strict", "loose"}
  Fits <- MCFits
  Unholdable = {"huge"}
  Reader = {p1}
  MAX_STAGE = 1
  MAX_XP = 1
  Wave = {w1, w2}
  Order = {0, 1}
  MAX_BATCH = 2
  Absent = Absent
  Nobody = Nobody
  None = None
SYMMETRY Symmetry
INVARIANTS BestIsKept WalkedOnce GrantsAddUp HoldingsAreOfItems OneLineIsSafe
  ItemsFitASchema CurveIsWhole StageOfTheXp CatalogueIsWhole
