SPECIFICATION Spec
CONSTANTS
  r1 = r1
  r2 = r2
  Regions = {r1, r2}
  Mapped = {r1}
  Size <- MCSize
  Given <- MCGiven
  STANDARD_PAGE_SIZE = 2
  MAX_LORM_SIZE = 6
  Values <- MCValues
  Zero = "0"
  NewSizes = {4}
  Habits = {}
  PagesOf1 = 4
  PagesOf2 = 2
  OddBytes = 0
  FilePages = 2
INVARIANTS SwapInv LORMTracksResident StaysUp
PROPERTIES ImplementsMemory
CHECK_DEADLOCK FALSE
