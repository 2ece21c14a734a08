SPECIFICATION WriterSpec
CONSTANTS
  r1 = r1
  r2 = r2
  Regions = {r1}
  Mapped = {}
  Size <- MCSize
  Given <- MCGiven
  STANDARD_PAGE_SIZE = 2
  MAX_LORM_SIZE = 4
  Values <- MCValues
  Zero = "0"
  NewSizes = {}
  Habits = {}
  PagesOf1 = 3
  PagesOf2 = 2
  OddBytes = 0
  FilePages = 0
PROPERTIES ImplementsMemory
CHECK_DEADLOCK FALSE
