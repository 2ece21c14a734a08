SPECIFICATION WSpec
CONSTANTS
  A = A
  M = M
  Regions = {A, M}
  Mapped = {M}
  Size <- MCSize
  Given <- MCGiven
  STANDARD_PAGE_SIZE = 2
  MAX_LORM_SIZE = 32
  Values <- MCValues
  Zero <- MCZero
  NewSizes = {}
  Habits = {}
  TotalPages = 20
PROPERTY Completes
CHECK_DEADLOCK FALSE
