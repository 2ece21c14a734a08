SPECIFICATION Spec
CONSTANTS
  Ones = {a1, a2, a3}
  Twos = {b1, b2}
  Threes = {c1, c2}
  Tables0 = 1
  Tables1 = 1
  Tables2 = 1
  Groups <- MCGroups
  NoGroup = NoGroup
  T = 3
  Size <- MCSize
  num_tables <- MCTables
  Together = FALSE
SYMMETRY MCSymmetry
INVARIANT SeatsSuffice
CHECK_DEADLOCK FALSE
