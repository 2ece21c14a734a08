SPECIFICATION Spec
CONSTANTS
  Small = {s1, s2}
  Large = {l1}
  Tables0 = 1
  Tables1 = 1
  Groups <- MCGroups
  NoGroup = NoGroup
  T = 2
  Size <- MCSize
  num_tables <- MCTables
  Together = TRUE
INVARIANTS TypeOK SeatInv SeatsExclusive
SYMMETRY MCSymmetry
CHECK_DEADLOCK FALSE
