SPECIFICATION Spec
CONSTANTS
  Nodes = {n1, n2, n3, n4}
  NULL = NULL
  Values = {0, 1, 2}
  Funcs <- MCFuncs
  Offsets = {0, 1, 3, 6}
SYMMETRY MCSymmetry
INVARIANT RingIntact
PROPERTY ImplementsList
