SPECIFICATION FairSpec
CONSTANTS
  R = R
  r1 = r1
  r2 = r2
  r3 = r3
  r4 = r4
  g1 = g1
  Input <- MCInput
  Dots = {3}
  G = G
  Colours = {R, G}
  Red = {r1, r2, r3, r4}
  Green = {}
  Balls <- MCBalls
  Colour <- MCColour
  NoBall = NoBall
  Id <- MCId
INVARIANTS PairsMutual WaiterInScope ReportsComplete RoundsInv
PROPERTIES ImplementsPacking FullBoxesGo RoundsEnd
CHECK_DEADLOCK FALSE
