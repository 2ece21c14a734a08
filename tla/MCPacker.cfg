SPECIFICATION Spec
CONSTANTS
  R = R
  G = G
  Colours = {R, G}
  Red = {r1, r2, r3, r4, r5, r6, r7}
  Green = {}
  Balls <- MCBalls
  Colour <- MCColour
  NoBall = NoBall
  Id <- MCId
  N = 3
SYMMETRY MCSymmetry
INVARIANTS NoSlotRace BoxesPartition GatesExclude PackInv
PROPERTY ImplementsPacking
CHECK_DEADLOCK FALSE
