SPECIFICATION Spec
CONSTANTS
  Red = {r1, r2, r3}
  Blue = {}
  Balls <- MCBalls
  Colour <- MCColour
  NoBall = NoBall
  Id <- MCId
  Crowd = 3
INVARIANT PairsMutual
CHECK_DEADLOCK FALSE
