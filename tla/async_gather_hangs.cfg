CONSTANTS
  r1 = r1  r2 = r2  g1 = g1
  Call = {g1}
  Single = {}
  Driven = {}
  Size <- Pair
  Width = 1
  Absorbs = {}
SPECIFICATION FairSpec
PROPERTY GathersEnd
CHECK_DEADLOCK FALSE
