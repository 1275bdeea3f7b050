CONSTANTS
  r1 = r1  r2 = r2  g1 = g1
  Call = {r1, r2, g1}
  Single = {r1, r2}
  Driven = {r1}
  Size <- Mixed
  Width = 2
  Absorbs = {g1}
SPECIFICATION FairSpec
CONSTRAINT OneCall
INVARIANTS WidthHolds TasksAccounted GatherRaisesOnlyWhenDue
PROPERTY CallsEnd
CHECK_DEADLOCK FALSE
