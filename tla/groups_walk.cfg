CONSTANTS
  n1 = n1  n2 = n2  n3 = n3  n4 = n4  t1 = t1  t2 = t2  s1 = s1  s2 = s2
  NoType = NoType
  Node = {n1, n2, n3, n4}
  Class = {t1, t2, s1, s2}
  Subclass <- Below
  Groups <- AllGroups
  MaxCancels = 1
SPECIFICATION FairSpec
INVARIANTS TopologyExact OrderRespected EndsDrained FailureSurfaces HandOverExact
PROPERTIES WalkEnds ImplementsGroupContract
CHECK_DEADLOCK FALSE
