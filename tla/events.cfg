CONSTANTS
  r1 = r1  r2 = r2  relay = relay  s1 = s1  s2 = s2
  Emitter = {r1, r2, relay}
  Subscriber = {s1, s2}
  NoParent = "none"
  AnyTrace = "any"
  Event <- MCEvent
  Setting <- MCSetting
  QueueMax = 1
  MemCap = 3
  RowCap = 2
  Ttl = 3
  MaxCuts = 1
SYMMETRY Consumers
CHECK_DEADLOCK FALSE
SPECIFICATION Spec
INVARIANTS HubFaithful RetentionExact 
