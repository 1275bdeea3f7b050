CONSTANTS
  r1 = r1  r2 = r2  k1 = k1  k2 = k2  s1 = s1  s2 = s2
  Nobody = Nobody  NoRun = NoRun  Closed = Closed
  Run = {r1}
  Client = {k1, k2}
  Stream = {s1}
  Kind = {"memory", "file", "redis"}
  MaxFaults = 1
SPECIFICATION FairSpec
INVARIANTS CompletedHasResult StreamsFaithful
PROPERTIES TerminalStays RunsAndStreamsEnd ImplementsRunContract
CHECK_DEADLOCK FALSE
