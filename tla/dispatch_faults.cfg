CONSTANTS
  g1 = g1  h1 = h1  c1 = c1  c2 = c2  w1 = w1  w2 = w2
  NoMsg = NoMsg  NoBatch = NoBatch  NoWorker = NoWorker  Killed = Killed
  Batch = {h1}
  Slots <- OneHandle
  MaxRuns = 2
  Caller = {c1}
  Handle = {h1}
  Direct = {}
  HasTimeout = FALSE
  Fleet = {w1, w2}
  Concurrency = 1
  Keyed = {w1}
  Redelivers = TRUE
  MaxCrashes = 1
  MaxStops = 1
SPECIFICATION FairSpec
PROPERTIES WaitersWake StopEnds
CHECK_DEADLOCK FALSE
