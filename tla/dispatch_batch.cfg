CONSTANTS
  g1 = g1  h1 = h1  c1 = c1  c2 = c2  w1 = w1  w2 = w2
  NoMsg = NoMsg  NoBatch = NoBatch  NoWorker = NoWorker  Killed = Killed
  Batch = {g1}
  Slots <- PairBatch
  MaxRuns = 2
  Caller = {c1}
  Handle = {}
  Direct = {}
  HasTimeout = FALSE
  Fleet = {w1}
  Concurrency = 1
  Keyed = {w1}
  Redelivers = TRUE
  MaxCrashes = 0
  MaxStops = 0
SPECIFICATION Spec
INVARIANTS AnswersGenuine WakeUpExact BookkeepingExact
CHECK_DEADLOCK FALSE
