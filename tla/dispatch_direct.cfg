CONSTANTS
  g1 = g1  h1 = h1  c1 = c1  c2 = c2  w1 = w1  w2 = w2
  NoMsg = NoMsg  NoBatch = NoBatch  NoWorker = NoWorker  Killed = Killed
  Batch = {h1}
  Slots <- OneHandle
  MaxRuns = 2
  Caller = {c1, c2}
  Handle = {h1}
  Direct = {h1}
  HasTimeout = TRUE
  Fleet = {w1}
  Concurrency = 1
  Keyed = {w1}
  Redelivers = TRUE
  MaxCrashes = 0
  MaxStops = 0
SPECIFICATION Spec
INVARIANTS TypeOK Provenance
PROPERTIES ImplementsContract AnswersSettle
CHECK_DEADLOCK FALSE
