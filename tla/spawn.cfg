CONSTANTS
  c1 = c1  c2 = c2  c3 = c3  c4 = c4  a1 = a1  a2 = a2  a3 = a3
  pub = pub  wrk = wrk
  NoLimit = NoLimit  NoFrame = NoFrame  NoAgent = NoAgent  NoCall = NoCall
  Call = {c1, c2, c3}
  Agent = {a1, a2}
  Runtime = {pub, wrk}
  Local = {wrk}
  MaxDepth = 3
  Strict = TRUE
  Cap = 3
  Budget = 1
  Attempts = 2
  MaxSize = 2
  MaxTokens = 1
  MaxResets = 1
SPECIFICATION Spec
SYMMETRY Symmetry
INVARIANTS ChainFaithful  CapHolds CountersExact
CHECK_DEADLOCK FALSE
