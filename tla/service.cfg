CONSTANTS
  run1 = run1  run2 = run2  sub1 = sub1  sub2 = sub2
  mcp1 = mcp1  mcp2 = mcp2  mcp3 = mcp3
  sync1 = sync1  group1 = group1  result1 = result1  cancel1 = cancel1  ready1 = ready1
  files = files  search = search
  NoAnswer = NoAnswer  Host = Host
  Request <- MCRequest
  User <- MCRequest
  Starter <- MCStarter
  Kind <- MCKind
  Carries <- MCRequest
  About <- MCAbout
  Provider = {files, search}
  Needs <- MCNeeds
  PublishEvents = TRUE
  RunErrors = {"SpawnError", "SpawnCapError", "ValueError"}
  Settings <- MCSettings
SPECIFICATION FairSpec
INVARIANTS RepliesHeard ProvidersReleased ClientsAgree
PROPERTIES LifespanEnds
CHECK_DEADLOCK FALSE
