CONSTANTS
  parent = parent  kid1 = kid1  kid2 = kid2  kid3 = kid3  kid4 = kid4
  team1 = team1  team2 = team2
  del1 = del1  del2 = del2  del3 = del3  del4 = del4
  NoLimit = NoLimit  NoAgent = NoAgent  NoAllow = NoAllow  NoCall = NoCall
  Run = {parent, kid1, kid2, kid3, kid4, team1, team2, del1, del2, del3, del4}
  Call = {1, 2, 3, 4, 5, 6, 7}
  Team = {team1, team2}
  Delegate = {"billing", "refunds"}
  Owner <- MCOwner
  Slots <- MCSlots
  Caller <- MCCaller
  Nesting = 2
  DelegateTool <- MCDelegateTool
  SpawnTool = "spawn_agents"
  ReadOnly = {"read_file", "web_search"}
  Registered = {"spawn_agents", "read_file", "write_file"}
  Removable = {"write_file"}
  Agent <- MCAgent
  Takes <- MCTakes
  Boss = {"boss", "reader", "writer", "sandboxed"}
  Template = "kid"
  Coordinator = "coordinator"
  Settings <- MCSettings
SPECIFICATION FairSpec
INVARIANTS PermitsExact  TrustHolds
PROPERTIES FanOutsEnd
CHECK_DEADLOCK FALSE
