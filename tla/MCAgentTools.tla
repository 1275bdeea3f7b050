----------------------------- MODULE MCAgentTools -----------------------------
(***************************************************************************)
(* Two forests.  "fan": one parent that may fan out twice at once, to two  *)
(* and to one child; the first child may fan out again, with the same      *)
(* tool.  "teams": a team run with three delegations to two delegates, and *)
(* a second one beside it with one.                                        *)
(***************************************************************************)
EXTENDS AgentTools

CONSTANTS parent, kid1, kid2, kid3, kid4, team1, team2, del1, del2, del3, del4

MCOwner == <<parent, parent, kid1, team1, team1, team1, team2>>

MCSlots == <<<<kid1, kid2>>, <<kid3>>, <<kid4>>,
             <<del1>>, <<del2>>, <<del3>>, <<del4>>>>

MCCaller ==
  parent :> NoCall @@ team1 :> NoCall @@ team2 :> NoCall @@
  kid1 :> 1 @@ kid2 :> 1 @@ kid3 :> 2 @@ kid4 :> 3 @@
  del1 :> 4 @@ del2 :> 5 @@ del3 :> 6 @@ del4 :> 7

MCDelegateTool == [t \in {team1, team2} |->
                     IF t = team1 THEN "delegate-1" ELSE "delegate-2"]

Server(reports, allow) == [reports |-> reports, allow |-> allow]

AnAgent(trust, tools, servers) ==
  [trust |-> trust, tools |-> tools, servers |-> servers]

MCTakes == "billing" :> "Bill" @@ "refunds" :> "Refund"

MCAgent ==
  "boss" :> AnAgent("medium", {"spawn_agents"}, {}) @@
  "kid" :> AnAgent("medium", {"spawn_agents"}, {}) @@
  "reader" :> AnAgent("low", {"read_file", "write_file"},
                      {Server({"search", "delete"}, {"search"})}) @@
  "writer" :> AnAgent("high", {"write_file"},
                      {Server({"search", "delete"}, {"search"})}) @@
  "sandboxed" :> AnAgent("sandbox", {"read_file"}, {Server({"search"}, NoAllow)}) @@
  "coordinator" :> AnAgent("medium", {}, {}) @@
  "billing" :> AnAgent("sandbox", {}, {}) @@ "refunds" :> AnAgent("sandbox", {}, {})

Setting(width, rounds_, retain, roots, calls) ==
  [width |-> width, rounds |-> rounds_, retain |-> retain, roots |-> roots,
   calls |-> calls]

MCSettings ==
  <<Setting(1, NoLimit, FALSE, {parent}, 2), Setting(2, NoLimit, FALSE, {parent}, 2),
    Setting(1, 2, TRUE, {team1}, 3), Setting(1, NoLimit, FALSE, {team1}, 2),
    Setting(1, NoLimit, TRUE, {team1, team2}, 1)>>
=============================================================================
