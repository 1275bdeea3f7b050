------------------------------ MODULE MCService ------------------------------
(***************************************************************************)
(* Six deployments, each with a handful of requests: a router with a       *)
(* worker of its own over a FastStream broker, over the in-memory one, and *)
(* with remote workers only; a server behind remote workers; a router and  *)
(* a server without a broker, the first with runs that share two MCP       *)
(* providers in opposite orders, the second with a token.                  *)
(***************************************************************************)
EXTENDS Service

CONSTANTS run1, run2, sub1, sub2, mcp1, mcp2, mcp3, sync1, group1, result1,
          cancel1, ready1, files, search

MCRequest == {run1, run2, sub1, sub2, mcp1, mcp2, mcp3, sync1, group1, result1,
              cancel1, ready1}

MCStarter == MCRequest \cup {Host}

MCKind ==
  [q \in MCRequest |->
     CASE q \in {run1, run2} -> "run"
       [] q \in {sub1, sub2, mcp1, mcp2, mcp3} -> "submit"
       [] q = sync1 -> "run_sync"   [] q = group1 -> "group"
       [] q = result1 -> "result"   [] q = cancel1 -> "cancel"
       [] q = ready1 -> "readyz"]

MCAbout == [q \in MCRequest |-> sub1]

MCNeeds ==
  [q \in MCRequest |-> CASE q = mcp1 -> <<files, search>> [] q = mcp2 -> <<search, files>>
                         [] q = mcp3 -> <<files>> [] OTHER -> <<>>]

Deployment(h, broker, worker, remote, timeout, token, requests) ==
  [host |-> h, broker |-> broker, worker |-> worker, remote |-> remote,
   timeout |-> timeout, token |-> token, requests |-> requests]

MCSettings ==
  <<Deployment("router", "stream", TRUE, FALSE, TRUE, FALSE, {run1, sub1, ready1}),
    Deployment("router", "memory", TRUE, FALSE, FALSE, FALSE, {run1, sub1, sub2}),
    Deployment("router", "stream", FALSE, TRUE, FALSE, FALSE, {sub1, mcp3}),
    Deployment("server", "stream", FALSE, TRUE, TRUE, FALSE, {run1, run2, sub1, ready1}),
    Deployment("router", "none", FALSE, FALSE, FALSE, FALSE, {mcp1, mcp2, mcp3}),
    Deployment("server", "none", FALSE, FALSE, FALSE, TRUE,
               {sub1, sync1, group1, result1, cancel1})>>
=============================================================================
