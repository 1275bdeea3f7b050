------------------------------ MODULE ToolSurface ------------------------------
(***************************************************************************)
(* _dispatch.py, tools/executor.py, tools/mcp.py: which tools one run of   *)
(* an agent offers to its model, and which of its calls ToolExecutor lets  *)
(* through.  An agent is its trust level, its native tools and its MCP     *)
(* providers; a provider is the tools its server reports and its           *)
(* allow-list, NoAllow for None.                                           *)
(***************************************************************************)
EXTENDS Integers

CONSTANTS
  ReadOnly,     (* executor._READ_ONLY_TOOLS                                *)
  NoAllow

Trust == {"sandbox", "low", "medium", "high"}

(* The names a provider contributes: what its server reports, cut down to  *)
(* the allow-list when there is one.                                       *)
Names(p) == IF p.allow = NoAllow THEN p.reports ELSE p.reports \cap p.allow

(* _resolve_mcp_toolsets: the providers that become toolsets of the run.   *)
Toolsets(a) ==
  {p \in a.servers : /\ a.trust # "sandbox"
                     /\ a.trust = "low" => p.allow # NoAllow
                     /\ Names(p) # {}}

Discovered(a) == UNION {Names(p) : p \in Toolsets(a)}

(* build_pydantic_ai_agent registers the remaining allowed names as plain  *)
(* tools; one the registry does not hold fails the build.                  *)
Plain(a) == a.tools \ Discovered(a)

Route(n, allowed, overrides, external) ==
  [name |-> n, allowed |-> allowed, overrides |-> overrides,
   external |-> external]

(* What the model may call, and what each call hands to the executor.  A   *)
(* toolset offers every tool of its server, listed or not.                 *)
Offered(a) ==
  {Route(n, a.tools, {}, FALSE) : n \in Plain(a)} \cup
  UNION {{Route(n, a.tools \cup Names(p),
                IF a.trust = "low" THEN Names(p) ELSE {}, TRUE) :
            n \in p.reports} : p \in Toolsets(a)}

AdmitsUnlisted(trust, route) ==          \* mutant: the allow-list is not consulted
  /\ trust # "sandbox"
  /\ trust = "low" => route.name \in ReadOnly \cup route.overrides

(* ToolExecutor.execute: the three refusals that raise TrustViolationError.*)
Admits(trust, route) ==
  /\ trust # "sandbox"
  /\ trust = "low" => route.name \in ReadOnly \cup route.overrides
  /\ route.name \in route.allowed

-----------------------------------------------------------------------------
(* What docs and docstrings promise an agent may use, without the code's   *)
(* two-step path: its native tools and its providers' tools, at LOW trust  *)
(* only the read-only ones and those a provider lists explicitly, in a     *)
(* sandbox none.                                                           *)
Granted(a) ==
  LET listed == UNION {p.reports \cap p.allow :
                         p \in {q \in a.servers : q.allow # NoAllow}}
      open == UNION {p.reports : p \in {q \in a.servers : q.allow = NoAllow}}
  IN  CASE a.trust = "sandbox" -> {}
        [] a.trust = "low"     -> (a.tools \cap ReadOnly) \cup listed
        [] OTHER               -> a.tools \cup listed \cup open
=============================================================================
