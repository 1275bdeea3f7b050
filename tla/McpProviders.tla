----------------------------- MODULE McpProviders -----------------------------
(***************************************************************************)
(* runtime.py, tools/mcp.py: the MCP providers a runtime keeps warm        *)
(* (mcp_eager_start).  The first run that needs a provider creates a       *)
(* supervisor, a task that opens the provider, tells everybody who waits,  *)
(* and closes it when shutdown() sets its event.  Nothing suspends between *)
(* the look at the warm events and the insertion, so _mcp_warm_lock is     *)
(* always free and taking it no step of its own.                           *)
(***************************************************************************)
EXTENDS Integers, Sequences

CONSTANTS
  Provider,
  User,         (* runs, each with the providers of its agent               *)
  Needs         (* Needs[u]: those providers, in the agent's order          *)

ASSUME NeedsAssumption == Needs \in [User -> Seq(Provider)]

VARIABLES
  sup,          (* sup[p]: p's supervisor: none, starting, open, closing,   *)
                (* failed (start() raised, stop() pending) or gone          *)
  known,        (* keys of _mcp_warm_events and the two dicts beside it     *)
  told,         (* providers whose shutdown event is set                    *)
  broken,       (* keys of _mcp_supervisor_errors                           *)
  warm,         (* warm[u]: how many of its providers u has                 *)
  waiting,      (* waiting[u]: u awaits the event of the next one           *)
  doomed,       (* u gets the error of the provider it waited for           *)
  captured      (* supervised_keys of the shutdown() under way              *)

mcpVars == <<sup, known, told, broken, warm, waiting, doomed, captured>>

McpInit ==
  /\ sup = [p \in Provider |-> "none"]
  /\ known = {} /\ told = {} /\ broken = {} /\ captured = {}
  /\ warm = [u \in User |-> 0]
  /\ waiting = [u \in User |-> FALSE]
  /\ doomed = {}

NextOf(u) == Needs[u][warm[u] + 1]

WarmedUp(u) == warm[u] = Len(Needs[u])

Supervised(p) == sup[p] \in {"starting", "open", "closing", "failed"}

WaitersOf(p) == {u \in User : waiting[u] /\ NextOf(u) = p}

(* _warm_one_provider: create the supervisor, or look at the one there is. *)
Warm(u) ==
  /\ ~WarmedUp(u) /\ ~waiting[u] /\ u \notin doomed
  /\ UNCHANGED <<told, broken, captured>>
  /\ LET p == NextOf(u)
     IN  CASE p \notin known ->
                /\ known' = known \cup {p}
                /\ sup' = [sup EXCEPT ![p] = "starting"]
                /\ waiting' = [waiting EXCEPT ![u] = TRUE]
                /\ UNCHANGED <<warm, doomed>>
           [] p \in known /\ sup[p] = "starting" ->
                /\ waiting' = [waiting EXCEPT ![u] = TRUE]
                /\ UNCHANGED <<sup, known, warm, doomed>>
           [] p \in known /\ sup[p] # "starting" ->
                /\ warm' = [warm EXCEPT ![u] = @ + IF p \in broken THEN 0 ELSE 1]
                /\ doomed' = IF p \in broken THEN doomed \cup {u} ELSE doomed
                /\ UNCHANGED <<sup, known, waiting>>

OpenFailsSilently(p) ==                  \* mutant: only a successful start sets the event
  /\ sup[p] = "starting"
  /\ sup' = [sup EXCEPT ![p] = "failed"]
  /\ broken' = broken \cup {p}
  /\ UNCHANGED <<known, told, warm, waiting, doomed, captured>>

(* provider.start() returns or raises; the event wakes everybody before    *)
(* anybody else runs (the ready queue is first in, first out).             *)
Opened(p) ==
  /\ sup[p] = "starting"
  /\ sup' = [sup EXCEPT ![p] = IF p \in told THEN "closing" ELSE "open"]
  /\ warm' = [u \in User |-> warm[u] + IF u \in WaitersOf(p) THEN 1 ELSE 0]
  /\ waiting' = [u \in User |-> waiting[u] /\ u \notin WaitersOf(p)]
  /\ UNCHANGED <<known, told, broken, doomed, captured>>

OpenFails(p) ==
  /\ sup[p] = "starting"
  /\ sup' = [sup EXCEPT ![p] = "failed"]
  /\ broken' = broken \cup {p}
  /\ doomed' = doomed \cup WaitersOf(p)
  /\ waiting' = [u \in User |-> waiting[u] /\ u \notin WaitersOf(p)]
  /\ UNCHANGED <<known, told, warm, captured>>

(* The supervisor's finally: provider.stop() has returned or raised.       *)
Closed(p) ==
  /\ sup[p] \in {"closing", "failed"}
  /\ sup' = [sup EXCEPT ![p] = "gone"]
  /\ UNCHANGED <<known, told, broken, warm, waiting, doomed, captured>>

-----------------------------------------------------------------------------
(* AgentRuntime.shutdown(): set every event, ...                           *)
ReleaseBegins ==
  /\ captured' = known
  /\ told' = known
  /\ sup' = [p \in Provider |-> IF p \in known /\ sup[p] = "open" THEN "closing"
                                ELSE sup[p]]
  /\ UNCHANGED <<known, broken, warm, waiting, doomed>>

(* ... await every supervisor.  The loop runs over the live dict: one that *)
(* was added meanwhile makes it raise when it goes on.                     *)
GoneAmong(S) == {p \in S : sup[p] = "gone"}

ReleaseEnds ==
  /\ known = captured /\ GoneAmong(captured) = captured
  /\ known' = {} /\ told' = {} /\ broken' = {}
  /\ UNCHANGED <<sup, warm, waiting, doomed, captured>>

ReleaseBreaks ==
  /\ known # captured /\ GoneAmong(captured) # {}
  /\ UNCHANGED mcpVars
=============================================================================
