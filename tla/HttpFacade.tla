------------------------------ MODULE HttpFacade ------------------------------
(***************************************************************************)
(* server/app.py, server/errors.py, server/router.py and the two clients,  *)
(* murmur_client/client.py over HTTP and client/local.py in process: who   *)
(* is let in, what the server sends for the way a handler ended, and what  *)
(* each client makes of it.  A way to end is a value ("ok", "failed",      *)
(* "leaves": an AgentResult that is ok or not, a GroupResult of several    *)
(* leaves; other answers count as "ok") or the class of what was raised.   *)
(***************************************************************************)
EXTENDS Integers

Values == {"ok", "failed", "leaves"}

(* ERROR_STATUS_MAP, and the subclass relation status_for looks through.   *)
Unlisted == {"SpawnCycleError", "SpawnCapError"}

StatusOf(class) ==
  CASE class = "TimeoutError"                                -> 504
    [] class \in {"BudgetExceededError", "DepthLimitError"}  -> 429
    [] class = "TrustViolationError"                         -> 403
    [] class \in {"SpecValidationError", "TopologyError"}    -> 400
    [] class = "RegistryError"                               -> 404
    [] OTHER                                                 -> 500

Listed == {"SpawnError", "ToolExecutionError", "ContextError",
           "AllAgentsFailedError", "BudgetExceededError", "DepthLimitError",
           "TrustViolationError", "SpecValidationError", "TopologyError",
           "RegistryError"}

(* _NAME_TO_CLASS, the same in the server and in the client package.       *)
Mapped == Listed \cup {"MurmurError"}

(* The classes the installed exception handlers catch: MurmurError with    *)
(* its subclasses, and TimeoutError.                                       *)
Handled == Mapped \cup Unlisted \cup {"TimeoutError"}

-----------------------------------------------------------------------------
Response(status, body, name) == [status |-> status, body |-> body, name |-> name]

(* The outer guards: authentication, then the shutdown guard.              *)
Probes == {"healthz", "readyz"}

Unauthorized == Response(401, "error", "Unauthorized")
ShuttingDown == Response(503, "error", "ServerShuttingDown")

TurnedAway(kind, bearer, shutting) ==
  IF kind \in Probes THEN {}
  ELSE IF ~bearer THEN {Unauthorized}
  ELSE IF shutting THEN {ShuttingDown} ELSE {}

(* What leaves the server: _serialize_result, the exception handlers, or   *)
(* an HTTPException's detail, or Starlette's plain text.                   *)
Send(end) ==
  IF end \in Values
  THEN Response(200, IF end = "leaves" THEN "leaves" ELSE "result", end)
  ELSE IF end = "NotReady" THEN Response(409, "detail", end)
  ELSE IF end \in Handled THEN Response(StatusOf(end), "error", end)
  ELSE Response(500, "text", end)

DecodeUntyped(r) ==                      \* mutant: the client forgets the table of classes
  IF r.status < 400 THEN IF r.body = "leaves" THEN "KeyError" ELSE r.name
  ELSE CASE r.body = "error" -> "MurmurError"
         [] r.body = "detail" -> "RegistryError"
         [] r.body = "text" -> "MurmurError"

(* _raise_for_status with response_to_error, and _wire_to_agent_result,    *)
(* which demands a single result's keys.                                   *)
Decode(r) ==
  IF r.status < 400 THEN IF r.body = "leaves" THEN "KeyError" ELSE r.name
  ELSE CASE r.body = "error"  -> IF r.name \in Mapped THEN r.name
                                 ELSE "MurmurError"
         [] r.body = "detail" -> "RegistryError"
         [] r.body = "text"   -> "MurmurError"

(* The same end seen by LocalClient: nothing is translated, and a result   *)
(* that is not ready is a RegistryError.                                   *)
Locally(end) == IF end = "NotReady" THEN "RegistryError" ELSE end

-----------------------------------------------------------------------------
(* What the client documents promise: the same class either way, or at     *)
(* least the base class.                                                   *)
Agrees(remote, local) ==
  IF local \in Values \cup Mapped THEN remote = local ELSE remote = "MurmurError"
=============================================================================
