------------------------------- MODULE Service -------------------------------
(***************************************************************************)
(* server/router.py, server/app.py: one process that serves agents over    *)
(* HTTP, from the start of its lifespan to the end: AgentRouter in a host  *)
(* application ("router") or AgentServer.serve ("server"), with no broker, *)
(* the in-memory one or a FastStream one, with a worker of its own or      *)
(* workers elsewhere.  Requests start the backend, warm MCP providers,     *)
(* publish and wait for a reply; submitted runs go on behind them.         *)
(*                                                                         *)
(* External: the ASGI server, which leaves the lifespan when no request is *)
(* in flight; workers elsewhere; the model behind an agent.                *)
(***************************************************************************)
EXTENDS BrokerLink, McpProviders, HttpFacade, FiniteSets

CONSTANTS
  Request,
  Kind,         (* Kind[q]: the client's method                             *)
  Carries,      (* requests of clients that hold the server's token         *)
  About,        (* About[q]: the submitted run a result or cancel is about  *)
  Host,         (* the lifespan, as a starter of the backend                *)
  RunErrors,    (* bound: what a run may raise                              *)
  Settings,     (* bound: the deployments                                   *)
  NoAnswer

ASSUME ServiceAssumption ==
  /\ Starter = Request \cup {Host} /\ Host \notin Request
  /\ User = Request
  /\ \A q \in Request : Kind[q] \in {"result", "cancel"} => About[q] \in Request
  /\ PublishEvents \in BOOLEAN

(* How handlers end: with a value, or with what was raised.                *)
Ends == Values \cup Handled \cup RunErrors
        \cup {"NotReady", "Unready", "McpError", "RuntimeError"}

ASSUME EndsAssumption == NoAnswer \notin Ends

(* A deployment, as far as the protocol depends on it.                     *)
ASSUME SettingsAssumption ==
  \A i \in DOMAIN Settings :
    /\ Settings[i].host \in {"router", "server"}
    /\ Settings[i].broker \in {"none", "memory", "stream"}
    /\ Settings[i].worker \in BOOLEAN

VARIABLES
  chosen,       (* the member of Settings at work, never changed            *)
  host,         (* how far the lifespan has come                            *)
  enlisted,     (* the process's own worker is subscribed                   *)
  draining,     (* the handlers Worker.stop waits for                       *)
  pc,           (* pc[q]: how far the coroutine of request or run q is      *)
  queued,       (* tasks published and not consumed                         *)
  active,       (* tasks the process's own worker executes                  *)
  inflight,     (* replies published and not delivered                      *)
  record,       (* record[q]: the run record of submitted run q             *)
  end,          (* end[q]: how the handler of q ended                       *)
  answer        (* answer[q]: what the client's caller got                  *)

deskVars == <<pc, queued, active, inflight, record, end, answer>>
vars == <<chosen, host, enlisted, draining, deskVars, linkVars, mcpVars>>

setting == Settings[chosen]
Brokered == setting.broker # "none"

Init ==
  /\ chosen \in DOMAIN Settings
  /\ LinkInit({IF Brokered THEN setting.broker ELSE "memory"})
  /\ McpInit
  /\ host = "down" /\ enlisted = FALSE /\ draining = {}
  /\ pc = [q \in Request |-> "new"]
  /\ queued = {} /\ active = {} /\ inflight = {}
  /\ record = [q \in Request |-> "none"]
  /\ end = [q \in Request |-> NoAnswer]
  /\ answer = [q \in Request |-> NoAnswer]

Up == host \notin {"down", "starting", "enlisting", "refused", "stopped", "raised"}

(* AgentServer._shutting_down; AgentRouter never sets it.                  *)
Shutting == setting.host = "server" /\ host \in {"shutting", "draining"}

Background == {q \in Request : Kind[q] = "submit"}

Going(q) == pc[q] \in {"warming", "starting", "publishing", "awaiting", "executing"}

-----------------------------------------------------------------------------
(* Requests.                                                               *)
Respond(q, e) ==
  /\ end' = [end EXCEPT ![q] = e]
  /\ answer' = [answer EXCEPT ![q] = Decode(Send(e))]

(* run_sync opens a connection of its own, without the client's headers.   *)
Bearer(q) == ~setting.token \/ (q \in Carries /\ Kind[q] # "run_sync")

Admitted(q) ==
  /\ host \in {"serving", "shutting"} /\ q \in setting.requests /\ pc[q] = "new"
  /\ TurnedAway(Kind[q], Bearer(q), Shutting) = {}

TurnAway(q) ==
  /\ host \in {"serving", "shutting"} /\ q \in setting.requests /\ pc[q] = "new"
  /\ \E r \in TurnedAway(Kind[q], Bearer(q), Shutting) :
       answer' = [answer EXCEPT ![q] = Decode(r)]
  /\ pc' = [pc EXCEPT ![q] = "turned away"]
  /\ UNCHANGED <<chosen, host, enlisted, draining, queued, active, inflight, record,
                 end, linkVars, mcpVars>>

(* Probes, and the routes that only look at the run store.                 *)
Terminal == {"ok", "failed", "lost", "cancelled"}

Look(q) ==
  CASE Kind[q] = "healthz" -> "ok"
    [] Kind[q] = "readyz"  -> IF Shutting \/ (Brokered /\ ~ready) THEN "Unready"
                              ELSE "ok"
    [] Kind[q] = "cancel"  -> IF record[About[q]] = "none" THEN "RegistryError"
                              ELSE "ok"
    [] Kind[q] = "result"  -> CASE record[About[q]] \in {"ok", "failed"}
                                     -> record[About[q]]
                                [] record[About[q]] \in {"none", "lost"}
                                     -> "RegistryError"
                                [] OTHER -> "NotReady"

Inspect(q) ==
  /\ Kind[q] \in Probes \cup {"result", "cancel"} /\ Admitted(q)
  /\ pc' = [pc EXCEPT ![q] = "done"]
  /\ Respond(q, Look(q))
  /\ record' = IF Kind[q] = "cancel" /\ record[About[q]] = "pending"
               THEN [record EXCEPT ![About[q]] = "cancelled"] ELSE record
  /\ UNCHANGED <<chosen, host, enlisted, draining, queued, active, inflight, linkVars,
                 mcpVars>>

(* /submit answers at once and leaves a run behind.                        *)
Accept(q) ==
  /\ Kind[q] \in {"run", "run_sync", "group", "submit"} /\ Admitted(q)
  /\ pc' = [pc EXCEPT ![q] = "warming"]
  /\ IF Kind[q] = "submit"
     THEN Respond(q, "ok") /\ record' = [record EXCEPT ![q] = "pending"]
     ELSE UNCHANGED <<record, end, answer>>
  /\ UNCHANGED <<chosen, host, enlisted, draining, queued, active, inflight, linkVars,
                 mcpVars>>

(* The run of q is over: its handler answers, or _execute_run records it.  *)
Settle(q, e) ==
  /\ pc' = [pc EXCEPT ![q] = "done"]
  /\ IF Kind[q] = "submit"
     THEN /\ record' = [record EXCEPT ![q] = IF e \in Values THEN e ELSE "lost"]
          /\ UNCHANGED <<end, answer>>
     ELSE Respond(q, e) /\ UNCHANGED record

-----------------------------------------------------------------------------
(* runtime.run: warm the providers, start the backend, publish, wait.      *)
WarmUp(q) ==
  /\ Up /\ pc[q] = "warming"
  /\ \/ Warm(q) /\ UNCHANGED <<deskVars, linkVars>>
     \/ /\ q \in doomed
        /\ Settle(q, "McpError")
        /\ UNCHANGED <<queued, active, inflight, linkVars, mcpVars>>
     \/ /\ WarmedUp(q) /\ q \notin doomed
        /\ pc' = [pc EXCEPT ![q] = IF Brokered THEN "starting" ELSE "executing"]
        /\ UNCHANGED <<queued, active, inflight, record, end, answer, linkVars, mcpVars>>
  /\ UNCHANGED <<chosen, host, enlisted, draining>>

StartBackend(q) ==
  /\ Up /\ pc[q] = "starting"
  /\ Start(q) \/ Connected(q) \/ Collected(q) \/ Bridged(q)
  /\ UNCHANGED <<chosen, host, enlisted, draining, deskVars, mcpVars>>

(* JobBackend.spawn once start() has returned: publish() raises on a       *)
(* broker that is not there any more; the in-memory one hands the task to  *)
(* a subscribed worker or drops it.                                        *)
Publish(q) ==
  /\ Up /\ pc[q] = "starting"
  /\ \/ /\ boot[q] = "refused" \/ (boot[q] = "up" /\ ~Usable)
        /\ Settle(q, "RuntimeError")
        /\ UNCHANGED <<queued, active, inflight>>
     \/ /\ boot[q] = "up" /\ Usable
        /\ pc' = [pc EXCEPT ![q] = "awaiting"]
        /\ queued' = IF scheme = "stream" THEN queued \cup {q} ELSE queued
        /\ active' = IF scheme = "memory" /\ enlisted THEN active \cup {q} ELSE active
        /\ UNCHANGED <<inflight, record, end, answer>>
  /\ UNCHANGED <<chosen, host, enlisted, draining, linkVars, mcpVars>>

(* A worker, this process's or another's, takes the task.                  *)
Consume(q) ==
  /\ Up /\ q \in queued
  /\ queued' = queued \ {q}
  /\ \/ enlisted /\ active' = active \cup {q} /\ UNCHANGED inflight
     \/ setting.remote /\ inflight' = inflight \cup {q} /\ UNCHANGED active
  /\ UNCHANGED <<chosen, host, enlisted, draining, pc, record, end, answer, linkVars,
                 mcpVars>>

Receive(q) ==
  IF subs.reply > 0 /\ pc[q] = "awaiting"
  THEN \E e \in {"ok", "failed"} : Settle(q, e)
  ELSE UNCHANGED <<pc, record, end, answer>>

(* The process's own worker has executed it and publishes the reply.       *)
Reply(q) ==
  /\ Up /\ q \in active
  /\ active' = active \ {q}
  /\ draining' = draining \ {q}
  /\ IF scheme = "memory"
     THEN Receive(q) /\ UNCHANGED inflight
     ELSE /\ inflight' = IF Usable THEN inflight \cup {q} ELSE inflight
          /\ UNCHANGED <<pc, record, end, answer>>
  /\ UNCHANGED <<chosen, host, enlisted, queued, linkVars, mcpVars>>

(* A reply nobody is subscribed for is gone.                               *)
Deliver(q) ==
  /\ Up /\ q \in inflight
  /\ inflight' = inflight \ {q}
  /\ Receive(q)
  /\ UNCHANGED <<chosen, host, enlisted, draining, queued, active, linkVars, mcpVars>>

(* The in-process backend's run ends; the runtime's timeout, if one is set.*)
Execute(q) ==
  /\ Up /\ pc[q] = "executing"
  /\ \E e \in RunErrors \cup {"failed", IF Kind[q] = "group" THEN "leaves" ELSE "ok"} :
       Settle(q, e)
  /\ UNCHANGED <<chosen, host, enlisted, draining, queued, active, inflight, linkVars,
                 mcpVars>>

TimeOut(q) ==
  /\ Up /\ pc[q] = "awaiting" /\ setting.timeout
  /\ Settle(q, "SpawnError")
  /\ UNCHANGED <<chosen, host, enlisted, draining, queued, active, inflight, linkVars,
                 mcpVars>>

-----------------------------------------------------------------------------
(* The lifespan.  _lifespan_startup: the backend, then a worker over the   *)
(* agents registered so far; what it raises leaves it undone.              *)
HostOnly == UNCHANGED <<chosen, deskVars>>

BeginLifespan ==
  /\ host = "down"
  /\ host' = IF setting.host = "router" /\ Brokered THEN "starting" ELSE "serving"
  /\ HostOnly /\ UNCHANGED <<enlisted, draining, linkVars, mcpVars>>

StartingUp ==
  /\ host = "starting"
  /\ Start(Host) \/ Connected(Host) \/ Collected(Host) \/ Bridged(Host)
  /\ host' = CASE boot'[Host] = "refused" -> "refused"
               [] boot'[Host] = "up"      -> IF setting.worker THEN "enlisting"
                                             ELSE "serving"
               [] OTHER                   -> host
  /\ HostOnly /\ UNCHANGED <<enlisted, draining, mcpVars>>

Enlist ==
  /\ host = "enlisting"
  /\ enlisted' = Usable
  /\ host' = IF Usable THEN "serving" ELSE "refused"
  /\ HostOnly /\ UNCHANGED <<draining, linkVars, mcpVars>>

(* SIGTERM to AgentServer.serve.                                           *)
InitiateShutdown ==
  /\ host = "serving" /\ setting.host = "server"
  /\ host' = "shutting"
  /\ HostOnly /\ UNCHANGED <<enlisted, draining, linkVars, mcpVars>>

(* The ASGI server leaves the lifespan.  Worker.stop comes first.          *)
LeaveLifespan ==
  /\ host = IF setting.host = "server" THEN "shutting" ELSE "serving"
  /\ \A q \in Request \ Background : ~Going(q)
  /\ host' = IF enlisted THEN "halting" ELSE "draining"
  /\ draining' = active
  /\ HostOnly /\ UNCHANGED <<enlisted, linkVars, mcpVars>>

(* It waits for the handlers it saw, then stops the broker it shares; an   *)
(* in-memory broker cancels the handlers still at work.                    *)
Abandon == active' = IF scheme = "memory" THEN {} ELSE active

StopWorker ==
  /\ host = "halting" /\ draining = {}
  /\ Unsubscribe /\ Abandon
  /\ enlisted' = FALSE
  /\ host' = "parting"
  /\ UNCHANGED <<chosen, draining, pc, queued, inflight, record, end, answer, mcpVars>>

WorkerLeft ==
  /\ host = "parting"
  /\ Disconnect /\ UNCHANGED ready
  /\ host' = "draining"
  /\ HostOnly /\ UNCHANGED <<enlisted, draining, mcpVars>>

DrainWithoutDeadline ==                  \* mutant: the drain waits for every run
  /\ host = "draining"
  /\ \A q \in Background : ~Going(q)
  /\ host' = IF setting.host = "server" THEN "stopped"
             ELSE IF Brokered THEN "leaving" ELSE "releasing"
  /\ HostOnly /\ UNCHANGED <<enlisted, draining, linkVars, mcpVars>>

(* _drain ends when no run is left or at its deadline.  AgentServer's      *)
(* lifespan ends there.                                                    *)
Drain ==
  /\ host = "draining"
  /\ host' = IF setting.host = "server" THEN "stopped"
             ELSE IF Brokered THEN "leaving" ELSE "releasing"
  /\ HostOnly /\ UNCHANGED <<enlisted, draining, linkVars, mcpVars>>

(* JobBackend.stop.                                                        *)
StopBroker ==
  /\ host = "leaving"
  /\ IF StopIsNoop
     THEN /\ ready' = FALSE /\ host' = "releasing"
          /\ UNCHANGED <<scheme, link, started, subs, collecting, boot, active>>
     ELSE Unsubscribe /\ Abandon /\ host' = "left"
  /\ UNCHANGED <<chosen, enlisted, draining, pc, queued, inflight, record, end, answer,
                 mcpVars>>

BackendStopped ==
  /\ host = "left"
  /\ Disconnect /\ ready' = FALSE
  /\ host' = "releasing"
  /\ HostOnly /\ UNCHANGED <<enlisted, draining, mcpVars>>

(* runtime.shutdown.                                                       *)
Release ==
  /\ \/ host = "releasing" /\ ReleaseBegins
        /\ host' = IF known = {} THEN "stopped" ELSE "closing"
     \/ host = "closing" /\ ReleaseEnds /\ host' = "stopped"
     \/ host = "closing" /\ ReleaseBreaks /\ host' = "raised"
  /\ HostOnly /\ UNCHANGED <<enlisted, draining, linkVars>>

Supervise(p) ==
  /\ host \notin {"stopped", "raised"}
  /\ Opened(p) \/ OpenFails(p) \/ Closed(p)
  /\ UNCHANGED <<chosen, host, enlisted, draining, deskVars, linkVars>>

-----------------------------------------------------------------------------
Lifespan == \/ StartingUp \/ Enlist \/ StopWorker \/ WorkerLeft \/ Drain
            \/ StopBroker \/ BackendStopped \/ Release

Coroutine(q) == \/ WarmUp(q) \/ StartBackend(q) \/ Publish(q) \/ Consume(q)
                \/ Reply(q) \/ Deliver(q) \/ Execute(q) \/ TimeOut(q)

Next ==
  \/ BeginLifespan \/ InitiateShutdown \/ LeaveLifespan \/ Lifespan
  \/ \E q \in Request : TurnAway(q) \/ Inspect(q) \/ Accept(q) \/ Coroutine(q)
  \/ \E p \in Provider : Supervise(p)

Spec == Init /\ [][Next]_vars

(* The event loop goes on with whatever can: broker and provider calls     *)
(* return or raise, the worker's executions end.                           *)
Progress == \/ Lifespan \/ \E q \in Request : Coroutine(q)
            \/ \E p \in Provider : Supervise(p)

FairSpec == Spec /\ WF_vars(Progress)

-----------------------------------------------------------------------------
(* Until somebody stops the broker (the process's worker, or else the      *)
(* lifespan after the drain), a backend that says it is started is: its    *)
(* broker is connected and both its topics are subscribed, however many    *)
(* runs started it at the same time, and whoever awaits a reply can hear it*)
BrokerStopped == host \in {"parting", "leaving", "left", "releasing", "closing",
                           "stopped", "raised"}
                 \/ (host = "draining" /\ setting.host = "router" /\ setting.worker)

RepliesHeard ==
  Brokered /\ ~BrokerStopped =>
    /\ ready \/ (\E q \in Request : pc[q] = "awaiting") =>
         /\ Usable
         /\ subs.reply > 0
         /\ PublishEvents => subs.events > 0
    /\ \A q \in Request : Kind[q] = "readyz" /\ answer[q] = "ok" => ready

(* Every provider that is open or opening belongs to a supervisor that the *)
(* next shutdown() will find, whatever was started while one was under way;*)
(* who waits for a provider waits for one that is opening; a run that has  *)
(* its providers finds them open unless it was told to shut down; and when *)
(* shutdown() has returned all of them are closed.                         *)
ProvidersReleased ==
  /\ \A p \in Provider : Supervised(p) => p \in known
  /\ \A u \in User : waiting[u] => sup[NextOf(u)] = "starting"
  /\ \A u \in User : \A i \in 1..warm[u] :
       told = {} /\ captured = {} => sup[Needs[u][i]] = "open"
  /\ host = "stopped" /\ setting.host = "router" => \A p \in Provider : ~Supervised(p)

(* A caller gets the same from the client over HTTP as from the local one, *)
(* error classes included, those outside the table as MurmurError; groups  *)
(* with several leaves and run_sync against a server with a token are      *)
(* where they differ.                                                      *)
ClientsAgree ==
  \A q \in Request : answer[q] # NoAnswer /\ Kind[q] \notin Probes =>
    \/ end[q] # NoAnswer /\ Agrees(answer[q], Locally(end[q]))
    \/ end[q] = "leaves"
    \/ pc[q] = "turned away" /\ (Shutting \/ ~Bearer(q) \/ host = "stopped")

(* Once left, the lifespan ends, with runs that never hear their reply and *)
(* providers that fail or are warmed meanwhile.                            *)
Exiting == {"halting", "parting", "draining", "leaving", "left", "releasing", "closing"}

LifespanEnds == (host \in Exiting) ~> (host \in {"stopped", "raised"})
=============================================================================
