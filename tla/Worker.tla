--------------------------------- MODULE Worker ---------------------------------
(***************************************************************************)
(* worker/worker.py: a fleet of Workers serving one agent.  Each run   *)
(* is a coroutine of its own (handler + _run_one) that passes through the  *)
(* stages                                                                  *)
(*   delivered  the broker has created the handler task                    *)
(*   queued     in _active, waits for the worker's semaphore               *)
(*   running    holds the semaphore: hooks and runtime.run                 *)
(*   replying   about to publish its ResultMessage                         *)
(*   returned   the handler has returned normally                          *)
(*   raised     the handler has raised                                     *)
(*   lost       cancelled by broker.stop(), or its process died            *)
(***************************************************************************)
EXTENDS Wire, FiniteSets

CONSTANTS
  Fleet,        (* the workers                                              *)
  Concurrency,  (* Worker(concurrency=): permits of the semaphore           *)
  Keyed,        (* workers that accept the publisher's signature            *)
  NoWorker

ASSUME WorkerAssumption ==
  /\ Concurrency \in Nat \ {0}
  /\ Keyed \subseteq Fleet
  /\ NoWorker \notin Fleet

Stage == {"none", "delivered", "queued", "running", "replying",
          "returned", "raised", "lost"}

VARIABLES
  stage,        (* stage[d]: where run d is                                 *)
  host,         (* host[d]: the worker it was delivered to                  *)
  report,       (* report[d]: the outcome its ResultMessage carries         *)
  active,       (* active[w]: Worker._active, task id -> run (0: no entry)  *)
  phase,        (* phase[w]: up, draining (in stop()), down or crashed      *)
  draining      (* draining[w]: the runs stop() is waiting for              *)

workerVars == <<stage, host, report, active, phase, draining>>

WorkerInit ==
  /\ stage = [d \in Run |-> "none"]
  /\ host = [d \in Run |-> NoWorker]
  /\ report = [d \in Run |-> "none"]
  /\ active = [w \in Fleet |-> [t \in Task |-> 0]]
  /\ phase = [w \in Fleet |-> "up"]
  /\ draining = [w \in Fleet |-> {}]

RunsOn(w, stages) == {d \in Run : host[d] = w /\ stage[d] \in stages}

Live == {"delivered", "queued", "running", "replying"}

Move(d, from, to) ==
  /\ stage[d] = from
  /\ stage' = [stage EXCEPT ![d] = to]

(* handler's finally: _active.pop(task_id, None), whichever run is there.  *)
Leave(d) == active' = [active EXCEPT ![host[d]][d[1]] = 0]

-----------------------------------------------------------------------------
(* The broker invokes the handler: worker w's subscription is open until   *)
(* broker.stop(), so a draining worker still receives.                     *)
Receive(d, w) ==
  /\ phase[w] \in {"up", "draining"}
  /\ Move(d, "none", "delivered")
  /\ host' = [host EXCEPT ![d] = w]
  /\ UNCHANGED <<report, active, phase, draining>>

(* First step of the handler: enter _active (one entry per task id),       *)
(* verify the signature; a bad one is answered without the semaphore.      *)
Enter(d) ==
  /\ stage[d] = "delivered"
  /\ active' = [active EXCEPT ![host[d]][d[1]] = d[2]]
  /\ IF host[d] \in Keyed
     THEN /\ Move(d, "delivered", "queued")
          /\ UNCHANGED report
     ELSE /\ Move(d, "delivered", "replying")
          /\ report' = [report EXCEPT ![d] = "error"]
  /\ UNCHANGED <<host, phase, draining>>

AcquireLeakedSemaphore(d) ==             \* mutant: a raise keeps the permit
  /\ Cardinality(RunsOn(host[d], {"running", "raised"})) < Concurrency
  /\ Move(d, "queued", "running")
  /\ UNCHANGED <<host, report, active, phase, draining>>

AcquireSemaphore(d) ==
  /\ Cardinality(RunsOn(host[d], {"running"})) < Concurrency
  /\ Move(d, "queued", "running")
  /\ UNCHANGED <<host, report, active, phase, draining>>

(* on_start, runtime.run and on_complete under one try: their result or    *)
(* exception decides the report.  "malformed" is a success whose payload   *)
(* the publisher's output_type will not accept.                            *)
Finish(d, outcome) ==
  /\ Move(d, "running", "replying")
  /\ report' = [report EXCEPT ![d] = outcome]
  /\ UNCHANGED <<host, active, phase, draining>>

(* The on_error hook raises inside the except clause: the handler ends     *)
(* without a ResultMessage.                                                *)
ErrorHookRaises(d) ==
  /\ Move(d, "running", "raised")
  /\ Leave(d)
  /\ UNCHANGED <<host, report, phase, draining>>

(* The reply is published and the handler returns.                         *)
Reply(d) ==
  /\ Move(d, "replying", "returned")
  /\ Leave(d)
  /\ UNCHANGED <<host, report, phase, draining>>

(* broker.publish of the reply raises.                                     *)
ReplyFails(d) ==
  /\ Move(d, "replying", "raised")
  /\ Leave(d)
  /\ UNCHANGED <<host, report, phase, draining>>

(* stop(): a snapshot of the handler tasks in _active ...                  *)
Stop(w) ==
  /\ phase[w] = "up"
  /\ phase' = [phase EXCEPT ![w] = "draining"]
  /\ draining' = [draining EXCEPT ![w] =
                    {d \in RunsOn(w, Live) : active[w][d[1]] = d[2]}]
  /\ UNCHANGED <<stage, host, report, active>>

DisconnectIfNoneRaised(w) ==             \* mutant: no return_exceptions=True
  /\ phase[w] = "draining"
  /\ \A d \in draining[w] : stage[d] = "returned"
  /\ phase' = [phase EXCEPT ![w] = "down"]
  /\ stage' = [d \in Run |-> IF d \in RunsOn(w, Live) THEN "lost" ELSE stage[d]]
  /\ active' = [active EXCEPT ![w] = [t \in Task |-> 0]]
  /\ draining' = [draining EXCEPT ![w] = {}]
  /\ UNCHANGED <<host, report>>

(* ... is awaited, and then the broker is stopped: handlers still running  *)
(* are cancelled (InMemoryBroker.stop) or can publish no more.             *)
Disconnect(w) ==
  /\ phase[w] = "draining"
  /\ \A d \in draining[w] : stage[d] \notin Live
  /\ phase' = [phase EXCEPT ![w] = "down"]
  /\ stage' = [d \in Run |-> IF d \in RunsOn(w, Live) THEN "lost" ELSE stage[d]]
  /\ active' = [active EXCEPT ![w] = [t \in Task |-> 0]]
  /\ draining' = [draining EXCEPT ![w] = {}]
  /\ UNCHANGED <<host, report>>

(* The worker process dies.                                                *)
Crash(w) ==
  /\ phase[w] \in {"up", "draining"}
  /\ phase' = [phase EXCEPT ![w] = "crashed"]
  /\ stage' = [d \in Run |-> IF d \in RunsOn(w, Live) THEN "lost" ELSE stage[d]]
  /\ active' = [active EXCEPT ![w] = [t \in Task |-> 0]]
  /\ draining' = [draining EXCEPT ![w] = {}]
  /\ UNCHANGED <<host, report>>

-----------------------------------------------------------------------------
WorkerTypeOK ==
  /\ stage \in [Run -> Stage]
  /\ host \in [Run -> Fleet \cup {NoWorker}]
  /\ report \in [Run -> {"none"} \cup Outcome]
  /\ active \in [Fleet -> [Task -> 0..MaxRuns]]
  /\ phase \in [Fleet -> {"up", "draining", "down", "crashed"}]
  /\ draining \in [Fleet -> SUBSET Run]
  /\ \A d \in Run : stage[d] \in {"replying", "returned"} => report[d] # "none"
=============================================================================
