------------------------------ MODULE AgentTools ------------------------------
(***************************************************************************)
(* tools/spawn.py, tools/executor.py, groups/team.py, groups/              *)
(* team_runner.py: runs of agents whose models call tools, and the two     *)
(* tools that start further runs: spawn_agents, a fan-out under one        *)
(* semaphore, and a team's delegate tool, with a history per delegate.     *)
(*                                                                         *)
(* Runs and calls form a forest fixed by Owner and Slots: a call belongs   *)
(* to a run, and the runs a call may start are its slots.  The model is    *)
(* external: at any time it calls any tool it is offered, several at once. *)
(* A tool call that raises may end the run or be answered by the model;    *)
(* when a run fails its other calls are cancelled or left running.         *)
(* Cancellation runs through a tree of coroutines in one step.             *)
(***************************************************************************)
EXTENDS ToolSurface, Subsequence, FiniteSetsExt, SequencesExt

CONSTANTS
  Run, Call,    (* identities of runs and of tool calls                     *)
  Owner,        (* Owner[c]: the run whose model makes call c               *)
  Slots,        (* Slots[c]: bound: the runs call c may start, in order     *)
  Caller,       (* Caller[r]: the call whose slot run r is, or NoCall       *)
  Nesting,      (* bound: calls between a root and a run                    *)
  Team,         (* the runs made by run_group(team)                         *)
  DelegateTool, (* DelegateTool[t]: the tool name of team run t             *)
  SpawnTool,    (* the name the fan-out tool is registered under            *)
  Registered,   (* the tools the application registered                     *)
  Removable,    (* bound: those it may unregister meanwhile                 *)
  Agent,        (* Agent[a]: the agent named a                              *)
  Boss,         (* bound: the names of those run from outside               *)
  Template,     (* what AgentTemplate.agent materialises                    *)
  Coordinator, Delegate,  (* AgentTeam.coordinator, .delegates              *)
  Takes,        (* Takes[d]: the input_type of delegate d                   *)
  Settings,     (* bound: widths, round limits, runs made together and      *)
                (* calls a run makes                                        *)
  NoLimit, NoAgent, NoCall

(* A forest: a run has one caller, and stands once among its slots; runs   *)
(* from outside and team runs have none.                                   *)
ASSUME ToolsAssumption ==
  /\ IsFiniteSet(Run) /\ Call \subseteq Nat /\ NoCall \notin Call
  /\ Owner \in [Call -> Run] /\ Caller \in [Run -> Call \cup {NoCall}]
  /\ \A c \in Call :
       /\ Slots[c] \in Seq(Run) /\ Len(Slots[c]) > 0 /\ IsInjective(Slots[c])
       /\ ToSet(Slots[c]) = {r \in Run : Caller[r] = c}
  /\ Team \subseteq {r \in Run : Caller[r] = NoCall}
  /\ Nesting \in Nat
  /\ \A i \in DOMAIN Settings :
       /\ Settings[i].width \in Nat \ {0} /\ Settings[i].rounds \in Nat \cup {NoLimit}
       /\ Settings[i].roots \subseteq {r \in Run : Caller[r] = NoCall}
       /\ Settings[i].retain \in BOOLEAN

(* Agents are what they are built of.                                      *)
ASSUME AgentsAssumption ==
  /\ Boss \cup Delegate \cup {Template, Coordinator} \subseteq DOMAIN Agent
  /\ NoAgent \notin Delegate
  /\ \A a \in DOMAIN Agent :
       Agent[a] = [trust |-> Agent[a].trust, tools |-> Agent[a].tools,
                   servers |-> Agent[a].servers]

(* _per_run_tool_name: a team's tool name is drawn for the run, so nobody  *)
(* else has it.                                                            *)
ASSUME NamesAssumption ==
  /\ \A t, u \in Team : DelegateTool[t] = DelegateTool[u] => t = u
  /\ \A t \in Team :
       /\ DelegateTool[t] \notin Registered \cup Removable \cup {SpawnTool}
       /\ \A a \in DOMAIN Agent :
            /\ DelegateTool[t] \notin Agent[a].tools
            /\ \A p \in Agent[a].servers : DelegateTool[t] \notin p.reports

(* AgentTeam._validate_team.                                               *)
TeamIsValid ==
  /\ Delegate # {} /\ Coordinator \notin Delegate
  /\ \A d, e \in Delegate : Takes[d] = Takes[e] => d = e

(* The closed menu that the tool's signature shows to the model.           *)
Inputs == {Takes[d] : d \in Delegate}

ASSUME TeamAssumption == TeamIsValid

VARIABLES
  chosen,       (* the member of Settings at work, never changed            *)
  registry,     (* names in the ToolRegistry the executor looks tools up in *)
  run,          (* run[r]: how far run r has come                           *)
  agent,        (* agent[r]: the name of the agent it runs                  *)
  call,         (* call[c]: status, tool, the runs it started, its target   *)
  permits,      (* the spawn tool's semaphore: its value                    *)
  queue,        (* and its waiters                                          *)
  rounds,       (* rounds[t]: delegations accepted in team run t            *)
  history,      (* history[t][d]: exchanges with delegate d                 *)
  seen          (* seen[r]: the messages run r was dispatched with          *)

vars == <<chosen, registry, run, agent, call, permits, queue, rounds, history,
          seen>>

NotMade == [st |-> "new", tool |-> NoAgent, uses |-> <<>>, target |-> NoAgent]

setting == Settings[chosen]

Init ==
  /\ chosen \in DOMAIN Settings
  /\ registry = Registered
  /\ run = [r \in Run |-> "idle"]
  /\ agent = [r \in Run |-> NoAgent]
  /\ call = [c \in Call |-> NotMade]
  /\ permits = setting.width
  /\ queue = <<>>
  /\ rounds = [t \in Team |-> 0]
  /\ history = [t \in Team |-> [d \in Delegate |-> <<>>]]
  /\ seen = [r \in Run |-> <<>>]

Active(r) == run[r] \in {"dispatched", "running"}

Live(r) == Active(r) \/ run[r] \in {"queued", "ready"}

(* The agent run r is given; run_team adds the delegate tool.              *)
AgentOf(r) ==
  IF r \in Team THEN [Agent[agent[r]] EXCEPT !.tools = @ \cup {DelegateTool[r]}]
  ELSE Agent[agent[r]]

Ended(r) == run[r] \in {"ok", "failed", "cancelled"}

Executing(c) == call[c].st = "executing"

Fanned(r) == Caller[r] # NoCall /\ call[Caller[r]].tool = SpawnTool

(* Runs that hold a permit of the semaphore.                               *)
Holders == {r \in Run : Fanned(r) /\ (Active(r) \/ run[r] = "ready")}

(* The live runs that are awaited, through calls, by run r.                *)
Started(S) ==
  {x \in Run : /\ Caller[x] # NoCall /\ Live(x)
               /\ Executing(Caller[x]) /\ Owner[Caller[x]] \in S}

AwaitedBy(r) ==
  LET Reach[n \in 0..Nesting] ==
        IF n = 0 THEN {} ELSE LET S == Reach[n - 1] IN S \cup Started(S \cup {r})
  IN  Reach[Nesting]

-----------------------------------------------------------------------------
(* The runs in gone end together as outcome says.  Each leaves the         *)
(* semaphore (async with sem), or the queue for it, and passes its permit  *)
(* to the first waiter that stays; a team's delegate tool is unregistered  *)
(* (run_team, finally).                                                    *)
UnwindWakesNobody(gone, outcome) ==      \* mutant: the waiters are not told
  LET waiting == Without(queue, gone)
  IN  /\ run' = [x \in Run |-> IF x \in gone THEN outcome[x] ELSE run[x]]
      /\ queue' = waiting
      /\ permits' = permits + Cardinality(gone \cap Holders)
      /\ registry' = registry \ {DelegateTool[x] : x \in gone \cap Team}

UnwindLosesPermit(gone, outcome) ==      \* mutant: a woken waiter that is cancelled keeps its permit
  LET waiting == Without(queue, gone)
      free    == permits + Cardinality({x \in gone \cap Holders : run[x] # "ready"})
      passed  == IF free < Len(waiting) THEN free ELSE Len(waiting)
      woken   == {waiting[i] : i \in 1..passed}
  IN  /\ run' = [x \in Run |-> IF x \in gone THEN outcome[x]
                               ELSE IF x \in woken THEN "ready" ELSE run[x]]
      /\ queue' = SubSeq(waiting, passed + 1, Len(waiting))
      /\ permits' = free - passed
      /\ registry' = registry \ {DelegateTool[x] : x \in gone \cap Team}

Unwind(gone, outcome) ==
  LET waiting == Without(queue, gone)
      free    == permits + Cardinality(gone \cap Holders)
      passed  == IF free < Len(waiting) THEN free ELSE Len(waiting)
      woken   == {waiting[i] : i \in 1..passed}
  IN  /\ run' = [x \in Run |-> IF x \in gone THEN outcome[x]
                               ELSE IF x \in woken THEN "ready" ELSE run[x]]
      /\ queue' = SubSeq(waiting, passed + 1, Len(waiting))
      /\ permits' = free - passed
      /\ registry' = registry \ {DelegateTool[x] : x \in gone \cap Team}

EndAlone(r, st) ==
  /\ Unwind({r}, [x \in {r} |-> st])
  /\ UNCHANGED <<chosen, agent, call, rounds, history, seen>>

(* Run r ends as st and everything it awaits is cancelled with it.         *)
EndWithAll(r, st) ==
  \E gone \in {{r} \cup AwaitedBy(r)} :
      /\ Unwind(gone, [x \in gone |-> IF x = r THEN st ELSE "cancelled"])
      /\ call' = [c \in Call |-> IF Executing(c) /\ Owner[c] \in gone
                                 THEN [call[c] EXCEPT !.st = "cancelled"]
                                 ELSE call[c]]
      /\ UNCHANGED <<chosen, agent, rounds, history, seen>>

-----------------------------------------------------------------------------
(* runtime.run from outside, and run_group(team): the coordinator gets the *)
(* delegate tool, registered for this run under a name of its own.         *)
StartRun(r, a) ==
  /\ r \in setting.roots \ Team /\ run[r] = "idle"
  /\ run' = [run EXCEPT ![r] = "dispatched"]
  /\ agent' = [agent EXCEPT ![r] = a]
  /\ UNCHANGED <<chosen, registry, call, permits, queue, rounds, history, seen>>

StartTeam(t) ==
  /\ t \in setting.roots \cap Team /\ run[t] = "idle"
  /\ registry' = registry \cup {DelegateTool[t]}
  /\ run' = [run EXCEPT ![t] = "dispatched"]
  /\ agent' = [agent EXCEPT ![t] = Coordinator]
  /\ UNCHANGED <<chosen, call, permits, queue, rounds, history, seen>>

(* _HistoryContextPasser.prepare: the messages a delegate gets.            *)
Prepared(t, d) == IF setting.retain THEN history[t][d] ELSE <<>>

(* _run_one under its permit, and delegate(): a child of a fan-out is      *)
(* materialised from the template, whatever the model asked for; a         *)
(* delegate is dispatched with the exchanges recorded so far.              *)
Dispatch(r) ==
  /\ run[r] = "ready"
  /\ run' = [run EXCEPT ![r] = "dispatched"]
  /\ LET c == Caller[r]
     IN  /\ agent' = [agent EXCEPT ![r] = IF Fanned(r) THEN Template
                                          ELSE call[c].target]
         /\ seen' = IF Fanned(r) THEN seen
                    ELSE [seen EXCEPT ![r] = Prepared(Owner[c], call[c].target)]
  /\ UNCHANGED <<chosen, registry, call, permits, queue, rounds, history>>

(* The template, the admission checks or the context passer refuse it.     *)
DispatchFails(r) == run[r] = "ready" /\ EndAlone(r, "failed")

(* build_pydantic_ai_agent: asks the MCP servers and looks every plain     *)
(* tool up.                                                                *)
Build(r) ==
  /\ run[r] = "dispatched"
  /\ IF Plain(AgentOf(r)) \subseteq registry
     THEN /\ run' = [run EXCEPT ![r] = "running"]
          /\ UNCHANGED <<chosen, registry, agent, call, permits, queue, rounds,
                         history, seen>>
     ELSE EndAlone(r, "failed")

-----------------------------------------------------------------------------
Record(c, st, n, uses, target) ==
  call' = [call EXCEPT ![c] = [st |-> st, tool |-> n, uses |-> uses,
                               target |-> target]]

(* The executor refuses: nothing is emitted and nothing runs.              *)
Refuse(c, n) ==
  /\ Record(c, "refused", n, <<>>, NoAgent)
  /\ UNCHANGED <<chosen, registry, run, agent, permits, queue, rounds, history, seen>>

(* spawn_agents: one _run_one per spec, in order, each waiting for the     *)
(* tool's semaphore.                                                       *)
FanOut(c, n) ==
  LET uses   == SubSeq(Slots[c], 1, n)
      passed == IF permits < n THEN permits ELSE n
  IN  /\ Record(c, "executing", SpawnTool, uses, NoAgent)
      /\ run' = [x \in Run |-> IF x \notin ToSet(uses) THEN run[x]
                               ELSE IF x \in ToSet(SubSeq(uses, 1, passed))
                                    THEN "ready" ELSE "queued"]
      /\ queue' = queue \o SubSeq(uses, passed + 1, n)
      /\ permits' = permits - passed
      /\ UNCHANGED <<chosen, registry, agent, rounds, history, seen>>

(* delegate(target, input): an input of another delegate's type and a      *)
(* spent round budget raise before anything runs.                          *)
DelegateTo(c, t, d, input) ==
  IF input # Takes[d] \/ (setting.rounds # NoLimit /\ rounds[t] >= setting.rounds)
  THEN /\ Record(c, "failed", DelegateTool[t], <<>>, NoAgent)
       /\ UNCHANGED <<chosen, registry, run, agent, permits, queue, rounds,
                      history, seen>>
  ELSE /\ rounds' = [rounds EXCEPT ![t] = @ + 1]
       /\ Record(c, "executing", DelegateTool[t], SubSeq(Slots[c], 1, 1), d)
       /\ run' = [run EXCEPT ![Slots[c][1]] = "ready"]
       /\ UNCHANGED <<chosen, registry, agent, permits, queue, history, seen>>

(* A tool whose function starts no run.                                    *)
Invoke(c, n) ==
  /\ Record(c, "executing", n, <<>>, NoAgent)
  /\ UNCHANGED <<chosen, registry, run, agent, permits, queue, rounds, history, seen>>

(* ToolExecutor.execute up to the tool's function: trust and allow-list,   *)
(* the lookup, STARTED.                                                    *)
Execute(c) ==
  /\ run[Owner[c]] = "running" /\ call[c].st = "new"
  /\ LET earlier == {d \in Call : Owner[d] = Owner[c] /\ d < c}
     IN  /\ \A d \in earlier : call[d].st # "new"
         /\ Cardinality(earlier) < setting.calls
  /\ \E route \in Offered(AgentOf(Owner[c])) :
       LET r == Owner[c]
           n == route.name
       IN  IF \/ ~Admits(AgentOf(r).trust, route)
              \/ ~route.external /\ n \notin registry
           THEN Refuse(c, n)
           ELSE \/ /\ n = SpawnTool
                   /\ \E k \in 0..Len(Slots[c]) : FanOut(c, k)
                \/ \E t \in Team, d \in Delegate, i \in Inputs :
                     n = DelegateTool[t] /\ DelegateTo(c, t, d, i)
                \/ /\ n # SpawnTool /\ \A t \in Team : n # DelegateTool[t]
                   /\ Invoke(c, n)

(* A coroutine of the call resumes: all children of the fan-out are back,  *)
(* or the delegate is, and then its exchange is recorded whole; COMPLETED  *)
(* or FAILED is emitted.                                                   *)
Exchange(c) == <<<<"user", c>>, <<"assistant", c>>>>

FinishHalf(c) ==                         \* mutant: a failed delegation leaves its question
  /\ Executing(c)
  /\ \A x \in ToSet(call[c].uses) : Ended(x)
  /\ LET delegation == call[c].target # NoAgent
         good == ~delegation \/ run[call[c].uses[1]] = "ok"
     IN  /\ call' = [call EXCEPT ![c].st = IF good THEN "returned" ELSE "failed"]
         /\ history' = IF delegation /\ setting.retain
                       THEN [history EXCEPT ![Owner[c]][call[c].target] =
                               @ \o SubSeq(Exchange(c), 1, IF good THEN 2 ELSE 1)]
                       ELSE history
  /\ UNCHANGED <<chosen, registry, run, agent, permits, queue, rounds, seen>>

Finish(c) ==
  /\ Executing(c)
  /\ \A x \in ToSet(call[c].uses) : Ended(x)
  /\ LET delegation == call[c].target # NoAgent
         good == ~delegation \/ run[call[c].uses[1]] = "ok"
     IN  /\ call' = [call EXCEPT ![c].st = IF good THEN "returned" ELSE "failed"]
         /\ history' = IF delegation /\ good /\ setting.retain
                       THEN [history EXCEPT ![Owner[c]][call[c].target] =
                               @ \o Exchange(c)]
                       ELSE history
  /\ UNCHANGED <<chosen, registry, run, agent, permits, queue, rounds, seen>>

(* A tool's function raises.                                               *)
Raise(c) ==
  /\ Executing(c) /\ call[c].uses = <<>> /\ call[c].tool # SpawnTool
  /\ call' = [call EXCEPT ![c].st = "failed"]
  /\ UNCHANGED <<chosen, registry, run, agent, permits, queue, rounds, history, seen>>

(* The model answers once its calls are back.                              *)
Complete(r) ==
  /\ run[r] = "running"
  /\ \A c \in Call : Owner[c] = r => ~Executing(c)
  /\ EndAlone(r, "ok")

(* The run fails: the model, a server it asks, a hook, or a tool call that *)
(* raised.                                                                 *)
Fail(r) ==
  /\ run[r] \in {"dispatched", "running"}
  /\ EndAlone(r, "failed") \/ EndWithAll(r, "failed")

(* TimeoutMiddleware, and a caller that cancels.                           *)
TimeOut(r) == Active(r) /\ EndWithAll(r, "failed")

CancelRoot(r) == r \in setting.roots /\ Active(r) /\ EndWithAll(r, "cancelled")

Unregister(n) ==
  /\ n \in registry \cap Removable
  /\ registry' = registry \ {n}
  /\ UNCHANGED <<chosen, run, agent, call, permits, queue, rounds, history, seen>>

Next ==
  \/ \E r \in Run :
       \/ \E a \in Boss : StartRun(r, a)
       \/ StartTeam(r) \/ Dispatch(r) \/ DispatchFails(r) \/ Build(r)
       \/ Complete(r) \/ Fail(r) \/ TimeOut(r) \/ CancelRoot(r)
  \/ \E c \in Call : Execute(c) \/ Finish(c) \/ Raise(c)
  \/ \E n \in Removable : Unregister(n)

Spec == Init /\ [][Next]_vars

(* The event loop resumes what can go on, and timeouts fire; that a model  *)
(* ever answers, or a plain tool ever returns, is not assumed.             *)
Waits(c) == Executing(c) /\ call[c].uses # <<>>

Progress == \/ \E r \in Run : Dispatch(r) \/ TimeOut(r)
            \/ \E c \in Call : Waits(c) /\ Finish(c)

FairSpec == Spec /\ WF_vars(Progress)

-----------------------------------------------------------------------------
(* The spawn tool's semaphore is exact through every end of a run, its     *)
(* cancellation while it waits or between wake-up and start included: each *)
(* permit is free or held by one child, nobody waits while one is free,    *)
(* and so at most max_concurrency children run, over all fan-outs and      *)
(* nesting levels together.                                                *)
PermitsExact ==
  /\ permits + Cardinality(Holders) = setting.width
  /\ permits >= 0
  /\ queue # <<>> => permits = 0
  /\ {r \in Run : run[r] = "queued"} = ToSet(queue)
  /\ IsInjective(queue)

Made(c) == call[c].st \notin {"new", "refused"}

Delegations(t, d) == {c \in Call : Owner[c] = t /\ call[c].target = d /\ Made(c)}

(* A delegate's history holds the successful delegations to it in this     *)
(* team run, each once and whole, question before answer, however          *)
(* delegations to it overlap, fail or are cancelled; what a delegate was   *)
(* dispatched with is a beginning of it; and no team run starts more       *)
(* delegations than max_rounds, the failed ones counted.                   *)
DelegationsHonest ==
  \A t \in Team :
    /\ \A d \in Delegate :
         LET h == history[t][d]
             done == {c \in Delegations(t, d) : call[c].st = "returned"}
         IN  /\ setting.retain => ToSet(h) = UNION {ToSet(Exchange(c)) : c \in done}
             /\ IsInjective(h)
             /\ \A i \in DOMAIN h : i % 2 = 1 =>
                  /\ i < Len(h)
                  /\ SubSeq(h, i, i + 1) = Exchange(h[i][2])
             /\ \A c \in Delegations(t, d) : \A x \in ToSet(call[c].uses) :
                  IsPrefix(seen[x], h)
    /\ setting.rounds # NoLimit =>
         Cardinality(UNION {Delegations(t, d) : d \in Delegate}) <= setting.rounds

(* Trust holds along the whole path from the agent's definition to the     *)
(* executor: whatever tool ran for a run was granted to its agent, was     *)
(* that run's own delegate tool if it was a team's, and a team's tool is   *)
(* in the registry exactly while the team runs, however it ends.           *)
TrustHolds ==
  /\ \A c \in Call : Made(c) =>
       /\ call[c].tool \in Granted(AgentOf(Owner[c]))
       /\ \A t \in Team : call[c].tool = DelegateTool[t] => Owner[c] = t
  /\ \A t \in Team : DelegateTool[t] \in registry <=> Active(t)

(* Fan-outs and delegations come to an end, also when nested fan-outs wait *)
(* for permits that their own ancestors hold: then it is the runtime's     *)
(* timeout that ends one of them.                                          *)
FanOutsEnd == []<>(\A c \in Call : ~Waits(c))
=============================================================================
