----------------------------- MODULE SpawnAdmission -----------------------------
(***************************************************************************)
(* runtime.py: what AgentRuntime.run and AgentRuntime.gather let through.  *)
(*                                                                         *)
(* A call (a run, or a gather of several tasks on one agent) passes the    *)
(* cycle, depth, token-budget and spawn-cap checks, takes its slots, and   *)
(* is dispatched to the runtime's backend.  On a Local runtime the agent   *)
(* then executes in this process, and whatever its tools call through any  *)
(* runtime finds its spawn frame in a contextvar.  Any other runtime has a *)
(* JobBackend: each task crosses the broker with a ParentSpawn snapshot    *)
(* and becomes a run on some worker's runtime.                             *)
(*                                                                         *)
(* Between entering run()/gather() and the claim nothing suspends, and the *)
(* two asyncio locks are never contended (nothing awaits while holding     *)
(* them), so admission is one action and so is the charge.  Everything     *)
(* else interleaves.                                                       *)
(***************************************************************************)
EXTENDS Integers, Sequences, FiniteSetsExt

CONSTANTS
  Call,         (* identities of run()/gather() invocations                 *)
  Agent,        (* agent names                                              *)
  Runtime, Local,
  MaxDepth,     (* RuntimeOptions.max_spawn_depth                           *)
  Strict,       (* cycle_policy = "strict"                                  *)
  Cap,          (* max_total_spawns, or NoLimit for None                    *)
  Budget,       (* TokenBudget.limit, or NoLimit when there is none         *)
  Attempts,     (* retry_max_attempts                                       *)
  MaxSize,      (* bound: tasks in a gather                                 *)
  MaxTokens,    (* bound: tokens one call reports                           *)
  MaxResets,    (* bound: calls of TokenBudget.reset                        *)
  NoLimit, NoFrame, NoAgent, NoCall

ASSUME AdmissionAssumption ==
  /\ Local \subseteq Runtime
  /\ MaxDepth \in Nat \ {0} /\ Attempts \in Nat \ {0}
  /\ Strict \in BOOLEAN
  /\ Cap \in Nat \cup {NoLimit}
  /\ Budget \in (Nat \ {0}) \cup {NoLimit}
  /\ NoLimit \notin Int
  /\ MaxSize \in Nat \ {0} /\ MaxTokens \in Nat /\ MaxResets \in Nat
  /\ NoAgent \notin Agent /\ NoCall \notin Call

(* AgentContext: parent is parent_agent; trace ids follow it.              *)
Context == [depth : Nat, parent : Agent \cup {NoAgent}, ancestors : SUBSET Agent]

(* _SpawnFrame: the agent that executes, and the context it executes in.   *)
Frame == [agent : Agent, context : Context]

ASSUME NoFrameAssumption == NoFrame \notin Frame

(* An accepted call.  chain, which the code does not have, is the true     *)
(* chain of agents from the outermost run down to this call's agent.       *)
CallRecord == [runtime : Runtime, agent : Agent, size : 0..MaxSize,
               gathers : BOOLEAN, context : Context,
               spawner : Call \cup {NoCall}, chain : Seq(Agent)]

NotCalled == <<>>

VARIABLES
  status,       (* status[c]: how far call c has come                       *)
  call,         (* call[c]: what was accepted, NotCalled before             *)
  frame,        (* frame[c]: the frame its executions carry                 *)
  failures,     (* failures[c]: attempts of the retry loop that failed      *)
  spent,        (* spent[c]: tokens its results reported                    *)
  spawned,      (* spawned[r]: AgentRuntime._spawn_count                    *)
  remaining,    (* remaining[r]: TokenBudget.remaining                      *)
  window,       (* window[r]: the calls charged since the last reset()      *)
  resets

vars == <<status, call, frame, failures, spent, spawned, remaining, window,
          resets>>

Limit == IF Budget = NoLimit THEN 0 ELSE Budget

Init ==
  /\ status = [c \in Call |-> "new"]
  /\ call = [c \in Call |-> NotCalled]
  /\ frame = [c \in Call |-> NoFrame]
  /\ failures = [c \in Call |-> 0]
  /\ spent = [c \in Call |-> 0]
  /\ spawned = [r \in Runtime |-> 0]
  /\ remaining = [r \in Runtime |-> Limit]
  /\ window = [r \in Runtime |-> {}]
  /\ resets = 0

Live(c) == status[c] \in {"admitted", "executing"}

Accepted(c) == status[c] \notin {"new", "rejected"}

-----------------------------------------------------------------------------
(* The context of a call made under frame f.                               *)
Top == [depth |-> 0, parent |-> NoAgent, ancestors |-> {}]

Chain(f) == f.context.ancestors \cup {f.agent}

Child(f) ==
  IF f = NoFrame THEN Top
  ELSE [depth |-> f.context.depth + 1, parent |-> f.agent, ancestors |-> Chain(f)]

(* The bookkeeping that dispatch_stage lays over whatever context the      *)
(* agent's context_passer prepared.                                        *)
OverlayMissing(prepared, ctx) == prepared           \* mutant: passer wins

Overlay(prepared, ctx) ==
  [prepared EXCEPT !.depth = ctx.depth, !.parent = ctx.parent,
                   !.ancestors = ctx.ancestors]

(* _parent_spawn_from_context on the publisher, and the frame a worker     *)
(* rebuilds from it (worker.py): none for a top-level task.                *)
RehydrateOneTooDeep(ctx) ==              \* mutant: the depth is not stepped back
  IF ctx.parent = NoAgent THEN NoFrame
  ELSE [agent |-> ctx.parent,
        context |-> [depth |-> ctx.depth, parent |-> NoAgent,
                     ancestors |-> ctx.ancestors \ {ctx.parent}]]

Rehydrate(ctx) ==
  IF ctx.parent = NoAgent THEN NoFrame
  ELSE [agent |-> ctx.parent,
        context |-> [depth |-> IF ctx.depth > 0 THEN ctx.depth - 1 ELSE 0,
                     parent |-> NoAgent,
                     ancestors |-> ctx.ancestors \ {ctx.parent}]]

Cycle(f, a) == Strict /\ f # NoFrame /\ a \in Chain(f)

TooDeep(f) == Child(f).depth >= MaxDepth

OutOfTokens(r) == Budget # NoLimit /\ remaining[r] <= 0

OverCapIgnoresSize(r, n) ==              \* mutant: only a full counter refuses
  n > 0 /\ Cap # NoLimit /\ spawned[r] >= Cap

OverCap(r, n) == n > 0 /\ Cap # NoLimit /\ spawned[r] + n > Cap

(* run() or gather() is called on runtime r, under frame f.  A refusal     *)
(* raises and leaves nothing behind.                                       *)
Enter(c, r, a, n, gathers, f, spawner, chain) ==
  /\ status[c] = "new"
  /\ IF Cycle(f, a) \/ TooDeep(f) \/ OutOfTokens(r) \/ OverCap(r, n)
     THEN /\ status' = [status EXCEPT ![c] = "rejected"]
          /\ UNCHANGED <<call, spawned>>
     ELSE /\ status' = [status EXCEPT ![c] = "admitted"]
          /\ call' = [call EXCEPT ![c] =
                [runtime |-> r, agent |-> a, size |-> n, gathers |-> gathers,
                 context |-> Child(f), spawner |-> spawner, chain |-> chain]]
          /\ spawned' = [spawned EXCEPT ![r] = @ + n]
  /\ UNCHANGED <<frame, failures, spent, remaining, window, resets>>

(* The sizes run() and gather() are called with.                           *)
Shape(n, gathers) == n \in 0..MaxSize /\ (gathers \/ n = 1)

(* A call from outside every agent, or from a tool of an agent executing   *)
(* in this process, whose frame it finds in the contextvar.                *)
CallFromOutside(c, r, a, n, gathers) ==
  /\ Shape(n, gathers)
  /\ Enter(c, r, a, n, gathers, NoFrame, NoCall, <<a>>)

CallFromTool(c, r, a, n, gathers, p) ==
  /\ Shape(n, gathers)
  /\ status[p] = "executing" /\ call[p].runtime \in Local
  /\ Enter(c, r, a, n, gathers, frame[p], p, Append(call[p].chain, a))

(* A worker picks up one task of a dispatched call p, which may have been  *)
(* given up by now, and runs it on its own runtime, under the frame it     *)
(* rebuilds from the message.                                              *)
RunOnWorker(c, r, p) ==
  /\ status[p] \in {"executing", "aborted"} /\ frame[p] # NoFrame
  /\ call[p].runtime \notin Local
  /\ r \in Local
  /\ Enter(c, r, call[p].agent, 1, FALSE, Rehydrate(frame[p].context), p,
           call[p].chain)

(* dispatch_stage, or a slot of the backend's gather: whatever context the *)
(* passer prepares, here the one it was given or a fresh one, the backend  *)
(* gets it with the bookkeeping laid over.                                 *)
Dispatch(c) ==
  /\ status[c] = "admitted"
  /\ status' = [status EXCEPT ![c] = "executing"]
  /\ \E prepared \in {call[c].context, Top} :
       frame' = [frame EXCEPT ![c] =
                   [agent |-> call[c].agent,
                    context |-> Overlay(prepared, call[c].context)]]
  /\ UNCHANGED <<call, failures, spent, spawned, remaining, window, resets>>

(* RetryMiddleware: a SpawnError raised by the passer or the backend sends *)
(* the run through dispatch_stage again, under the slot it has.            *)
RetryTakesSlot(c) ==                     \* mutant: each attempt claims a slot
  /\ Live(c) /\ ~call[c].gathers
  /\ failures[c] + 1 < Attempts
  /\ ~OverCap(call[c].runtime, 1)
  /\ failures' = [failures EXCEPT ![c] = @ + 1]
  /\ status' = [status EXCEPT ![c] = "admitted"]
  /\ spawned' = [spawned EXCEPT ![call[c].runtime] = @ + 1]
  /\ UNCHANGED <<call, frame, spent, remaining, window, resets>>

Retry(c) ==
  /\ Live(c) /\ ~call[c].gathers
  /\ failures[c] + 1 < Attempts
  /\ failures' = [failures EXCEPT ![c] = @ + 1]
  /\ status' = [status EXCEPT ![c] = "admitted"]
  /\ UNCHANGED <<call, frame, spent, spawned, remaining, window, resets>>

(* The call ends without results: the last attempt failed, another error,  *)
(* the wall clock, or cancellation of the caller.  Nothing is charged and  *)
(* the slots stay taken.  Calls below it may still be executing.           *)
Abort(c) ==
  /\ Live(c)
  /\ status' = [status EXCEPT ![c] = "aborted"]
  /\ UNCHANGED <<call, frame, failures, spent, spawned, remaining, window,
                 resets>>

(* The results are in: the budget is charged once, with what they report;  *)
(* run() does it in CostTrackingMiddleware, gather() for the whole batch.  *)
ReturnChargesTwice(c, tokens) ==         \* mutant: both paths charge
  /\ status[c] = "executing"
  /\ status' = [status EXCEPT ![c] = "returned"]
  /\ spent' = [spent EXCEPT ![c] = tokens]
  /\ remaining' = [remaining EXCEPT ![call[c].runtime] =
                     @ - (IF call[c].gathers THEN 2 * tokens ELSE tokens)]
  /\ window' = [window EXCEPT ![call[c].runtime] = @ \cup {c}]
  /\ UNCHANGED <<call, frame, failures, spawned, resets>>

Return(c, tokens) ==
  /\ status[c] = "executing"
  /\ status' = [status EXCEPT ![c] = "returned"]
  /\ spent' = [spent EXCEPT ![c] = tokens]
  /\ IF Budget # NoLimit
     THEN /\ remaining' = [remaining EXCEPT ![call[c].runtime] = @ - tokens]
          /\ window' = [window EXCEPT ![call[c].runtime] = @ \cup {c}]
     ELSE UNCHANGED <<remaining, window>>
  /\ UNCHANGED <<call, frame, failures, spawned, resets>>

(* TokenBudget.reset.                                                      *)
Reset(r) ==
  /\ Budget # NoLimit /\ resets < MaxResets
  /\ resets' = resets + 1
  /\ remaining' = [remaining EXCEPT ![r] = Limit]
  /\ window' = [window EXCEPT ![r] = {}]
  /\ UNCHANGED <<status, call, frame, failures, spent, spawned>>

Next ==
  \/ \E c \in Call, r \in Runtime, a \in Agent, n \in 0..MaxSize, g \in BOOLEAN :
       \/ CallFromOutside(c, r, a, n, g)
       \/ \E p \in Call : CallFromTool(c, r, a, n, g, p)
  \/ \E c, p \in Call, r \in Runtime : RunOnWorker(c, r, p)
  \/ \E c \in Call : \/ Dispatch(c) \/ Retry(c) \/ Abort(c)
                     \/ \E tokens \in 0..MaxTokens : Return(c, tokens)
  \/ \E r \in Runtime : Reset(r)

Spec == Init /\ [][Next]_vars

-----------------------------------------------------------------------------
TypeOK ==
  /\ status \in [Call -> {"new", "admitted", "executing", "returned",
                          "aborted", "rejected"}]
  /\ call \in [Call -> CallRecord \cup {NotCalled}]
  /\ \A c \in Call : Accepted(c) => call[c] \in CallRecord
  /\ frame \in [Call -> Frame \cup {NoFrame}]
  /\ \A c \in Call : status[c] = "executing" => frame[c] # NoFrame
  /\ failures \in [Call -> Nat]
  /\ spent \in [Call -> Nat]
  /\ spawned \in [Runtime -> Nat]
  /\ remaining \in [Runtime -> Int]
  /\ window \in [Runtime -> SUBSET Call]
  /\ resets \in Nat

AcceptedCalls(r) == {c \in Call : Accepted(c) /\ call[c].runtime = r}

SumOver(f, S) == MapThenSumSet(LAMBDA c : f[c], S)

Sizes == [c \in Call |-> IF Accepted(c) THEN call[c].size ELSE 0]

(* The kill switch: a runtime never accepts more than max_total_spawns     *)
(* tasks, however runs and gathers interleave and cascade.                 *)
CapHolds == \A r \in Runtime : Cap # NoLimit => spawned[r] <= Cap

(* The counter counts every accepted task once: a refused call leaves it   *)
(* alone, a gather takes its whole size, a retried run keeps its one slot. *)
SlotsAreHonest ==
  \A r \in Runtime : spawned[r] = SumOver(Sizes, AcceptedCalls(r))

Front(s) == {s[i] : i \in 1..(Len(s) - 1)}

Distinct(s) == \A i, j \in 1..Len(s) : s[i] = s[j] => i = j

(* What an executing agent's tools will see as their caller's context is   *)
(* the truth about the chain of runs that led to it, through tools, broker *)
(* hops, retries and context passers that return something else.           *)
ChainFaithful ==
  \A c \in Call : status[c] = "executing" =>
    LET ch == call[c].chain
    IN  /\ frame[c].agent = ch[Len(ch)]
        /\ frame[c].context.depth = Len(ch) - 1
        /\ frame[c].context.ancestors = Front(ch)

(* Hence cascades are bounded: no chain of accepted calls is longer than   *)
(* max_spawn_depth, and under the strict policy no agent is on it twice.   *)
CascadeBounded ==
  \A c \in Call : Accepted(c) =>
    LET ch == call[c].chain
    IN  /\ Len(ch) <= MaxDepth
        /\ Strict => Distinct(ch)

(* The budget's ledger: what is missing from the limit is what the calls   *)
(* that returned since the last reset() reported, each charged once, on    *)
(* the runtime it was made on.                                             *)
Ledger ==
  Budget # NoLimit =>
    \A r \in Runtime : remaining[r] = Limit - SumOver(spent, window[r])

(* Both counters of a runtime are exact: slots taken and tokens charged.   *)
CountersExact == SlotsAreHonest /\ Ledger
=============================================================================
