------------------------------ MODULE AsyncBackend ------------------------------
(***************************************************************************)
(* backends/async_backend.py under AgentRuntime.run and AgentRuntime.gather:*)
(* asyncio tasks in one event loop, and what happens when the wall clock   *)
(* (timeout_seconds), or whoever called, cancels a call half-way.          *)
(*                                                                         *)
(* A gather is a pool of workers draining a queue; a run is one worker,    *)
(* the caller's own coroutine, with one task.  Each task is executed by an *)
(* asyncio task of its own (_execute), which its worker awaits in          *)
(* result().  Cancelling a coroutine cancels what it awaits, so a          *)
(* cancelled worker cancels its execution, and result() turns the          *)
(* CancelledError that comes back into an ordinary "was killed" result.    *)
(***************************************************************************)
EXTENDS Integers, FiniteSets

CONSTANTS
  Call,         (* calls of run() and gather()                              *)
  Single,       (* those that are run()                                     *)
  Driven,       (* of those: spawn() and result() called by a program that  *)
                (* drives the Backend protocol itself, without a timeout    *)
  Size,         (* Size[c]: tasks of the call                               *)
  Width,        (* max_concurrency                                          *)
  Absorbs       (* calls of an agent whose code may swallow a cancellation  *)

ASSUME AsyncAssumption ==
  /\ Driven \subseteq Single /\ Single \subseteq Call
  /\ Size \in [Call -> Nat \ {0}] /\ \A c \in Single : Size[c] = 1
  /\ Width \in Nat \ {0}
  /\ Absorbs \subseteq Call

TasksOf(c) == {c} \X (1..Size[c])

Task == UNION {TasksOf(c) : c \in Call}

(* pool_size: the workers of a call.                                       *)
PoolSize(c) == IF Width < Size[c] THEN Width ELSE Size[c]

Pool(c) == {c} \X (1..PoolSize(c))

Worker == UNION {Pool(c) : c \in Call}

VARIABLES
  call,         (* call[c]: new, open, returned, raised                     *)
  due,          (* calls whose timeout has fired, or that were cancelled    *)
  next,         (* next[c]: index of the task at the head of the queue      *)
  at,           (* at[w]: what the worker awaits; dead: ended by an error   *)
  item,         (* item[w]: index of the task the worker has taken          *)
  hit,          (* workers about to see a CancelledError at their own await *)
  exec,         (* exec[t]: the asyncio task that executes t                *)
  cancelling,   (* executions about to see a CancelledError                 *)
  slot,         (* slot[t]: the result stored for t                         *)
  killed,       (* AsyncBackend._killed                                     *)
  events        (* events[t]: the terminal events emitted for t             *)

vars == <<call, due, next, at, item, hit, exec, cancelling, slot, killed, events>>

Init ==
  /\ call = [c \in Call |-> "new"]
  /\ due = {}
  /\ next = [c \in Call |-> 1]
  /\ at = [w \in Worker |-> "none"]
  /\ item = [w \in Worker |-> 0]
  /\ hit = {}
  /\ exec = [t \in Task |-> "none"]
  /\ cancelling = {}
  /\ slot = [t \in Task |-> "none"]
  /\ killed = {}
  /\ events = [t \in Task |-> {}]

Busy == {"running", "completing", "failing"}

Ended == {"ok", "failed", "cancelled"}

Of(w) == <<w[1], item[w]>>

-----------------------------------------------------------------------------
(* The call starts: the pool's workers take the first tasks of the queue.  *)
Open(c) ==
  /\ call[c] = "new"
  /\ call' = [call EXCEPT ![c] = "open"]
  /\ at' = [w \in Worker |-> IF w \in Pool(c) THEN "preparing" ELSE at[w]]
  /\ item' = [w \in Worker |-> IF w \in Pool(c) THEN w[2] ELSE item[w]]
  /\ next' = [next EXCEPT ![c] = PoolSize(c) + 1]
  /\ UNCHANGED <<due, hit, exec, cancelling, slot, killed, events>>

(* The worker stores a result for its task and looks at the queue again;   *)
(* run() returns the result instead.                                       *)
StoreKeepsHead(w, outcome) ==            \* mutant: the task is not dequeued
  LET c == w[1]
  IN  /\ slot' = [slot EXCEPT ![Of(w)] = outcome]
      /\ IF next[c] <= Size[c]
         THEN /\ at' = [at EXCEPT ![w] = "preparing"]
              /\ item' = [item EXCEPT ![w] = next[c]]
         ELSE /\ at' = [at EXCEPT ![w] = "done"]
              /\ UNCHANGED item
      /\ UNCHANGED next

Store(w, outcome) ==
  LET c == w[1]
  IN  /\ slot' = [slot EXCEPT ![Of(w)] = outcome]
      /\ IF next[c] <= Size[c]
         THEN /\ at' = [at EXCEPT ![w] = "preparing"]
              /\ item' = [item EXCEPT ![w] = next[c]]
              /\ next' = [next EXCEPT ![c] = @ + 1]
         ELSE /\ at' = [at EXCEPT ![w] = "done"]
              /\ UNCHANGED <<item, next>>

(* context_passer.prepare() returns; the emission of AGENT_SPAWNED starts. *)
Prepared(w) ==
  /\ at[w] = "preparing" /\ w \notin hit
  /\ at' = [at EXCEPT ![w] = "spawning"]
  /\ UNCHANGED <<call, due, next, item, hit, exec, cancelling, slot, killed,
                 events>>

(* The context passer, or an emitter that breaks its contract, raises: the *)
(* safety net fills the slot of a gather, a run raises.                    *)
SpawnFailsNoNet(w) ==                    \* mutant: the worker dies of it
  /\ at[w] \in {"preparing", "spawning"} /\ w \notin hit
  /\ at' = [at EXCEPT ![w] = "dead"]
  /\ UNCHANGED <<call, due, next, item, hit, exec, cancelling, slot, killed,
                 events>>

SpawnFails(w) ==
  /\ at[w] \in {"preparing", "spawning"} /\ w \notin hit
  /\ IF w[1] \in Single
     THEN /\ at' = [at EXCEPT ![w] = "dead"]
          /\ UNCHANGED <<slot, item, next>>
     ELSE Store(w, "failed")
  /\ UNCHANGED <<call, due, hit, exec, cancelling, killed, events>>

(* spawn() creates the execution and its handle; the worker awaits it.     *)
Spawned(w) ==
  /\ at[w] = "spawning" /\ w \notin hit
  /\ at' = [at EXCEPT ![w] = "awaiting"]
  /\ exec' = [exec EXCEPT ![Of(w)] = "running"]
  /\ UNCHANGED <<call, due, next, item, hit, cancelling, slot, killed, events>>

(* result() returns: the execution's own result, or "was killed".          *)
CollectEarly(w) ==                       \* mutant: result() does not wait for
  LET e == exec[Of(w)]                   \* the emission of the terminal event
  IN  /\ at[w] = "awaiting" /\ w \notin hit
      /\ e \in Ended \cup {"completing"}
      /\ Store(w, IF e = "cancelled" THEN "killed"
                  ELSE IF e = "completing" THEN "ok" ELSE e)
      /\ UNCHANGED <<call, due, hit, exec, cancelling, killed, events>>

Collect(w) ==
  LET e == exec[Of(w)]
  IN  /\ at[w] = "awaiting" /\ w \notin hit
      /\ e \in Ended
      /\ Store(w, IF e = "cancelled" THEN "killed" ELSE e)
      /\ UNCHANGED <<call, due, hit, exec, cancelling, killed, events>>

(* The CancelledError arrives at the worker's own await.  In result(), the *)
(* execution having just ended, it is swallowed; anywhere else it ends the *)
(* worker.                                                                 *)
Struck(w) ==
  /\ w \in hit
  /\ hit' = hit \ {w}
  /\ IF at[w] = "awaiting"
     THEN Store(w, "killed")
     ELSE /\ at' = [at EXCEPT ![w] = "dead"]
          /\ UNCHANGED <<slot, item, next>>
  /\ UNCHANGED <<call, due, exec, cancelling, killed, events>>

-----------------------------------------------------------------------------
(* _execute: the agent answers or fails, the terminal event is emitted,    *)
(* and the result is there once the emission is over.                      *)
Answer(t, outcome) ==
  /\ exec[t] = "running" /\ t \notin cancelling
  /\ exec' = [exec EXCEPT ![t] = IF outcome = "ok" THEN "completing" ELSE "failing"]
  /\ events' = [events EXCEPT ![t] = @ \cup
                  {IF outcome = "ok" THEN "completed" ELSE "failed"}]
  /\ UNCHANGED <<call, due, next, at, item, hit, cancelling, slot, killed>>

End(t) ==
  /\ exec[t] \in {"completing", "failing"} /\ t \notin cancelling
  /\ exec' = [exec EXCEPT ![t] = IF exec[t] = "completing" THEN "ok" ELSE "failed"]
  /\ UNCHANGED <<call, due, next, at, item, hit, cancelling, slot, killed, events>>

CancelledSwallowed(t) ==                 \* mutant: _execute does not re-raise
  /\ t \in cancelling
  /\ cancelling' = cancelling \ {t}
  /\ UNCHANGED <<call, due, next, at, item, hit, exec, slot, killed, events>>

(* The CancelledError arrives in the execution, which re-raises it, with   *)
(* no event; agent code that swallows it lets the execution continue.      *)
Cancelled(t) ==
  /\ t \in cancelling
  /\ cancelling' = cancelling \ {t}
  /\ \/ exec' = [exec EXCEPT ![t] = "cancelled"]
     \/ t[1] \in Absorbs /\ exec[t] = "running" /\ UNCHANGED exec
  /\ UNCHANGED <<call, due, next, at, item, hit, slot, killed, events>>

KillMarksOnly(t) ==                      \* mutant: as JobBackend.kill
  /\ t[1] \in Driven
  /\ exec[t] # "none" /\ t \notin killed
  /\ killed' = killed \cup {t}
  /\ UNCHANGED <<call, due, next, at, item, hit, exec, cancelling, slot, events>>

(* kill(): the mark, and the cancellation of an execution still going on.  *)
Kill(t) ==
  /\ t[1] \in Driven
  /\ exec[t] # "none" /\ t \notin killed
  /\ killed' = killed \cup {t}
  /\ cancelling' = IF exec[t] \in Busy THEN cancelling \cup {t} ELSE cancelling
  /\ UNCHANGED <<call, due, next, at, item, hit, exec, slot, events>>

-----------------------------------------------------------------------------
(* asyncio.timeout fires, or the caller is cancelled: every worker of the  *)
(* call is cancelled, and with it the execution it awaits.                 *)
Deadline(c) ==
  LET awaited == {Of(w) : w \in {v \in Pool(c) : at[v] = "awaiting"}}
  IN  /\ call[c] = "open" /\ c \notin due
      /\ due' = due \cup {c}
      /\ cancelling' = cancelling \cup {t \in awaited : exec[t] \in Busy}
      /\ hit' = hit \cup {w \in Pool(c) :
                            \/ at[w] \in {"preparing", "spawning"}
                            \/ at[w] = "awaiting" /\ exec[Of(w)] \in Ended}
      /\ UNCHANGED <<call, next, at, item, exec, slot, killed, events>>

(* run() returns the result it got, whatever the clock says: result() has  *)
(* swallowed the cancellation, so asyncio.timeout raises nothing.  Without *)
(* a result, or if gather() was cancelled, the call raises; the first      *)
(* worker that dies makes it raise at once, and leaves the others running. *)
Return(c) ==
  /\ call[c] = "open"
  /\ \A w \in Pool(c) : at[w] = "done"
  /\ c \in Single \/ c \notin due
  /\ call' = [call EXCEPT ![c] = "returned"]
  /\ UNCHANGED <<due, next, at, item, hit, exec, cancelling, slot, killed, events>>

Raise(c) ==
  /\ call[c] = "open"
  /\ \/ \E w \in Pool(c) : at[w] = "dead"
     \/ c \in due \ Single /\ \A w \in Pool(c) : at[w] = "done"
  /\ call' = [call EXCEPT ![c] = "raised"]
  /\ UNCHANGED <<due, next, at, item, hit, exec, cancelling, slot, killed, events>>

Next ==
  \/ \E c \in Call : Open(c) \/ Deadline(c) \/ Return(c) \/ Raise(c)
  \/ \E w \in Worker : \/ Prepared(w) \/ SpawnFails(w) \/ Spawned(w)
                       \/ Collect(w) \/ Struck(w)
  \/ \E t \in Task : \/ \E o \in {"ok", "failed"} : Answer(t, o)
                     \/ End(t) \/ Cancelled(t) \/ Kill(t)

Spec == Init /\ [][Next]_vars

(* The event loop runs every coroutine that is ready, and the clock of     *)
(* asyncio.timeout does not stop.  That an agent answers is owed to nobody:*)
(* its model may hang.                                                     *)
Fairness ==
  /\ \A c \in Call \ Driven : WF_vars(Deadline(c))
  /\ \A c \in Call : WF_vars(Return(c) \/ Raise(c))
  /\ \A w \in Worker : WF_vars(Prepared(w) \/ Spawned(w) \/ Collect(w) \/ Struck(w))
  /\ \A t \in Task : WF_vars(End(t)) /\ WF_vars(Cancelled(t))

FairSpec == Spec /\ Fairness

-----------------------------------------------------------------------------
TypeOK ==
  /\ call \in [Call -> {"new", "open", "returned", "raised"}]
  /\ due \subseteq Call
  /\ next \in [Call -> Nat]
  /\ at \in [Worker -> {"none", "preparing", "spawning", "awaiting", "done",
                        "dead"}]
  /\ item \in [Worker -> Nat]
  /\ hit \subseteq Worker
  /\ exec \in [Task -> {"none"} \cup Busy \cup Ended]
  /\ cancelling \subseteq Task
  /\ slot \in [Task -> {"none", "ok", "failed", "killed"}]
  /\ killed \subseteq Task
  /\ events \in [Task -> SUBSET {"completed", "failed"}]

(* Never more than max_concurrency executions of one call at a time, not   *)
(* even while cancelled ones are unwinding.                                *)
WidthHolds ==
  \A c \in Call : Cardinality({t \in TasksOf(c) : exec[t] \in Busy}) <= Width

(* No two workers hold the same task, and none is left out: a task whose   *)
(* slot is empty is still in the queue or in a worker's hands - unless the *)
(* worker that held it is dead.  And gather() returns only a full list:    *)
(* every slot filled with what its own task came to and the events told,   *)
(* and none of its executions going on.                                    *)
NothingLost(c) ==
  /\ \A v, w \in Pool(c) : at[v] # "done" /\ item[v] = item[w] => v = w
  /\ \A t \in TasksOf(c) :
       slot[t] = "none" => t[2] >= next[c] \/ \E w \in Pool(c) : Of(w) = t

Complete(c) ==
  \A t \in TasksOf(c) :
    \/ slot[t] = "ok" /\ exec[t] = "ok" /\ events[t] = {"completed"}
    \/ slot[t] = "failed" /\ exec[t] = "failed" /\ events[t] = {"failed"}
    \/ slot[t] = "failed" /\ exec[t] = "none" /\ events[t] = {}

TasksAccounted ==
  \A c \in Call : /\ call[c] # "new" => NothingLost(c)
                  /\ c \notin Single /\ call[c] = "returned" => Complete(c)

(* "never raises on partial-failure batches": only the clock, or its       *)
(* caller, makes gather() raise.                                           *)
GatherRaisesOnlyWhenDue ==
  \A c \in Call \ Single : call[c] = "raised" => c \in due

(* A run ends, at the latest when its time is up, and a killed execution   *)
(* ends, even if the agent hangs - unless it swallows its cancellation.    *)
RunsEnd == \A c \in Single \ Driven : call[c] = "open" ~> call[c] # "open"

KillsEnd == \A t \in Task : t \in killed ~> exec[t] \in Ended

CallsEnd == RunsEnd /\ KillsEnd

(* "one wall clock for the whole call": so does a gather.                  *)
GathersEnd == \A c \in Call \ Single : call[c] = "open" ~> call[c] # "open"
=============================================================================
