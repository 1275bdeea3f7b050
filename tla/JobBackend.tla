------------------------------- MODULE JobBackend -------------------------------
(***************************************************************************)
(* backends/job.py on top of the ResultCollector: spawn/result/kill/status *)
(* of single handles and gather of whole batches.  Handles are batches of  *)
(* one slot.  A coroutine of the publisher (a Caller) is in one call at a  *)
(* time; between two awaits of the code nothing else runs, so one action   *)
(* is the code from one await to the next.                                 *)
(*                                                                         *)
(* Handles in Direct belong to a program that drives the Backend protocol  *)
(* itself: any coroutine may await or kill them.  The others belong to     *)
(* AgentRuntime.run, which awaits result(handle) right after spawn and     *)
(* never kills.                                                            *)
(***************************************************************************)
EXTENDS ResultCollector

CONSTANTS
  Handle,       (* the batches that spawn() creates; the rest are gathers   *)
  Direct,       (* handles used through the Backend protocol directly       *)
  HasTimeout,   (* default_timeout is set (its default is None)             *)
  Killed        (* the synthetic "was killed" result                        *)

ASSUME JobBackendAssumption ==
  /\ Handle \subseteq Batch
  /\ Direct \subseteq Handle
  /\ \A h \in Handle : Slots[h] = {0}
  /\ HasTimeout \in BOOLEAN
  /\ Killed \notin Msg \cup {NoMsg}

VARIABLES
  publishing,   (* publishing[c]: the batch c is publishing the tasks of    *)
  published,    (* tasks handed to the broker                               *)
  spawned,      (* handles spawn() has returned                             *)
  handles,      (* keys of JobBackend._handles                              *)
  cache,        (* JobBackend._cache: handle -> result, NoAnswer if absent  *)
  answers,      (* answers[b]: every result list a call on b has returned   *)
  raised        (* batches some call on which has raised an error           *)

backendVars ==
  <<publishing, published, spawned, handles, cache, answers, raised>>

(* What a call returns: one entry per slot; NoMsg stands for the           *)
(* "did not complete (broker timeout)" envelope of _msg_to_result(None).   *)
Answer(b) == [TasksOf(b) -> Msg \cup {NoMsg, Killed}]

AnyAnswer == UNION {Answer(b) : b \in Batch}

NoAnswer == <<>>

KilledAnswerBare(h) == Killed            \* mutant: not a result list

KilledAnswer(h) == [t \in TasksOf(h) |-> Killed]

Slotted(b) == [t \in TasksOf(b) |-> results[t]]

(* _msg_to_result validates the payload against the agent's output_type; a *)
(* payload that does not validate raises out of the conversion.            *)
Malformed(v) == \E t \in DOMAIN v : v[t] \in Msg /\ v[t].outcome = "malformed"

Succeeded(v) == \A t \in DOMAIN v : v[t] \in Msg /\ v[t].outcome = "ok"

Idle(c) == publishing[c] = NoBatch /\ waiting[c] = NoBatch

BackendInit ==
  /\ CollectorInit
  /\ publishing = [c \in Caller |-> NoBatch]
  /\ published = {}
  /\ spawned = {}
  /\ handles = {}
  /\ cache = [h \in Handle |-> NoAnswer]
  /\ answers = [b \in Batch |-> {}]
  /\ raised = {}

-----------------------------------------------------------------------------
(* spawn() and gather() up to the first publish.  The id is registered and *)
(* only then is anything sent.                                             *)
Begin(c, b) ==
  /\ Idle(c)
  /\ Register(b)
  /\ publishing' = [publishing EXCEPT ![c] = b]
  /\ handles' = IF b \in Handle THEN handles \cup {b} ELSE handles
  /\ UNCHANGED <<waiting, published, spawned, cache, answers, raised>>

Spawn(c, h) == h \in Handle /\ Begin(c, h)

Gather(c, b) == b \notin Handle /\ Begin(c, b)

(* The next task of the batch: the lowest slot not yet published.          *)
IsNext(t, b) ==
  /\ t \in TasksOf(b) \ published
  /\ \A u \in TasksOf(b) \ published : t[2] <= u[2]

(* One publish of spawn() or of gather()'s loop returns.  After the last   *)
(* one spawn() returns the handle; AgentRuntime.run passes it straight to  *)
(* result(), and gather() goes straight on to gather_batch().              *)
Publish(c) ==
  LET b == publishing[c]
      last == TasksOf(b) \subseteq published'
  IN  /\ b # NoBatch
      /\ \E t \in TasksOf(b) : IsNext(t, b) /\ published' = published \cup {t}
      /\ publishing' = IF last THEN [publishing EXCEPT ![c] = NoBatch]
                               ELSE publishing
      /\ spawned' = IF last /\ b \in Handle THEN spawned \cup {b} ELSE spawned
      /\ IF last /\ b \notin Direct THEN Await(c, b) ELSE UNCHANGED waiting
      /\ UNCHANGED <<registered, pending, results, done,
                     handles, cache, answers, raised>>

(* broker.publish raises: the error leaves spawn() or gather(), with no    *)
(* clean-up of _pending and _handles.                                      *)
PublishFails(c) ==
  /\ publishing[c] # NoBatch
  /\ publishing' = [publishing EXCEPT ![c] = NoBatch]
  /\ raised' = raised \cup {publishing[c]}
  /\ UNCHANGED <<collectorVars, published, spawned, handles, cache, answers>>

(* The caller is cancelled at one of those awaits: no clean-up either.     *)
AbandonPublish(c) ==
  /\ publishing[c] # NoBatch
  /\ publishing' = [publishing EXCEPT ![c] = NoBatch]
  /\ UNCHANGED <<collectorVars, published, spawned, handles, cache, answers,
                 raised>>

-----------------------------------------------------------------------------
(* result(): from the cache; or an error for a handle that has gone; or    *)
(* the wait.                                                               *)
ResultFromCache(c, h) ==
  /\ Idle(c)
  /\ cache[h] # NoAnswer
  /\ answers' = [answers EXCEPT ![h] = @ \cup {cache[h]}]
  /\ UNCHANGED <<collectorVars, publishing, published, spawned, handles,
                 cache, raised>>

ResultUnknown(c, h) ==
  /\ Idle(c)
  /\ cache[h] = NoAnswer
  /\ h \notin handles \/ h \notin pending
  /\ raised' = raised \cup {h}
  /\ UNCHANGED <<collectorVars, publishing, published, spawned, handles,
                 cache, answers>>

ResultAwaits(c, h) ==
  /\ Idle(c)
  /\ cache[h] = NoAnswer
  /\ h \in handles
  /\ Await(c, h)
  /\ UNCHANGED <<registered, pending, results, done, backendVars>>

Result(c, h) ==
  /\ h \in Direct \cap spawned
  /\ ResultFromCache(c, h) \/ ResultUnknown(c, h) \/ ResultAwaits(c, h)

(* The rest of result() and gather() after the collector has returned: the *)
(* slots are rehydrated; result() overwrites the cache entry and drops the *)
(* handle.                                                                 *)
Return(b) ==
  LET v == Slotted(b)
  IN  /\ IF Malformed(v)
         THEN /\ raised' = raised \cup {b}
              /\ UNCHANGED <<handles, cache, answers>>
         ELSE /\ answers' = [answers EXCEPT ![b] = @ \cup {v}]
              /\ cache' = IF b \in Handle THEN [cache EXCEPT ![b] = v] ELSE cache
              /\ handles' = handles \ {b}
              /\ UNCHANGED raised
      /\ UNCHANGED <<publishing, published, spawned>>

ReturnSettled(c) == Settle(c) /\ Return(waiting[c])

ReturnExpired(c) == HasTimeout /\ Expire(c) /\ Return(waiting[c])

(* The pipeline's asyncio.timeout (or any canceller) ends the wait: the    *)
(* CancelledError passes through result(), so _handles keeps its entry and *)
(* _cache gets none.                                                       *)
Abandon(c) ==
  /\ Cancel(c)
  /\ UNCHANGED backendVars

KillUnchecked(h) ==                      \* mutant: nothing is looked up
  /\ h \in Direct \cap spawned
  /\ handles' = handles \ {h}
  /\ cache' = [cache EXCEPT ![h] = KilledAnswer(h)]
  /\ UNCHANGED <<collectorVars, publishing, published, spawned, answers, raised>>

Kill(h) ==
  /\ h \in Direct \cap spawned
  /\ cache[h] = NoAnswer /\ h \in handles
  /\ handles' = handles \ {h}
  /\ cache' = [cache EXCEPT ![h] = KilledAnswer(h)]
  /\ UNCHANGED <<collectorVars, publishing, published, spawned, answers, raised>>

Status(h) ==
  IF cache[h] # NoAnswer
  THEN IF Succeeded(cache[h]) THEN "completed" ELSE "failed"
  ELSE IF h \in handles THEN "running" ELSE "unknown"

CallerStep(c) ==
  \/ \E h \in Handle : Spawn(c, h) \/ Result(c, h)
  \/ \E b \in Batch : Gather(c, b)
  \/ Publish(c) \/ PublishFails(c) \/ AbandonPublish(c)
  \/ ReturnSettled(c) \/ ReturnExpired(c) \/ Abandon(c)

-----------------------------------------------------------------------------
BackendTypeOK ==
  /\ CollectorTypeOK
  /\ publishing \in [Caller -> registered \cup {NoBatch}]
  /\ published \subseteq Task
  /\ spawned \subseteq Handle
  /\ handles \subseteq Handle
  /\ cache \in [Handle -> AnyAnswer \cup {NoAnswer}]
  /\ answers \in [Batch -> SUBSET AnyAnswer]
  /\ raised \subseteq Batch
=============================================================================
