------------------------------ MODULE RunLifecycle ------------------------------
(***************************************************************************)
(* A submitted run: server/app.py (or its in-process twin client/local.py) *)
(* creates a record in the run store and starts a background task,         *)
(* _execute_run, that writes the record; clients cancel the run and stream *)
(* its events.                                                             *)
(*                                                                         *)
(* The store is one of                                                     *)
(*   memory  runs/__init__.py: its calls never suspend, so a caller goes   *)
(*           through a whole series of them in one piece; each stream has  *)
(*           a queue;                                                      *)
(*   file    runs/sqlite.py and runs/rocksdb.py: every call suspends;      *)
(*           streams re-read the log when an asyncio.Event wakes them;     *)
(*   redis   runs/redis.py: every call suspends; set_state is guarded by a *)
(*           script; streams poll.                                         *)
(***************************************************************************)
EXTENDS Integers, Sequences, SequencesExt

CONSTANTS
  Run,          (* run ids: uuid4, never used twice                         *)
  Client,       (* requests to cancel a run                                 *)
  Stream,       (* subscriptions to a run's events                          *)
  Kind,         (* the stores considered                                    *)
  MaxFaults,    (* bound: calls of an external store that raise             *)
  Nobody, NoRun, Closed

ASSUME LifecycleAssumption ==
  /\ Kind \subseteq {"memory", "file", "redis"}
  /\ MaxFaults \in Nat
  /\ Nobody \notin Run \cup Client
  /\ Run \cap Client = {}
  /\ NoRun \notin Run

(* RunEvent: of the executor, or RUN_CANCELLED on behalf of a client.      *)
Reported == {"started", "completed", "failed"}

ASSUME EventAssumption == Client \cap Reported = {} /\ Closed \notin Client \cup Reported

Event == Reported \cup Client

Terminal == {"completed", "failed", "cancelled"}

VARIABLES
  kind,         (* which store this is; never changes                       *)
  state,        (* state[r]: RunRecord.state                                *)
  result,       (* result[r]: the stored result                             *)
  log,          (* log[r]: the run's events                                 *)
  exec,         (* exec[r]: where _execute_run is                           *)
  outcome,      (* outcome[r]: what runtime.run returned to it              *)
  request,      (* request[c]: the run client c cancels, and how far it is  *)
  watch,        (* watch[s]: the run stream s is on, and where it is        *)
  seen,         (* seen[s]: the events stream s has got hold of             *)
  queue,        (* memory: queue[s]                                         *)
  woken,        (* file: streams whose wake event is set                    *)
  turn,         (* memory: who is in the middle of a series of store calls  *)
  faults,
  before        (* before[r]: events logged when r first became terminal,   *)
                (* -1 until then                                            *)

recordVars == <<state, result, log, before>>
streamVars == <<watch, seen, queue, woken>>
vars == <<kind, recordVars, exec, outcome, request, streamVars, turn, faults>>

Init ==
  /\ kind \in Kind
  /\ state = [r \in Run |-> "none"]
  /\ result = [r \in Run |-> "none"]
  /\ log = [r \in Run |-> <<>>]
  /\ exec = [r \in Run |-> "none"]
  /\ outcome = [r \in Run |-> "none"]
  /\ request = [c \in Client |-> [run |-> NoRun, at |-> "idle"]]
  /\ watch = [s \in Stream |-> [run |-> NoRun, at |-> "idle"]]
  /\ seen = [s \in Stream |-> <<>>]
  /\ queue = [s \in Stream |-> <<>>]
  /\ woken = {}
  /\ turn = Nobody
  /\ faults = 0
  /\ before = [r \in Run |-> -1]

On(r, places) == {s \in Stream : watch[s].run = r /\ watch[s].at \in places}

Listening == {"reading", "checking", "waiting"}

Free(a) == turn \in {a, Nobody}

(* The actor goes straight on to its next store call, or suspends.         *)
Continue(a) == turn' = IF kind = "memory" THEN a ELSE Nobody

Suspend == turn' = Nobody

-----------------------------------------------------------------------------
(* The stores.                                                             *)
Enqueue(r, item) ==
  queue' = [s \in Stream |-> IF s \in On(r, {"live"}) THEN Append(queue[s], item)
                                                      ELSE queue[s]]

(* fanout() and close_listeners() of the in-memory store, _wake_listeners  *)
(* of the file stores; Redis tells nobody.                                 *)
NotifyNeverCloses(r, item) ==            \* mutant: no close_listeners()
  /\ IF kind = "memory" /\ item # Closed THEN Enqueue(r, item) ELSE UNCHANGED queue
  /\ woken' = IF kind = "file" THEN woken \cup On(r, Listening) ELSE woken

Notify(r, item) ==
  /\ IF kind = "memory" THEN Enqueue(r, item) ELSE UNCHANGED queue
  /\ woken' = IF kind = "file" THEN woken \cup On(r, Listening) ELSE woken

(* The Redis script refuses to change a terminal state.                    *)
RefusedNever(r) == FALSE                 \* mutant: HSET without the script

Refused(r) == kind = "redis" /\ state[r] \in Terminal

SetState(r, new) ==
  IF Refused(r)
  THEN UNCHANGED <<state, before, queue, woken>>
  ELSE /\ state' = [state EXCEPT ![r] = new]
       /\ IF new \in Terminal
          THEN /\ Notify(r, Closed)
               /\ before' = IF before[r] # -1 THEN before
                            ELSE [before EXCEPT ![r] = Len(log[r])]
          ELSE UNCHANGED <<before, queue, woken>>

PushEvent(r, e) ==
  /\ log' = [log EXCEPT ![r] = Append(@, e)]
  /\ Notify(r, e)

-----------------------------------------------------------------------------
(* POST /submit.                                                           *)
Submit(r) ==
  /\ turn = Nobody
  /\ exec[r] = "none"
  /\ exec' = [exec EXCEPT ![r] = "scheduled"]
  /\ state' = [state EXCEPT ![r] = "pending"]
  /\ UNCHANGED <<kind, result, log, before, outcome, request, streamVars, turn,
                 faults>>

Step(r, from, to) ==
  /\ Free(r)
  /\ exec[r] = from
  /\ exec' = [exec EXCEPT ![r] = to]

(* _execute_run, one store call at a time.                                 *)
Begin(r) ==
  /\ Step(r, "scheduled", "begun")
  /\ SetState(r, "running")
  /\ Continue(r)
  /\ UNCHANGED <<kind, result, log, outcome, request, watch, seen, faults>>

Announce(r) ==
  /\ Step(r, "begun", "working")
  /\ PushEvent(r, "started")
  /\ Suspend
  /\ UNCHANGED <<kind, state, result, before, outcome, request, watch, seen,
                 faults>>

(* runtime.run or run_group returns a result, which may be a failure, or   *)
(* raises.                                                                 *)
Answer(r, o) ==
  /\ Step(r, "working", "answered")
  /\ outcome' = [outcome EXCEPT ![r] = o]
  /\ Continue(r)
  /\ UNCHANGED <<kind, recordVars, request, streamVars, faults>>

Raise(r) ==
  /\ Step(r, "working", "failing")
  /\ Continue(r)
  /\ UNCHANGED <<kind, recordVars, outcome, request, streamVars, faults>>

SettleFirst(r) ==                        \* mutant: the state before the result
  /\ Step(r, "answered", "stored")
  /\ SetState(r, IF outcome[r] = "ok" THEN "completed" ELSE "failed")
  /\ Continue(r)
  /\ UNCHANGED <<kind, result, log, outcome, request, watch, seen, faults>>

StoreResult(r) ==
  /\ Step(r, "answered", "stored")
  /\ result' = [result EXCEPT ![r] = outcome[r]]
  /\ Continue(r)
  /\ UNCHANGED <<kind, state, log, before, outcome, request, streamVars, faults>>

Settle(r) ==
  /\ Step(r, "stored", "settled")
  /\ SetState(r, IF outcome[r] = "ok" THEN "completed" ELSE "failed")
  /\ Continue(r)
  /\ UNCHANGED <<kind, result, log, outcome, request, watch, seen, faults>>

Close(r) ==
  /\ Step(r, "settled", "ended")
  /\ PushEvent(r, "completed")
  /\ Suspend
  /\ UNCHANGED <<kind, state, result, before, outcome, request, watch, seen,
                 faults>>

(* except Exception: the runtime's error, or one of the store's.           *)
FailSilently(r) ==                       \* mutant: the state is not written
  /\ Step(r, "failing", "failed")
  /\ Continue(r)
  /\ UNCHANGED <<kind, recordVars, outcome, request, streamVars, faults>>

Fail(r) ==
  /\ Step(r, "failing", "failed")
  /\ SetState(r, "failed")
  /\ Continue(r)
  /\ UNCHANGED <<kind, result, log, outcome, request, watch, seen, faults>>

ReportFailure(r) ==
  /\ Step(r, "failed", "ended")
  /\ PushEvent(r, "failed")
  /\ Suspend
  /\ UNCHANGED <<kind, state, result, before, outcome, request, watch, seen,
                 faults>>

(* A call of an external store raises: before the try block, or in the     *)
(* except clause, that is the end of the task.                             *)
StoreRaises(r) ==
  /\ kind # "memory" /\ faults < MaxFaults
  /\ faults' = faults + 1
  /\ \/ /\ exec[r] \in {"answered", "stored", "settled"}
        /\ exec' = [exec EXCEPT ![r] = "failing"]
     \/ /\ exec[r] \in {"scheduled", "begun", "failing", "failed"}
        /\ exec' = [exec EXCEPT ![r] = "dead"]
  /\ UNCHANGED <<kind, recordVars, outcome, request, streamVars, turn>>

-----------------------------------------------------------------------------
(* POST /runs/{id}/cancel: the status is read, and unless it is terminal   *)
(* the record is marked; the task is not told.                             *)
CheckCancelBlind(c, r) ==                \* mutant: the status is not looked at
  /\ turn = Nobody
  /\ request[c].at = "idle" /\ exec[r] # "none"
  /\ request' = [request EXCEPT ![c] = [run |-> r, at |-> "checked"]]
  /\ Continue(c)
  /\ UNCHANGED <<kind, recordVars, exec, outcome, streamVars, faults>>

CheckCancel(c, r) ==
  /\ turn = Nobody
  /\ request[c].at = "idle" /\ exec[r] # "none"
  /\ IF state[r] \in Terminal
     THEN /\ request' = [request EXCEPT ![c] = [run |-> r, at |-> "done"]]
          /\ Suspend
     ELSE /\ request' = [request EXCEPT ![c] = [run |-> r, at |-> "checked"]]
          /\ Continue(c)
  /\ UNCHANGED <<kind, recordVars, exec, outcome, streamVars, faults>>

MarkCancelled(c) ==
  /\ Free(c)
  /\ request[c].at = "checked"
  /\ request' = [request EXCEPT ![c].at = "marked"]
  /\ SetState(request[c].run, "cancelled")
  /\ Continue(c)
  /\ UNCHANGED <<kind, result, log, exec, outcome, watch, seen, faults>>

ReportCancel(c) ==
  /\ Free(c)
  /\ request[c].at = "marked"
  /\ request' = [request EXCEPT ![c].at = "done"]
  /\ PushEvent(request[c].run, c)
  /\ Suspend
  /\ UNCHANGED <<kind, state, result, before, exec, outcome, watch, seen, faults>>

(* A store call of the request raises: the request fails half-way.         *)
RequestRaises(c) ==
  /\ kind # "memory" /\ faults < MaxFaults
  /\ faults' = faults + 1
  /\ request[c].at \in {"checked", "marked"}
  /\ request' = [request EXCEPT ![c].at = "done"]
  /\ UNCHANGED <<kind, recordVars, exec, outcome, streamVars, turn>>

-----------------------------------------------------------------------------
Move(s, from, to) ==
  /\ turn = Nobody
  /\ watch[s].at = from
  /\ watch' = [watch EXCEPT ![s].at = to]

StreamOnly == UNCHANGED <<kind, recordVars, exec, outcome, request, turn, faults>>

(* GET /runs/{id}/stream.  In memory: the events so far are copied, and    *)
(* handing them to the client suspends, if there are any.                  *)
OpenMemory(s, r) ==
  /\ seen' = [seen EXCEPT ![s] = log[r]]
  /\ watch' = [watch EXCEPT ![s] =
       [run |-> r,
        at |-> IF log[r] # <<>> THEN "replaying"
               ELSE IF state[r] \in Terminal THEN "ended" ELSE "live"]]

(* The other stores: a loop of reading the log from where it left off,     *)
(* looking at the state, and waiting.                                      *)
OpenLog(s, r) ==
  /\ watch' = [watch EXCEPT ![s] = [run |-> r, at |-> "reading"]]
  /\ UNCHANGED seen

Open(s, r) ==
  /\ turn = Nobody
  /\ watch[s].at = "idle" /\ exec[r] # "none"
  /\ IF kind = "memory" THEN OpenMemory(s, r) ELSE OpenLog(s, r)
  /\ UNCHANGED <<queue, woken>> /\ StreamOnly

(* The copy has been handed over: the stream ends, or gets a queue.        *)
AttachRereads(s) ==                      \* mutant: the log again, not the copy
  /\ Move(s, "replaying",
          IF state[watch[s].run] \in Terminal THEN "ended" ELSE "live")
  /\ seen' = [seen EXCEPT ![s] = @ \o log[watch[s].run]]
  /\ UNCHANGED <<queue, woken>> /\ StreamOnly

Attach(s) ==
  /\ Move(s, "replaying",
          IF state[watch[s].run] \in Terminal THEN "ended" ELSE "live")
  /\ UNCHANGED <<seen, queue, woken>> /\ StreamOnly

Take(s) ==
  /\ queue[s] # <<>>
  /\ IF Head(queue[s]) = Closed
     THEN Move(s, "live", "ended") /\ UNCHANGED seen
     ELSE Move(s, "live", "live") /\ seen' = [seen EXCEPT ![s] = Append(@, Head(queue[s]))]
  /\ queue' = [queue EXCEPT ![s] = Tail(@)]
  /\ UNCHANGED woken /\ StreamOnly

Unread(s) == LET l == log[watch[s].run] IN SubSeq(l, Len(seen[s]) + 1, Len(l))

Fetch(s) ==
  /\ Move(s, "reading", "checking")
  /\ seen' = [seen EXCEPT ![s] = @ \o Unread(s)]
  /\ UNCHANGED <<queue, woken>> /\ StreamOnly

(* A terminal state ends the stream; Redis streams read once more first.   *)
LookNoTail(s) ==                         \* mutant: Redis does as the files do
  /\ Move(s, "checking",
          IF state[watch[s].run] \in Terminal THEN "ended" ELSE "waiting")
  /\ UNCHANGED <<seen, queue, woken>> /\ StreamOnly

Look(s) ==
  /\ Move(s, "checking",
          IF state[watch[s].run] \notin Terminal THEN "waiting"
          ELSE IF kind = "redis" THEN "draining" ELSE "ended")
  /\ UNCHANGED <<seen, queue, woken>> /\ StreamOnly

DrainTail(s) ==
  /\ Move(s, "draining", "ended")
  /\ seen' = [seen EXCEPT ![s] = @ \o Unread(s)]
  /\ UNCHANGED <<queue, woken>> /\ StreamOnly

(* wake.clear() comes before the log is read, so no wake-up is missed.     *)
Again(s) ==
  /\ kind = "file" => s \in woken
  /\ Move(s, "waiting", "reading")
  /\ woken' = woken \ {s}
  /\ UNCHANGED <<seen, queue>> /\ StreamOnly

(* The subscriber goes away, or a store call of its stream raises.         *)
Leave(s) ==
  /\ turn = Nobody
  /\ watch[s].at \notin {"idle", "ended", "left"}
  /\ watch' = [watch EXCEPT ![s].at = "left"]
  /\ queue' = [queue EXCEPT ![s] = <<>>]
  /\ woken' = woken \ {s}
  /\ UNCHANGED seen /\ StreamOnly

-----------------------------------------------------------------------------
Execute(r) ==
  \/ Begin(r) \/ Announce(r) \/ Raise(r)
  \/ \E o \in {"ok", "failed"} : Answer(r, o)
  \/ StoreResult(r) \/ Settle(r) \/ Close(r)
  \/ Fail(r) \/ ReportFailure(r)

Serve(s) == Attach(s) \/ Take(s) \/ Fetch(s) \/ Look(s) \/ DrainTail(s) \/ Again(s)

Next ==
  \/ \E r \in Run : \/ Submit(r) \/ Execute(r) \/ StoreRaises(r)
                    \/ \E c \in Client : CheckCancel(c, r)
                    \/ \E s \in Stream : Open(s, r)
  \/ \E c \in Client : MarkCancelled(c) \/ ReportCancel(c) \/ RequestRaises(c)
  \/ \E s \in Stream : Serve(s) \/ Leave(s)

Spec == Init /\ [][Next]_vars

(* The event loop runs what is ready; runtime.run ends at its deadline     *)
(* (AsyncBackend!RunsEnd); subscribers that stay take what they are sent.  *)
Fairness ==
  /\ \A r \in Run : WF_vars(Execute(r))
  /\ \A c \in Client : WF_vars(MarkCancelled(c) \/ ReportCancel(c))
  /\ \A s \in Stream : WF_vars(Serve(s))

FairSpec == Spec /\ Fairness

-----------------------------------------------------------------------------
TypeOK ==
  /\ kind \in Kind
  /\ state \in [Run -> {"none", "pending", "running"} \cup Terminal]
  /\ result \in [Run -> {"none", "ok", "failed"}]
  /\ log \in [Run -> Seq(Event)]
  /\ exec \in [Run -> {"none", "scheduled", "begun", "working", "answered",
                       "stored", "settled", "failing", "failed", "ended", "dead"}]
  /\ outcome \in [Run -> {"none", "ok", "failed"}]
  /\ request \in [Client -> [run : Run \cup {NoRun},
                             at : {"idle", "checked", "marked", "done"}]]
  /\ watch \in [Stream -> [run : Run \cup {NoRun},
                           at : Listening \cup {"idle", "replaying", "live",
                                                "draining", "ended", "left"}]]
  /\ \A s \in Stream : watch[s].at # "idle" => watch[s].run \in Run
  /\ \A c \in Client : request[c].at # "idle" => request[c].run \in Run
  /\ seen \in [Stream -> Seq(Event)]
  /\ queue \in [Stream -> Seq(Event \cup {Closed})]
  /\ woken \subseteq Stream
  /\ turn \in Run \cup Client \cup {Nobody}
  /\ faults \in Nat
  /\ before \in [Run -> Nat \cup {-1}]

(* What a client is told: a run that is completed has its result, so that  *)
(* GET result after GET status never comes too early.                      *)
CompletedHasResult ==
  \A r \in Run : state[r] = "completed" => result[r] = "ok"

(* What clients can tell apart: the executor's places between two things   *)
(* it says are one; a request that has checked the status may still cancel *)
(* the run.                                                                *)
WorkOf(r) ==
  CASE exec[r] = "none" -> "none"
    [] exec[r] = "scheduled" -> "waiting"
    [] exec[r] \in {"begun", "working"} -> "running"
    [] exec[r] \in {"answered", "stored"} -> outcome[r]
    [] exec[r] = "settled" -> "concluded"
    [] exec[r] = "failing" -> "broken"
    [] OTHER -> "over"

Asking == {<<c, request[c].run>> : c \in {d \in Client : request[d].at = "checked"}}

Contract == INSTANCE RunContract
  WITH guarded <- kind = "redis", work <- [r \in Run |-> WorkOf(r)],
       told <- state, kept <- result, asking <- Asking

(* Whoever writes a verdict was entitled to: the executor once, after the  *)
(* result, which never changes; a request only if it found the run open,   *)
(* though it may write after the run has ended (app.py:725-732).           *)
ImplementsRunContract == Contract!Spec

(* x is l but for at most one stretch, which does not start it.            *)
MissesOneStretch(x, l) ==
  x = <<>> \/
  \E a \in 1..Len(x), g \in 0..(Len(l) - Len(x)) :
    \A k \in DOMAIN x : x[k] = l[IF k <= a THEN k ELSE k + g]

(* Whatever the store, a subscriber gets each event at most once and in    *)
(* the order of the log, from its beginning; in memory it may miss what is *)
(* pushed while it is handed the copy, the stores with a log leave no gap. *)
StreamsInOrder ==
  \A s \in Stream : watch[s].at # "idle" =>
    LET l == log[watch[s].run]
    IN  /\ MissesOneStretch(seen[s], l)
        /\ kind # "memory" => IsPrefix(seen[s], l)

Ended(s) == watch[s].at = "ended"

Past(s) == SubSeq(log[watch[s].run], 1, before[watch[s].run])

(* A stream that came to its end has delivered everything logged before    *)
(* the run became terminal.  The file stores are left out: they end a      *)
(* stream without the events pushed between its last read and its look at  *)
(* the state.                                                              *)
EndedSawThePast ==
  kind # "file" => \A s \in Stream : Ended(s) => IsPrefix(Past(s), seen[s])

(* What a subscriber is given: in order, once, and up to the end.          *)
StreamsFaithful == StreamsInOrder /\ EndedSawThePast

(* With Redis a run that is over stays what it is: a late completion does  *)
(* not undo a cancellation, nor the other way round.                       *)
TerminalStays ==
  [][kind = "redis" =>
       \A r \in Run : state[r] \in Terminal => state'[r] = state[r]]_vars

(* A run is over one day, and then for good - unless the store failed its  *)
(* executor.                                                               *)
RunsSettle ==
  \A r \in Run : exec[r] = "scheduled" ~>
                   (exec[r] = "dead" \/ [](state[r] \in Terminal))

(* A stream ends - no wake-up is missed, no queue left open.               *)
StreamsEnd ==
  \A s \in Stream : watch[s].at # "idle" ~>
    \/ watch[s].at \in {"ended", "left"}
    \/ \E r \in Run : watch[s].run = r /\ exec[r] = "dead"

(* Everything that was begun ends: runs, and the streams that watch them.  *)
RunsAndStreamsEnd == RunsSettle /\ StreamsEnd

(* runstore_contract.py: a live stream that closed has delivered the event *)
(* the run closed with.                                                    *)
ClosedSawTheEnd ==
  \A s \in Stream : Ended(s) => \E e \in Range(seen[s]) : e # "started"
=============================================================================
