------------------------------- MODULE RunProofs -------------------------------
(***************************************************************************)
(* What holds of submitted runs for any number of runs, clients, streams   *)
(* and faults, and for each of the stores: the types; that a completed run *)
(* has its result; that with Redis a run that is over stays what it is;    *)
(* that subscribers are given the log, in order, once and to its end; and  *)
(* that all this keeps the promise of RunContract.                         *)
(***************************************************************************)
EXTENDS RunLifecycle, TLAPS

StateType == {"none", "pending", "running"} \cup Terminal

ExecType == {"none", "scheduled", "begun", "working", "answered", "stored",
             "settled", "failing", "failed", "ended", "dead"}

-----------------------------------------------------------------------------
(* The stores preserve the types of what they write.                       *)
LEMMA NotifyTypes ==
  ASSUME TypeOK, NEW r \in Run, NEW item \in Event \cup {Closed}, Notify(r, item)
  PROVE  /\ queue' \in [Stream -> Seq(Event \cup {Closed})]
         /\ woken' \subseteq Stream
<1>1. woken' \subseteq Stream
  BY DEF Notify, On, TypeOK
<1>2. CASE kind = "memory"
  <2>1. Enqueue(r, item)
    BY <1>2 DEF Notify
  <2>2. \A s \in Stream : queue[s] \in Seq(Event \cup {Closed})
    BY DEF TypeOK
  <2>3. \A s \in Stream : Append(queue[s], item) \in Seq(Event \cup {Closed})
    BY <2>2
  <2> QED BY <1>1, <2>1, <2>2, <2>3 DEF Enqueue
<1>3. CASE kind # "memory"
  BY <1>1, <1>3 DEF Notify, TypeOK
<1> QED BY <1>2, <1>3

LEMMA SetStateTypes ==
  ASSUME TypeOK, NEW r \in Run, NEW new \in StateType, SetState(r, new)
  PROVE  /\ state' \in [Run -> StateType]
         /\ before' \in [Run -> Nat \cup {-1}]
         /\ queue' \in [Stream -> Seq(Event \cup {Closed})]
         /\ woken' \subseteq Stream
<1>1. CASE Refused(r)
  BY <1>1 DEF SetState, TypeOK, StateType
<1>2. CASE ~Refused(r) /\ new \in Terminal
  <2>1. Notify(r, Closed)
    BY <1>2 DEF SetState
  <2>2. Len(log[r]) \in Nat
    BY DEF TypeOK
  <2> QED BY <1>2, <2>1, <2>2, NotifyTypes DEF SetState, TypeOK, StateType
<1>3. CASE ~Refused(r) /\ new \notin Terminal
  BY <1>3 DEF SetState, TypeOK, StateType
<1> QED BY <1>1, <1>2, <1>3

LEMMA PushEventTypes ==
  ASSUME TypeOK, NEW r \in Run, NEW e \in Event, PushEvent(r, e)
  PROVE  /\ log' \in [Run -> Seq(Event)]
         /\ queue' \in [Stream -> Seq(Event \cup {Closed})]
         /\ woken' \subseteq Stream
<1>1. Append(log[r], e) \in Seq(Event)
  BY DEF TypeOK
<1> QED BY <1>1, NotifyTypes DEF PushEvent, TypeOK

(* turn, before and after.                                                 *)
LEMMA ContinueType ==
  ASSUME NEW a \in Run \cup Client, Continue(a)
  PROVE  turn' \in Run \cup Client \cup {Nobody}
BY DEF Continue

LEMMA SuspendType ==
  ASSUME Suspend
  PROVE  turn' \in Run \cup Client \cup {Nobody}
BY DEF Suspend

(* A step of an executor.                                                  *)
LEMMA StepTypes ==
  ASSUME TypeOK, NEW r \in Run, NEW from, NEW to \in ExecType, Step(r, from, to)
  PROVE  exec' \in [Run -> ExecType]
BY DEF Step, TypeOK, ExecType

(* Events a stream picks up from the log.                                  *)
LEMMA UnreadType ==
  ASSUME TypeOK, NEW s \in Stream, watch[s].at # "idle"
  PROVE  seen[s] \o Unread(s) \in Seq(Event)
<1>1. watch[s].run \in Run
  BY DEF TypeOK
<1>2. log[watch[s].run] \in Seq(Event) /\ seen[s] \in Seq(Event)
  BY <1>1 DEF TypeOK
<1>3. Unread(s) \in Seq(Event)
  BY <1>2 DEF Unread
<1> QED BY <1>2, <1>3

-----------------------------------------------------------------------------
(* Type correctness, one lemma per actor.                                  *)
LEMMA ExecutorTypes ==
  ASSUME TypeOK, NEW r \in Run, Execute(r) \/ StoreRaises(r) \/ Submit(r)
  PROVE  TypeOK'
<1>1. Begin(r) => TypeOK'
  BY SetStateTypes, StepTypes, ContinueType DEF Begin, TypeOK, StateType, ExecType
<1>2. Announce(r) => TypeOK'
  BY PushEventTypes, StepTypes, SuspendType DEF Announce, TypeOK, ExecType, Event, Reported
<1>3. Raise(r) => TypeOK'
  BY StepTypes, ContinueType DEF Raise, TypeOK, ExecType, recordVars, streamVars
<1>4. (\E o \in {"ok", "failed"} : Answer(r, o)) => TypeOK'
  BY StepTypes, ContinueType DEF Answer, TypeOK, ExecType, recordVars, streamVars
<1>5. StoreResult(r) => TypeOK'
  BY StepTypes, ContinueType DEF StoreResult, TypeOK, ExecType, streamVars
<1>6. Settle(r) => TypeOK'
  BY SetStateTypes, StepTypes, ContinueType DEF Settle, TypeOK, StateType, ExecType, Terminal
<1>7. Close(r) => TypeOK'
  BY PushEventTypes, StepTypes, SuspendType DEF Close, TypeOK, ExecType, Event, Reported
<1>8. Fail(r) => TypeOK'
  BY SetStateTypes, StepTypes, ContinueType DEF Fail, TypeOK, StateType, ExecType, Terminal
<1>9. ReportFailure(r) => TypeOK'
  BY PushEventTypes, StepTypes, SuspendType DEF ReportFailure, TypeOK, ExecType, Event, Reported
<1>10. ASSUME StoreRaises(r) PROVE TypeOK'
  <2>1. exec' \in [Run -> ExecType]
    <3>1. \E to \in {"failing", "dead"} : exec' = [exec EXCEPT ![r] = to]
      BY <1>10 DEF StoreRaises
    <3> QED BY <3>1 DEF TypeOK, ExecType
  <2>2. faults' \in Nat
    BY <1>10 DEF StoreRaises, TypeOK
  <2>3. UNCHANGED <<kind, state, result, log, before, outcome, request, watch, seen,
                    queue, woken, turn>>
    BY <1>10 DEF StoreRaises, recordVars, streamVars
  <2> QED BY <2>1, <2>2, <2>3 DEF TypeOK, ExecType
<1>11. Submit(r) => TypeOK'
  BY DEF Submit, TypeOK, streamVars
<1> QED BY <1>1, <1>2, <1>3, <1>4, <1>5, <1>6, <1>7, <1>8, <1>9, <1>10, <1>11 DEF Execute

(* A request, or a watch, that moves on keeps its run.                     *)
LEMMA AtChanges ==
  ASSUME NEW Places, NEW record \in [run : Run \cup {NoRun}, at : Places], NEW to
  PROVE  [record EXCEPT !.at = to] = [run |-> record.run, at |-> to]
OBVIOUS

LEMMA ClientTypes ==
  ASSUME TypeOK, NEW c \in Client,
         (\E r \in Run : CheckCancel(c, r)) \/ MarkCancelled(c) \/ ReportCancel(c)
           \/ RequestRaises(c)
  PROVE  TypeOK'
<1>1. ASSUME NEW r \in Run, CheckCancel(c, r) PROVE TypeOK'
  <2>1. turn' \in Run \cup Client \cup {Nobody}
    BY <1>1, ContinueType, SuspendType DEF CheckCancel
  <2>2. /\ request' \in [Client -> [run : Run \cup {NoRun},
                                    at : {"idle", "checked", "marked", "done"}]]
        /\ \A k \in Client : request'[k].at # "idle" => request'[k].run \in Run
    <3>1. \E at \in {"done", "checked"} :
            request' = [request EXCEPT ![c] = [run |-> r, at |-> at]]
      BY <1>1 DEF CheckCancel
    <3> QED BY <3>1 DEF TypeOK
  <2>3. UNCHANGED <<kind, state, result, log, before, exec, outcome, watch, seen,
                    queue, woken, faults>>
    BY <1>1 DEF CheckCancel, recordVars, streamVars
  <2> QED BY <2>1, <2>2, <2>3 DEF TypeOK
<1>2. CASE MarkCancelled(c)
  <2>1. request[c].run \in Run
    BY <1>2 DEF MarkCancelled, TypeOK
  <2> QED BY <1>2, <2>1, SetStateTypes, ContinueType DEF MarkCancelled, TypeOK, StateType, Terminal
<1>3. CASE ReportCancel(c)
  <2>1. request[c].run \in Run
    BY <1>3 DEF ReportCancel, TypeOK
  <2>2. c \in Event
    BY DEF Event
  <2> QED BY <1>3, <2>1, <2>2, PushEventTypes, SuspendType DEF ReportCancel, TypeOK
<1>4. CASE RequestRaises(c)
  <2>1. /\ request' \in [Client -> [run : Run \cup {NoRun},
                                    at : {"idle", "checked", "marked", "done"}]]
        /\ \A k \in Client : request'[k].at # "idle" => request'[k].run \in Run
    <3>1. request[c].run \in Run
      BY <1>4 DEF RequestRaises, TypeOK
    <3>2. request' = [request EXCEPT ![c] = [run |-> request[c].run, at |-> "done"]]
      <4>1. request[c] \in [run : Run \cup {NoRun},
                            at : {"idle", "checked", "marked", "done"}]
        BY DEF TypeOK
      <4>2. [request[c] EXCEPT !.at = "done"] = [run |-> request[c].run, at |-> "done"]
        BY <4>1, AtChanges
      <4> QED BY <1>4, <4>2 DEF RequestRaises
    <3> QED BY <3>1, <3>2 DEF TypeOK
  <2>2. faults' \in Nat
    BY <1>4 DEF RequestRaises, TypeOK
  <2>3. UNCHANGED <<kind, state, result, log, before, exec, outcome, watch, seen,
                    queue, woken, turn>>
    BY <1>4 DEF RequestRaises, recordVars, streamVars
  <2> QED BY <2>1, <2>2, <2>3 DEF TypeOK
<1> QED BY <1>1, <1>2, <1>3, <1>4

WatchType ==
  /\ watch \in [Stream -> [run : Run \cup {NoRun},
                           at : Listening \cup {"idle", "replaying", "live",
                                                "draining", "ended", "left"}]]
  /\ \A s \in Stream : watch[s].at # "idle" => watch[s].run \in Run

(* What is left to show of a step that writes only what streams keep.      *)
LEMMA OthersTyped ==
  ASSUME TypeOK, StreamOnly, WatchType', seen' \in [Stream -> Seq(Event)],
         queue' \in [Stream -> Seq(Event \cup {Closed})], woken' \subseteq Stream
  PROVE  TypeOK'
BY DEF TypeOK, StreamOnly, WatchType, recordVars

LEMMA MoveTypes ==
  ASSUME TypeOK, NEW s \in Stream, NEW from, from # "idle",
         NEW to \in Listening \cup {"idle", "replaying", "live", "draining", "ended",
                                   "left"},
         Move(s, from, to)
  PROVE  WatchType'
<1>1. watch[s].run \in Run
  BY DEF Move, TypeOK
<1>2. watch' = [watch EXCEPT ![s] = [run |-> watch[s].run, at |-> to]]
  <2>1. watch[s] \in [run : Run \cup {NoRun},
                      at : Listening \cup {"idle", "replaying", "live", "draining",
                                           "ended", "left"}]
    BY DEF TypeOK
  <2>2. [watch[s] EXCEPT !.at = to] = [run |-> watch[s].run, at |-> to]
    BY <2>1, AtChanges
  <2> QED BY <2>2 DEF Move
<1> QED BY <1>1, <1>2 DEF WatchType, TypeOK

LEMMA StreamTypes ==
  ASSUME TypeOK, NEW s \in Stream, (\E r \in Run : Open(s, r)) \/ Serve(s) \/ Leave(s)
  PROVE  TypeOK'
<1>1. ASSUME NEW r \in Run, Open(s, r) PROVE TypeOK'
  <2>1. \E at \in {"replaying", "ended", "live", "reading"} :
          watch' = [watch EXCEPT ![s] = [run |-> r, at |-> at]]
    BY <1>1 DEF Open, OpenMemory, OpenLog
  <2>2. WatchType'
    BY <2>1 DEF WatchType, TypeOK, Listening
  <2>3. seen' \in [Stream -> Seq(Event)]
    BY <1>1 DEF Open, OpenMemory, OpenLog, TypeOK
  <2> QED BY <1>1, <2>2, <2>3, OthersTyped DEF Open, TypeOK
<1>2. CASE Attach(s)
  BY <1>2 DEF Attach, Move, StreamOnly, TypeOK, recordVars
<1>3. CASE Take(s)
  <2>1. queue[s] \in Seq(Event \cup {Closed}) /\ queue[s] # <<>> /\ seen[s] \in Seq(Event)
    BY <1>3 DEF Take, TypeOK
  <2>2. Head(queue[s]) \in Event \cup {Closed} /\ Tail(queue[s]) \in Seq(Event \cup {Closed})
    BY <2>1
  <2>3. Head(queue[s]) # Closed => Append(seen[s], Head(queue[s])) \in Seq(Event)
    BY <2>1, <2>2
  <2>4. \E at \in {"live", "ended"} : Move(s, "live", at)
    BY <1>3 DEF Take
  <2>5. WatchType'
    BY <2>4, MoveTypes DEF Listening
  <2>6. seen' \in [Stream -> Seq(Event)]
    BY <1>3, <2>3 DEF Take, TypeOK
  <2>7. queue' \in [Stream -> Seq(Event \cup {Closed})]
    BY <1>3, <2>2 DEF Take, TypeOK
  <2>8. woken' = woken /\ StreamOnly
    BY <1>3 DEF Take
  <2> QED BY <2>5, <2>6, <2>7, <2>8, OthersTyped DEF TypeOK
<1>4. CASE Fetch(s)
  <2>1. seen[s] \o Unread(s) \in Seq(Event)
    BY <1>4, UnreadType DEF Fetch, Move
  <2> QED BY <1>4, <2>1 DEF Fetch, Move, StreamOnly, TypeOK, recordVars, Listening
<1>5. CASE Look(s)
  BY <1>5 DEF Look, Move, StreamOnly, TypeOK, recordVars, Listening
<1>6. CASE DrainTail(s)
  <2>1. seen[s] \o Unread(s) \in Seq(Event)
    BY <1>6, UnreadType DEF DrainTail, Move
  <2> QED BY <1>6, <2>1 DEF DrainTail, Move, StreamOnly, TypeOK, recordVars
<1>7. CASE Again(s)
  BY <1>7 DEF Again, Move, StreamOnly, TypeOK, recordVars, Listening
<1>8. CASE Leave(s)
  <2>1. WatchType'
    BY <1>8 DEF Leave, WatchType, TypeOK
  <2>2. queue' \in [Stream -> Seq(Event \cup {Closed})]
    BY <1>8 DEF Leave, TypeOK
  <2> QED BY <1>8, <2>1, <2>2, OthersTyped DEF Leave, TypeOK
<1> QED BY <1>1, <1>2, <1>3, <1>4, <1>5, <1>6, <1>7, <1>8 DEF Serve

LEMMA TypesKept == TypeOK /\ [Next]_vars => TypeOK'
<1> SUFFICES ASSUME TypeOK, [Next]_vars PROVE TypeOK'
  OBVIOUS
<1>1. CASE UNCHANGED vars
  BY <1>1 DEF vars, recordVars, streamVars, TypeOK
<1>2. CASE Next
  BY <1>2, ExecutorTypes, ClientTypes, StreamTypes DEF Next
<1> QED BY <1>1, <1>2

(* TypeOK: every reachable state is well typed; in particular a request or *)
(* a stream under way is always of a run there is.                         *)
THEOREM RunTypeCorrect == Spec => []TypeOK
<1>1. Init => TypeOK
  BY LifecycleAssumption DEF Init, TypeOK
<1> QED BY <1>1, TypesKept, PTL DEF Spec

-----------------------------------------------------------------------------
(* A completed run has its result.  The state is written by the executor   *)
(* and by clients, so the argument follows the executor: the result is     *)
(* there from the moment it is stored, and no one writes "completed"       *)
(* before.  Nothing is known of a run that was never submitted.            *)
Unsettled == {"none", "scheduled", "begun", "working", "answered"}

RunInv(r) ==
  /\ state[r] = "completed" => result[r] = "ok"
  /\ exec[r] = "stored" => result[r] = outcome[r]
  /\ exec[r] \in Unsettled => state[r] # "completed"
  /\ exec[r] = "none" => state[r] = "none"

Submitted == \A c \in Client : request[c].at # "idle" => exec[request[c].run] # "none"

ResultInv == TypeOK /\ (\A r \in Run : RunInv(r)) /\ Submitted

(* What SetState does to the states of all runs.                           *)
LEMMA SetStateEffect ==
  ASSUME TypeOK, NEW r \in Run, NEW new \in StateType, SetState(r, new)
  PROVE  /\ \A q \in Run \ {r} : state'[q] = state[q]
         /\ state'[r] \in {state[r], new}
         /\ kind = "redis" /\ state[r] \in Terminal => state'[r] = state[r]
<1>1. state' = state \/ (~Refused(r) /\ state' = [state EXCEPT ![r] = new])
  BY DEF SetState
<1> QED BY <1>1 DEF Refused, TypeOK

(* A run that nobody touches keeps its invariant.                          *)
LEMMA Untouched ==
  ASSUME NEW q \in Run, RunInv(q), state'[q] = state[q], result'[q] = result[q],
         exec'[q] = exec[q], outcome'[q] = outcome[q]
  PROVE  RunInv(q)'
BY DEF RunInv

LEMMA ExecutorKeepsResult ==
  ASSUME TypeOK, NEW r \in Run, RunInv(r), Execute(r) \/ StoreRaises(r) \/ Submit(r),
         NEW q \in Run, RunInv(q)
  PROVE  RunInv(q)'
<1> USE DEF TypeOK, RunInv, Unsettled, Step
<1>1. CASE Begin(r)
  BY <1>1, SetStateEffect DEF Begin, StateType, Terminal
<1>2. CASE Announce(r)
  BY <1>2 DEF Announce, PushEvent
<1>3. CASE Raise(r)
  BY <1>3 DEF Raise, recordVars
<1>4. ASSUME NEW o \in {"ok", "failed"}, Answer(r, o) PROVE RunInv(q)'
  BY <1>4 DEF Answer, recordVars
<1>5. CASE StoreResult(r)
  BY <1>5 DEF StoreResult
<1>6. CASE Settle(r)
  <2> DEFINE new == IF outcome[r] = "ok" THEN "completed" ELSE "failed"
  <2>1. new \in StateType /\ SetState(r, new)
    BY <1>6 DEF Settle, StateType, Terminal
  <2>2. /\ \A p \in Run \ {r} : state'[p] = state[p]
        /\ state'[r] \in {state[r], new}
    BY <2>1, SetStateEffect
  <2> QED BY <1>6, <2>2 DEF Settle
<1>7. CASE Close(r)
  BY <1>7 DEF Close, PushEvent
<1>8. CASE Fail(r)
  BY <1>8, SetStateEffect DEF Fail, StateType, Terminal
<1>9. CASE ReportFailure(r)
  BY <1>9 DEF ReportFailure, PushEvent
<1>10. CASE StoreRaises(r)
  BY <1>10 DEF StoreRaises, recordVars
<1>11. CASE Submit(r)
  BY <1>11 DEF Submit
<1> QED BY <1>1, <1>2, <1>3, <1>4, <1>5, <1>6, <1>7, <1>8, <1>9, <1>10, <1>11 DEF Execute

LEMMA ClientKeepsResult ==
  ASSUME TypeOK, Submitted, NEW c \in Client,
         (\E r \in Run : CheckCancel(c, r)) \/ MarkCancelled(c) \/ ReportCancel(c)
           \/ RequestRaises(c),
         NEW q \in Run, RunInv(q)
  PROVE  RunInv(q)'
<1>1. ASSUME NEW r \in Run, CheckCancel(c, r) PROVE RunInv(q)'
  BY <1>1, Untouched DEF CheckCancel, recordVars
<1>2. CASE MarkCancelled(c)
  <2>1. request[c].run \in Run /\ exec[request[c].run] # "none"
    BY <1>2 DEF MarkCancelled, TypeOK, Submitted
  <2> QED BY <1>2, <2>1, SetStateEffect DEF MarkCancelled, StateType, Terminal, RunInv
<1>3. CASE ReportCancel(c)
  BY <1>3, Untouched DEF ReportCancel
<1>4. CASE RequestRaises(c)
  BY <1>4, Untouched DEF RequestRaises, recordVars
<1> QED BY <1>1, <1>2, <1>3, <1>4

(* Executors never go back to "none"; requests are made of submitted runs. *)
LEMMA StaysSubmitted ==
  ASSUME TypeOK, Submitted, [Next]_vars
  PROVE  Submitted'
<1>1. ASSUME NEW r \in Run, Execute(r) \/ StoreRaises(r) \/ Submit(r) PROVE Submitted'
  <2>1. exec'[r] # "none" /\ \A q \in Run \ {r} : exec'[q] = exec[q]
    BY <1>1 DEF Execute, Begin, Announce, Raise, Answer, StoreResult, Settle, Close, Fail,
                ReportFailure, StoreRaises, Submit, Step, TypeOK
  <2>2. request' = request
    BY <1>1 DEF Execute, Begin, Announce, Raise, Answer, StoreResult, Settle, Close, Fail,
                ReportFailure, StoreRaises, Submit
  <2> QED BY <2>1, <2>2 DEF Submitted, TypeOK
<1>2. ASSUME NEW c \in Client, NEW r \in Run, CheckCancel(c, r) PROVE Submitted'
  <2>1. PICK at \in {"done", "checked"} : request' = [request EXCEPT ![c] = [run |-> r, at |-> at]]
    BY <1>2 DEF CheckCancel
  <2>2. exec' = exec /\ exec[r] # "none"
    BY <1>2 DEF CheckCancel
  <2>3. request'[c].run = r /\ \A k \in Client \ {c} : request'[k] = request[k]
    BY <2>1 DEF TypeOK
  <2> QED BY <2>2, <2>3 DEF Submitted
<1>3. ASSUME NEW c \in Client, MarkCancelled(c) \/ ReportCancel(c) \/ RequestRaises(c)
      PROVE  Submitted'
  <2>1. PICK at \in {"marked", "done"} : request' = [request EXCEPT ![c].at = at]
    BY <1>3 DEF MarkCancelled, ReportCancel, RequestRaises
  <2>2. request[c].at # "idle" /\ exec' = exec
    BY <1>3 DEF MarkCancelled, ReportCancel, RequestRaises
  <2>3. [request[c] EXCEPT !.at = at] = [run |-> request[c].run, at |-> at]
    <3>1. request[c] \in [run : Run \cup {NoRun}, at : {"idle", "checked", "marked", "done"}]
      BY DEF TypeOK
    <3> QED BY <3>1, AtChanges
  <2>4. \A k \in Client : request'[k].run = request[k].run
                           /\ (request'[k].at # "idle" => request[k].at # "idle")
    BY <2>1, <2>2, <2>3 DEF TypeOK
  <2> QED BY <2>2, <2>4 DEF Submitted
<1>4. ASSUME NEW s \in Stream, (\E r \in Run : Open(s, r)) \/ Serve(s) \/ Leave(s)
      PROVE  Submitted'
  <2>1. StreamOnly
    BY <1>4 DEF Open, Serve, Leave, Attach, Take, Fetch, Look, DrainTail, Again
  <2> QED BY <2>1 DEF StreamOnly, Submitted
<1>5. CASE UNCHANGED vars
  BY <1>5 DEF vars, Submitted
<1> QED BY <1>1, <1>2, <1>3, <1>4, <1>5 DEF Next

LEMMA KeepsResultInv == ResultInv /\ [Next]_vars => ResultInv'
<1> SUFFICES ASSUME ResultInv, [Next]_vars PROVE ResultInv'
  OBVIOUS
<1>1. TypeOK' /\ Submitted'
  <2>1. TypeOK'
    BY TypesKept DEF ResultInv
  <2> QED BY <2>1, StaysSubmitted DEF ResultInv
<1>2. ASSUME NEW q \in Run PROVE RunInv(q)'
  <2>1. CASE UNCHANGED vars
    BY <2>1, Untouched DEF ResultInv, vars, recordVars
  <2>2. CASE \E r \in Run : Execute(r) \/ StoreRaises(r) \/ Submit(r)
    BY <2>2, ExecutorKeepsResult DEF ResultInv
  <2>3. CASE \E c \in Client : (\E r \in Run : CheckCancel(c, r)) \/ MarkCancelled(c)
                               \/ ReportCancel(c) \/ RequestRaises(c)
    BY <2>3, ClientKeepsResult DEF ResultInv
  <2>4. CASE \E s \in Stream : (\E r \in Run : Open(s, r)) \/ Serve(s) \/ Leave(s)
    <3>1. StreamOnly
      BY <2>4 DEF Open, Serve, Leave, Attach, Take, Fetch, Look, DrainTail, Again
    <3> QED BY <3>1, Untouched DEF StreamOnly, recordVars, ResultInv
  <2> QED BY <2>1, <2>2, <2>3, <2>4 DEF Next
<1> QED BY <1>1, <1>2 DEF ResultInv

(* ResultInv: who writes "completed" has stored the result in an earlier   *)
(* step of the executor, and nobody else stores one.                       *)
THEOREM ResultInvariant == Spec => []ResultInv
<1>1. Init => ResultInv
  <2>1. Init => TypeOK
    BY LifecycleAssumption DEF Init, TypeOK
  <2> QED BY <2>1 DEF Init, ResultInv, RunInv, Submitted
<1> QED BY <1>1, KeepsResultInv, PTL DEF Spec

(* CompletedHasResult: a client that reads the status and then the result  *)
(* of a completed run finds one, however cancellations, failing stores and *)
(* the executor interleave.                                                *)
THEOREM ResultCorrect == Spec => []CompletedHasResult
<1>1. ResultInv => CompletedHasResult
  BY DEF ResultInv, RunInv, CompletedHasResult
<1> QED BY <1>1, ResultInvariant, PTL

(* TerminalStays: with Redis, no step of an executor or of a client takes  *)
(* a run out of a terminal state.                                          *)
THEOREM TerminalCorrect == Spec => TerminalStays
<1> DEFINE Stays == kind = "redis" =>
                      \A r \in Run : state[r] \in Terminal => state'[r] = state[r]
<1>1. ResultInv /\ [Next]_vars => [Stays]_vars
  <2> SUFFICES ASSUME ResultInv, Next, kind = "redis", NEW q \in Run, state[q] \in Terminal
               PROVE  state'[q] = state[q]
    OBVIOUS
  <2>1. ASSUME NEW r \in Run, Execute(r) \/ StoreRaises(r) PROVE state'[q] = state[q]
    <3>1. CASE \E new \in StateType : SetState(r, new)
      BY <3>1, SetStateEffect DEF ResultInv
    <3>2. CASE state' = state
      BY <3>2
    <3> QED BY <2>1, <3>1, <3>2 DEF Execute, Begin, Announce, Raise, Answer, StoreResult,
                Settle, Close, Fail, ReportFailure, StoreRaises, recordVars, StateType, Terminal
  <2>2. ASSUME NEW r \in Run, Submit(r) PROVE state'[q] = state[q]
    BY <2>2 DEF Submit, ResultInv, RunInv, TypeOK, Terminal
  <2>3. ASSUME NEW c \in Client, NEW r \in Run, CheckCancel(c, r) PROVE state'[q] = state[q]
    BY <2>3 DEF CheckCancel, recordVars
  <2>4. ASSUME NEW c \in Client, MarkCancelled(c) PROVE state'[q] = state[q]
    <3>1. request[c].run \in Run
      BY <2>4 DEF MarkCancelled, ResultInv, TypeOK
    <3> QED BY <2>4, <3>1, SetStateEffect DEF MarkCancelled, ResultInv, StateType, Terminal
  <2>5. ASSUME NEW c \in Client, ReportCancel(c) \/ RequestRaises(c) PROVE state'[q] = state[q]
    BY <2>5 DEF ReportCancel, RequestRaises, recordVars
  <2>6. ASSUME NEW s \in Stream, (\E r \in Run : Open(s, r)) \/ Serve(s) \/ Leave(s)
        PROVE  state'[q] = state[q]
    <3>1. StreamOnly
      BY <2>6 DEF Open, Serve, Leave, Attach, Take, Fetch, Look, DrainTail, Again
    <3> QED BY <3>1 DEF StreamOnly, recordVars
  <2> QED BY <2>1, <2>2, <2>3, <2>4, <2>5, <2>6 DEF Next
<1> QED BY <1>1, ResultInvariant, PTL DEF Spec, TerminalStays

-----------------------------------------------------------------------------
(* What subscribers are given.  Until a run is over its log has at most    *)
(* the event of its start, so a stream that was handed a copy of the log   *)
(* has what was logged by then; and who writes a closing event has made    *)
(* the run terminal before.                                                *)
Early == {"none", "scheduled", "begun"}

LogInv(r) ==
  /\ before[r] = -1 =>
       /\ state[r] \notin Terminal
       /\ exec[r] \notin {"settled", "failed"}
       /\ Len(log[r]) <= 1
       /\ exec[r] \in Early => Len(log[r]) = 0
  /\ before[r] <= 1 /\ before[r] <= Len(log[r])

MarkedInv == \A c \in Client : request[c].at = "marked" => before[request[c].run] # -1

(* The first a events of x are those of l, the others come g places later. *)
Delivered(x, l, a, g) ==
  /\ a \in 0..Len(x) /\ g \in Nat /\ Len(x) + g <= Len(l)
  /\ a = 0 => g = 0
  /\ \A k \in 1..Len(x) : x[k] = l[IF k <= a THEN k ELSE k + g]

(* c events wait in the queue q; behind them there is nothing, and nothing *)
(* more in the log l, or the end marker.  b events count as the past.      *)
Waiting(x, q, l, b, g, c) ==
  /\ c \in 0..Len(q) /\ Len(x) + c + g <= Len(l)
  /\ \A k \in 1..c : q[k] = l[Len(x) + k + g]
  /\ \/ c = Len(q) /\ Len(x) + c + g = Len(l)
     \/ c < Len(q) /\ q[c + 1] = Closed /\ b # -1
  /\ Len(x) + c >= b

IsPart(x, l) == Len(x) <= Len(l) /\ \A k \in 1..Len(x) : x[k] = l[k]

(* A stream of the in-memory store.                                        *)
MemoryInv(at, x, q, l, b) ==
  /\ at \notin Listening \cup {"draining"}
  /\ at \in {"idle", "replaying"} => q = <<>>
  /\ at = "replaying" => IsPart(x, l) /\ Len(x) >= 1
  /\ at = "live" => \E a, g, c \in Nat : Delivered(x, l, a, g) /\ Waiting(x, q, l, b, g, c)
  /\ at \in {"left", "ended"} => \E a, g \in Nat : Delivered(x, l, a, g)
  /\ at = "ended" => b # -1 /\ Len(x) >= b

(* A stream of a store with a log.                                         *)
LoggedInv(at, x, l, b) ==
  /\ at \notin {"replaying", "live"}
  /\ at = "idle" => x = <<>>
  /\ at # "idle" => IsPart(x, l)
  /\ kind = "redis" =>
       /\ at \in {"draining", "ended"} => b # -1
       /\ at = "ended" => Len(x) >= b

StreamInv(s) ==
  LET r == watch[s].run
  IN  IF kind = "memory"
      THEN MemoryInv(watch[s].at, seen[s], queue[s], log[r], before[r])
      ELSE LoggedInv(watch[s].at, seen[s], log[r], before[r])

LogsInv == (\A r \in Run : LogInv(r)) /\ MarkedInv

DeliveryInv == LogsInv /\ \A s \in Stream : StreamInv(s)

-----------------------------------------------------------------------------
(* Logs and queues that grow.                                              *)
Grown(l2, l, e) ==
  /\ Len(l2) = Len(l) + 1
  /\ \A k \in 1..Len(l) : l2[k] = l[k]
  /\ l2[Len(l) + 1] = e

LEMMA AppendGrows ==
  ASSUME NEW S, NEW x \in Seq(S), NEW e \in S
  PROVE  Grown(Append(x, e), x, e)
BY DEF Grown

LEMMA DeliveredStays ==
  ASSUME NEW x, NEW l, NEW l2, NEW e, Len(x) \in Nat, Len(l) \in Nat, Grown(l2, l, e),
         NEW a, NEW g, Delivered(x, l, a, g)
  PROVE  Delivered(x, l2, a, g)
BY DEF Delivered, Grown

LEMMA PartStays ==
  ASSUME NEW x, NEW l, NEW l2, NEW e, Len(x) \in Nat, Len(l) \in Nat, Grown(l2, l, e),
         IsPart(x, l)
  PROVE  IsPart(x, l2)
BY DEF IsPart, Grown

LEMMA PartIsDelivered ==
  ASSUME NEW x, NEW l, Len(x) \in Nat, Len(l) \in Nat, IsPart(x, l)
  PROVE  Delivered(x, l, Len(x), 0)
BY DEF IsPart, Delivered

(* An event that is pushed is behind all that wait, or behind the marker.  *)
LEMMA EventWaits ==
  ASSUME NEW x, NEW q, NEW q2, NEW l, NEW l2, NEW b, NEW e, NEW g \in Nat, NEW c \in Nat,
         Len(x) \in Nat, Len(q) \in Nat, Len(l) \in Nat,
         Waiting(x, q, l, b, g, c), Grown(l2, l, e), Grown(q2, q, e), b \in Int
  PROVE  \E d \in Nat : Waiting(x, q2, l2, b, g, d)
<1>1. CASE c = Len(q) /\ Len(x) + c + g = Len(l)
  <2>1. ASSUME NEW k \in 1..(c + 1) PROVE q2[k] = l2[Len(x) + k + g]
    <3>1. CASE k = c + 1
      BY <1>1, <3>1 DEF Grown
    <3>2. CASE k # c + 1
      <4>1. k \in 1..c /\ k \in 1..Len(q) /\ Len(x) + k + g \in 1..Len(l)
        BY <1>1, <3>2
      <4>2. q2[k] = q[k] /\ l2[Len(x) + k + g] = l[Len(x) + k + g]
        BY <4>1 DEF Grown
      <4>. QED
        BY <4>1, <4>2 DEF Waiting
    <3>. QED
      BY <3>1, <3>2
  <2>2. Len(l2) = Len(l) + 1 /\ Len(q2) = Len(q) + 1 /\ Len(x) + c >= b
    BY DEF Grown, Waiting
  <2>3. Waiting(x, q2, l2, b, g, c + 1)
    BY <1>1, <2>1, <2>2 DEF Waiting
  <2>. QED
    BY <2>3
<1>2. CASE c < Len(q) /\ q[c + 1] = Closed /\ b # -1
  <2>1. q2[c + 1] = Closed
    BY <1>2 DEF Grown
  <2>2. ASSUME NEW k \in 1..c PROVE q2[k] = l2[Len(x) + k + g]
    <3>1. k \in 1..Len(q) /\ Len(x) + k + g \in 1..Len(l)
      BY <1>2 DEF Waiting
    <3>2. q2[k] = q[k] /\ l2[Len(x) + k + g] = l[Len(x) + k + g]
      BY <3>1 DEF Grown
    <3>. QED
      BY <3>2 DEF Waiting
  <2>3. Len(l2) = Len(l) + 1 /\ Len(q2) = Len(q) + 1
    BY DEF Grown
  <2>4. Waiting(x, q2, l2, b, g, c)
    BY <1>2, <2>1, <2>2, <2>3 DEF Waiting
  <2>. QED
    BY <2>4
<1>. QED
  BY <1>1, <1>2 DEF Waiting

(* The end marker: the past is what was logged, and has been queued.       *)
LEMMA MarkerWaits ==
  ASSUME NEW x, NEW q, NEW q2, NEW l, NEW b, NEW b2, NEW a, NEW g \in Nat, NEW c \in Nat,
         Len(x) \in Nat, Len(q) \in Nat, Len(l) \in Nat, b \in Int,
         Delivered(x, l, a, g), Waiting(x, q, l, b, g, c), Grown(q2, q, Closed),
         b # -1 => b2 = b,
         b = -1 => b2 = Len(l) /\ Len(l) <= 1
  PROVE  Waiting(x, q2, l, b2, g, c)
<1>1. ASSUME NEW k \in 1..c PROVE q2[k] = l[Len(x) + k + g]
  <2>1. k \in 1..Len(q)
    BY DEF Waiting
  <2>2. q2[k] = q[k]
    BY <2>1 DEF Grown
  <2>. QED
    BY <2>2 DEF Waiting
<1>2. b2 # -1
  BY DEF Waiting
<1>3. c < Len(q2) /\ q2[c + 1] = Closed
  <2>1. CASE c = Len(q)
    BY <2>1 DEF Grown
  <2>2. CASE c < Len(q)
    BY <2>2 DEF Grown, Waiting
  <2>. QED
    BY <2>1, <2>2 DEF Waiting
<1>4. Len(x) + c >= b2
  <2>1. CASE b # -1
    BY <2>1 DEF Waiting
  <2>2. CASE b = -1
    <3>1. Len(x) + c + g = Len(l) /\ (a = 0 => g = 0) /\ a <= Len(x) /\ a \in Nat
      BY <2>2 DEF Waiting, Delivered
    <3>. QED
      BY <2>2, <3>1
  <2>. QED
    BY <2>1, <2>2
<1>. QED
  BY <1>1, <1>2, <1>3, <1>4 DEF Waiting

(* The first of the queue is taken: an event, or the marker.               *)
LEMMA EventTaken ==
  ASSUME NEW x, NEW x2, NEW q, NEW q2, NEW l, NEW b \in Int, NEW a, NEW g \in Nat,
         NEW c \in Nat, Len(x) \in Nat, Len(q) \in Nat, Len(l) \in Nat, Len(q) > 0,
         q[1] # Closed, Grown(x2, x, q[1]),
         Len(q2) = Len(q) - 1, \A k \in 1..Len(q2) : q2[k] = q[k + 1],
         Delivered(x, l, a, g), Waiting(x, q, l, b, g, c)
  PROVE  \E d \in Nat : Delivered(x2, l, a, g) /\ Waiting(x2, q2, l, b, g, d)
<1>1. c >= 1 /\ c - 1 \in Nat
  BY DEF Waiting
<1>2. Len(x2) = Len(x) + 1 /\ Len(x2) + g <= Len(l)
  BY <1>1 DEF Grown, Waiting
<1>3. ASSUME NEW k \in 1..Len(x2) PROVE x2[k] = l[IF k <= a THEN k ELSE k + g]
  <2>1. a \in Nat /\ a <= Len(x)
    BY DEF Delivered
  <2>2. CASE k = Len(x) + 1
    <3>1. x2[k] = q[1] /\ q[1] = l[Len(x) + 1 + g]
      BY <1>1, <2>2 DEF Grown, Waiting
    <3>. QED
      BY <2>1, <2>2, <3>1
  <2>3. CASE k # Len(x) + 1
    <3>1. k \in 1..Len(x)
      BY <1>2, <2>3
    <3>2. x2[k] = x[k]
      BY <3>1 DEF Grown
    <3>. QED
      BY <3>1, <3>2 DEF Delivered
  <2>. QED
    BY <2>2, <2>3
<1>4. Delivered(x2, l, a, g)
  BY <1>2, <1>3 DEF Delivered
<1>5. ASSUME NEW k \in 1..(c - 1) PROVE q2[k] = l[Len(x2) + k + g]
  <2>1. k \in 1..Len(q2) /\ k + 1 \in 1..c
    BY DEF Waiting
  <2>2. q2[k] = q[k + 1] /\ q[k + 1] = l[Len(x) + (k + 1) + g]
    BY <2>1 DEF Waiting
  <2>. QED
    BY <1>2, <2>2
<1>6. \/ c - 1 = Len(q2) /\ Len(x2) + (c - 1) + g = Len(l)
      \/ c - 1 < Len(q2) /\ q2[(c - 1) + 1] = Closed /\ b # -1
  <2>1. CASE c = Len(q) /\ Len(x) + c + g = Len(l)
    BY <1>1, <1>2, <2>1
  <2>2. CASE c < Len(q) /\ q[c + 1] = Closed /\ b # -1
    <3>1. c \in 1..Len(q2) /\ (c - 1) + 1 = c
      BY <1>1, <2>2
    <3>2. q2[c] = Closed
      BY <2>2, <3>1
    <3>. QED
      BY <1>1, <2>2, <3>1, <3>2
  <2>. QED
    BY <2>1, <2>2 DEF Waiting
<1>7. Waiting(x2, q2, l, b, g, c - 1)
  BY <1>1, <1>2, <1>5, <1>6 DEF Waiting
<1>. QED
  BY <1>1, <1>4, <1>7

LEMMA MarkerTaken ==
  ASSUME NEW x, NEW q, NEW l, NEW b \in Int, NEW g \in Nat, NEW c \in Nat,
         Len(x) \in Nat, Len(q) \in Nat, Len(l) \in Nat, Len(q) > 0, q[1] = Closed,
         \A k \in 1..Len(l) : l[k] # Closed, Waiting(x, q, l, b, g, c)
  PROVE  b # -1 /\ Len(x) >= b
<1>1. c = 0
  <2>. SUFFICES ASSUME c >= 1 PROVE FALSE
    OBVIOUS
  <2>1. 1 \in 1..c /\ Len(x) + 1 + g \in 1..Len(l)
    BY DEF Waiting
  <2>. QED
    BY <2>1 DEF Waiting
<1>. QED
  BY <1>1 DEF Waiting

-----------------------------------------------------------------------------
(* What the store's calls do to the logs and to the past of the runs.      *)
LEMMA Lengths ==
  ASSUME TypeOK
  PROVE  /\ \A s \in Stream : Len(seen[s]) \in Nat /\ Len(queue[s]) \in Nat
         /\ \A r \in Run : /\ Len(log[r]) \in Nat /\ before[r] \in Int /\ before[r] >= -1
                           /\ \A k \in 1..Len(log[r]) : log[r][k] # Closed
<1>1. \A r \in Run : log[r] \in Seq(Event)
  BY DEF TypeOK
<1>2. \A s \in Stream : seen[s] \in Seq(Event) /\ queue[s] \in Seq(Event \cup {Closed})
  BY DEF TypeOK
<1>3. Closed \notin Event
  BY EventAssumption DEF Event
<1>4. \A r \in Run : before[r] \in Int /\ before[r] >= -1
  BY DEF TypeOK
<1>5. \A r \in Run : Len(log[r]) \in Nat /\ \A k \in 1..Len(log[r]) : log[r][k] \in Event
  BY <1>1
<1>. QED
  BY <1>2, <1>3, <1>4, <1>5

PastKept == \A q \in Run : before[q] # -1 => before'[q] = before[q]

Goes(q) ==
  /\ exec'[q] \in Early => exec[q] \in Early
  /\ exec'[q] \in {"settled", "failed"} => exec[q] \in {"settled", "failed"}

LEMMA SetStateLog ==
  ASSUME TypeOK, NEW r \in Run, LogInv(r), NEW new \in StateType, SetState(r, new)
  PROVE  /\ \A q \in Run \ {r} : before'[q] = before[q] /\ state'[q] = state[q]
         /\ before[r] # -1 => before'[r] = before[r]
         /\ before'[r] = -1 => before[r] = -1 /\ state'[r] \notin Terminal /\ new \notin Terminal
         /\ before'[r] <= 1 /\ before'[r] <= Len(log[r])
         /\ before'[r] # before[r] => new \in Terminal /\ before'[r] = Len(log[r])
<1>1. Len(log[r]) \in Nat /\ before[r] \in Int
  BY Lengths
<1>2. CASE Refused(r)
  <2>1. state' = state /\ before' = before /\ state[r] \in Terminal
    BY <1>2 DEF SetState, Refused
  <2>. QED
    BY <2>1 DEF LogInv
<1>3. CASE ~Refused(r) /\ new \in Terminal
  <2>1. /\ state' = [state EXCEPT ![r] = new]
        /\ before' = IF before[r] # -1 THEN before ELSE [before EXCEPT ![r] = Len(log[r])]
    BY <1>3 DEF SetState
  <2>2. CASE before[r] # -1
    BY <1>1, <1>3, <2>1, <2>2 DEF TypeOK, LogInv
  <2>3. CASE before[r] = -1
    BY <1>1, <1>3, <2>1, <2>3 DEF TypeOK, LogInv
  <2>. QED
    BY <2>2, <2>3
<1>4. CASE ~Refused(r) /\ new \notin Terminal
  <2>1. state' = [state EXCEPT ![r] = new] /\ before' = before
    BY <1>4 DEF SetState
  <2>. QED
    BY <1>1, <1>4, <2>1 DEF TypeOK, LogInv
<1>. QED
  BY <1>2, <1>3, <1>4

LEMMA LogsSettle ==
  ASSUME TypeOK, \A q \in Run : LogInv(q), NEW r \in Run, NEW new \in StateType,
         SetState(r, new), log' = log, \A q \in Run \ {r} : exec'[q] = exec[q],
         exec'[r] \in Early => exec[r] \in Early,
         exec'[r] \in {"settled", "failed"} => exec[r] \in {"settled", "failed"} \/ new \in Terminal
  PROVE  (\A q \in Run : LogInv(q)') /\ PastKept
<1>1. \A q \in Run \ {r} : LogInv(q)'
  BY SetStateLog DEF LogInv
<1>2. LogInv(r)'
  BY SetStateLog DEF LogInv
<1>3. PastKept
  BY SetStateLog DEF PastKept
<1>. QED
  BY <1>1, <1>2, <1>3

LEMMA PushLog ==
  ASSUME TypeOK, NEW r \in Run, NEW e \in Event, PushEvent(r, e)
  PROVE  Grown(log'[r], log[r], e) /\ \A q \in Run \ {r} : log'[q] = log[q]
<1>1. log[r] \in Seq(Event) /\ log'[r] = Append(log[r], e)
  BY DEF PushEvent, TypeOK
<1>2. Grown(log'[r], log[r], e)
  BY <1>1, AppendGrows
<1>. QED
  BY <1>2 DEF PushEvent, TypeOK

LEMMA LogsPush ==
  ASSUME TypeOK, \A q \in Run : LogInv(q), NEW r \in Run, NEW e \in Event, PushEvent(r, e),
         state' = state, before' = before, \A q \in Run : Goes(q),
         before[r] = -1 => Len(log[r]) = 0 /\ exec'[r] \notin Early
  PROVE  (\A q \in Run : LogInv(q)') /\ PastKept
<1>1. ASSUME NEW q \in Run, q # r PROVE LogInv(q)'
  BY <1>1, PushLog DEF LogInv, Goes
<1>2. LogInv(r)'
  <2>1. Len(log'[r]) = Len(log[r]) + 1 /\ Len(log[r]) \in Nat /\ before[r] \in Int
    BY PushLog, Lengths DEF Grown
  <2>. QED
    BY <2>1 DEF LogInv, Goes
<1>. QED
  BY <1>1, <1>2 DEF PastKept

LEMMA LogsQuiet ==
  ASSUME \A q \in Run : LogInv(q), UNCHANGED <<state, log, before>>, \A q \in Run : Goes(q)
  PROVE  (\A q \in Run : LogInv(q)') /\ PastKept
BY DEF LogInv, Goes, PastKept

LEMMA ExecutorLogs ==
  ASSUME TypeOK, \A q \in Run : LogInv(q), NEW r \in Run,
         Execute(r) \/ StoreRaises(r) \/ Submit(r)
  PROVE  (\A q \in Run : LogInv(q)') /\ PastKept
<1>0. \A from, to : Step(r, from, to) =>
        exec[r] = from /\ exec'[r] = to /\ \A q \in Run \ {r} : exec'[q] = exec[q]
  BY DEF Step, TypeOK
<1>1. CASE Begin(r)
  BY <1>0, <1>1, LogsSettle DEF Begin, StateType, Early
<1>2. CASE Announce(r)
  <2>1. exec[r] = "begun" /\ exec'[r] = "working" /\ \A q \in Run : Goes(q)
    BY <1>0, <1>2 DEF Announce, Goes, Early
  <2>2. PushEvent(r, "started") /\ "started" \in Event /\ state' = state /\ before' = before
    BY <1>2 DEF Announce, Event, Reported
  <2>. QED
    BY <2>1, <2>2, LogsPush DEF LogInv, Early
<1>3. CASE Raise(r) \/ \E o \in {"ok", "failed"} : Answer(r, o)
  BY <1>0, <1>3, LogsQuiet DEF Raise, Answer, recordVars, Goes, Early
<1>4. CASE StoreResult(r)
  BY <1>0, <1>4, LogsQuiet DEF StoreResult, Goes, Early
<1>5. CASE Settle(r)
  <2>. DEFINE new == IF outcome[r] = "ok" THEN "completed" ELSE "failed"
  <2>1. new \in StateType /\ new \in Terminal /\ SetState(r, new) /\ log' = log
    BY <1>5 DEF Settle, StateType, Terminal
  <2>2. exec'[r] = "settled" /\ \A q \in Run \ {r} : exec'[q] = exec[q]
    BY <1>0, <1>5 DEF Settle
  <2>. HIDE DEF new
  <2>. QED
    BY <2>1, <2>2, LogsSettle DEF Early
<1>6. CASE Close(r)
  <2>1. exec[r] = "settled" /\ exec'[r] = "ended" /\ \A q \in Run : Goes(q)
    BY <1>0, <1>6 DEF Close, Goes, Early
  <2>2. PushEvent(r, "completed") /\ "completed" \in Event /\ state' = state /\ before' = before
    BY <1>6 DEF Close, Event, Reported
  <2>. QED
    BY <2>1, <2>2, LogsPush DEF LogInv
<1>7. CASE Fail(r)
  <2>1. exec'[r] = "failed" /\ \A q \in Run \ {r} : exec'[q] = exec[q]
    BY <1>0, <1>7 DEF Fail
  <2>2. SetState(r, "failed") /\ "failed" \in StateType /\ "failed" \in Terminal /\ log' = log
    BY <1>7 DEF Fail, StateType, Terminal
  <2>. QED
    BY <2>1, <2>2, LogsSettle DEF Early
<1>8. CASE ReportFailure(r)
  <2>1. exec[r] = "failed" /\ exec'[r] = "ended" /\ \A q \in Run : Goes(q)
    BY <1>0, <1>8 DEF ReportFailure, Goes, Early
  <2>2. PushEvent(r, "failed") /\ "failed" \in Event /\ state' = state /\ before' = before
    BY <1>8 DEF ReportFailure, Event, Reported
  <2>. QED
    BY <2>1, <2>2, LogsPush DEF LogInv
<1>9. CASE StoreRaises(r)
  BY <1>9, LogsQuiet DEF StoreRaises, recordVars, Goes, Early, TypeOK
<1>10. CASE Submit(r)
  <2>1. exec[r] = "none" /\ exec'[r] = "scheduled" /\ state'[r] = "pending"
        /\ \A q \in Run \ {r} : exec'[q] = exec[q] /\ state'[q] = state[q]
    BY <1>10 DEF Submit, TypeOK
  <2>2. log' = log /\ before' = before
    BY <1>10 DEF Submit
  <2>. QED
    BY <2>1, <2>2 DEF LogInv, Early, Terminal, PastKept
<1>. QED
  BY <1>1, <1>2, <1>3, <1>4, <1>5, <1>6, <1>7, <1>8, <1>9, <1>10 DEF Execute

LEMMA ClientLogs ==
  ASSUME TypeOK, LogsInv, NEW c \in Client,
         (\E r \in Run : CheckCancel(c, r)) \/ MarkCancelled(c) \/ ReportCancel(c)
           \/ RequestRaises(c)
  PROVE  LogsInv' /\ PastKept
<1>0. /\ request[c].at # "idle" => request[c].run \in Run
      /\ \A k \in Client : request[k].at # "idle" => request[k].run \in Run
  BY DEF TypeOK
<1>1. CASE \E r \in Run : CheckCancel(c, r)
  <2>1. /\ UNCHANGED <<state, log, before, exec>> /\ request'[c].at # "marked"
        /\ \A k \in Client \ {c} : request'[k] = request[k]
    BY <1>1 DEF CheckCancel, recordVars, TypeOK
  <2>2. (\A q \in Run : LogInv(q)') /\ PastKept
    BY <2>1, LogsQuiet DEF LogsInv, Goes
  <2>3. ASSUME NEW k \in Client, request'[k].at = "marked"
        PROVE  before'[request'[k].run] # -1
    <3>1. k # c /\ request'[k] = request[k]
      BY <2>1, <2>3
    <3>2. before[request[k].run] # -1
      BY <2>3, <3>1 DEF LogsInv, MarkedInv
    <3>. QED
      BY <2>1, <3>1, <3>2
  <2>4. MarkedInv'
    BY <2>3 DEF MarkedInv
  <2>. QED
    BY <2>2, <2>4 DEF LogsInv
<1>2. CASE MarkCancelled(c)
  <2>. DEFINE r == request[c].run
  <2>1. r \in Run /\ SetState(r, "cancelled") /\ log' = log /\ exec' = exec
        /\ "cancelled" \in StateType /\ "cancelled" \in Terminal
    BY <1>0, <1>2 DEF MarkCancelled, StateType, Terminal
  <2>2. /\ \A k \in Client \ {c} : request'[k] = request[k]
        /\ request'[c].run = r
    BY <1>2 DEF MarkCancelled, TypeOK
  <2>3. (\A q \in Run : LogInv(q)') /\ PastKept
    <3>. HIDE DEF r
    <3>. QED
      BY <2>1, LogsSettle DEF LogsInv
  <2>4. before'[r] # -1
    <3>. HIDE DEF r
    <3>. QED
      BY <2>1, SetStateLog DEF LogsInv
  <2>5. MarkedInv'
    <3>. SUFFICES ASSUME NEW k \in Client, request'[k].at = "marked"
                  PROVE  before'[request'[k].run] # -1
      BY DEF MarkedInv
    <3>1. CASE k = c
      BY <2>2, <2>4, <3>1
    <3>2. CASE k # c
      <4>1. request[k].run \in Run /\ before[request[k].run] # -1
        BY <1>0, <2>2, <3>2 DEF LogsInv, MarkedInv
      <4>. QED
        BY <2>2, <2>3, <3>2, <4>1 DEF PastKept
    <3>. QED
      BY <3>1, <3>2
  <2>. QED
    BY <2>3, <2>5 DEF LogsInv
<1>3. CASE ReportCancel(c)
  <2>. DEFINE r == request[c].run
  <2>1. r \in Run /\ PushEvent(r, c) /\ c \in Event /\ before[r] # -1
        /\ state' = state /\ before' = before /\ exec' = exec
    BY <1>0, <1>3 DEF ReportCancel, Event, LogsInv, MarkedInv
  <2>2. (\A q \in Run : LogInv(q)') /\ PastKept
    <3>. HIDE DEF r
    <3>. QED
      BY <2>1, LogsPush DEF LogsInv, Goes
  <2>3. \A k \in Client \ {c} : request'[k] = request[k]
    BY <1>3 DEF ReportCancel, TypeOK
  <2>4. request'[c].at # "marked"
    BY <1>3 DEF ReportCancel, TypeOK
  <2>. QED
    BY <2>1, <2>2, <2>3, <2>4 DEF LogsInv, MarkedInv
<1>4. CASE RequestRaises(c)
  <2>1. /\ UNCHANGED <<state, log, before, exec>> /\ request'[c].at # "marked"
        /\ \A k \in Client \ {c} : request'[k] = request[k]
    BY <1>4 DEF RequestRaises, recordVars, TypeOK
  <2>2. (\A q \in Run : LogInv(q)') /\ PastKept
    BY <2>1, LogsQuiet DEF LogsInv, Goes
  <2>3. ASSUME NEW k \in Client, request'[k].at = "marked"
        PROVE  before'[request'[k].run] # -1
    <3>1. k # c /\ request'[k] = request[k]
      BY <2>1, <2>3
    <3>2. before[request[k].run] # -1
      BY <2>3, <3>1 DEF LogsInv, MarkedInv
    <3>. QED
      BY <2>1, <3>1, <3>2
  <2>4. MarkedInv'
    BY <2>3 DEF MarkedInv
  <2>. QED
    BY <2>2, <2>4 DEF LogsInv
<1>. QED
  BY <1>1, <1>2, <1>3, <1>4

-----------------------------------------------------------------------------
(* What the store's calls do to the streams.                               *)
LEMMA StreamQuiet ==
  ASSUME NEW s \in Stream, StreamInv(s), kind' = kind, watch'[s] = watch[s], log' = log,
         before' = before, seen'[s] = seen[s], queue'[s] = queue[s]
  PROVE  StreamInv(s)'
BY DEF StreamInv, LoggedInv

LEMMA StreamSettles ==
  ASSUME TypeOK, \A q \in Run : LogInv(q), NEW r \in Run, NEW new \in StateType,
         SetState(r, new), UNCHANGED <<kind, log, watch, seen>>,
         NEW s \in Stream, StreamInv(s)
  PROVE  StreamInv(s)'
<1>. DEFINE p == watch[s].run
<1>1. /\ \A q \in Run : (before[q] # -1 \/ q # r) => before'[q] = before[q]
      /\ before'[r] # before[r] => before'[r] = Len(log[r]) /\ Len(log[r]) <= 1
  BY SetStateLog DEF LogInv
<1>2. watch[s].at # "idle" => p \in Run
  BY DEF TypeOK
<1>3. CASE kind # "memory"
  <2>1. LoggedInv(watch[s].at, seen[s], log[p], before[p])
    BY <1>3 DEF StreamInv
  <2>2. watch[s].at \in {"draining", "ended"} /\ kind = "redis" => before'[p] = before[p]
    BY <1>1, <1>2, <2>1 DEF LoggedInv
  <2>. QED
    BY <1>3, <2>1, <2>2 DEF StreamInv, LoggedInv
<1>4. CASE kind = "memory" /\ new \notin Terminal
  <2>1. before' = before /\ queue' = queue
    BY <1>4 DEF SetState, Refused
  <2>. QED
    BY <2>1, StreamQuiet
<1>5. CASE kind = "memory" /\ new \in Terminal
  <2>0. MemoryInv(watch[s].at, seen[s], queue[s], log[p], before[p])
    BY <1>5 DEF StreamInv
  <2>1. Enqueue(r, Closed)
    BY <1>5 DEF SetState, Refused, Notify
  <2>2. CASE p = r /\ watch[s].at = "live"
    <3>1. queue'[s] = Append(queue[s], Closed)
      BY <2>1, <2>2 DEF Enqueue, On
    <3>2. queue[s] \in Seq(Event \cup {Closed})
      BY DEF TypeOK
    <3>3. Grown(queue'[s], queue[s], Closed)
      BY <3>1, <3>2, AppendGrows
    <3>4. PICK a \in Nat, g \in Nat, c \in Nat :
            Delivered(seen[s], log[r], a, g) /\ Waiting(seen[s], queue[s], log[r], before[r], g, c)
      BY <2>0, <2>2 DEF MemoryInv
    <3>5. before[r] = -1 => before'[r] = Len(log[r]) /\ Len(log[r]) <= 1
      BY <1>5, SetStateLog DEF LogInv
    <3>6. Waiting(seen[s], queue'[s], log[r], before'[r], g, c)
      BY <1>1, <3>3, <3>4, <3>5, Lengths, MarkerWaits
    <3>7. MemoryInv(watch[s].at, seen[s], queue'[s], log[p], before'[p])
      BY <2>2, <3>4, <3>6 DEF MemoryInv, Listening
    <3>. QED
      BY <1>5, <3>7 DEF StreamInv
  <2>3. CASE ~(p = r /\ watch[s].at = "live")
    <3>1. queue'[s] = queue[s]
      BY <2>1, <2>3 DEF Enqueue, On
    <3>2. watch[s].at \in {"live", "ended"} => before'[p] = before[p]
      BY <1>1, <1>2, <2>0, <2>3 DEF MemoryInv
    <3>3. MemoryInv(watch[s].at, seen[s], queue'[s], log[p], before'[p])
      BY <2>0, <3>1, <3>2 DEF MemoryInv
    <3>. QED
      BY <1>5, <3>3 DEF StreamInv
  <2>. QED
    BY <2>2, <2>3
<1>. QED
  BY <1>3, <1>4, <1>5

LEMMA StreamHears ==
  ASSUME TypeOK, NEW r \in Run, NEW e \in Event, PushEvent(r, e),
         UNCHANGED <<kind, before, watch, seen>>, NEW s \in Stream, StreamInv(s)
  PROVE  StreamInv(s)'
<1>. DEFINE p == watch[s].run
<1>1. Grown(log'[r], log[r], e) /\ \A q \in Run \ {r} : log'[q] = log[q]
  BY PushLog
<1>2. watch[s].at # "idle" => p \in Run /\ (log'[p] = log[p] \/ Grown(log'[p], log[p], e))
  BY <1>1 DEF TypeOK
<1>3. /\ Len(seen[s]) \in Nat /\ Len(queue[s]) \in Nat
      /\ watch[s].at # "idle" => Len(log[p]) \in Nat
  BY <1>2, Lengths
<1>4. /\ watch[s].at # "idle" /\ IsPart(seen[s], log[p]) => IsPart(seen[s], log'[p])
      /\ \A a, g : watch[s].at # "idle" /\ Delivered(seen[s], log[p], a, g) =>
                     Delivered(seen[s], log'[p], a, g)
  BY <1>2, <1>3, PartStays, DeliveredStays
<1>5. CASE kind # "memory"
  BY <1>4, <1>5 DEF StreamInv, LoggedInv
<1>6. CASE kind = "memory"
  <2>0. MemoryInv(watch[s].at, seen[s], queue[s], log[p], before[p])
    BY <1>6 DEF StreamInv
  <2>1. Enqueue(r, e)
    BY <1>6 DEF PushEvent, Notify
  <2>2. CASE p = r /\ watch[s].at = "live"
    <3>1. queue'[s] = Append(queue[s], e)
      BY <2>1, <2>2 DEF Enqueue, On
    <3>2. queue[s] \in Seq(Event \cup {Closed})
      BY DEF TypeOK
    <3>3. Grown(queue'[s], queue[s], e)
      BY <3>1, <3>2, AppendGrows
    <3>4. PICK a \in Nat, g \in Nat, c \in Nat :
            Delivered(seen[s], log[r], a, g) /\ Waiting(seen[s], queue[s], log[r], before[r], g, c)
      BY <2>0, <2>2 DEF MemoryInv
    <3>5. before[r] \in Int /\ Len(log[r]) \in Nat /\ Len(seen[s]) \in Nat
          /\ Len(queue[s]) \in Nat
      BY Lengths
    <3>. DEFINE x == seen[s]
                q == queue[s]
                q2 == queue'[s]
                l == log[r]
                l2 == log'[r]
                b == before[r]
    <3>6. \E d \in Nat : Waiting(x, q2, l2, b, g, d)
      <4>1. Waiting(x, q, l, b, g, c) /\ Grown(l2, l, e) /\ Grown(q2, q, e) /\ b \in Int
            /\ Len(x) \in Nat /\ Len(q) \in Nat /\ Len(l) \in Nat
        BY <1>1, <3>3, <3>4, <3>5
      <4>. HIDE DEF x, q, q2, l, l2, b
      <4>. QED
        BY <4>1, EventWaits
    <3>7. Delivered(seen[s], log'[r], a, g)
      BY <1>4, <2>2, <3>4
    <3>8. MemoryInv(watch[s].at, seen[s], queue'[s], log'[p], before[p])
      BY <2>2, <3>4, <3>6, <3>7 DEF MemoryInv, Listening
    <3>. QED
      BY <1>6, <3>8 DEF StreamInv
  <2>3. CASE ~(p = r /\ watch[s].at = "live")
    <3>1. queue'[s] = queue[s]
      BY <2>1, <2>3 DEF Enqueue, On
    <3>2. watch[s].at = "live" => log'[p] = log[p]
      BY <1>1, <1>2, <2>3
    <3>3. MemoryInv(watch[s].at, seen[s], queue'[s], log'[p], before[p])
      BY <1>4, <2>0, <3>1, <3>2 DEF MemoryInv
    <3>. QED
      BY <1>6, <3>3 DEF StreamInv
  <2>. QED
    BY <2>2, <2>3
<1>. QED
  BY <1>5, <1>6

-----------------------------------------------------------------------------
(* A stream's own steps.                                                   *)
LEMMA Moves ==
  ASSUME TypeOK, NEW s \in Stream, NEW from, NEW to, Move(s, from, to)
  PROVE  /\ watch[s].at = from /\ watch'[s].at = to /\ watch'[s].run = watch[s].run
         /\ \A t \in Stream \ {s} : watch'[t] = watch[t]
BY DEF Move, TypeOK

LEMMA UnreadIs ==
  ASSUME NEW S, NEW x \in Seq(S), NEW l \in Seq(S), IsPart(x, l)
  PROVE  LET y == x \o SubSeq(l, Len(x) + 1, Len(l))
         IN  IsPart(y, l) /\ Len(y) = Len(l)
<1>. DEFINE u == SubSeq(l, Len(x) + 1, Len(l))
            y == x \o u
<1>1. Len(x) \in Nat /\ Len(l) \in Nat /\ Len(x) <= Len(l)
  BY DEF IsPart
<1>2. u \in Seq(S) /\ Len(u) = Len(l) - Len(x) /\ \A k \in 1..Len(u) : u[k] = l[Len(x) + k]
  BY <1>1
<1>3. Len(y) = Len(l)
  BY <1>1, <1>2
<1>4. ASSUME NEW k \in 1..Len(y) PROVE y[k] = l[k]
  <2>1. CASE k <= Len(x)
    BY <1>1, <1>2, <1>3, <2>1 DEF IsPart
  <2>2. CASE k > Len(x)
    <3>1. k - Len(x) \in 1..Len(u) /\ Len(x) + (k - Len(x)) = k
      BY <1>1, <1>2, <1>3, <2>2
    <3>2. y[k] = u[k - Len(x)]
      BY <1>1, <1>2, <1>3, <2>2
    <3>. QED
      BY <1>2, <3>1, <3>2
  <2>. QED
    BY <1>1, <2>1, <2>2
<1>. QED
  BY <1>3, <1>4 DEF IsPart

(* To go live after the copy has been handed over is to miss what was      *)
(* pushed meanwhile.                                                       *)
LEMMA GoesLive ==
  ASSUME NEW x, NEW l, NEW q, NEW b \in Int, Len(x) \in Nat, Len(l) \in Nat, Len(q) = 0,
         IsPart(x, l), Len(x) >= b, Len(x) = 0 => Len(l) = 0
  PROVE  \E a, g, c \in Nat : Delivered(x, l, a, g) /\ Waiting(x, q, l, b, g, c)
<1>. DEFINE h == Len(l) - Len(x)
<1>1. h \in Nat /\ Len(x) + h = Len(l)
  BY DEF IsPart
<1>2. Delivered(x, l, Len(x), h)
  BY <1>1 DEF IsPart, Delivered
<1>3. Waiting(x, q, l, b, h, 0)
  BY <1>1 DEF Waiting
<1>. QED
  BY <1>1, <1>2, <1>3

LEMMA MemoryOpens ==
  ASSUME TypeOK, LogsInv, kind = "memory", NEW s \in Stream, NEW r \in Run, StreamInv(s),
         Open(s, r)
  PROVE  StreamInv(s)'
<1>. DEFINE l == log[r]
<1>1. /\ UNCHANGED <<kind, state, log, before, queue>>
      /\ seen'[s] = l /\ watch'[s].run = r /\ queue[s] = <<>>
      /\ watch'[s].at = IF l # <<>> THEN "replaying"
                        ELSE IF state[r] \in Terminal THEN "ended" ELSE "live"
  BY DEF Open, OpenMemory, StreamOnly, recordVars, StreamInv, MemoryInv, TypeOK
<1>2. /\ l \in Seq(Event) /\ before[r] \in Int /\ before[r] <= Len(l)
      /\ before[r] = -1 => state[r] \notin Terminal
  BY Lengths DEF TypeOK, LogsInv, LogInv
<1>3. Len(l) \in Nat /\ (l # <<>> => Len(l) >= 1)
  BY <1>2
<1>4. IsPart(l, l)
  BY <1>3 DEF IsPart
<1>5. Delivered(l, l, Len(l), 0)
  BY <1>3, <1>4, PartIsDelivered
<1>6. l = <<>> => Len(l) = 0
  OBVIOUS
<1>7. Len(queue[s]) = 0
  BY <1>1
<1>8. \E a, g, c \in Nat : Delivered(l, l, a, g) /\ Waiting(l, queue[s], l, before[r], g, c)
  BY <1>2, <1>3, <1>4, <1>7, GoesLive
<1>9. MemoryInv(watch'[s].at, l, queue[s], l, before[r])
  <2>. HIDE DEF l
  <2>. QED
    BY <1>1, <1>2, <1>3, <1>4, <1>5, <1>8 DEF MemoryInv, Listening
<1>. QED
  BY <1>1, <1>9 DEF StreamInv

LEMMA MemoryAttaches ==
  ASSUME TypeOK, LogsInv, kind = "memory", NEW s \in Stream, StreamInv(s), Attach(s)
  PROVE  StreamInv(s)'
<1>. DEFINE r == watch[s].run
            l == log[r]
            x == seen[s]
<1>1. /\ UNCHANGED <<kind, state, log, before, queue, seen>>
      /\ watch[s].at = "replaying" /\ watch'[s].run = r
      /\ watch'[s].at = IF state[r] \in Terminal THEN "ended" ELSE "live"
  BY Moves DEF Attach, StreamOnly, recordVars
<1>2. r \in Run /\ Len(l) \in Nat /\ Len(x) \in Nat
  BY <1>1, Lengths DEF TypeOK
<1>3. IsPart(x, l) /\ Len(x) >= 1 /\ queue[s] = <<>>
  BY <1>1 DEF StreamInv, MemoryInv
<1>4. before[r] \in Int /\ before[r] <= 1 /\ (before[r] = -1 => state[r] \notin Terminal)
  BY <1>2, Lengths DEF LogsInv, LogInv
<1>5. Delivered(x, l, Len(x), 0)
  BY <1>2, <1>3, PartIsDelivered
<1>6. Len(queue[s]) = 0
  BY <1>3
<1>7. \E a, g, c \in Nat : Delivered(x, l, a, g) /\ Waiting(x, queue[s], l, before[r], g, c)
  <2>1. Len(x) >= before[r] /\ Len(x) # 0
    BY <1>2, <1>3, <1>4
  <2>. HIDE DEF x, l, r
  <2>. QED
    BY <1>2, <1>3, <1>4, <1>6, <2>1, GoesLive
<1>8. MemoryInv(watch'[s].at, x, queue[s], l, before[r])
  <2>1. Len(x) >= before[r]
    BY <1>2, <1>3, <1>4
  <2>. HIDE DEF x, l, r
  <2>. QED
    BY <1>1, <1>2, <1>4, <1>5, <1>7, <2>1 DEF MemoryInv, Listening
<1>. QED
  BY <1>1, <1>8 DEF StreamInv

LEMMA TailIs ==
  ASSUME NEW S, NEW q \in Seq(S), q # <<>>
  PROVE  /\ Len(q) \in Nat /\ Len(q) > 0 /\ Head(q) = q[1]
         /\ Len(Tail(q)) = Len(q) - 1 /\ \A k \in 1..Len(Tail(q)) : Tail(q)[k] = q[k + 1]
OBVIOUS

LEMMA MemoryTakes ==
  ASSUME TypeOK, LogsInv, kind = "memory", NEW s \in Stream, StreamInv(s), Take(s)
  PROVE  StreamInv(s)'
<1>. DEFINE r == watch[s].run
            l == log[r]
            x == seen[s]
            q == queue[s]
            b == before[r]
<1>1. UNCHANGED <<kind, state, log, before>> /\ q # <<>> /\ queue'[s] = Tail(q)
  BY DEF Take, StreamOnly, recordVars, TypeOK
<1>2. watch[s].at = "live" /\ watch'[s].run = r
  BY Moves DEF Take
<1>3. q \in Seq(Event \cup {Closed}) /\ x \in Seq(Event)
  BY DEF TypeOK
<1>4. /\ Len(q) \in Nat /\ Len(q) > 0 /\ Head(q) = q[1]
      /\ Len(Tail(q)) = Len(q) - 1 /\ \A k \in 1..Len(Tail(q)) : Tail(q)[k] = q[k + 1]
  <2>. HIDE DEF q
  <2>. QED
    BY <1>1, <1>3, TailIs
<1>5. /\ r \in Run /\ Len(l) \in Nat /\ Len(x) \in Nat /\ b \in Int
      /\ \A k \in 1..Len(l) : l[k] # Closed
  BY <1>2, Lengths DEF TypeOK
<1>6. PICK a \in Nat, g \in Nat, c \in Nat : Delivered(x, l, a, g) /\ Waiting(x, q, l, b, g, c)
  BY <1>2 DEF StreamInv, MemoryInv
<1>7. CASE q[1] = Closed
  <2>1. watch'[s].at = "ended" /\ seen' = seen
    BY <1>4, <1>7, Moves DEF Take
  <2>2. b # -1 /\ Len(x) >= b
    <3>. HIDE DEF x, l, q, b
    <3>. QED
      BY <1>4, <1>5, <1>6, <1>7, MarkerTaken
  <2>3. MemoryInv("ended", x, Tail(q), l, b)
    BY <1>6, <2>2 DEF MemoryInv, Listening
  <2>. QED
    BY <1>1, <1>2, <2>1, <2>3 DEF StreamInv
<1>8. CASE q[1] # Closed
  <2>. DEFINE x2 == seen'[s]
  <2>1. watch'[s].at = "live" /\ x2 = Append(x, q[1])
    BY <1>4, <1>8, Moves DEF Take, TypeOK
  <2>2. q[1] \in Event
    <3>. HIDE DEF q
    <3>. QED
      BY <1>3, <1>4, <1>8
  <2>3. Grown(x2, x, q[1])
    BY <1>3, <2>1, <2>2, AppendGrows
  <2>4. \E d \in Nat : Delivered(x2, l, a, g) /\ Waiting(x2, Tail(q), l, b, g, d)
    <3>. DEFINE q2 == Tail(q)
    <3>1. Len(q2) = Len(q) - 1 /\ \A k \in 1..Len(q2) : q2[k] = q[k + 1]
      BY <1>4
    <3>2. Len(q) \in Nat /\ Len(q) > 0
      BY <1>4
    <3>3. Len(x) \in Nat /\ Len(l) \in Nat /\ b \in Int
      BY <1>5
    <3>. HIDE DEF x, x2, l, q, q2, b
    <3>4. \E d \in Nat : Delivered(x2, l, a, g) /\ Waiting(x2, q2, l, b, g, d)
      BY <1>6, <1>8, <2>3, <3>1, <3>2, <3>3, EventTaken
    <3>. QED
      BY <3>4 DEF q2
  <2>5. MemoryInv("live", x2, Tail(q), l, b)
    <3>. HIDE DEF x, x2, l, q, b
    <3>. QED
      BY <1>6, <2>4 DEF MemoryInv, Listening
  <2>. QED
    BY <1>1, <1>2, <2>1, <2>5 DEF StreamInv
<1>. QED
  BY <1>7, <1>8

LEMMA LogReads ==
  ASSUME TypeOK, LogsInv, kind # "memory", NEW s \in Stream, StreamInv(s),
         (\E r \in Run : Open(s, r)) \/ Fetch(s) \/ Look(s) \/ DrainTail(s) \/ Again(s)
  PROVE  StreamInv(s)'
<1>. DEFINE r == watch[s].run
            l == log[r]
            x == seen[s]
<1>1. UNCHANGED <<kind, state, log, before>>
  BY DEF Open, Fetch, Look, DrainTail, Again, StreamOnly, recordVars
<1>2. LoggedInv(watch[s].at, x, l, before[r])
  BY DEF StreamInv
<1>3. watch[s].at # "idle" => r \in Run /\ l \in Seq(Event) /\ before[r] <= Len(l)
  BY DEF TypeOK, LogsInv, LogInv
<1>4. x \in Seq(Event)
  BY DEF TypeOK
<1>5. watch[s].at # "idle" => IsPart(x, l)
  BY <1>2 DEF LoggedInv
<1>6. CASE \E p \in Run : Open(s, p)
  <2>1. PICK p \in Run : Open(s, p)
    BY <1>6
  <2>2. watch'[s].at = "reading" /\ watch'[s].run = p /\ seen' = seen /\ watch[s].at = "idle"
    BY <2>1 DEF Open, OpenLog, TypeOK
  <2>3. x = <<>> /\ log[p] \in Seq(Event)
    BY <1>2, <2>2 DEF LoggedInv, TypeOK
  <2>4. IsPart(x, log[p])
    BY <2>3 DEF IsPart
  <2>5. LoggedInv("reading", x, log[p], before[p])
    BY <2>4 DEF LoggedInv
  <2>. QED
    BY <1>1, <2>2, <2>5 DEF StreamInv, LoggedInv
<1>7. CASE Fetch(s) \/ DrainTail(s)
  <2>. DEFINE y == x \o SubSeq(l, Len(x) + 1, Len(l))
  <2>1. /\ watch[s].at # "idle" /\ watch'[s].run = r
        /\ \/ watch[s].at = "reading" /\ watch'[s].at = "checking"
           \/ watch[s].at = "draining" /\ watch'[s].at = "ended"
    BY <1>7, Moves DEF Fetch, DrainTail
  <2>2. seen'[s] = y
    BY <1>7 DEF Fetch, DrainTail, Unread, TypeOK
  <2>3. IsPart(y, l) /\ Len(y) = Len(l)
    <3>. HIDE DEF x, l, r
    <3>. QED
      BY <1>3, <1>4, <1>5, <2>1, UnreadIs
  <2>4. LoggedInv(watch'[s].at, y, l, before[r])
    <3>. HIDE DEF x, l, r, y
    <3>. QED
      BY <1>2, <1>3, <2>1, <2>3 DEF LoggedInv
  <2>. QED
    BY <1>1, <2>1, <2>2, <2>4 DEF StreamInv, LoggedInv
<1>8. CASE Look(s)
  <2>1. /\ watch[s].at = "checking" /\ watch'[s].run = r /\ seen' = seen
        /\ watch'[s].at = IF state[r] \notin Terminal THEN "waiting"
                          ELSE IF kind = "redis" THEN "draining" ELSE "ended"
    BY <1>8, Moves DEF Look
  <2>2. before[r] = -1 => state[r] \notin Terminal
    BY <1>3, <2>1 DEF LogsInv, LogInv
  <2>3. LoggedInv(watch'[s].at, x, l, before[r])
    <3>. HIDE DEF x, l, r
    <3>. QED
      BY <1>5, <2>1, <2>2 DEF LoggedInv
  <2>. QED
    BY <1>1, <2>1, <2>3 DEF StreamInv, LoggedInv
<1>9. CASE Again(s)
  <2>1. watch[s].at = "waiting" /\ watch'[s].run = r /\ seen' = seen /\ watch'[s].at = "reading"
    BY <1>9, Moves DEF Again
  <2>2. LoggedInv("reading", x, l, before[r])
    <3>. HIDE DEF x, l, r
    <3>. QED
      BY <1>5, <2>1 DEF LoggedInv
  <2>. QED
    BY <1>1, <2>1, <2>2 DEF StreamInv, LoggedInv
<1>. QED
  BY <1>6, <1>7, <1>8, <1>9

LEMMA StreamLeaves ==
  ASSUME TypeOK, NEW s \in Stream, StreamInv(s), Leave(s)
  PROVE  StreamInv(s)'
<1>. DEFINE r == watch[s].run
            l == log[r]
            x == seen[s]
<1>1. /\ UNCHANGED <<kind, log, before, seen>> /\ watch[s].at # "idle"
      /\ watch'[s].at = "left" /\ watch'[s].run = r
  BY DEF Leave, StreamOnly, recordVars, TypeOK
<1>2. r \in Run /\ Len(l) \in Nat /\ Len(x) \in Nat
  BY <1>1, Lengths DEF TypeOK
<1>3. CASE kind = "memory"
  <2>1. MemoryInv(watch[s].at, x, queue[s], l, before[r])
    BY <1>3 DEF StreamInv
  <2>2. \E a, g \in Nat : Delivered(x, l, a, g)
    <3>1. CASE watch[s].at = "replaying"
      <4>1. Delivered(x, l, Len(x), 0)
        BY <1>2, <2>1, <3>1, PartIsDelivered DEF MemoryInv
      <4>. QED
        BY <1>2, <4>1
    <3>2. CASE watch[s].at # "replaying"
      <4>1. watch[s].at \in {"live", "left", "ended"}
        BY <1>1, <2>1, <3>2 DEF MemoryInv, TypeOK
      <4>. HIDE DEF x, l, r
      <4>. QED
        BY <2>1, <4>1 DEF MemoryInv
    <3>. QED
      BY <3>1, <3>2
  <2>3. MemoryInv("left", x, queue'[s], l, before[r])
    <3>. HIDE DEF x, l, r
    <3>. QED
      BY <2>2 DEF MemoryInv, Listening
  <2>. QED
    BY <1>1, <1>3, <2>3 DEF StreamInv
<1>4. CASE kind # "memory"
  <2>1. LoggedInv("left", x, l, before[r])
    BY <1>1, <1>4 DEF StreamInv, LoggedInv
  <2>. QED
    BY <1>1, <1>4, <2>1 DEF StreamInv, LoggedInv
<1>. QED
  BY <1>3, <1>4

LEMMA OwnStep ==
  ASSUME TypeOK, LogsInv, NEW s \in Stream, StreamInv(s),
         Serve(s) \/ Leave(s) \/ \E r \in Run : Open(s, r)
  PROVE  StreamInv(s)'
<1>1. CASE Leave(s)
  BY <1>1, StreamLeaves
<1>2. CASE kind = "memory" /\ \E r \in Run : Open(s, r)
  BY <1>2, MemoryOpens
<1>3. CASE kind # "memory" /\ \E r \in Run : Open(s, r)
  BY <1>3, LogReads
<1>4. CASE kind = "memory" /\ Serve(s)
  <2>1. MemoryInv(watch[s].at, seen[s], queue[s], log[watch[s].run], before[watch[s].run])
    BY <1>4 DEF StreamInv
  <2>2. watch[s].at \notin {"reading", "checking", "waiting", "draining"}
    BY <2>1 DEF MemoryInv, Listening
  <2>3. Attach(s) \/ Take(s)
    BY <1>4, <2>2 DEF Serve, Fetch, Look, DrainTail, Again, Move
  <2>. QED
    BY <1>4, <2>3, MemoryAttaches, MemoryTakes
<1>5. CASE kind # "memory" /\ Serve(s)
  <2>1. watch[s].at \notin {"replaying", "live"}
    BY <1>5 DEF StreamInv, LoggedInv
  <2>2. ~Attach(s) /\ ~Take(s)
    BY <2>1 DEF Attach, Take, Move
  <2>. QED
    BY <1>5, <2>2, LogReads DEF Serve
<1>. QED
  BY <1>1, <1>2, <1>3, <1>4, <1>5

LEMMA StreamStep ==
  ASSUME TypeOK, DeliveryInv, NEW s \in Stream,
         Serve(s) \/ Leave(s) \/ \E r \in Run : Open(s, r)
  PROVE  DeliveryInv'
<1>1. UNCHANGED <<kind, state, log, before, exec, request>>
  BY DEF Serve, Attach, Take, Fetch, Look, DrainTail, Again, Leave, Open, StreamOnly, recordVars
<1>2. LogsInv'
  BY <1>1 DEF DeliveryInv, LogsInv, LogInv, MarkedInv
<1>3. StreamInv(s)'
  BY OwnStep DEF DeliveryInv
<1>4. ASSUME NEW t \in Stream, t # s PROVE StreamInv(t)'
  <2>1. watch'[t] = watch[t] /\ seen'[t] = seen[t] /\ queue'[t] = queue[t]
    BY <1>4 DEF Serve, Attach, Take, Fetch, Look, DrainTail, Again, Leave, Open, OpenMemory,
                OpenLog, Move, TypeOK
  <2>. QED
    BY <1>1, <2>1, StreamQuiet DEF DeliveryInv
<1>. QED
  BY <1>2, <1>3, <1>4 DEF DeliveryInv

LEMMA RunStep ==
  ASSUME TypeOK, DeliveryInv, NEW r \in Run, Execute(r) \/ StoreRaises(r) \/ Submit(r)
  PROVE  DeliveryInv'
<1>1. (\A q \in Run : LogInv(q)') /\ PastKept
  BY ExecutorLogs DEF DeliveryInv, LogsInv
<1>2. request' = request
  BY DEF Execute, Begin, Announce, Raise, Answer, StoreResult, Settle, Close, Fail,
         ReportFailure, StoreRaises, Submit
<1>3. MarkedInv'
  <2>1. \A c \in Client : request[c].at # "idle" => request[c].run \in Run
    BY DEF TypeOK
  <2>. QED
    BY <1>1, <1>2, <2>1 DEF DeliveryInv, LogsInv, MarkedInv, PastKept
<1>4. ASSUME NEW s \in Stream PROVE StreamInv(s)'
  <2>0. StreamInv(s) /\ \A q \in Run : LogInv(q)
    BY DEF DeliveryInv, LogsInv
  <2>1. CASE Begin(r) \/ Settle(r) \/ Fail(r)
    <3>1. /\ UNCHANGED <<kind, log, watch, seen>>
          /\ \E new \in StateType : SetState(r, new)
      BY <2>1 DEF Begin, Settle, Fail, StateType, Terminal
    <3>. QED
      BY <2>0, <3>1, StreamSettles
  <2>2. CASE Announce(r) \/ Close(r) \/ ReportFailure(r)
    <3>1. /\ UNCHANGED <<kind, before, watch, seen>>
          /\ \E e \in Event : PushEvent(r, e)
      BY <2>2 DEF Announce, Close, ReportFailure, Event, Reported
    <3>. QED
      BY <2>0, <3>1, StreamHears
  <2>3. CASE \/ Raise(r) \/ StoreResult(r) \/ StoreRaises(r) \/ Submit(r)
             \/ \E o \in {"ok", "failed"} : Answer(r, o)
    <3>1. UNCHANGED <<kind, log, before, watch, seen, queue>>
      BY <2>3 DEF Raise, StoreResult, StoreRaises, Submit, Answer, recordVars, streamVars
    <3>. QED
      BY <2>0, <3>1, StreamQuiet
  <2>. QED
    BY <2>1, <2>2, <2>3 DEF Execute
<1>. QED
  BY <1>1, <1>3, <1>4 DEF DeliveryInv, LogsInv

LEMMA RequestStep ==
  ASSUME TypeOK, DeliveryInv, NEW c \in Client,
         (\E r \in Run : CheckCancel(c, r)) \/ MarkCancelled(c) \/ ReportCancel(c)
           \/ RequestRaises(c)
  PROVE  DeliveryInv'
<1>1. LogsInv'
  BY ClientLogs DEF DeliveryInv
<1>2. ASSUME NEW s \in Stream PROVE StreamInv(s)'
  <2>0. StreamInv(s) /\ \A q \in Run : LogInv(q)
    BY DEF DeliveryInv, LogsInv
  <2>1. CASE (\E r \in Run : CheckCancel(c, r)) \/ RequestRaises(c)
    <3>1. UNCHANGED <<kind, log, before, watch, seen, queue>>
      BY <2>1 DEF CheckCancel, RequestRaises, recordVars, streamVars
    <3>. QED
      BY <2>0, <3>1, StreamQuiet
  <2>2. CASE MarkCancelled(c)
    <3>1. /\ UNCHANGED <<kind, log, watch, seen>> /\ request[c].run \in Run
          /\ SetState(request[c].run, "cancelled") /\ "cancelled" \in StateType
      BY <2>2 DEF MarkCancelled, StateType, Terminal, TypeOK
    <3>. QED
      BY <2>0, <3>1, StreamSettles
  <2>3. CASE ReportCancel(c)
    <3>1. /\ UNCHANGED <<kind, before, watch, seen>> /\ request[c].run \in Run
          /\ PushEvent(request[c].run, c) /\ c \in Event
      BY <2>3 DEF ReportCancel, Event, TypeOK
    <3>. QED
      BY <2>0, <3>1, StreamHears
  <2>. QED
    BY <2>1, <2>2, <2>3
<1>. QED
  BY <1>1, <1>2 DEF DeliveryInv

LEMMA DeliveryStarts == Init => DeliveryInv
<1>. SUFFICES ASSUME Init PROVE DeliveryInv
  OBVIOUS
<1>1. ASSUME NEW r \in Run PROVE LogInv(r)
  BY DEF Init, LogInv, Terminal, Early
<1>2. MarkedInv
  BY DEF Init, MarkedInv
<1>3. ASSUME NEW s \in Stream PROVE StreamInv(s)
  BY DEF Init, StreamInv, MemoryInv, LoggedInv, Listening
<1>. QED
  BY <1>1, <1>2, <1>3 DEF DeliveryInv, LogsInv

LEMMA DeliveryKept == TypeOK /\ DeliveryInv /\ [Next]_vars => DeliveryInv'
<1>. SUFFICES ASSUME TypeOK, DeliveryInv, [Next]_vars PROVE DeliveryInv'
  OBVIOUS
<1>1. CASE \E r \in Run : Submit(r) \/ Execute(r) \/ StoreRaises(r)
  BY <1>1, RunStep
<1>2. CASE \E c \in Client : \/ \E r \in Run : CheckCancel(c, r)
                             \/ MarkCancelled(c) \/ ReportCancel(c) \/ RequestRaises(c)
  BY <1>2, RequestStep
<1>3. CASE \E s \in Stream : Serve(s) \/ Leave(s) \/ \E r \in Run : Open(s, r)
  BY <1>3, StreamStep
<1>4. CASE UNCHANGED vars
  <2>1. UNCHANGED <<kind, state, log, before, exec, request, watch, seen, queue>>
    BY <1>4 DEF vars, recordVars, streamVars
  <2>2. LogsInv'
    BY <2>1 DEF DeliveryInv, LogsInv, LogInv, MarkedInv
  <2>3. \A s \in Stream : StreamInv(s)'
    BY <2>1, StreamQuiet DEF DeliveryInv
  <2>. QED
    BY <2>2, <2>3 DEF DeliveryInv
<1>. QED
  BY <1>1, <1>2, <1>3, <1>4 DEF Next

LEMMA PartIsPrefix ==
  ASSUME NEW S, NEW x \in Seq(S), NEW l \in Seq(S), IsPart(x, l)
  PROVE  IsPrefix(x, l)
<1>1. Len(x) <= Len(l) /\ \A k \in 1..Len(x) : x[k] = l[k]
  BY DEF IsPart
<1>2. /\ SubSeq(x, 1, Len(x)) \in Seq(S) /\ SubSeq(l, 1, Len(x)) \in Seq(S)
      /\ Len(SubSeq(x, 1, Len(x))) = Len(x) /\ Len(SubSeq(l, 1, Len(x))) = Len(x)
      /\ \A k \in 1..Len(x) : /\ SubSeq(x, 1, Len(x))[k] = x[k]
                              /\ SubSeq(l, 1, Len(x))[k] = l[k]
  BY <1>1
<1>3. SubSeq(x, 1, Len(x)) = SubSeq(l, 1, Len(x))
  BY <1>1, <1>2
<1>. QED
  BY <1>1, <1>3 DEF IsPrefix

LEMMA PastIsPrefix ==
  ASSUME NEW S, NEW x \in Seq(S), NEW l \in Seq(S), NEW b \in Int, b <= Len(l), b <= Len(x),
         b >= -1, \A k \in 1..b : x[k] = l[k]
  PROVE  IsPrefix(SubSeq(l, 1, b), x)
<1>. DEFINE p == SubSeq(l, 1, b)
<1>1. p \in Seq(S) /\ Len(p) <= Len(x) /\ \A k \in 1..Len(p) : k \in 1..b /\ p[k] = l[k]
  <2>1. CASE b <= 0
    <3>1. p = <<>>
      BY <2>1
    <3>. QED
      BY <3>1
  <2>2. CASE b > 0
    BY <2>2
  <2>. QED
    BY <2>1, <2>2
<1>2. IsPart(p, x)
  BY <1>1 DEF IsPart
<1>. QED
  BY <1>1, <1>2, PartIsPrefix

LEMMA DeliveredMisses ==
  ASSUME NEW S, NEW x \in Seq(S), NEW l \in Seq(S), NEW a \in Nat, NEW g \in Nat,
         Delivered(x, l, a, g)
  PROVE  MissesOneStretch(x, l)
<1>1. /\ DOMAIN x = 1..Len(x) /\ Len(x) \in Nat /\ Len(l) \in Nat
      /\ a <= Len(x) /\ Len(x) + g <= Len(l) /\ (a = 0 => g = 0)
      /\ \A k \in 1..Len(x) : x[k] = l[IF k <= a THEN k ELSE k + g]
  BY DEF Delivered
<1>2. CASE Len(x) = 0
  BY <1>2 DEF MissesOneStretch
<1>3. CASE Len(x) # 0 /\ a # 0
  <2>1. a \in 1..Len(x) /\ g \in 0..(Len(l) - Len(x))
    BY <1>1, <1>3
  <2>. QED
    BY <1>1, <2>1 DEF MissesOneStretch
<1>4. CASE Len(x) # 0 /\ a = 0
  <2>1. Len(x) \in 1..Len(x) /\ 0 \in 0..(Len(l) - Len(x))
    BY <1>1, <1>4
  <2>2. \A k \in DOMAIN x : x[k] = l[IF k <= Len(x) THEN k ELSE k + 0]
    BY <1>1, <1>4
  <2>. QED
    BY <2>1, <2>2 DEF MissesOneStretch
<1>. QED
  BY <1>1, <1>2, <1>3, <1>4

LEMMA DeliveryOrders ==
  ASSUME TypeOK, DeliveryInv
  PROVE  StreamsInOrder
<1>. SUFFICES ASSUME NEW s \in Stream, watch[s].at # "idle"
              PROVE  LET l == log[watch[s].run]
                     IN  /\ MissesOneStretch(seen[s], l)
                         /\ kind # "memory" => IsPrefix(seen[s], l)
  BY DEF StreamsInOrder
<1>. DEFINE l == log[watch[s].run]
            x == seen[s]
<1>1. x \in Seq(Event) /\ l \in Seq(Event) /\ Len(x) \in Nat /\ Len(l) \in Nat
  BY DEF TypeOK
<1>2. CASE kind = "memory"
  <2>1. MemoryInv(watch[s].at, x, queue[s], l, before[watch[s].run])
    BY <1>2 DEF DeliveryInv, StreamInv
  <2>2. watch[s].at \in {"replaying", "live", "left", "ended"}
    BY <2>1 DEF MemoryInv, TypeOK, Listening
  <2>3. watch[s].at = "replaying" => IsPart(x, l)
    BY <2>1 DEF MemoryInv
  <2>4. watch[s].at = "replaying" => Delivered(x, l, Len(x), 0)
    BY <1>1, <2>3, PartIsDelivered
  <2>5. watch[s].at # "replaying" => \E a, g \in Nat : Delivered(x, l, a, g)
    <3>. HIDE DEF x, l
    <3>. QED
      BY <2>1, <2>2 DEF MemoryInv
  <2>6. \E a, g \in Nat : Delivered(x, l, a, g)
    BY <1>1, <2>4, <2>5
  <2>. QED
    BY <1>1, <1>2, <2>6, DeliveredMisses
<1>3. CASE kind # "memory"
  <2>1. IsPart(x, l)
    BY <1>3 DEF DeliveryInv, StreamInv, LoggedInv
  <2>2. Delivered(x, l, Len(x), 0)
    BY <1>1, <2>1, PartIsDelivered
  <2>3. MissesOneStretch(x, l)
    BY <1>1, <2>2, DeliveredMisses
  <2>. QED
    BY <1>1, <2>1, <2>3, PartIsPrefix
<1>. QED
  BY <1>2, <1>3

LEMMA DeliveryEnds ==
  ASSUME TypeOK, DeliveryInv
  PROVE  EndedSawThePast
<1>. SUFFICES ASSUME kind # "file", NEW s \in Stream, Ended(s) PROVE IsPrefix(Past(s), seen[s])
  BY DEF EndedSawThePast
<1>. DEFINE r == watch[s].run
            l == log[r]
            x == seen[s]
            b == before[r]
<1>1. /\ watch[s].at = "ended" /\ r \in Run /\ x \in Seq(Event) /\ l \in Seq(Event)
      /\ b \in Int /\ b >= -1 /\ Len(x) \in Nat /\ Len(l) \in Nat
  BY DEF TypeOK, Ended
<1>2. b <= 1 /\ b <= Len(l)
  BY <1>1 DEF DeliveryInv, LogsInv, LogInv
<1>3. b <= Len(x) /\ \A k \in 1..b : x[k] = l[k]
  <2>1. CASE kind = "memory"
    <3>1. MemoryInv("ended", x, queue[s], l, b)
      BY <1>1, <2>1 DEF DeliveryInv, StreamInv
    <3>2. Len(x) >= b /\ \E a, g \in Nat : Delivered(x, l, a, g)
      <4>. HIDE DEF x, l, b
      <4>. QED
        BY <3>1 DEF MemoryInv
    <3>3. PICK a \in Nat, g \in Nat : Delivered(x, l, a, g)
      BY <3>2
    <3>4. ASSUME NEW k \in 1..b PROVE x[k] = l[k]
      <4>1. k = 1 /\ k \in 1..Len(x) /\ (1 <= a \/ g = 0)
        <5>. HIDE DEF x, l, b
        <5>. QED
          BY <1>1, <1>2, <3>2, <3>3 DEF Delivered
      <4>. HIDE DEF x, l, b
      <4>. QED
        BY <3>3, <4>1 DEF Delivered
    <3>. QED
      BY <1>1, <3>2, <3>4
  <2>2. CASE kind = "redis"
    <3>1. LoggedInv("ended", x, l, b)
      BY <1>1, <2>2 DEF DeliveryInv, StreamInv
    <3>2. IsPart(x, l) /\ Len(x) >= b
      BY <2>2, <3>1 DEF LoggedInv
    <3>. QED
      BY <1>1, <3>2 DEF IsPart
  <2>. QED
    BY <2>1, <2>2, LifecycleAssumption DEF TypeOK
<1>4. IsPrefix(SubSeq(l, 1, b), x)
  <2>. HIDE DEF x, l, b
  <2>. QED
    BY <1>1, <1>2, <1>3, PastIsPrefix
<1>. QED
  BY <1>4 DEF Past

(* Whatever the store, a subscriber is given each event once and in the    *)
(* order of the log, and a stream that came to its end - of the in-memory  *)
(* store or of Redis - everything that was logged before the run was over: *)
(* stream_events of runs/__init__.py, runs/sqlite.py and runs/redis.py.    *)
THEOREM StreamsCorrect == Spec => []StreamsFaithful
<1>1. TypeOK /\ DeliveryInv => StreamsFaithful
  BY DeliveryOrders, DeliveryEnds DEF StreamsFaithful
<1>. QED
  BY <1>1, DeliveryStarts, DeliveryKept, RunTypeCorrect, PTL DEF Spec
-----------------------------------------------------------------------------
(* What clients are promised.  Every step of the life of a run is one of   *)
(* RunContract or changes nothing of what it speaks of.                    *)
Works == [r \in Run |-> WorkOf(r)]

Promised == Contract!Next \/ UNCHANGED <<kind = "redis", Works, state, result, Asking>>

(* The result is written once, after the answer and before the verdict.    *)
OnceInv(r) ==
  /\ exec[r] \in Unsettled => result[r] = "none"
  /\ exec[r] \in {"answered", "stored"} => outcome[r] \in {"ok", "failed"}

OnceInvs == \A r \in Run : OnceInv(r)

LEMMA WorkIs ==
  ASSUME NEW r
  PROVE  /\ exec[r] = "none" => WorkOf(r) = "none"
         /\ exec[r] = "scheduled" => WorkOf(r) = "waiting"
         /\ exec[r] \in {"begun", "working"} => WorkOf(r) = "running"
         /\ exec[r] \in {"answered", "stored"} => WorkOf(r) = outcome[r]
         /\ exec[r] = "settled" => WorkOf(r) = "concluded"
         /\ exec[r] = "failing" => WorkOf(r) = "broken"
         /\ exec[r] \in {"failed", "ended", "dead"} => WorkOf(r) = "over"
BY DEF WorkOf

LEMMA WorkWas ==
  ASSUME NEW r
  PROVE  /\ exec'[r] = "none" => WorkOf(r)' = "none"
         /\ exec'[r] = "scheduled" => WorkOf(r)' = "waiting"
         /\ exec'[r] \in {"begun", "working"} => WorkOf(r)' = "running"
         /\ exec'[r] \in {"answered", "stored"} => WorkOf(r)' = outcome'[r]
         /\ exec'[r] = "settled" => WorkOf(r)' = "concluded"
         /\ exec'[r] = "failing" => WorkOf(r)' = "broken"
         /\ exec'[r] \in {"failed", "ended", "dead"} => WorkOf(r)' = "over"
BY DEF WorkOf

(* One executor moves: for the contract, the work on its run goes on.      *)
LEMMA WorkGoes ==
  ASSUME NEW r \in Run, NEW from, NEW to, WorkOf(r) \in from, WorkOf(r)' = to,
         \A q \in Run \ {r} : exec'[q] = exec[q] /\ outcome'[q] = outcome[q],
         UNCHANGED <<kind, request>>
  PROVE  Contract!Goes(r, from, to)
<1>1. \A q \in Run \ {r} : WorkOf(q)' = WorkOf(q)
  BY DEF WorkOf
<1>2. Works' = [Works EXCEPT ![r] = to]
  BY <1>1 DEF Works
<1>3. Works[r] \in from
  BY DEF Works
<1>4. Asking' = Asking
  BY DEF Asking
<1>. QED
  BY <1>2, <1>3, <1>4 DEF Contract!Goes, Works

LEMMA WorkStays ==
  ASSUME \A q \in Run : WorkOf(q)' = WorkOf(q)
  PROVE  Works' = Works
BY DEF Works

LEMMA Tells ==
  ASSUME NEW r \in Run, NEW what, SetState(r, what)
  PROVE  Contract!Tell(r, what)
BY DEF SetState, Refused, Contract!Tell, Contract!Verdicts, Terminal

LEMMA OneMoves ==
  ASSUME TypeOK, NEW r \in Run, NEW to, exec' = [exec EXCEPT ![r] = to]
  PROVE  exec'[r] = to /\ \A q \in Run \ {r} : exec'[q] = exec[q]
BY DEF TypeOK

LEMMA ExecutorPromised ==
  ASSUME TypeOK, OnceInvs, NEW r \in Run, RunInv(r), Execute(r)
  PROVE  Promised
<1>0. OnceInv(r)
  BY DEF OnceInvs
<1>1. CASE Begin(r)
  <2>1. /\ exec[r] = "scheduled" /\ exec'[r] = "begun"
        /\ \A q \in Run \ {r} : exec'[q] = exec[q] /\ outcome'[q] = outcome[q]
        /\ UNCHANGED <<kind, request, result>>
    BY <1>1, OneMoves DEF Begin, Step
  <2>2. Contract!Goes(r, {"waiting"}, "running")
    BY <2>1, WorkIs, WorkWas, WorkGoes
  <2>3. Contract!Tell(r, "running")
    BY <1>1, Tells DEF Begin
  <2>4. Contract!Start(r)
    BY <2>1, <2>2, <2>3 DEF Contract!Start
  <2>. QED
    BY <2>4 DEF Promised, Contract!Next
<1>2. CASE Announce(r)
  <2>1. /\ exec[r] = "begun" /\ exec'[r] = "working"
        /\ \A q \in Run \ {r} : exec'[q] = exec[q]
        /\ UNCHANGED <<kind, request, result, state, outcome>>
    BY <1>2, OneMoves DEF Announce, Step
  <2>2. WorkOf(r)' = WorkOf(r)
    BY <2>1, WorkIs, WorkWas
  <2>3. \A q \in Run : WorkOf(q)' = WorkOf(q)
    BY <2>1, <2>2 DEF WorkOf
  <2>. QED
    BY <2>1, <2>3, WorkStays DEF Promised, Asking
<1>3. ASSUME NEW o \in {"ok", "failed"}, Answer(r, o)
      PROVE  Promised
  <2>1. /\ exec[r] = "working" /\ exec'[r] = "answered" /\ outcome'[r] = o
        /\ \A q \in Run \ {r} : exec'[q] = exec[q] /\ outcome'[q] = outcome[q]
        /\ UNCHANGED <<kind, request, result, state>>
    BY <1>3, OneMoves DEF Answer, Step, TypeOK, recordVars
  <2>2. Contract!Goes(r, {"running"}, o)
    BY <2>1, WorkIs, WorkWas, WorkGoes
  <2>3. Contract!Answer(r)
    BY <2>1, <2>2 DEF Contract!Answer
  <2>. QED
    BY <2>3 DEF Promised, Contract!Next
<1>4. CASE Raise(r)
  <2>1. /\ exec[r] = "working" /\ exec'[r] = "failing"
        /\ \A q \in Run \ {r} : exec'[q] = exec[q] /\ outcome'[q] = outcome[q]
        /\ UNCHANGED <<kind, request, result, state>>
    BY <1>4, OneMoves DEF Raise, Step, recordVars
  <2>2. Contract!Goes(r, {"running", "ok", "failed", "concluded"}, "broken")
    BY <2>1, WorkIs, WorkWas, WorkGoes
  <2>3. Contract!Break(r)
    BY <2>1, <2>2 DEF Contract!Break
  <2>. QED
    BY <2>3 DEF Promised, Contract!Next
<1>5. CASE StoreResult(r)
  <2>1. /\ exec[r] = "answered" /\ exec'[r] = "stored"
        /\ \A q \in Run \ {r} : exec'[q] = exec[q]
        /\ UNCHANGED <<kind, request, state, outcome>>
        /\ result' = [result EXCEPT ![r] = outcome[r]]
    BY <1>5, OneMoves DEF StoreResult, Step
  <2>2. WorkOf(r) = outcome[r] /\ WorkOf(r)' = WorkOf(r)
    BY <2>1, WorkIs, WorkWas
  <2>3. Works' = Works
    <3>1. \A q \in Run : WorkOf(q)' = WorkOf(q)
      BY <2>1, <2>2 DEF WorkOf
    <3>. QED
      BY <3>1, WorkStays
  <2>4. result[r] = "none" /\ outcome[r] \in {"ok", "failed"}
    BY <1>0, <2>1 DEF OnceInv, Unsettled
  <2>5. Works[r] = outcome[r] /\ Asking' = Asking
    BY <2>1, <2>2 DEF Works, Asking
  <2>6. Contract!Keep(r)
    BY <2>1, <2>3, <2>4, <2>5 DEF Contract!Keep, Works
  <2>. QED
    BY <2>6 DEF Promised, Contract!Next
<1>6. CASE Settle(r)
  <2>1. /\ exec[r] = "stored" /\ exec'[r] = "settled"
        /\ \A q \in Run \ {r} : exec'[q] = exec[q] /\ outcome'[q] = outcome[q]
        /\ UNCHANGED <<kind, request, result>>
    BY <1>6, OneMoves DEF Settle, Step
  <2>2. /\ outcome[r] \in {"ok", "failed"} /\ result[r] = outcome[r]
        /\ WorkOf(r) = outcome[r]
    BY <1>0, <2>1, WorkIs DEF OnceInv, RunInv
  <2>3. Contract!Goes(r, {"ok", "failed"}, "concluded")
    BY <2>1, <2>2, WorkWas, WorkGoes
  <2>4. Contract!Tell(r, IF outcome[r] = "ok" THEN "completed" ELSE "failed")
    BY <1>6, Tells DEF Settle
  <2>5. Works[r] = outcome[r]
    BY <2>2 DEF Works
  <2>6. Contract!Conclude(r)
    BY <2>1, <2>2, <2>3, <2>4, <2>5 DEF Contract!Conclude, Works
  <2>. QED
    BY <2>6 DEF Promised, Contract!Next
<1>7. CASE Close(r)
  <2>1. /\ exec[r] = "settled" /\ exec'[r] = "ended"
        /\ \A q \in Run \ {r} : exec'[q] = exec[q] /\ outcome'[q] = outcome[q]
        /\ UNCHANGED <<kind, request, result, state>>
    BY <1>7, OneMoves DEF Close, Step
  <2>2. Contract!Goes(r, {"concluded"}, "over")
    BY <2>1, WorkIs, WorkWas, WorkGoes
  <2>3. Contract!End(r)
    BY <2>1, <2>2 DEF Contract!End
  <2>. QED
    BY <2>3 DEF Promised, Contract!Next
<1>8. CASE Fail(r)
  <2>1. /\ exec[r] = "failing" /\ exec'[r] = "failed"
        /\ \A q \in Run \ {r} : exec'[q] = exec[q] /\ outcome'[q] = outcome[q]
        /\ UNCHANGED <<kind, request, result>>
    BY <1>8, OneMoves DEF Fail, Step
  <2>2. Contract!Goes(r, {"broken"}, "over")
    BY <2>1, WorkIs, WorkWas, WorkGoes
  <2>3. Contract!Tell(r, "failed")
    BY <1>8, Tells DEF Fail
  <2>4. Contract!Fail(r)
    BY <2>1, <2>2, <2>3 DEF Contract!Fail
  <2>. QED
    BY <2>4 DEF Promised, Contract!Next
<1>9. CASE ReportFailure(r)
  <2>1. /\ exec[r] = "failed" /\ exec'[r] = "ended"
        /\ \A q \in Run \ {r} : exec'[q] = exec[q]
        /\ UNCHANGED <<kind, request, result, state, outcome>>
    BY <1>9, OneMoves DEF ReportFailure, Step
  <2>2. WorkOf(r)' = WorkOf(r)
    BY <2>1, WorkIs, WorkWas
  <2>3. \A q \in Run : WorkOf(q)' = WorkOf(q)
    BY <2>1, <2>2 DEF WorkOf
  <2>. QED
    BY <2>1, <2>3, WorkStays DEF Promised, Asking
<1>. QED
  BY <1>1, <1>2, <1>3, <1>4, <1>5, <1>6, <1>7, <1>8, <1>9 DEF Execute

LEMMA SubmitPromised ==
  ASSUME TypeOK, NEW r \in Run, RunInv(r), Submit(r)
  PROVE  Promised
<1>1. /\ exec[r] = "none" /\ exec'[r] = "scheduled"
      /\ \A q \in Run \ {r} : exec'[q] = exec[q] /\ outcome'[q] = outcome[q]
      /\ UNCHANGED <<kind, request, result>>
  BY OneMoves DEF Submit
<1>2. Contract!Goes(r, {"none"}, "waiting")
  BY <1>1, WorkIs, WorkWas, WorkGoes
<1>3. state[r] = "none" /\ state' = [state EXCEPT ![r] = "pending"]
  BY <1>1 DEF RunInv, Submit
<1>4. Contract!Submit(r)
  BY <1>1, <1>2, <1>3 DEF Contract!Submit
<1>. QED
  BY <1>4 DEF Promised, Contract!Next

(* An error of the store breaks the work where its executor can still say  *)
(* so, and loses it elsewhere.                                             *)
LEMMA FaultPromised ==
  ASSUME TypeOK, OnceInvs, NEW r \in Run, StoreRaises(r)
  PROVE  Promised
<1>1. \A q \in Run \ {r} : exec'[q] = exec[q] /\ outcome'[q] = outcome[q]
  BY OneMoves DEF StoreRaises
<1>2. UNCHANGED <<kind, request, result, state, outcome>>
  BY DEF StoreRaises, recordVars
<1>3. CASE exec[r] \in {"answered", "stored", "settled"} /\ exec'[r] = "failing"
  <2>1. WorkOf(r) \in {"running", "ok", "failed", "concluded"}
    BY <1>3, WorkIs DEF OnceInvs, OnceInv
  <2>2. Contract!Goes(r, {"running", "ok", "failed", "concluded"}, "broken")
    BY <1>1, <1>2, <1>3, <2>1, WorkWas, WorkGoes
  <2>3. Contract!Break(r)
    BY <1>2, <2>2 DEF Contract!Break
  <2>. QED
    BY <2>3 DEF Promised, Contract!Next
<1>4. CASE exec[r] \in {"scheduled", "begun", "failing"} /\ exec'[r] = "dead"
  <2>1. WorkOf(r) \in {"waiting", "running", "broken"}
    BY <1>4, WorkIs
  <2>2. Contract!Goes(r, {"waiting", "running", "broken"}, "over")
    BY <1>1, <1>2, <1>4, <2>1, WorkWas, WorkGoes
  <2>3. Contract!Lose(r)
    BY <1>2, <2>2 DEF Contract!Lose
  <2>. QED
    BY <2>3 DEF Promised, Contract!Next
<1>5. CASE exec[r] = "failed" /\ exec'[r] = "dead"
  <2>1. WorkOf(r)' = WorkOf(r)
    BY <1>5, WorkIs, WorkWas
  <2>2. \A q \in Run : WorkOf(q)' = WorkOf(q)
    BY <1>1, <2>1 DEF WorkOf
  <2>. QED
    BY <1>2, <2>2, WorkStays DEF Promised, Asking
<1>. QED
  BY <1>3, <1>4, <1>5, OneMoves DEF StoreRaises

(* Who asks is decided by the requests that have checked the status.       *)
LEMMA AskingIs ==
  \A c, r : <<c, r>> \in Asking
              <=> c \in Client /\ request[c].at = "checked" /\ r = request[c].run
BY DEF Asking

LEMMA AskingWas ==
  \A c, r : <<c, r>> \in Asking'
              <=> c \in Client /\ request'[c].at = "checked" /\ r = request'[c].run
BY DEF Asking

LEMMA AskingPairs == \A x \in Asking \cup Asking' : \E c, r : x = <<c, r>>
BY DEF Asking

LEMMA RequestMoves ==
  ASSUME TypeOK, NEW c \in Client, NEW to, request' = [request EXCEPT ![c].at = to]
  PROVE  /\ request'[c].at = to /\ request'[c].run = request[c].run
         /\ \A d \in Client \ {c} : request'[d] = request[d]
<1>1. request[c] \in [run : Run \cup {NoRun}, at : {"idle", "checked", "marked", "done"}]
  BY DEF TypeOK
<1>2. [request[c] EXCEPT !.at = to] = [run |-> request[c].run, at |-> to]
  BY <1>1, AtChanges
<1>. QED
  BY <1>2 DEF TypeOK

LEMMA WorksStay ==
  ASSUME UNCHANGED <<exec, outcome>>
  PROVE  Works' = Works
BY DEF Works, WorkOf

LEMMA CheckPromised ==
  ASSUME TypeOK, OnceInvs, NEW c \in Client, NEW r \in Run, CheckCancel(c, r)
  PROVE  Promised
<1>1. UNCHANGED <<kind, state, result, exec, outcome>> /\ Works' = Works
  BY WorksStay DEF CheckCancel, recordVars
<1>2. PICK at \in {"done", "checked"} :
        /\ request' = [request EXCEPT ![c] = [run |-> r, at |-> at]]
        /\ at = "checked" => state[r] \notin Terminal
  BY DEF CheckCancel
<1>3. /\ request[c].at = "idle" /\ exec[r] # "none"
      /\ request'[c].at = at /\ request'[c].run = r
      /\ \A d \in Client \ {c} : request'[d] = request[d]
  BY <1>2 DEF CheckCancel, TypeOK
<1>4. CASE at = "done"
  <2>1. ASSUME NEW d, NEW q
        PROVE  <<d, q>> \in Asking' <=> <<d, q>> \in Asking
    <3>1. CASE d = c
      BY <1>3, <1>4, <3>1, AskingIs, AskingWas
    <3>2. CASE d # c
      BY <1>3, <3>2, AskingIs, AskingWas
    <3>. QED
      BY <3>1, <3>2
  <2>2. Asking' = Asking
    BY <2>1, AskingPairs
  <2>. QED
    BY <1>1, <2>2 DEF Promised
<1>5. CASE at = "checked"
  <2>1. ASSUME NEW d, NEW q
        PROVE  <<d, q>> \in Asking' <=> <<d, q>> \in Asking \cup {<<c, r>>}
    <3>1. CASE d = c
      BY <1>3, <1>5, <3>1, AskingIs, AskingWas
    <3>2. CASE d # c
      BY <1>3, <3>2, AskingIs, AskingWas
    <3>. QED
      BY <3>1, <3>2
  <2>2. ASSUME NEW x
        PROVE  x \in Asking' <=> x \in Asking \cup {<<c, r>>}
    <3>1. CASE \E d, q : x = <<d, q>>
      BY <2>1, <3>1
    <3>2. CASE ~\E d, q : x = <<d, q>>
      <4>1. x \notin Asking \cup Asking'
        BY <3>2, AskingPairs
      <4>2. x # <<c, r>>
        BY <3>2
      <4>. QED
        BY <4>1, <4>2
    <3>. QED
      BY <3>1, <3>2
  <2>3. WorkOf(r) # "none"
    BY <1>3, WorkIs DEF TypeOK, OnceInvs, OnceInv
  <2>4. Works[r] # "none"
    BY <2>3 DEF Works
  <2>5. Contract!Ask(c, r)
    <3>1. Asking' = Asking \cup {<<c, r>>}
      BY <2>2
    <3>. QED
      BY <1>1, <1>2, <1>5, <2>4, <3>1 DEF Contract!Ask, Contract!Verdicts, Terminal, Works
  <2>. QED
    BY <2>5 DEF Promised, Contract!Next
<1>. QED
  BY <1>2, <1>4, <1>5

(* A request that stops asking is struck from the list.                    *)
LEMMA StopsAsking ==
  ASSUME TypeOK, NEW c \in Client, NEW to \in {"marked", "done"},
         request[c].at = "checked", request' = [request EXCEPT ![c].at = to],
         UNCHANGED <<kind, result, exec, outcome>>
  PROVE  request[c].run \in Run /\ Contract!Settled(c, request[c].run)
<1>1. request[c].run \in Run
  BY DEF TypeOK
<1>2. request'[c].at = to /\ \A d \in Client \ {c} : request'[d] = request[d]
  BY RequestMoves
<1>3. ASSUME NEW d, NEW q
      PROVE  <<d, q>> \in Asking' <=> <<d, q>> \in Asking \ {<<c, request[c].run>>}
  <2>1. CASE d = c
    BY <1>2, <2>1, AskingIs, AskingWas
  <2>2. CASE d # c
    BY <1>2, <2>2, AskingIs, AskingWas
  <2>. QED
    BY <2>1, <2>2
<1>4. Asking' = Asking \ {<<c, request[c].run>>}
  BY <1>3, AskingPairs
<1>5. <<c, request[c].run>> \in Asking
  BY AskingIs
<1>. QED
  BY <1>1, <1>4, <1>5, WorksStay DEF Contract!Settled, Works

LEMMA MarkPromised ==
  ASSUME TypeOK, NEW c \in Client, MarkCancelled(c)
  PROVE  Promised
<1>1. /\ request[c].at = "checked" /\ request' = [request EXCEPT ![c].at = "marked"]
      /\ UNCHANGED <<kind, result, exec, outcome>>
  BY DEF MarkCancelled
<1>2. request[c].run \in Run /\ Contract!Settled(c, request[c].run)
  BY <1>1, StopsAsking
<1>3. Contract!Tell(request[c].run, "cancelled")
  BY <1>2, Tells DEF MarkCancelled
<1>4. Contract!Cancel(c, request[c].run)
  BY <1>2, <1>3 DEF Contract!Cancel
<1>. QED
  BY <1>2, <1>4 DEF Promised, Contract!Next

LEMMA RequestEndsPromised ==
  ASSUME TypeOK, NEW c \in Client, ReportCancel(c) \/ RequestRaises(c)
  PROVE  Promised
<1>1. /\ request' = [request EXCEPT ![c].at = "done"]
      /\ UNCHANGED <<kind, state, result, exec, outcome>>
  BY DEF ReportCancel, RequestRaises, recordVars
<1>2. CASE request[c].at = "checked"
  <2>1. request[c].run \in Run /\ Contract!Settled(c, request[c].run)
    BY <1>1, <1>2, StopsAsking
  <2>2. Contract!Withdraw(c, request[c].run)
    BY <1>1, <2>1 DEF Contract!Withdraw
  <2>. QED
    BY <2>1, <2>2 DEF Promised, Contract!Next
<1>3. CASE request[c].at = "marked"
  <2>1. request'[c].at = "done" /\ \A d \in Client \ {c} : request'[d] = request[d]
    BY <1>1, RequestMoves
  <2>2. ASSUME NEW d, NEW q
        PROVE  <<d, q>> \in Asking' <=> <<d, q>> \in Asking
    <3>1. CASE d = c
      BY <1>3, <2>1, <3>1, AskingIs, AskingWas
    <3>2. CASE d # c
      BY <2>1, <3>2, AskingIs, AskingWas
    <3>. QED
      BY <3>1, <3>2
  <2>3. Asking' = Asking
    BY <2>2, AskingPairs
  <2>. QED
    BY <1>1, <2>3, WorksStay DEF Promised
<1>. QED
  BY <1>2, <1>3 DEF ReportCancel, RequestRaises

LEMMA StreamPromised ==
  ASSUME NEW s \in Stream, (\E r \in Run : Open(s, r)) \/ Serve(s) \/ Leave(s)
  PROVE  Promised
<1>1. StreamOnly
  BY DEF Open, Serve, Leave, Attach, Take, Fetch, Look, DrainTail, Again
<1>. QED
  BY <1>1, WorksStay DEF StreamOnly, recordVars, Promised, Asking

LEMMA OnceKept == TypeOK /\ OnceInvs /\ [Next]_vars => OnceInvs'
<1>. SUFFICES ASSUME TypeOK, OnceInvs, [Next]_vars, NEW q \in Run
              PROVE  OnceInv(q)'
  BY DEF OnceInvs
<1>0. OnceInv(q)
  BY DEF OnceInvs
<1>1. CASE UNCHANGED <<exec, outcome, result>>
  BY <1>0, <1>1 DEF OnceInv
<1>2. ASSUME NEW r \in Run, Execute(r) \/ StoreRaises(r) \/ Submit(r)
      PROVE  OnceInv(q)'
  BY <1>0, <1>2 DEF TypeOK, OnceInv, Unsettled, Step, Execute, Begin, Announce, Raise, Answer,
                    StoreResult, Settle, Close, Fail, ReportFailure, StoreRaises, Submit,
                    recordVars
<1>3. ASSUME NEW c \in Client, (\E r \in Run : CheckCancel(c, r)) \/ MarkCancelled(c)
                                 \/ ReportCancel(c) \/ RequestRaises(c)
      PROVE  UNCHANGED <<exec, outcome, result>>
  BY <1>3 DEF CheckCancel, MarkCancelled, ReportCancel, RequestRaises, recordVars
<1>4. ASSUME NEW s \in Stream, (\E r \in Run : Open(s, r)) \/ Serve(s) \/ Leave(s)
      PROVE  UNCHANGED <<exec, outcome, result>>
  <2>1. StreamOnly
    BY <1>4 DEF Open, Serve, Leave, Attach, Take, Fetch, Look, DrainTail, Again
  <2>. QED
    BY <2>1 DEF StreamOnly, recordVars
<1>5. CASE UNCHANGED vars
  BY <1>1, <1>5 DEF vars, recordVars
<1>. QED
  BY <1>1, <1>2, <1>3, <1>4, <1>5 DEF Next

(* ImplementsRunContract: whichever the store, verdicts are told by those  *)
(* entitled to them, the executor's once and after the result it speaks    *)
(* of, a cancellation by a request that found the run open; results are    *)
(* final, and with Redis so are verdicts (app.py:725-798).                 *)
THEOREM RunImplementsContract == Spec => ImplementsRunContract
<1>1. Init => Contract!Init
  BY DEF Init, Contract!Init, WorkOf, Asking
<1>2. Init => OnceInvs
  BY DEF Init, OnceInvs, OnceInv, Unsettled
<1>3. ResultInv /\ OnceInvs /\ [Next]_vars
        => [Contract!Next]_<<kind = "redis", Works, state, result, Asking>>
  <2>1. ASSUME ResultInv, OnceInvs, Next
        PROVE  Promised
    <3>1. TypeOK /\ \A r \in Run : RunInv(r)
      BY <2>1 DEF ResultInv
    <3>. QED
      BY <2>1, <3>1, ExecutorPromised, SubmitPromised, FaultPromised, CheckPromised,
         MarkPromised, RequestEndsPromised, StreamPromised DEF Next
  <2>2. ASSUME UNCHANGED vars
        PROVE  UNCHANGED <<kind = "redis", Works, state, result, Asking>>
    BY <2>2, WorksStay DEF vars, recordVars, Asking
  <2>. QED
    BY <2>1, <2>2 DEF Promised
<1>4. ResultInv => TypeOK
  BY DEF ResultInv
<1>. QED
  BY <1>1, <1>2, <1>3, <1>4, OnceKept, ResultInvariant, PTL
  DEF Spec, ImplementsRunContract, Contract!Spec, Works
=============================================================================
