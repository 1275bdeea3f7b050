--------------------------- MODULE DistributedDispatch ---------------------------
(***************************************************************************)
(* The broker round trip: one publisher (JobBackend and its collector), a  *)
(* fleet of Workers, and between them the task topic and the reply topic.  *)
(*                                                                         *)
(* The brokers are external (FastStream over Redis, Kafka, NATS, Rabbit).  *)
(* What the model assumes of them: a task is handed to one worker at a     *)
(* time; a broker that Redelivers hands it out again as long as it has not *)
(* been acknowledged, which for Redis' idle-time reclaim includes tasks    *)
(* still being executed; replies arrive in any order, each once.           *)
(***************************************************************************)
EXTENDS JobBackend, Worker

CONSTANTS
  Redelivers,   (* TRUE: at-least-once broker; FALSE: InMemoryBroker, NATS  *)
  MaxCrashes,   (* bound: worker processes that die                         *)
  MaxStops      (* bound: workers that are stopped                          *)

ASSUME DispatchAssumption ==
  /\ Redelivers \in BOOLEAN
  /\ MaxCrashes \in Nat
  /\ MaxStops \in Nat

VARIABLES
  deliveries,   (* deliveries[t]: how often the broker has handed t out     *)
  acked,        (* tasks the broker will not hand out again                 *)
  replies       (* ResultMessages on their way to the publisher             *)

topicVars == <<deliveries, acked, replies>>

vars == <<collectorVars, backendVars, workerVars, topicVars>>

Init ==
  /\ BackendInit
  /\ WorkerInit
  /\ deliveries = [t \in Task |-> 0]
  /\ acked = {}
  /\ replies = {}

-----------------------------------------------------------------------------
Publisher(A) == A /\ UNCHANGED <<workerVars, topicVars>>

Hand(t, w) ==
  /\ deliveries[t] < MaxRuns
  /\ deliveries' = [deliveries EXCEPT ![t] = @ + 1]
  /\ Receive(<<t, deliveries[t] + 1>>, w)
  /\ UNCHANGED <<acked, replies, collectorVars, backendVars>>

Deliver(t, w) ==
  /\ t \in published /\ deliveries[t] = 0
  /\ Hand(t, w)

Redeliver(t, w) ==
  /\ Redelivers
  /\ deliveries[t] > 0 /\ t \notin acked
  /\ Hand(t, w)

(* The broker acknowledges a task one of whose handlers has returned; one  *)
(* whose handler raised is acknowledged or not, as the broker's policy is. *)
Acknowledge(t) ==
  /\ t \notin acked
  /\ \E k \in 1..MaxRuns : stage[<<t, k>>] \in {"returned", "raised"}
  /\ acked' = acked \cup {t}
  /\ UNCHANGED <<deliveries, replies, collectorVars, backendVars, workerVars>>

Local(A) == A /\ UNCHANGED <<collectorVars, backendVars, topicVars>>

SendReplyAlwaysOk(d) ==                  \* mutant: the report is not carried
  /\ Reply(d)
  /\ replies' = replies \cup {[run |-> d, outcome |-> "ok"]}
  /\ UNCHANGED <<deliveries, acked, collectorVars, backendVars>>

SendReply(d) ==
  /\ Reply(d)
  /\ replies' = replies \cup {[run |-> d, outcome |-> report[d]]}
  /\ UNCHANGED <<deliveries, acked, collectorVars, backendVars>>

ReceiveReply(m) ==
  /\ m \in replies
  /\ replies' = replies \ {m}
  /\ OnMessage(m)
  /\ UNCHANGED <<deliveries, acked, backendVars, workerVars>>

In(phases) == {w \in Fleet : phase[w] \in phases}

StopWorker(w) ==
  /\ Cardinality(In({"draining", "down"})) < MaxStops
  /\ Local(Stop(w))

CrashWorker(w) ==
  /\ Cardinality(In({"crashed"})) < MaxCrashes
  /\ Local(Crash(w))

Next ==
  \/ \E c \in Caller : Publisher(CallerStep(c))
  \/ \E h \in Handle : Publisher(Kill(h))
  \/ \E t \in Task, w \in Fleet : Deliver(t, w) \/ Redeliver(t, w)
  \/ \E t \in Task : Acknowledge(t)
  \/ \E d \in Run : \/ Local(Enter(d)) \/ Local(AcquireSemaphore(d))
                    \/ \E o \in Outcome : Local(Finish(d, o))
                    \/ Local(ErrorHookRaises(d))
                    \/ SendReply(d) \/ Local(ReplyFails(d))
  \/ \E w \in Fleet : StopWorker(w) \/ Local(Disconnect(w)) \/ CrashWorker(w)
  \/ \E m \in replies : ReceiveReply(m)

Spec == Init /\ [][Next]_vars

(* What the event loops and the broker do sooner or later: run a ready     *)
(* coroutine, grant the semaphore to a waiter, hand out a task that was    *)
(* published or is due again, deliver a reply.  Failures, stops, kills,    *)
(* timeouts and new calls are owed to nobody.                              *)
Fairness ==
  /\ \A c \in Caller : /\ WF_vars(Publisher(Publish(c)))
                      /\ WF_vars(Publisher(ReturnSettled(c)))
  /\ \A t \in Task : WF_vars(\E w \in Fleet : Deliver(t, w) \/ Redeliver(t, w))
  /\ \A d \in Run : /\ WF_vars(Local(Enter(d)))
                   /\ SF_vars(Local(AcquireSemaphore(d)))
                   /\ WF_vars(\E o \in Outcome : Local(Finish(d, o)))
                   /\ WF_vars(SendReply(d))
  /\ \A w \in Fleet : WF_vars(Local(Disconnect(w)))
  /\ WF_vars(\E m \in replies : ReceiveReply(m))

FairSpec == Spec /\ Fairness

-----------------------------------------------------------------------------
TypeOK ==
  /\ BackendTypeOK
  /\ WorkerTypeOK
  /\ deliveries \in [Task -> 0..MaxRuns]
  /\ acked \subseteq Task
  /\ replies \subseteq Msg

(* m was published by the run it names, which reported just that.          *)
Genuine(m) == stage[m.run] = "returned" /\ report[m.run] = m.outcome

(* Every slot of every result list returned by result() or gather() holds  *)
(* what an execution of that very task reported - whatever was lost,       *)
(* redelivered, reordered or answered twice on the way - or else nothing   *)
(* (a timeout), or the killed mark of a handle that was killed directly.   *)
AnswerGenuine(b, v) ==
  \A t \in TasksOf(b) :
    \/ v[t] \in Msg /\ TaskOf(v[t]) = t /\ Genuine(v[t])
    \/ v[t] = NoMsg /\ HasTimeout
    \/ v[t] = Killed /\ b \in Direct

AnswersGenuine == \A b \in Batch : \A v \in answers[b] : AnswerGenuine(b, v)

(* The inductive strengthening of AnswersGenuine: the same holds of every  *)
(* place a message passes through - the reply topic, the collector's       *)
(* slots, the cache - and an event is set only over a complete batch.      *)
Provenance ==
  /\ \A m \in replies : Genuine(m)
  /\ \A t \in Task : results[t] # NoMsg =>
                      TaskOf(results[t]) = t /\ Genuine(results[t])
  /\ \A b \in done : Complete(b, results)
  /\ \A h \in Handle : cache[h] # NoAnswer => AnswerGenuine(h, cache[h])
  /\ AnswersGenuine

(* The round trip implements its contract.  Executed: what the fleet has   *)
(* published so far, delivered or not.                                     *)
Executed == {[run |-> d, outcome |-> report[d]] :
               d \in {e \in Run : stage[e] = "returned"}}

Contract == INSTANCE DispatchContract WITH executed <- Executed

ImplementsContract == Contract!Spec

(* What is told of a batch changes at most once, from the killed mark to   *)
(* the report of a call that was waiting when it was killed (the late      *)
(* result() overwrites the cache, job.py:254): two coroutines that wait    *)
(* for one handle are told the same, and a report, once told or cached, is *)
(* final - no kill, timeout or duplicate replaces it.                      *)
AnswersSettle ==
  [][/\ \A b \in Batch :
          answers'[b] # answers[b] => answers[b] \subseteq {KilledAnswer(b)}
     /\ \A h \in Handle :
          cache[h] \notin {NoAnswer, KilledAnswer(h)} => cache'[h] = cache[h]]_vars

(* As long as a call sleeps on its batch, replies for that batch are filed *)
(* and not thrown away as orphans: _pending still has the entry; and once  *)
(* it has returned, it has left no entry behind in _pending and _handles.  *)
(* Of a handle that two coroutines wait for, neither is true: the first to *)
(* leave takes the entry with it.                                          *)
BookkeepingExact ==
  /\ \A c \in Caller : waiting[c] \in Batch \ Direct => waiting[c] \in pending
  /\ \A b \in Batch \ Direct : answers[b] # {} => b \notin pending \cup handles

(* stop() comes to an end: the runs it waits for finish.                   *)
StopEnds == \A w \in Fleet : phase[w] = "draining" ~> phase[w] # "draining"

(* The broker has no further delivery for t, and no run of t will reply.   *)
Stranded(t) ==
  /\ \A k \in 1..MaxRuns : stage[<<t, k>>] \in {"none", "raised", "lost"}
  /\ \/ t \in acked \/ deliveries[t] = MaxRuns
     \/ deliveries[t] > 0 /\ ~Redelivers
     \/ In({"up", "draining"}) = {}

(* A coroutine that waits for a batch, with no timeout to rescue it, wakes *)
(* up, unless the fleet has lost one of the batch's tasks for good.        *)
WaitersWake ==
  \A c \in Caller, b \in Batch :
    waiting[c] = b ~> waiting[c] # b \/ \E t \in TasksOf(b) : Stranded(t)
=============================================================================
