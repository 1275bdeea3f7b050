----------------------------- MODULE DispatchProofs -----------------------------
(***************************************************************************)
(* Theorems about the broker round trip, for every set of batches, callers *)
(* and workers, every number of deliveries and every broker the model      *)
(* admits: its invariants first, then that it implements DispatchContract, *)
(* every step being an execution, the return of a call, or nothing the     *)
(* contract can see.                                                       *)
(***************************************************************************)
EXTENDS DistributedDispatch, TLAPS

-----------------------------------------------------------------------------
LEMMA TaskFacts ==
  /\ \A b \in Batch : TasksOf(b) \subseteq Task
  /\ \A t \in Task : BatchOf(t) \in Batch /\ t \in TasksOf(BatchOf(t))
BY DEF Task, TasksOf, BatchOf

LEMMA MsgFacts ==
  ASSUME NEW m \in Msg
  PROVE  m.run \in Run /\ m.outcome \in Outcome /\ TaskOf(m) \in Task
BY DEF Msg, Run, TaskOf

LEMMA TypeInit == Init => TypeOK
<1>. SUFFICES ASSUME Init PROVE TypeOK
  OBVIOUS
<1>1. CollectorTypeOK
  BY DEF Init, BackendInit, CollectorInit, CollectorTypeOK
<1>2. BackendTypeOK
  BY <1>1 DEF Init, BackendInit, CollectorInit, BackendTypeOK
<1>3. 0 \in 0..MaxRuns
  BY WireAssumption DEF WireAssumption
<1>4. WorkerTypeOK
  BY <1>3 DEF Init, WorkerInit, WorkerTypeOK, Stage
<1>. QED
  BY <1>2, <1>3, <1>4 DEF Init, TypeOK

-----------------------------------------------------------------------------
(* Type correctness of the fleet: each action of Worker keeps the types.   *)
LEMMA ReceiveType ==
  ASSUME WorkerTypeOK, NEW d \in Run, NEW w \in Fleet, Receive(d, w)
  PROVE  WorkerTypeOK'
BY DEF Receive, Move, WorkerTypeOK, Stage

LEMMA ActiveType ==
  ASSUME WorkerTypeOK, NEW d \in Run, NEW n \in 0..MaxRuns,
         active' = [active EXCEPT ![host[d]][d[1]] = n]
  PROVE  active' \in [Fleet -> [Task -> 0..MaxRuns]]
<1>1. active \in [Fleet -> [Task -> 0..MaxRuns]]
  BY DEF WorkerTypeOK
<1>. QED
  BY <1>1

LEMMA HandlerType ==
  ASSUME WorkerTypeOK, NEW d \in Run,
         \/ Enter(d) \/ AcquireSemaphore(d)
         \/ \E o \in Outcome : Finish(d, o)
         \/ ErrorHookRaises(d) \/ Reply(d) \/ ReplyFails(d)
  PROVE  WorkerTypeOK'
<1>1. d[2] \in 0..MaxRuns /\ 0 \in 0..MaxRuns
  BY WireAssumption DEF Run, WireAssumption
<1>2. CASE Enter(d)
  <2>1. active' \in [Fleet -> [Task -> 0..MaxRuns]]
    BY <1>1, <1>2, ActiveType DEF Enter
  <2>. QED
    BY <1>2, <2>1 DEF Enter, Move, WorkerTypeOK, Stage, Outcome
<1>3. CASE AcquireSemaphore(d)
  BY <1>3 DEF AcquireSemaphore, Move, WorkerTypeOK, Stage
<1>4. ASSUME NEW o \in Outcome, Finish(d, o) PROVE WorkerTypeOK'
  BY <1>4 DEF Finish, Move, WorkerTypeOK, Stage, Outcome
<1>5. CASE ErrorHookRaises(d) \/ Reply(d) \/ ReplyFails(d)
  <2>1. active' \in [Fleet -> [Task -> 0..MaxRuns]]
    BY <1>1, <1>5, ActiveType DEF ErrorHookRaises, Reply, ReplyFails, Leave
  <2>2. stage' \in [Run -> Stage]
    BY <1>5 DEF ErrorHookRaises, Reply, ReplyFails, Move, WorkerTypeOK, Stage
  <2>3. \A e \in Run : stage'[e] \in {"replying", "returned"} =>
                         stage[e] \in {"replying", "returned"}
    BY <1>5 DEF ErrorHookRaises, Reply, ReplyFails, Move, WorkerTypeOK
  <2>. QED
    BY <1>5, <2>1, <2>2, <2>3 DEF ErrorHookRaises, Reply, ReplyFails,
                                  WorkerTypeOK
<1>. QED
  BY <1>2, <1>3, <1>4, <1>5

LEMMA StopType ==
  ASSUME WorkerTypeOK, NEW w \in Fleet, Stop(w) \/ Disconnect(w) \/ Crash(w)
  PROVE  WorkerTypeOK'
<1>1. CASE Stop(w)
  BY <1>1 DEF Stop, RunsOn, WorkerTypeOK
<1>2. CASE Disconnect(w) \/ Crash(w)
  <2>1. active' \in [Fleet -> [Task -> 0..MaxRuns]]
    <3>1. [t \in Task |-> 0] \in [Task -> 0..MaxRuns]
      BY WireAssumption DEF WireAssumption
    <3>. QED
      BY <1>2, <3>1 DEF Disconnect, Crash, WorkerTypeOK
  <2>2. stage' \in [Run -> Stage]
    BY <1>2 DEF Disconnect, Crash, WorkerTypeOK, Stage
  <2>3. /\ phase' \in [Fleet -> {"up", "draining", "down", "crashed"}]
        /\ draining' \in [Fleet -> SUBSET Run]
    BY <1>2 DEF Disconnect, Crash, WorkerTypeOK
  <2>4. \A e \in Run : stage'[e] \in {"replying", "returned"} =>
                         stage[e] \in {"replying", "returned"}
    BY <1>2 DEF Disconnect, Crash
  <2>. QED
    BY <1>2, <2>1, <2>2, <2>3, <2>4 DEF Disconnect, Crash, WorkerTypeOK
<1>. QED
  BY <1>1, <1>2

-----------------------------------------------------------------------------
(* Type correctness of the publisher.                                      *)
LEMMA SlottedType ==
  ASSUME CollectorTypeOK, NEW b \in Batch
  PROVE  Slotted(b) \in AnyAnswer
<1>1. Slotted(b) \in Answer(b)
  BY TaskFacts DEF Slotted, Answer, CollectorTypeOK
<1>. QED
  BY <1>1 DEF AnyAnswer

LEMMA StopWaitingType ==
  ASSUME CollectorTypeOK, NEW c \in Caller, StopWaiting(c)
  PROVE  CollectorTypeOK'
BY DEF CollectorTypeOK, StopWaiting

LEMMA BeginType ==
  ASSUME BackendTypeOK, NEW c \in Caller, NEW b \in Batch, Begin(c, b)
  PROVE  BackendTypeOK'
<1>1. CollectorTypeOK'
  BY DEF Begin, Register, BackendTypeOK, CollectorTypeOK
<1>. QED
  BY <1>1 DEF Begin, Register, BackendTypeOK

LEMMA PublishType ==
  ASSUME BackendTypeOK, NEW c \in Caller,
         Publish(c) \/ PublishFails(c) \/ AbandonPublish(c)
  PROVE  BackendTypeOK'
<1>1. publishing[c] \in registered \cup {NoBatch} /\ registered \subseteq Batch
  BY DEF BackendTypeOK, CollectorTypeOK
<1>2. CASE Publish(c)
  <2>1. publishing[c] \in registered
    BY <1>1, <1>2 DEF Publish
  <2>2. CollectorTypeOK'
    BY <1>2, <2>1 DEF Publish, Await, BackendTypeOK, CollectorTypeOK
  <2>3. published' \subseteq Task
    BY <1>1, <1>2, <2>1, TaskFacts DEF Publish, BackendTypeOK
  <2>4. spawned' \subseteq Handle
    BY <1>2 DEF Publish, BackendTypeOK
  <2>. QED
    BY <1>2, <2>2, <2>3, <2>4 DEF Publish, BackendTypeOK
<1>3. CASE PublishFails(c) \/ AbandonPublish(c)
  <2>1. CollectorTypeOK'
    BY <1>3 DEF PublishFails, AbandonPublish, BackendTypeOK, CollectorTypeOK,
                collectorVars
  <2>. QED
    BY <1>1, <1>3, <2>1 DEF PublishFails, AbandonPublish, BackendTypeOK,
                            collectorVars
<1>. QED
  BY <1>2, <1>3

LEMMA ResultType ==
  ASSUME BackendTypeOK, NEW c \in Caller, NEW h \in Handle, Result(c, h)
  PROVE  BackendTypeOK'
<1>0. h \in Batch
  BY JobBackendAssumption DEF JobBackendAssumption
<1>1. CASE ResultFromCache(c, h)
  <2>1. CollectorTypeOK'
    BY <1>1 DEF ResultFromCache, BackendTypeOK, CollectorTypeOK, collectorVars
  <2>2. cache[h] \in AnyAnswer
    BY <1>1 DEF ResultFromCache, BackendTypeOK
  <2>3. answers' \in [Batch -> SUBSET AnyAnswer]
    BY <1>1, <2>2 DEF ResultFromCache, BackendTypeOK
  <2>. QED
    BY <1>1, <2>1, <2>3 DEF ResultFromCache, BackendTypeOK, collectorVars
<1>2. CASE ResultUnknown(c, h)
  <2>1. CollectorTypeOK'
    BY <1>2 DEF ResultUnknown, BackendTypeOK, CollectorTypeOK, collectorVars
  <2>. QED
    BY <1>0, <1>2, <2>1 DEF ResultUnknown, BackendTypeOK, collectorVars
<1>3. CASE ResultAwaits(c, h)
  <2>1. CollectorTypeOK'
    BY <1>3 DEF ResultAwaits, Await, BackendTypeOK, CollectorTypeOK
  <2>. QED
    BY <1>3, <2>1 DEF ResultAwaits, backendVars, BackendTypeOK
<1>. QED
  BY <1>1, <1>2, <1>3 DEF Result

LEMMA ReturnAnswerType ==
  ASSUME BackendTypeOK, NEW b \in Batch, Return(b)
  PROVE  /\ cache' \in [Handle -> AnyAnswer \cup {NoAnswer}]
         /\ answers' \in [Batch -> SUBSET AnyAnswer]
<1>1. Slotted(b) \in AnyAnswer
  BY SlottedType DEF BackendTypeOK
<1>2. cache' \in [Handle -> AnyAnswer \cup {NoAnswer}]
  BY <1>1 DEF Return, BackendTypeOK
<1>3. answers' \in [Batch -> SUBSET AnyAnswer]
  BY <1>1 DEF Return, BackendTypeOK
<1>. QED
  BY <1>2, <1>3

LEMMA ReturnType ==
  ASSUME BackendTypeOK, NEW c \in Caller, waiting[c] # NoBatch,
         StopWaiting(c), Return(waiting[c])
  PROVE  BackendTypeOK'
<1>. DEFINE b == waiting[c]
<1>1. b \in Batch
  BY DEF BackendTypeOK, CollectorTypeOK
<1>3. CollectorTypeOK'
  BY StopWaitingType DEF BackendTypeOK
<1>4. /\ cache' \in [Handle -> AnyAnswer \cup {NoAnswer}]
      /\ answers' \in [Batch -> SUBSET AnyAnswer]
  BY <1>1, ReturnAnswerType
<1>5. raised' \subseteq Batch /\ handles' \subseteq Handle
  BY <1>1 DEF Return, BackendTypeOK
<1>6. registered' = registered
  BY DEF StopWaiting
<1>. QED
  BY <1>3, <1>4, <1>5, <1>6 DEF Return, BackendTypeOK

LEMMA AbandonType ==
  ASSUME BackendTypeOK, NEW c \in Caller, Abandon(c)
  PROVE  BackendTypeOK'
<1>1. CollectorTypeOK'
  BY StopWaitingType DEF Abandon, Cancel, BackendTypeOK
<1>2. registered' = registered
  BY DEF Abandon, Cancel, StopWaiting
<1>. QED
  BY <1>1, <1>2 DEF Abandon, BackendTypeOK, backendVars

LEMMA KillType ==
  ASSUME BackendTypeOK, NEW h \in Handle, Kill(h)
  PROVE  BackendTypeOK'
<1>1. KilledAnswer(h) \in AnyAnswer
  BY JobBackendAssumption
  DEF JobBackendAssumption, KilledAnswer, Answer, AnyAnswer
<1>2. CollectorTypeOK'
  BY DEF Kill, BackendTypeOK, CollectorTypeOK, collectorVars
<1>3. cache' \in [Handle -> AnyAnswer \cup {NoAnswer}]
  BY <1>1 DEF Kill, BackendTypeOK
<1>. QED
  BY <1>2, <1>3 DEF Kill, BackendTypeOK, collectorVars

LEMMA OnMessageType ==
  ASSUME BackendTypeOK, NEW m \in Msg, OnMessage(m), UNCHANGED backendVars
  PROVE  BackendTypeOK'
<1>1. TaskOf(m) \in Task
  BY MsgFacts
<1>2. results' \in [Task -> Msg \cup {NoMsg}]
  BY <1>1 DEF OnMessage, BackendTypeOK, CollectorTypeOK
<1>3. done' \subseteq registered
  BY DEF OnMessage, BackendTypeOK, CollectorTypeOK
<1>4. CollectorTypeOK'
  BY <1>2, <1>3 DEF OnMessage, BackendTypeOK, CollectorTypeOK
<1>. QED
  BY <1>4 DEF OnMessage, BackendTypeOK, backendVars

-----------------------------------------------------------------------------
(* Every value every variable can have (type correctness).                 *)
LEMMA CallerType ==
  ASSUME BackendTypeOK, NEW c \in Caller, CallerStep(c)
  PROVE  BackendTypeOK'
<1>1. ASSUME NEW h \in Handle, Spawn(c, h) PROVE BackendTypeOK'
  BY <1>1, BeginType, JobBackendAssumption DEF Spawn, JobBackendAssumption
<1>2. ASSUME NEW h \in Handle, Result(c, h) PROVE BackendTypeOK'
  BY <1>2, ResultType
<1>3. ASSUME NEW b \in Batch, Gather(c, b) PROVE BackendTypeOK'
  BY <1>3, BeginType DEF Gather
<1>4. CASE Publish(c) \/ PublishFails(c) \/ AbandonPublish(c)
  BY <1>4, PublishType
<1>5. CASE ReturnSettled(c) \/ ReturnExpired(c)
  <2>1. waiting[c] # NoBatch
    BY <1>5, CollectorAssumption
    DEF ReturnSettled, ReturnExpired, Settle, Expire, BackendTypeOK,
        CollectorTypeOK, CollectorAssumption
  <2>2. StopWaiting(c) /\ Return(waiting[c])
    BY <1>5 DEF ReturnSettled, ReturnExpired, Settle, Expire
  <2>. QED
    BY <2>1, <2>2, ReturnType
<1>6. CASE Abandon(c)
  BY <1>6, AbandonType
<1>. QED
  BY <1>1, <1>2, <1>3, <1>4, <1>5, <1>6 DEF CallerStep

LEMMA HandType ==
  ASSUME TypeOK, NEW t \in Task, NEW w \in Fleet, Hand(t, w)
  PROVE  TypeOK'
<1>1. deliveries[t] + 1 \in 1..MaxRuns
  BY WireAssumption DEF WireAssumption, Hand, TypeOK
<1>2. WorkerTypeOK'
  <2>1. <<t, deliveries[t] + 1>> \in Run
    BY <1>1 DEF Run
  <2>. QED
    BY <2>1, ReceiveType DEF Hand, TypeOK
<1>3. BackendTypeOK'
  BY DEF Hand, TypeOK, BackendTypeOK, CollectorTypeOK, backendVars,
         collectorVars
<1>4. deliveries' \in [Task -> 0..MaxRuns]
  BY <1>1 DEF Hand, TypeOK
<1>. QED
  BY <1>2, <1>3, <1>4 DEF Hand, TypeOK

LEMMA TypeStep == TypeOK /\ [Next]_vars => TypeOK'
<1>. SUFFICES ASSUME TypeOK, [Next]_vars PROVE TypeOK'
  OBVIOUS
<1>1. BackendTypeOK /\ WorkerTypeOK
  BY DEF TypeOK
<1>2. ASSUME UNCHANGED <<collectorVars, backendVars>> PROVE BackendTypeOK'
  BY <1>1, <1>2 DEF collectorVars, backendVars, BackendTypeOK, CollectorTypeOK
<1>3. ASSUME UNCHANGED workerVars PROVE WorkerTypeOK'
  BY <1>1, <1>3 DEF workerVars, WorkerTypeOK
<1>4. ASSUME NEW c \in Caller, Publisher(CallerStep(c)) PROVE TypeOK'
  BY <1>1, <1>3, <1>4, CallerType DEF Publisher, TypeOK, topicVars
<1>5. ASSUME NEW h \in Handle, Publisher(Kill(h)) PROVE TypeOK'
  BY <1>1, <1>3, <1>5, KillType DEF Publisher, TypeOK, topicVars
<1>6. ASSUME NEW t \in Task, NEW w \in Fleet, Deliver(t, w) \/ Redeliver(t, w)
      PROVE  TypeOK'
  BY <1>6, HandType DEF Deliver, Redeliver
<1>7. ASSUME NEW t \in Task, Acknowledge(t) PROVE TypeOK'
  BY <1>2, <1>3, <1>7 DEF Acknowledge, TypeOK
<1>8. ASSUME NEW d \in Run,
             \/ Local(Enter(d)) \/ Local(AcquireSemaphore(d))
             \/ \E o \in Outcome : Local(Finish(d, o))
             \/ Local(ErrorHookRaises(d)) \/ Local(ReplyFails(d))
      PROVE  TypeOK'
  BY <1>1, <1>2, <1>8, HandlerType DEF Local, TypeOK, topicVars
<1>9. ASSUME NEW d \in Run, SendReply(d) PROVE TypeOK'
  <2>1. WorkerTypeOK'
    BY <1>1, <1>9, HandlerType DEF SendReply
  <2>2. report[d] \in Outcome
    BY <1>1, <1>9 DEF WorkerTypeOK, SendReply, Reply, Move
  <2>. QED
    <3>1. [run |-> d, outcome |-> report[d]] \in Msg
      BY <2>2 DEF Msg
    <3>2. BackendTypeOK'
      BY <1>2, <1>9 DEF SendReply
    <3>. QED
      BY <1>9, <2>1, <3>1, <3>2 DEF SendReply, TypeOK
<1>10. ASSUME NEW w \in Fleet,
              StopWorker(w) \/ Local(Disconnect(w)) \/ CrashWorker(w)
       PROVE  TypeOK'
  BY <1>1, <1>2, <1>10, StopType
  DEF StopWorker, CrashWorker, Local, TypeOK, topicVars
<1>11. ASSUME NEW m \in replies, ReceiveReply(m) PROVE TypeOK'
  <2>1. m \in Msg
    BY DEF TypeOK
  <2>2. BackendTypeOK'
    BY <1>1, <1>11, <2>1, OnMessageType DEF ReceiveReply
  <2>. QED
    BY <1>3, <1>11, <2>2 DEF ReceiveReply, TypeOK
<1>12. CASE UNCHANGED vars
  BY <1>2, <1>3, <1>12 DEF vars, topicVars, TypeOK
<1>. QED
  BY <1>4, <1>5, <1>6, <1>7, <1>8, <1>9, <1>10, <1>11, <1>12 DEF Next

(* Every variable keeps its type whatever the callers, the fleet and the   *)
(* broker do.                                                              *)
THEOREM TypeCorrect == Spec => []TypeOK
<1>. QED
  BY TypeInit, TypeStep, PTL DEF Spec

-----------------------------------------------------------------------------
(* A run that has returned is never heard of again.                        *)
LEMMA ReturnedIsFinal ==
  ASSUME TypeOK, [Next]_vars, NEW d \in Run, stage[d] = "returned"
  PROVE  stage'[d] = "returned" /\ report'[d] = report[d]
<1>0. /\ stage \in [Run -> Stage]
      /\ report \in [Run -> {"none"} \cup Outcome]
  BY DEF TypeOK, WorkerTypeOK
<1>1. CASE UNCHANGED workerVars
  BY <1>1 DEF workerVars
<1>2. ASSUME NEW t \in Task, NEW w \in Fleet, Deliver(t, w) \/ Redeliver(t, w)
      PROVE  stage'[d] = "returned" /\ report'[d] = report[d]
  BY <1>0, <1>2 DEF Deliver, Redeliver, Hand, Receive, Move
<1>3. ASSUME NEW e \in Run,
             \/ Local(Enter(e)) \/ Local(AcquireSemaphore(e))
             \/ \E o \in Outcome : Local(Finish(e, o))
             \/ Local(ErrorHookRaises(e))
             \/ SendReply(e) \/ Local(ReplyFails(e))
      PROVE  stage'[d] = "returned" /\ report'[d] = report[d]
  <2>1. stage[e] # "returned" \/ stage'[e] = "returned"
    BY <1>0, <1>3
    DEF Local, Enter, AcquireSemaphore, Finish, ErrorHookRaises, SendReply,
        Reply, ReplyFails, Move
  <2>. QED
    BY <1>0, <1>3
    DEF Local, Enter, AcquireSemaphore, Finish, ErrorHookRaises, SendReply,
        Reply, ReplyFails, Move
<1>4. ASSUME NEW w \in Fleet,
             StopWorker(w) \/ Local(Disconnect(w)) \/ CrashWorker(w)
      PROVE  stage'[d] = "returned" /\ report'[d] = report[d]
  BY <1>0, <1>4
  DEF StopWorker, CrashWorker, Local, Stop, Disconnect, Crash, RunsOn, Live
<1>. QED
  BY <1>1, <1>2, <1>3, <1>4
  DEF Next, vars, Publisher, Acknowledge, ReceiveReply

(* Hence what is genuine stays genuine.                                    *)
LEMMA GenuineStable ==
  ASSUME TypeOK, [Next]_vars, NEW m \in Msg, Genuine(m)
  PROVE  Genuine(m)'
BY ReturnedIsFinal, MsgFacts DEF Genuine

LEMMA AnswerStable ==
  ASSUME TypeOK, [Next]_vars, NEW b \in Batch, NEW v, AnswerGenuine(b, v)
  PROVE  AnswerGenuine(b, v)'
BY GenuineStable DEF AnswerGenuine

(* The inductive invariant behind AnswersGenuine.                          *)
IInv == TypeOK /\ Provenance

LEMMA ProvenanceInit == Init => Provenance
BY DEF Init, BackendInit, CollectorInit, Provenance, AnswersGenuine

(* The slots a caller that stops waiting takes along are genuine.          *)
LEMMA SlottedGenuine ==
  ASSUME IInv, NEW b \in Batch, b \in done \/ HasTimeout
  PROVE  AnswerGenuine(b, Slotted(b))
<1>. SUFFICES ASSUME NEW t \in TasksOf(b)
              PROVE  \/ /\ results[t] \in Msg
                        /\ TaskOf(results[t]) = t /\ Genuine(results[t])
                     \/ results[t] = NoMsg /\ HasTimeout
  BY DEF AnswerGenuine, Slotted
<1>1. t \in Task
  BY TaskFacts
<1>2. results[t] \in Msg \cup {NoMsg}
  BY <1>1 DEF IInv, TypeOK, BackendTypeOK, CollectorTypeOK
<1>3. results[t] # NoMsg \/ HasTimeout
  BY DEF IInv, Provenance, Complete
<1>. QED
  BY <1>1, <1>2, <1>3 DEF IInv, Provenance

(* What Return does to the caches and to the answers.                      *)
LEMMA ReturnGenuine ==
  ASSUME IInv, NEW b \in Batch, b \in done \/ HasTimeout, Return(b)
  PROVE  /\ \A h \in Handle : cache'[h] # NoAnswer =>
                               cache'[h] = cache[h] \/ AnswerGenuine(h, cache'[h])
         /\ \A a \in Batch : \A v \in answers'[a] :
              v \in answers[a] \/ AnswerGenuine(a, v)
<1>. DEFINE s == Slotted(b)
<1>1. AnswerGenuine(b, s)
  BY SlottedGenuine
<1>2. /\ cache' = cache \/ cache' = [cache EXCEPT ![b] = s]
      /\ answers' = answers \/ answers' = [answers EXCEPT ![b] = @ \cup {s}]
  BY DEF Return
<1>3. DOMAIN cache = Handle /\ DOMAIN answers = Batch
  BY DEF IInv, TypeOK, BackendTypeOK
<1>. HIDE DEF s
<1>. QED
  BY <1>1, <1>2, <1>3

(* Whatever a step adds to the caches and to the answers is genuine.       *)
LEMMA AnswersStep ==
  ASSUME IInv, [Next]_vars
  PROVE  /\ \A h \in Handle : cache'[h] # NoAnswer => AnswerGenuine(h, cache'[h])
         /\ \A b \in Batch : \A v \in answers'[b] : AnswerGenuine(b, v)
<1>. DEFINE G == /\ \A h \in Handle : cache'[h] # NoAnswer =>
                                       AnswerGenuine(h, cache'[h])
                 /\ \A b \in Batch : \A v \in answers'[b] : AnswerGenuine(b, v)
<1>0. /\ \A h \in Handle : cache[h] # NoAnswer => AnswerGenuine(h, cache[h])
      /\ \A b \in Batch : \A v \in answers[b] : AnswerGenuine(b, v)
      /\ DOMAIN cache = Handle /\ DOMAIN answers = Batch
  BY DEF IInv, Provenance, AnswersGenuine, TypeOK, BackendTypeOK
<1>1. ASSUME UNCHANGED <<cache, answers>> PROVE G
  BY <1>0, <1>1
<1>2. ASSUME NEW c \in Caller, NEW h \in Handle, ResultFromCache(c, h) PROVE G
  BY <1>0, <1>2 DEF ResultFromCache
<1>3. ASSUME NEW c \in Caller, ReturnSettled(c) \/ ReturnExpired(c) PROVE G
  <2>1. waiting[c] \in Batch
    BY <1>3, CollectorAssumption
    DEF IInv, TypeOK, BackendTypeOK, CollectorTypeOK, CollectorAssumption,
        ReturnSettled, ReturnExpired, Settle, Expire
  <2>2. Return(waiting[c]) /\ (waiting[c] \in done \/ HasTimeout)
    BY <1>3 DEF ReturnSettled, ReturnExpired, Settle
  <2>. QED
    BY <1>0, <2>1, <2>2, ReturnGenuine
<1>4. ASSUME NEW h \in Handle, Publisher(Kill(h)) PROVE G
  <2>1. AnswerGenuine(h, KilledAnswer(h))
    BY <1>4 DEF Publisher, Kill, AnswerGenuine, KilledAnswer
  <2>. QED
    BY <1>0, <1>4, <2>1 DEF Publisher, Kill
<1>5. ASSUME NEW c \in Caller, Publisher(CallerStep(c)) PROVE G
  BY <1>1, <1>2, <1>3, <1>5
  DEF Publisher, CallerStep, Spawn, Gather, Begin, Result, ResultUnknown,
      ResultAwaits, Publish, PublishFails, AbandonPublish, Abandon, backendVars
<1>6. CASE \/ UNCHANGED backendVars
           \/ UNCHANGED vars
  BY <1>1, <1>6 DEF vars, backendVars
<1>7. UNCHANGED backendVars \/ UNCHANGED vars
      \/ (\E c \in Caller : Publisher(CallerStep(c)))
      \/ (\E h \in Handle : Publisher(Kill(h)))
  BY DEF Next, Deliver, Redeliver, Hand, Acknowledge, Local, SendReply,
         StopWorker, CrashWorker, ReceiveReply
<1>. QED
  BY <1>4, <1>5, <1>6, <1>7

(* The reply topic carries only what workers have published.               *)
LEMMA RepliesStep ==
  ASSUME IInv, [Next]_vars
  PROVE  \A m \in replies' : Genuine(m)'
<1>1. replies' \subseteq Msg
  BY TypeStep DEF IInv, TypeOK
<1>2. \A m \in replies : Genuine(m)'
  BY GenuineStable DEF IInv, Provenance, TypeOK
<1>3. ASSUME NEW d \in Run, SendReply(d)
      PROVE  \A m \in replies' : Genuine(m)'
  <2>1. stage'[d] = "returned" /\ report' = report
    BY <1>3 DEF IInv, TypeOK, WorkerTypeOK, SendReply, Reply, Move
  <2>. QED
    BY <1>2, <1>3, <2>1 DEF SendReply, Genuine
<1>4. (\E d \in Run : SendReply(d)) \/ replies' \subseteq replies
  BY DEF Next, vars, topicVars, Publisher, Deliver, Redeliver, Hand,
         Acknowledge, Local, StopWorker, CrashWorker, ReceiveReply
<1>. QED
  BY <1>2, <1>3, <1>4

(* The collector files a reply in the slot of the task it answers, and it  *)
(* wakes the caller over complete batches only.                            *)
LEMMA CollectorStep ==
  ASSUME IInv, [Next]_vars
  PROVE  /\ (\A t \in Task : results[t] # NoMsg =>
              TaskOf(results[t]) = t /\ Genuine(results[t]))'
         /\ \A b \in done' : Complete(b, results')
<1>0. /\ results \in [Task -> Msg \cup {NoMsg}]
      /\ done \subseteq Batch
      /\ TypeOK
  BY DEF IInv, TypeOK, BackendTypeOK, CollectorTypeOK
<1>1. CASE UNCHANGED <<results, done>>
  <2>1. \A n \in Msg : Genuine(n) =>
                         stage'[n.run] = "returned" /\ report'[n.run] = n.outcome
    BY <1>0, GenuineStable DEF Genuine
  <2>2. \A t \in Task : results[t] # NoMsg =>
          /\ results[t] \in Msg
          /\ TaskOf(results[t]) = t /\ Genuine(results[t])
    BY <1>0 DEF IInv, Provenance
  <2>3. (\A t \in Task : results[t] # NoMsg =>
              TaskOf(results[t]) = t /\ Genuine(results[t]))'
    BY <1>1, <2>1, <2>2 DEF Genuine
  <2>. QED
    BY <1>1, <2>3 DEF IInv, Provenance, Complete
<1>2. ASSUME NEW m \in replies, ReceiveReply(m)
      PROVE  /\ (\A t \in Task : results[t] # NoMsg =>
              TaskOf(results[t]) = t /\ Genuine(results[t]))'
             /\ \A b \in done' : Complete(b, results')
  <2>1. m \in Msg /\ Genuine(m) /\ TaskOf(m) \in Task
    BY <1>0, MsgFacts DEF TypeOK, IInv, Provenance
  <2>2. UNCHANGED <<stage, report>>
    BY <1>2 DEF ReceiveReply, workerVars
  <2>3. results' = results \/ results' = [results EXCEPT ![TaskOf(m)] = m]
    BY <1>2 DEF ReceiveReply, OnMessage
  <2>4. \A t \in Task : results'[t] = results[t] \/ (t = TaskOf(m) /\ results'[t] = m)
    BY <1>0, <2>1, <2>3
  <2>5. m # NoMsg
    BY <2>1, NoMsgAssumption DEF NoMsgAssumption
  <2>6. \A b \in done' : b \in done \/ Complete(b, results')
    BY <1>2 DEF ReceiveReply, OnMessage
  <2>7. \A b \in done : Complete(b, results')
    <3>1. \A b \in done : \A t \in TasksOf(b) : t \in Task /\ results[t] # NoMsg
      BY <1>0, TaskFacts DEF IInv, Provenance, Complete
    <3>. QED
      BY <2>4, <2>5, <3>1 DEF Complete
  <2>. QED
    BY <2>1, <2>2, <2>4, <2>6, <2>7 DEF IInv, Provenance, Genuine
<1>3. UNCHANGED <<results, done>> \/ \E m \in replies : ReceiveReply(m)
  <2>1. ASSUME NEW c \in Caller, CallerStep(c) PROVE UNCHANGED <<results, done>>
    BY <2>1
    DEF CallerStep, Spawn, Gather, Begin, Register, Result, ResultFromCache,
        ResultUnknown, ResultAwaits, Await, Publish, PublishFails,
        AbandonPublish, ReturnSettled, ReturnExpired, Abandon, Settle, Expire,
        Cancel, StopWaiting, collectorVars
  <2>. QED
    BY <2>1
    DEF Next, vars, collectorVars, Publisher, Kill, Deliver, Redeliver, Hand,
        Acknowledge, Local, SendReply, StopWorker, CrashWorker
<1>. QED
  BY <1>1, <1>2, <1>3

LEMMA ProvenanceStep == IInv /\ [Next]_vars => IInv'
<1>. SUFFICES ASSUME IInv, [Next]_vars PROVE IInv'
  OBVIOUS
<1>1. TypeOK'
  BY TypeStep DEF IInv
<1>2. \A h \in Handle : h \in Batch
  BY JobBackendAssumption DEF JobBackendAssumption
<1>3. \A b \in Batch : \A v : AnswerGenuine(b, v) => AnswerGenuine(b, v)'
  BY AnswerStable DEF IInv
<1>4. (\A h \in Handle : cache[h] # NoAnswer => AnswerGenuine(h, cache[h]))'
  <2>1. \A h \in Handle : cache'[h] # NoAnswer => AnswerGenuine(h, cache'[h])
    BY AnswersStep
  <2>. QED
    BY <1>2, <1>3, <2>1 DEF AnswerGenuine, Genuine, NoAnswer
<1>5. AnswersGenuine'
  BY <1>3, AnswersStep DEF AnswersGenuine
<1>. QED
  BY <1>1, <1>4, <1>5, RepliesStep, CollectorStep DEF IInv, Provenance, NoAnswer

(* Whatever is lost, redelivered, reordered or answered twice, no caller   *)
(* is ever handed a report of another task, or one nobody made.            *)
THEOREM ProvenanceCorrect == Spec => []Provenance
<1>1. Init => IInv
  BY TypeInit, ProvenanceInit DEF IInv
<1>2. IInv => Provenance
  BY DEF IInv
<1>. QED
  BY <1>1, <1>2, ProvenanceStep, PTL DEF Spec

(* AnswersGenuine is the part of it a caller sees.                         *)
THEOREM AnswersCorrect == Spec => []AnswersGenuine
<1>1. Provenance => AnswersGenuine
  BY DEF Provenance
<1>. QED
  BY <1>1, ProvenanceCorrect, PTL
(* The event of a batch is set exactly when its last slot is filled.       *)
LEMMA WakeUpStep ==
  ASSUME TypeOK, TypeOK', [Next]_vars,
         \A b \in Batch : b \in done <=> Complete(b, results)
  PROVE  \A b \in Batch : b \in done' <=> Complete(b, results')
<1>0. results \in [Task -> Msg \cup {NoMsg}]
  BY DEF TypeOK, BackendTypeOK, CollectorTypeOK
<1>1. CASE UNCHANGED <<results, done>>
  BY <1>1
<1>2. ASSUME NEW m \in replies, ReceiveReply(m), NEW b \in Batch
      PROVE  b \in done' <=> Complete(b, results')
  <2>. DEFINE a == BatchOf(TaskOf(m))
  <2>1. m \in Msg /\ TaskOf(m) \in Task /\ a \in Batch /\ m # NoMsg
    BY MsgFacts, TaskFacts, NoMsgAssumption DEF TypeOK, NoMsgAssumption
  <2>2. CASE a \in pending
    <3>1. /\ results' = [results EXCEPT ![TaskOf(m)] = m]
          /\ done' = IF Complete(a, results') THEN done \cup {a} ELSE done
      BY <1>2, <2>2 DEF ReceiveReply, OnMessage
    <3>2. \A t \in Task : results[t] # NoMsg => results'[t] # NoMsg
      BY <1>0, <2>1, <3>1
    <3>3. CASE b = a
      <4>1. Complete(a, results) => Complete(a, results')
        BY <2>1, <3>2, TaskFacts DEF Complete
      <4>. QED
        BY <3>1, <3>3, <4>1
    <3>4. CASE b # a
      <4>1. \A t \in TasksOf(b) : t # TaskOf(m) /\ t \in Task
        BY <3>4, TaskFacts DEF TasksOf, BatchOf
      <4>2. \A t \in TasksOf(b) : results'[t] = results[t]
        BY <1>0, <3>1, <4>1
      <4>. QED
        BY <3>1, <3>4, <4>2 DEF Complete
    <3>. QED
      BY <3>3, <3>4
  <2>3. CASE a \notin pending
    BY <1>2, <2>3 DEF ReceiveReply, OnMessage
  <2>. QED
    BY <2>2, <2>3
<1>3. UNCHANGED <<results, done>> \/ \E m \in replies : ReceiveReply(m)
  <2>1. ASSUME NEW c \in Caller, CallerStep(c) PROVE UNCHANGED <<results, done>>
    BY <2>1
    DEF CallerStep, Spawn, Gather, Begin, Register, Result, ResultFromCache,
        ResultUnknown, ResultAwaits, Await, Publish, PublishFails,
        AbandonPublish, ReturnSettled, ReturnExpired, Abandon, Settle, Expire,
        Cancel, StopWaiting, collectorVars
  <2>. QED
    BY <2>1
    DEF Next, vars, collectorVars, Publisher, Kill, Deliver, Redeliver, Hand,
        Acknowledge, Local, SendReply, StopWorker, CrashWorker
<1>. QED
  BY <1>1, <1>2, <1>3

(* _on_message compares numbers of results: however often a task is        *)
(* answered, the caller is woken by the last missing slot, and by no other.*)
THEOREM WakeUpCorrect == Spec => []WakeUpExact
<1>. DEFINE Woken == \A b \in Batch : b \in done <=> Complete(b, results)
<1>1. Init => Woken
  <2>1. ASSUME NEW b \in Batch PROVE \E t \in TasksOf(b) : t \in Task
    <3>1. PICK k \in Slots[b] : TRUE
      BY WireAssumption DEF WireAssumption
    <3>2. <<b, k>> \in TasksOf(b)
      BY <3>1 DEF TasksOf
    <3>. QED
      BY <3>2, TaskFacts
  <2>. QED
    BY <2>1, TaskFacts DEF Init, BackendInit, CollectorInit, Complete
<1>2. TypeOK /\ TypeOK' /\ Woken /\ [Next]_vars => Woken'
  <2>. SUFFICES ASSUME TypeOK, TypeOK', Woken, [Next]_vars PROVE Woken'
    OBVIOUS
  <2>1. \A b \in Batch : b \in done' <=> Complete(b, results')
    BY WakeUpStep
  <2>. QED
    BY <2>1 DEF Complete
<1>3. TypeOK /\ Woken => WakeUpExact
  BY DEF TypeOK, BackendTypeOK, CollectorTypeOK, WakeUpExact
<1>. HIDE DEF Woken
<1>. QED
  BY <1>1, <1>2, <1>3, TypeCorrect, PTL DEF Spec

-----------------------------------------------------------------------------
(* The contract.                                                           *)

(* Busy(c, b): coroutine c is inside a call on b.                          *)
Busy(c, b) == publishing[c] = b \/ waiting[c] = b

(* A coroutine is in one call at a time; only direct handles are shared;   *)
(* and a batch somebody is busy with, or nobody ever began, has no answer. *)
Exclusive ==
  /\ \A c \in Caller : publishing[c] = NoBatch \/ waiting[c] = NoBatch
  /\ \A b \in Batch \ Direct : \A c, e \in Caller :
       Busy(c, b) /\ Busy(e, b) => c = e
  /\ \A b \in Batch \ Direct : \A c \in Caller : Busy(c, b) => answers[b] = {}
  /\ \A b \in Batch \ registered : answers[b] = {}
  /\ spawned \subseteq registered

(* The cached list of a handle has that handle's slots.                    *)
CacheShape == \A h \in Handle : cache[h] # NoAnswer => cache[h] \in Answer(h)

CInv == IInv /\ Exclusive /\ CacheShape

-----------------------------------------------------------------------------
LEMMA ContractInvInit == Init => Exclusive /\ CacheShape
BY CollectorAssumption DEF CollectorAssumption, Init, BackendInit,
                           CollectorInit, Exclusive, Busy, CacheShape

(* The variables Exclusive and CacheShape speak of change in calls only.   *)
LEMMA OutsideCalls ==
  ASSUME [Next]_vars
  PROVE  \/ \E c \in Caller : CallerStep(c)
         \/ \E h \in Handle : Kill(h)
         \/ UNCHANGED <<backendVars, registered, waiting>>
BY DEF Next, vars, collectorVars, Publisher, Deliver, Redeliver, Hand,
       Acknowledge, Local, SendReply, StopWorker, CrashWorker, ReceiveReply,
       OnMessage

LEMMA ShapeStep ==
  ASSUME CInv, [Next]_vars
  PROVE  CacheShape'
<1>0. /\ results \in [Task -> Msg \cup {NoMsg}]
      /\ waiting \in [Caller -> Batch \cup {NoBatch}]
      /\ DOMAIN cache = Handle
      /\ done \subseteq Batch
  BY DEF CInv, IInv, TypeOK, BackendTypeOK, CollectorTypeOK
<1>1. CASE UNCHANGED cache
  BY <1>1 DEF CInv, CacheShape
<1>2. ASSUME NEW c \in Caller, ReturnSettled(c) \/ ReturnExpired(c)
      PROVE  CacheShape'
  <2>1. waiting[c] \in Batch /\ Return(waiting[c])
    BY <1>0, <1>2, CollectorAssumption
    DEF CollectorAssumption, ReturnSettled, ReturnExpired, Settle, Expire
  <2>2. PICK b \in Batch : Return(b)
    BY <2>1
  <2>3. Slotted(b) \in Answer(b)
    BY <1>0, TaskFacts DEF Slotted, Answer
  <2>4. cache' = cache \/ cache' = [cache EXCEPT ![b] = Slotted(b)]
    BY <2>2 DEF Return
  <2>. QED
    BY <1>0, <2>3, <2>4 DEF CInv, CacheShape
<1>3. ASSUME NEW h \in Handle, Kill(h) PROVE CacheShape'
  <2>1. KilledAnswer(h) \in Answer(h)
    BY DEF KilledAnswer, Answer
  <2>. QED
    BY <1>0, <1>3, <2>1 DEF Kill, CInv, CacheShape
<1>4. \A c \in Caller : CallerStep(c) =>
        UNCHANGED cache \/ ReturnSettled(c) \/ ReturnExpired(c)
  BY DEF CallerStep, Spawn, Gather, Begin, Result, ResultFromCache,
         ResultUnknown, ResultAwaits, Publish, PublishFails, AbandonPublish,
         Abandon, backendVars
<1>. QED
  BY <1>1, <1>2, <1>3, <1>4, OutsideCalls DEF backendVars

LEMMA ExclusiveStep ==
  ASSUME CInv, [Next]_vars
  PROVE  Exclusive'
<1>0. /\ publishing \in [Caller -> registered \cup {NoBatch}]
      /\ waiting \in [Caller -> registered \cup {NoBatch}]
      /\ registered \subseteq Batch
      /\ NoBatch \notin Batch
      /\ answers \in [Batch -> SUBSET AnyAnswer]
  BY CollectorAssumption
  DEF CInv, IInv, TypeOK, BackendTypeOK, CollectorTypeOK, CollectorAssumption
<1>1. CASE UNCHANGED <<registered, publishing, waiting, answers, spawned>>
  BY <1>1 DEF CInv, Exclusive, Busy
<1>2. ASSUME NEW c \in Caller, NEW b \in Batch, Begin(c, b)
      PROVE  Exclusive'
  BY <1>0, <1>2 DEF Begin, Idle, Register, CInv, Exclusive, Busy
<1>3. ASSUME NEW c \in Caller, Publish(c)
      PROVE  Exclusive'
  <2>1. \/ /\ UNCHANGED <<publishing, waiting, spawned>>
        \/ /\ publishing' = [publishing EXCEPT ![c] = NoBatch]
           /\ waiting' = waiting
           /\ spawned' \subseteq spawned \cup {publishing[c]}
        \/ /\ publishing' = [publishing EXCEPT ![c] = NoBatch]
           /\ waiting' = [waiting EXCEPT ![c] = publishing[c]]
           /\ spawned' \subseteq spawned \cup {publishing[c]}
    BY <1>3 DEF Publish, Await
  <2>2. publishing[c] \in registered /\ UNCHANGED <<registered, answers>>
    BY <1>0, <1>3 DEF Publish
  <2>. QED
    BY <1>0, <2>1, <2>2 DEF CInv, Exclusive, Busy
<1>4. ASSUME NEW c \in Caller, PublishFails(c) \/ AbandonPublish(c) \/ Abandon(c)
      PROVE  Exclusive'
  BY <1>0, <1>4
  DEF PublishFails, AbandonPublish, Abandon, Cancel, StopWaiting,
      collectorVars, backendVars, CInv, Exclusive, Busy
<1>5. ASSUME NEW c \in Caller, NEW h \in Direct \cap spawned,
             ResultFromCache(c, h) \/ ResultUnknown(c, h) \/ ResultAwaits(c, h)
      PROVE  Exclusive'
  BY <1>0, <1>5
  DEF ResultFromCache, ResultUnknown, ResultAwaits, Await, Idle,
      collectorVars, backendVars, CInv, Exclusive, Busy
<1>6. ASSUME NEW c \in Caller, ReturnSettled(c) \/ ReturnExpired(c)
      PROVE  Exclusive'
  <2>1. waiting[c] \in registered
    BY <1>0, <1>6
    DEF ReturnSettled, ReturnExpired, Settle, Expire, CInv, IInv, TypeOK,
        BackendTypeOK, CollectorTypeOK
  <2>2. /\ waiting' = [waiting EXCEPT ![c] = NoBatch]
        /\ UNCHANGED <<registered, publishing, spawned>>
    BY <1>6 DEF ReturnSettled, ReturnExpired, Settle, Expire, StopWaiting, Return
  <2>3. \A b \in Batch : b # waiting[c] => answers'[b] = answers[b]
    BY <1>0, <1>6, <2>1 DEF ReturnSettled, ReturnExpired, Return
  <2>. QED
    BY <1>0, <2>1, <2>2, <2>3 DEF CInv, Exclusive, Busy
<1>7. ASSUME NEW c \in Caller, CallerStep(c) PROVE Exclusive'
  BY <1>2, <1>3, <1>4, <1>5, <1>6, <1>7, JobBackendAssumption
  DEF CallerStep, Spawn, Gather, Result, JobBackendAssumption
<1>8. ASSUME NEW h \in Handle, Kill(h) PROVE Exclusive'
  BY <1>1, <1>8 DEF Kill, collectorVars
<1>. QED
  BY <1>1, <1>7, <1>8, OutsideCalls DEF backendVars

LEMMA ContractInv == Spec => []CInv
<1>1. Init => CInv
  BY TypeInit, ProvenanceInit, ContractInvInit DEF CInv, IInv
<1>2. CInv /\ [Next]_vars => CInv'
  BY ProvenanceStep, ShapeStep, ExclusiveStep DEF CInv
<1>. QED
  BY <1>1, <1>2, PTL DEF Spec

-----------------------------------------------------------------------------
(* The contract speaks of the same tasks and messages.                     *)
LEMMA SameWire ==
  /\ Contract!Msg = Msg
  /\ \A b : Contract!TasksOf(b) = TasksOf(b)
  /\ \A m : Contract!TaskOf(m) = TaskOf(m)
<1>1. \A b : Contract!TasksOf(b) = TasksOf(b)
  BY DEF TasksOf, Contract!TasksOf
<1>2. Contract!Task = Task
  BY <1>1 DEF Task, Contract!Task
<1>3. Contract!Msg = Msg
  BY <1>2 DEF Msg, Contract!Msg, Run, Contract!Run, Outcome, Contract!Outcome
<1>. QED
  BY <1>1, <1>3 DEF TaskOf, Contract!TaskOf

(* What a call returns is something the contract lets it return.           *)
LEMMA ReportsAreExecuted ==
  ASSUME TypeOK, NEW m \in Msg, Genuine(m)
  PROVE  m \in Executed
<1>1. m = [run |-> m.run, outcome |-> m.outcome] /\ m.run \in Run
  BY DEF Msg
<1>. QED
  BY <1>1 DEF Genuine, Executed

LEMMA SlottedReported ==
  ASSUME CInv, NEW b \in Batch, b \in done \/ HasTimeout
  PROVE  /\ Slotted(b) \in [TasksOf(b) -> Executed \cup {NoMsg, Killed}]
         /\ Contract!Reported(b, Slotted(b))
<1>1. ASSUME NEW t \in TasksOf(b)
      PROVE  \/ results[t] \in Executed /\ TaskOf(results[t]) = t
             \/ results[t] = NoMsg /\ HasTimeout
  <2>1. t \in Task
    BY TaskFacts
  <2>2. results[t] \in Msg \cup {NoMsg} /\ TypeOK
    BY <2>1 DEF CInv, IInv, TypeOK, BackendTypeOK, CollectorTypeOK
  <2>3. results[t] # NoMsg \/ HasTimeout
    BY DEF CInv, IInv, Provenance, Complete
  <2>4. CASE results[t] # NoMsg
    BY <2>1, <2>2, <2>4, ReportsAreExecuted DEF CInv, IInv, Provenance
  <2>. QED
    BY <2>3, <2>4
<1>. QED
  BY <1>1, SameWire DEF Slotted, Contract!Reported

(* A handle has one slot, so its cached list is reported as a whole or     *)
(* killed as a whole.                                                      *)
LEMMA CachedResolves ==
  ASSUME CInv, NEW h \in Handle, cache[h] # NoAnswer
  PROVE  /\ cache[h] \in [TasksOf(h) -> Executed \cup {NoMsg, Killed}]
         /\ \/ Contract!Reported(h, cache[h])
            \/ h \in Direct /\ \A t \in TasksOf(h) : cache[h][t] = Killed
<1>1. TasksOf(h) = {<<h, 0>>}
  BY JobBackendAssumption DEF JobBackendAssumption, TasksOf
<1>2. cache[h] \in Answer(h) /\ AnswerGenuine(h, cache[h]) /\ TypeOK
  BY DEF CInv, IInv, Provenance, CacheShape
<1>3. \A t \in TasksOf(h) :
        \/ cache[h][t] \in Executed /\ TaskOf(cache[h][t]) = t
        \/ cache[h][t] = NoMsg /\ HasTimeout
        \/ cache[h][t] = Killed /\ h \in Direct
  BY <1>2, ReportsAreExecuted DEF AnswerGenuine
<1>4. cache[h] \in [TasksOf(h) -> Executed \cup {NoMsg, Killed}]
  BY <1>2, <1>3 DEF Answer
<1>. QED
  BY <1>1, <1>3, <1>4, SameWire DEF Contract!Reported

-----------------------------------------------------------------------------
LEMMA ContractInit == Init => Contract!Init
BY DEF Init, BackendInit, WorkerInit, Executed, Contract!Init

(* A step that publishes no report leaves Executed as it is.               *)
LEMMA ExecutedStep ==
  ASSUME TypeOK, [Next]_vars
  PROVE  \/ UNCHANGED Executed
         \/ UNCHANGED answers /\ \E m \in Msg : Contract!Execute(m)
<1>0. /\ stage \in [Run -> Stage]
      /\ report \in [Run -> {"none"} \cup Outcome]
  BY DEF TypeOK, WorkerTypeOK
<1>1. ASSUME NEW d \in Run, SendReply(d)
      PROVE  UNCHANGED answers /\ \E m \in Msg : Contract!Execute(m)
  <2>. DEFINE m == [run |-> d, outcome |-> report[d]]
  <2>1. /\ stage[d] = "replying"
        /\ stage' = [stage EXCEPT ![d] = "returned"]
        /\ report' = report /\ answers' = answers
    BY <1>1 DEF SendReply, Reply, Move, backendVars
  <2>2. m \in Msg
    BY <1>0, <2>1 DEF TypeOK, WorkerTypeOK, Msg, Outcome
  <2>3. \A n \in Executed : n.run # d
    BY <2>1 DEF Executed
  <2>4. Executed' = Executed \cup {m}
    <3>1. \A e \in Run : stage'[e] = "returned" <=> stage[e] = "returned" \/ e = d
      BY <1>0, <2>1
    <3>. QED
      BY <2>1, <3>1 DEF Executed
  <2>. QED
    BY <2>1, <2>2, <2>3, <2>4 DEF Contract!Execute
<1>2. ASSUME \A d \in Run : ~SendReply(d)
      PROVE  UNCHANGED Executed
  <2>1. \A d \in Run : stage[d] = "returned" =>
                          stage'[d] = "returned" /\ report'[d] = report[d]
    BY ReturnedIsFinal
  <2>2. ASSUME NEW d \in Run, stage'[d] = "returned" PROVE stage[d] = "returned"
    <3>1. CASE UNCHANGED workerVars
      BY <2>2, <3>1 DEF workerVars
    <3>2. ASSUME NEW t \in Task, NEW w \in Fleet,
                 Deliver(t, w) \/ Redeliver(t, w)
          PROVE  stage[d] = "returned"
      BY <1>0, <2>2, <3>2 DEF Deliver, Redeliver, Hand, Receive, Move
    <3>3. ASSUME NEW e \in Run,
                 \/ Local(Enter(e)) \/ Local(AcquireSemaphore(e))
                 \/ \E o \in Outcome : Local(Finish(e, o))
                 \/ Local(ErrorHookRaises(e)) \/ Local(ReplyFails(e))
          PROVE  stage[d] = "returned"
      BY <1>0, <2>2, <3>3
      DEF Local, Enter, AcquireSemaphore, Finish, ErrorHookRaises,
          ReplyFails, Move
    <3>4. ASSUME NEW w \in Fleet,
                 StopWorker(w) \/ Local(Disconnect(w)) \/ CrashWorker(w)
          PROVE  stage[d] = "returned"
      BY <2>2, <3>4 DEF StopWorker, CrashWorker, Local, Stop, Disconnect, Crash
    <3>. QED
      BY <1>2, <3>1, <3>2, <3>3, <3>4
      DEF Next, vars, Publisher, Acknowledge, ReceiveReply
  <2>. QED
    BY <2>1, <2>2 DEF Executed
<1>. QED
  BY <1>1, <1>2

(* A call returns what the contract allows, and on its own batch only.     *)
LEMMA ResolveStep ==
  ASSUME CInv, CInv', [Next]_vars, UNCHANGED Executed
  PROVE  \/ UNCHANGED <<Executed, answers>>
         \/ \E b \in Batch :
              \E v \in [TasksOf(b) -> Executed \cup {NoMsg, Killed}] :
                Contract!Resolve(b, v)
<1>. DEFINE Resolves ==
       \E b \in Batch : \E v \in [TasksOf(b) -> Executed \cup {NoMsg, Killed}] :
         Contract!Resolve(b, v)
<1>0. Handle \subseteq Batch
  BY JobBackendAssumption DEF JobBackendAssumption
<1>1. ASSUME NEW c \in Caller, ReturnSettled(c) \/ ReturnExpired(c)
      PROVE  UNCHANGED answers \/ Resolves
  <2>. DEFINE b == waiting[c]
  <2>1. b \in Batch /\ Return(b) /\ (b \in done \/ HasTimeout)
    BY <1>1, CollectorAssumption
    DEF CollectorAssumption, CInv, IInv, TypeOK, BackendTypeOK,
        CollectorTypeOK, ReturnSettled, ReturnExpired, Settle, Expire
  <2>2. b \notin Direct => answers[b] = {}
    BY <2>1 DEF CInv, Exclusive, Busy
  <2>. HIDE DEF b
  <2>3. CASE UNCHANGED answers
    BY <2>3
  <2>4. CASE answers' = [answers EXCEPT ![b] = @ \cup {Slotted(b)}]
    BY <2>1, <2>2, <2>4, SlottedReported DEF Contract!Resolve
  <2>. QED
    BY <2>1, <2>3, <2>4 DEF Return
<1>2. ASSUME NEW c \in Caller, NEW h \in Handle, h \in Direct,
             ResultFromCache(c, h)
      PROVE  Resolves
  <2>1. /\ cache[h] # NoAnswer
        /\ answers' = [answers EXCEPT ![h] = @ \cup {cache[h]}]
    BY <1>2 DEF ResultFromCache
  <2>2. Contract!Resolve(h, cache[h])
    BY <1>2, <2>1, CachedResolves, SameWire DEF Contract!Resolve
  <2>. QED
    BY <1>0, <2>1, <2>2, CachedResolves
<1>3. ASSUME NEW c \in Caller, CallerStep(c)
      PROVE  UNCHANGED answers \/ Resolves
  BY <1>1, <1>2, <1>3
  DEF CallerStep, Spawn, Gather, Begin, Result, ResultUnknown, ResultAwaits,
      Publish, PublishFails, AbandonPublish, Abandon, backendVars
<1>. QED
  BY <1>3, OutsideCalls DEF Kill, backendVars

(* Every behaviour of the round trip, with its losses, redeliveries,       *)
(* crashes, kills and timeouts, is one the contract allows.                *)
THEOREM RoundTripImplementsContract == Spec => ImplementsContract
<1>1. Init => Contract!Init
  BY ContractInit
<1>2. CInv /\ CInv' /\ [Next]_vars => [Contract!Next]_<<Executed, answers>>
  <2>. SUFFICES ASSUME CInv, CInv', [Next]_vars
                PROVE  [Contract!Next]_<<Executed, answers>>
    OBVIOUS
  <2>1. TypeOK
    BY DEF CInv, IInv
  <2>. QED
    BY <2>1, ExecutedStep, ResolveStep, SameWire DEF Contract!Next
<1>. QED
  BY <1>1, <1>2, ContractInv, PTL DEF Spec, ImplementsContract, Contract!Spec
-----------------------------------------------------------------------------
(* Only calls touch the collector's and the backend's entries.             *)
LEMMA BookkeepingStep ==
  ASSUME CInv, BookkeepingExact, [Next]_vars
  PROVE  BookkeepingExact'
<1>0. /\ publishing \in [Caller -> registered \cup {NoBatch}]
      /\ waiting \in [Caller -> registered \cup {NoBatch}]
      /\ registered \subseteq Batch /\ pending \subseteq registered
      /\ NoBatch \notin Batch
      /\ answers \in [Batch -> SUBSET AnyAnswer]
  BY CollectorAssumption
  DEF CInv, IInv, TypeOK, BackendTypeOK, CollectorTypeOK, CollectorAssumption
<1>1. CASE UNCHANGED <<waiting, pending, answers, handles>>
  BY <1>1 DEF BookkeepingExact
<1>2. ASSUME NEW c \in Caller, NEW b \in Batch, Begin(c, b) PROVE BookkeepingExact'
  <2>1. /\ pending' = pending \cup {b} /\ handles' \subseteq handles \cup {b}
        /\ UNCHANGED <<waiting, answers>> /\ b \notin registered
    BY <1>2 DEF Begin, Register
  <2>2. b \notin Direct => answers[b] = {}
    BY <2>1 DEF CInv, Exclusive
  <2>. QED
    BY <2>1, <2>2 DEF BookkeepingExact
<1>3. ASSUME NEW c \in Caller, NEW b \in registered, Await(c, b),
             UNCHANGED <<pending, answers, handles>>
      PROVE  BookkeepingExact'
  BY <1>0, <1>3 DEF Await, BookkeepingExact
<1>4. ASSUME NEW c \in Caller, waiting[c] # NoBatch, StopWaiting(c),
             \/ UNCHANGED <<answers, handles>>
             \/ /\ handles' = handles \ {waiting[c]}
                /\ \A b \in Batch : b # waiting[c] => answers'[b] = answers[b]
      PROVE  BookkeepingExact'
  <2>1. /\ waiting[c] \in Batch /\ pending' = pending \ {waiting[c]}
        /\ waiting' = [waiting EXCEPT ![c] = NoBatch]
    BY <1>0, <1>4 DEF StopWaiting
  <2>2. \A e \in Caller : e # c /\ waiting[e] \in Batch \ Direct => waiting[e] # waiting[c]
    BY <2>1 DEF CInv, Exclusive, Busy
  <2>3. \A e \in Caller : waiting'[e] \in Batch \ Direct => waiting'[e] \in pending'
    BY <1>0, <2>1, <2>2 DEF BookkeepingExact
  <2>4. \A b \in Batch \ Direct : answers'[b] # {} => b \notin pending' \cup handles'
    BY <1>4, <2>1 DEF BookkeepingExact
  <2>. QED
    BY <2>3, <2>4 DEF BookkeepingExact
<1>5. ASSUME NEW c \in Caller, Publish(c) PROVE BookkeepingExact'
  <2>1. /\ publishing[c] \in registered /\ UNCHANGED <<pending, answers, handles>>
        /\ UNCHANGED waiting \/ Await(c, publishing[c])
    BY <1>0, <1>5 DEF Publish
  <2>. QED
    BY <1>1, <1>3, <2>1
<1>6. ASSUME NEW c \in Caller, PublishFails(c) \/ AbandonPublish(c)
      PROVE  UNCHANGED <<waiting, pending, answers, handles>>
  BY <1>6 DEF PublishFails, AbandonPublish, collectorVars
<1>7. ASSUME NEW c \in Caller, Abandon(c) PROVE BookkeepingExact'
  BY <1>4, <1>7 DEF Abandon, Cancel, backendVars
<1>8. ASSUME NEW c \in Caller, NEW h \in Direct \cap spawned,
             ResultFromCache(c, h) \/ ResultUnknown(c, h) \/ ResultAwaits(c, h)
      PROVE  BookkeepingExact'
  <2>1. CASE ResultFromCache(c, h)
    <3>1. /\ UNCHANGED <<waiting, pending, handles>>
          /\ \A b \in Batch : b # h => answers'[b] = answers[b]
      BY <1>0, <2>1 DEF ResultFromCache, collectorVars
    <3>. QED
      BY <3>1 DEF BookkeepingExact
  <2>2. CASE ResultUnknown(c, h)
    BY <1>1, <2>2 DEF ResultUnknown, collectorVars
  <2>3. CASE ResultAwaits(c, h)
    BY <1>0, <1>3, <2>3 DEF ResultAwaits, Await, backendVars
  <2>. QED
    BY <1>8, <2>1, <2>2, <2>3
<1>9. ASSUME NEW c \in Caller, ReturnSettled(c) \/ ReturnExpired(c)
      PROVE  BookkeepingExact'
  <2>1. StopWaiting(c) /\ waiting[c] # NoBatch /\ Return(waiting[c])
    BY <1>0, <1>9
    DEF ReturnSettled, ReturnExpired, Settle, Expire, CInv, IInv, TypeOK,
        BackendTypeOK, CollectorTypeOK
  <2>2. \/ UNCHANGED <<answers, handles>>
        \/ /\ handles' = handles \ {waiting[c]}
           /\ \A b \in Batch : b # waiting[c] => answers'[b] = answers[b]
    BY <1>0, <2>1 DEF Return
  <2>. QED
    BY <1>4, <2>1, <2>2
<1>10. ASSUME NEW h \in Handle, Kill(h) PROVE BookkeepingExact'
  <2>1. UNCHANGED <<waiting, pending, answers>> /\ handles' \subseteq handles
    BY <1>10 DEF Kill, collectorVars
  <2>. QED
    BY <2>1 DEF BookkeepingExact
<1>11. ASSUME NEW c \in Caller, CallerStep(c) PROVE BookkeepingExact'
  BY <1>1, <1>2, <1>5, <1>6, <1>7, <1>8, <1>9, <1>11, JobBackendAssumption
  DEF CallerStep, Spawn, Gather, Result, JobBackendAssumption
<1>12. CASE \A c \in Caller : ~CallerStep(c)
  <2>1. (\E h \in Handle : Kill(h)) \/ UNCHANGED <<waiting, pending, answers, handles>>
    BY <1>12
    DEF Next, vars, collectorVars, backendVars, Publisher, Deliver, Redeliver, Hand,
        Acknowledge, Local, SendReply, StopWorker, CrashWorker, ReceiveReply, OnMessage
  <2>. QED
    BY <1>1, <1>10, <2>1
<1>. QED
  BY <1>11, <1>12

(* While a call of the runtime sleeps on its batch, _pending still has the *)
(* entry that replies are filed under; when it has returned, neither       *)
(* _pending nor _handles has one, for any number of callers.               *)
THEOREM BookkeepingCorrect == Spec => []BookkeepingExact
<1>1. Init => BookkeepingExact
  BY CollectorAssumption
  DEF CollectorAssumption, Init, BackendInit, CollectorInit, BookkeepingExact
<1>. QED
  BY <1>1, BookkeepingStep, ContractInv, PTL DEF Spec

-----------------------------------------------------------------------------
(* What has been told of a batch is what its slots hold, or the killed     *)
(* mark; the slots cannot change any more, since the batch has left        *)
(* _pending for good; and a kill finds nothing told yet.                   *)
Said(b, v) == v = KilledAnswer(b) \/ (v = Slotted(b) /\ b \notin pending)

SettledInv ==
  /\ \A b \in Batch : \A v \in answers[b] : Said(b, v)
  /\ \A h \in Handle : cache[h] # NoAnswer => Said(h, cache[h]) /\ h \in registered
  /\ \A h \in Handle : answers[h] # {} => cache[h] # NoAnswer
  /\ \A h \in Handle : cache[h] = KilledAnswer(h) => answers[h] \subseteq {KilledAnswer(h)}

LEMMA HandleTask ==
  ASSUME NEW h \in Handle
  PROVE  h \in Batch /\ <<h, 0>> \in TasksOf(h)
<1>1. h \in Batch /\ Slots[h] = {0}
  BY JobBackendAssumption DEF JobBackendAssumption
<1>2. <<h, 0>> \in {h} \X {0}
  OBVIOUS
<1>. QED
  BY <1>1, <1>2 DEF TasksOf

LEMMA SettledStarts == Init => SettledInv
BY JobBackendAssumption DEF JobBackendAssumption, Init, BackendInit, SettledInv

(* Nothing is told in a step that leaves answers and cache alone, and what *)
(* was told stays, as long as nothing settled becomes pending again.       *)
LEMMA SettledKept ==
  ASSUME CInv, SettledInv, UNCHANGED <<answers, cache>>, registered \subseteq registered',
         \A b \in Batch : b \in pending' => b \in pending \/ b \notin registered,
         \A b \in Batch : b \notin pending /\ b \in registered => Slotted(b)' = Slotted(b)
  PROVE  SettledInv'
<1>1. \A b \in Batch : answers[b] # {} => b \in registered
  BY DEF CInv, Exclusive
<1>2. Handle \subseteq Batch
  BY JobBackendAssumption DEF JobBackendAssumption
<1>3. ASSUME NEW b \in Batch, b \in registered, NEW v, Said(b, v)
      PROVE  Said(b, v)'
  BY <1>3 DEF Said, KilledAnswer
<1>4. \A b \in Batch : \A v \in answers'[b] : Said(b, v)'
  BY <1>1, <1>3 DEF SettledInv
<1>5. \A h \in Handle : cache'[h] # NoAnswer => Said(h, cache[h])' /\ h \in registered'
  BY <1>2, <1>3 DEF SettledInv
<1>. QED
  BY <1>4, <1>5 DEF SettledInv, KilledAnswer

LEMMA SlotsKept ==
  ASSUME UNCHANGED results
  PROVE  \A b : Slotted(b)' = Slotted(b)
BY DEF Slotted

(* A call that returns tells what the slots hold.                          *)
LEMMA ReturnSettles ==
  ASSUME CInv, SettledInv, NEW c \in Caller, ReturnSettled(c) \/ ReturnExpired(c)
  PROVE  /\ SettledInv'
         /\ \A b \in Batch : answers'[b] # answers[b] => answers[b] \subseteq {KilledAnswer(b)}
         /\ \A h \in Handle : cache[h] \notin {NoAnswer, KilledAnswer(h)} => cache'[h] = cache[h]
<1>0. /\ waiting \in [Caller -> registered \cup {NoBatch}] /\ registered \subseteq Batch
      /\ answers \in [Batch -> SUBSET AnyAnswer] /\ DOMAIN cache = Handle /\ Handle \subseteq Batch
      /\ done \subseteq registered /\ NoBatch \notin Batch
  BY CollectorAssumption, JobBackendAssumption
  DEF CInv, IInv, TypeOK, BackendTypeOK, CollectorTypeOK, CollectorAssumption,
      JobBackendAssumption
<1>1. PICK b : b = waiting[c]
  OBVIOUS
<1>2. /\ b \in registered /\ b \in Batch /\ Return(b)
      /\ pending' = pending \ {b} /\ UNCHANGED <<registered, results>>
  BY <1>0, <1>1 DEF ReturnSettled, ReturnExpired, Settle, Expire, StopWaiting
<1>3. PICK v : v = Slotted(b)
  OBVIOUS
<1>4. v # NoAnswer => Slotted(b)' = v
  BY <1>2, <1>3, SlotsKept
<1>5. CASE UNCHANGED <<answers, cache>>
  <2>1. SettledInv'
    BY <1>0, <1>2, <1>5, SlotsKept, SettledKept
  <2>. QED
    BY <1>5, <2>1
<1>6. CASE /\ answers' = [answers EXCEPT ![b] = @ \cup {v}]
           /\ cache' = IF b \in Handle THEN [cache EXCEPT ![b] = v] ELSE cache
  <2>1. \A x \in Batch : \A w : Said(x, w) => Said(x, w)'
    BY <1>2, SlotsKept DEF Said, KilledAnswer
  <2>2. Said(b, v)'
    BY <1>2, <1>3, SlotsKept DEF Said
  <2>3. \A x \in Batch : answers'[x] = IF x = b THEN answers[x] \cup {v} ELSE answers[x]
    BY <1>0, <1>2, <1>6
  <2>4. \A h \in Handle : cache'[h] = IF h = b THEN v ELSE cache[h]
    BY <1>0, <1>6
  <2>5. ASSUME b \in Handle PROVE v # NoAnswer
    <3>1. TasksOf(b) # {}
      BY <2>5, HandleTask
    <3>2. DOMAIN v = TasksOf(b)
      BY <1>3 DEF Slotted
    <3>3. DOMAIN NoAnswer = {}
      BY DEF NoAnswer
    <3>. QED
      BY <3>1, <3>2, <3>3
  <2>6. ASSUME b \in Handle PROVE v # KilledAnswer(b)
    <3>1. TasksOf(b) # {}
      BY <2>6, HandleTask
    <3>2. PICK t \in TasksOf(b) : TRUE
      BY <3>1
    <3>3. KilledAnswer(b)[t] = Killed
      BY <3>2 DEF KilledAnswer
    <3>4. v[t] = results[t] /\ results[t] \in Msg \cup {NoMsg}
      BY <1>2, <1>3, <3>2, TaskFacts DEF Slotted, CInv, IInv, TypeOK, BackendTypeOK,
         CollectorTypeOK, Task
    <3>. QED
      BY <3>3, <3>4, JobBackendAssumption DEF JobBackendAssumption
  <2>7. \A w \in answers[b] : w = KilledAnswer(b) \/ w = v
    BY <1>2, <1>3 DEF SettledInv, Said
  <2>8. b \in Handle /\ cache[b] \notin {NoAnswer, KilledAnswer(b)} => cache[b] = v
    BY <1>3 DEF SettledInv, Said
  <2>9. SettledInv'
    <3>1. \A x \in Batch : \A w \in answers'[x] : Said(x, w)'
      BY <2>1, <2>2, <2>3 DEF SettledInv
    <3>2. \A h \in Handle : cache'[h] # NoAnswer => (Said(h, cache[h]))' /\ h \in registered'
      <4>. SUFFICES ASSUME NEW h \in Handle, NEW w, w = cache'[h], w # NoAnswer
                    PROVE  Said(h, w)' /\ h \in registered'
        OBVIOUS
      <4>. QED
        BY <1>0, <1>2, <2>1, <2>2, <2>4 DEF SettledInv
    <3>3. \A h \in Handle : answers'[h] # {} => cache'[h] # NoAnswer
      BY <1>0, <2>3, <2>4, <2>5 DEF SettledInv
    <3>4. \A h \in Handle : cache'[h] = KilledAnswer(h) => answers'[h] \subseteq {KilledAnswer(h)}
      BY <1>0, <2>3, <2>4, <2>6 DEF SettledInv
    <3>. QED
      BY <3>1, <3>2, <3>3, <3>4 DEF SettledInv, KilledAnswer
  <2>. QED
    BY <2>3, <2>4, <2>7, <2>8, <2>9
<1>. QED
  BY <1>2, <1>3, <1>5, <1>6 DEF Return

LEMMA KillSettles ==
  ASSUME CInv, SettledInv, NEW h \in Handle, Kill(h)
  PROVE  /\ SettledInv'
         /\ \A b \in Batch : answers'[b] # answers[b] => answers[b] \subseteq {KilledAnswer(b)}
         /\ \A x \in Handle : cache[x] \notin {NoAnswer, KilledAnswer(x)} => cache'[x] = cache[x]
<1>1. /\ cache[h] = NoAnswer /\ UNCHANGED <<answers, pending, registered, results>>
      /\ h \in registered
      /\ \A x \in Handle : cache'[x] = IF x = h THEN KilledAnswer(h) ELSE cache[x]
  BY DEF Kill, collectorVars, CInv, Exclusive, IInv, TypeOK, BackendTypeOK
<1>2. answers[h] = {}
  BY <1>1 DEF SettledInv
<1>3. \A b, v : Said(b, v)' <=> Said(b, v)
  BY <1>1, SlotsKept DEF Said, KilledAnswer
<1>4. \A b \in Batch : \A v \in answers'[b] : Said(b, v)'
  BY <1>1, <1>3 DEF SettledInv
<1>5. \A x \in Handle : cache'[x] # NoAnswer => (Said(x, cache[x]))' /\ x \in registered'
  <2>. SUFFICES ASSUME NEW x \in Handle, NEW w, w = cache'[x], w # NoAnswer
                PROVE  Said(x, w)' /\ x \in registered'
    OBVIOUS
  <2>1. Said(x, w)
    BY <1>1 DEF SettledInv, Said
  <2>. QED
    BY <1>1, <1>3, <2>1 DEF SettledInv
<1>6. KilledAnswer(h) # NoAnswer
  <2>1. TasksOf(h) # {} /\ DOMAIN KilledAnswer(h) = TasksOf(h)
    BY HandleTask DEF KilledAnswer
  <2>2. DOMAIN NoAnswer = {}
    BY DEF NoAnswer
  <2>. QED
    BY <2>1, <2>2
<1>7. SettledInv'
  <2>1. /\ \A x \in Handle : answers'[x] # {} => cache'[x] # NoAnswer
        /\ \A x \in Handle : cache'[x] = KilledAnswer(x) => answers'[x] \subseteq {KilledAnswer(x)}
    BY <1>1, <1>2, <1>6 DEF SettledInv
  <2>. QED
    BY <1>4, <1>5, <2>1 DEF SettledInv, KilledAnswer
<1>. QED
  BY <1>1, <1>7

LEMMA CachedSettles ==
  ASSUME CInv, SettledInv, NEW c \in Caller, NEW h \in Handle, ResultFromCache(c, h)
  PROVE  /\ SettledInv'
         /\ \A b \in Batch : answers'[b] # answers[b] => answers[b] \subseteq {KilledAnswer(b)}
<1>1. /\ cache[h] # NoAnswer /\ UNCHANGED <<cache, pending, registered, results>>
      /\ \A b \in Batch : answers'[b] = IF b = h THEN answers[b] \cup {cache[h]} ELSE answers[b]
      /\ h \in Batch
  BY JobBackendAssumption
  DEF ResultFromCache, collectorVars, CInv, IInv, TypeOK, BackendTypeOK, JobBackendAssumption
<1>2. \A b, v : Said(b, v)' <=> Said(b, v)
  BY <1>1, SlotsKept DEF Said, KilledAnswer
<1>3. Said(h, cache[h])
  BY <1>1 DEF SettledInv
<1>4. \A b \in Batch : \A v \in answers'[b] : Said(b, v)'
  BY <1>1, <1>2, <1>3 DEF SettledInv
<1>5. \A x \in Handle : cache'[x] # NoAnswer => (Said(x, cache[x]))' /\ x \in registered'
  <2>. SUFFICES ASSUME NEW x \in Handle, NEW w, w = cache'[x], w # NoAnswer
                PROVE  Said(x, w)' /\ x \in registered'
    OBVIOUS
  <2>. QED
    BY <1>1, <1>2 DEF SettledInv
<1>6. \A x \in Handle : x \in Batch
  BY JobBackendAssumption DEF JobBackendAssumption
<1>7. \A x \in Handle : answers'[x] # {} => cache'[x] # NoAnswer
  BY <1>1, <1>6 DEF SettledInv
<1>8. \A x \in Handle : cache'[x] = KilledAnswer(x) => answers'[x] \subseteq {KilledAnswer(x)}
  BY <1>1, <1>6 DEF SettledInv
<1>9. \A w \in answers[h] : w = KilledAnswer(h) \/ w = Slotted(h)
  BY <1>1 DEF SettledInv, Said
<1>10. answers'[h] # answers[h] => answers[h] \subseteq {KilledAnswer(h)}
  <2>1. CASE cache[h] = KilledAnswer(h)
    BY <2>1 DEF SettledInv
  <2>2. CASE cache[h] = Slotted(h)
    BY <1>1, <1>9, <2>2
  <2>. QED
    BY <1>3, <2>1, <2>2 DEF Said
<1>. QED
  BY <1>1, <1>4, <1>5, <1>7, <1>8, <1>10 DEF SettledInv, KilledAnswer

LEMMA SettledStep ==
  ASSUME CInv, SettledInv, [Next]_vars
  PROVE  /\ SettledInv'
         /\ \A b \in Batch : answers'[b] # answers[b] => answers[b] \subseteq {KilledAnswer(b)}
         /\ \A h \in Handle : cache[h] \notin {NoAnswer, KilledAnswer(h)} => cache'[h] = cache[h]
<1>1. CASE \E c \in Caller : ReturnSettled(c) \/ ReturnExpired(c)
  BY <1>1, ReturnSettles
<1>2. CASE \E h \in Handle : Kill(h)
  BY <1>2, KillSettles
<1>3. CASE \E c \in Caller, h \in Handle : ResultFromCache(c, h)
  <2>1. cache' = cache
    BY <1>3 DEF ResultFromCache
  <2>. QED
    BY <1>3, <2>1, CachedSettles
<1>4. ASSUME NEW m \in replies, ReceiveReply(m) PROVE SettledInv' /\ UNCHANGED <<answers, cache>>
  <2>1. /\ UNCHANGED <<answers, cache, pending, registered>>
        /\ BatchOf(TaskOf(m)) \notin pending => results' = results
        /\ BatchOf(TaskOf(m)) \in pending => results' = [results EXCEPT ![TaskOf(m)] = m]
    BY <1>4 DEF ReceiveReply, OnMessage, backendVars
  <2>2. \A b \in Batch : b \notin pending => Slotted(b)' = Slotted(b)
    <3>. SUFFICES ASSUME NEW b \in Batch, b \notin pending PROVE Slotted(b)' = Slotted(b)
      OBVIOUS
    <3>1. \A t \in TasksOf(b) : BatchOf(t) = b /\ results'[t] = results[t]
      BY <2>1, TaskFacts DEF TasksOf, BatchOf, CInv, IInv, TypeOK, BackendTypeOK,
         CollectorTypeOK
    <3>. QED
      BY <3>1 DEF Slotted
  <2>. QED
    BY <2>1, <2>2, SettledKept
<1>5. ASSUME NEW c \in Caller, CallerStep(c),
             ~(ReturnSettled(c) \/ ReturnExpired(c)),
             ~\E h \in Handle : ResultFromCache(c, h)
      PROVE  SettledInv' /\ UNCHANGED <<answers, cache>>
  <2>1. /\ UNCHANGED <<answers, cache, results>> /\ registered \subseteq registered'
        /\ \A b \in Batch : b \in pending' => b \in pending \/ b \notin registered
    BY <1>5 DEF CallerStep, Spawn, Gather, Begin, Register, Publish, PublishFails,
       AbandonPublish, Result, ResultUnknown, ResultAwaits, Abandon, Cancel, StopWaiting,
       collectorVars, backendVars
  <2>. QED
    BY <2>1, SlotsKept, SettledKept
<1>6. ASSUME UNCHANGED <<backendVars, collectorVars>>
      PROVE  SettledInv' /\ UNCHANGED <<answers, cache>>
  <2>1. UNCHANGED <<answers, cache, results, registered, pending>>
    BY <1>6 DEF backendVars, collectorVars
  <2>. QED
    BY <2>1, SlotsKept, SettledKept
<1>7. \/ \E c \in Caller : CallerStep(c)
      \/ \E h \in Handle : Kill(h)
      \/ \E m \in replies : ReceiveReply(m)
      \/ UNCHANGED <<backendVars, collectorVars>>
  BY DEF Next, vars, Publisher, Deliver, Redeliver, Hand, Acknowledge, Local, SendReply,
     StopWorker, CrashWorker
<1>. QED
  BY <1>1, <1>2, <1>3, <1>4, <1>5, <1>6, <1>7

(* What is told of a handle or a batch changes at most once, from killed   *)
(* to a report, for any number of callers, kills, timeouts and duplicates: *)
(* whoever waits for one handle is told the same (JobBackend.result, kill, *)
(* ResultCollector.gather_batch).                                          *)
THEOREM SettledCorrect == Spec => AnswersSettle
<1>1. CInv /\ SettledInv /\ [Next]_vars => SettledInv'
  BY SettledStep
<1>2. CInv /\ SettledInv /\ [Next]_vars =>
        [/\ \A b \in Batch :
              answers'[b] # answers[b] => answers[b] \subseteq {KilledAnswer(b)}
         /\ \A h \in Handle :
              cache[h] \notin {NoAnswer, KilledAnswer(h)} => cache'[h] = cache[h]]_vars
  BY SettledStep
<1>. QED
  BY <1>1, <1>2, SettledStarts, ContractInv, PTL DEF Spec, AnswersSettle
=============================================================================
