---------------------------- MODULE ResultCollector ----------------------------
(***************************************************************************)
(* backends/_collector.py: the publisher's half of the broker round trip.  *)
(* A batch is registered before its tasks are published; every inbound     *)
(* ResultMessage is filed under its batch, or dropped as an orphan when    *)
(* nobody has that batch registered (any more); a coroutine that awaits    *)
(* the batch sleeps on the batch's Event and takes the batch out of        *)
(* _pending when it stops waiting, for whatever reason.                    *)
(***************************************************************************)
EXTENDS Wire

CONSTANTS
  Caller,     (* coroutines of the publisher that may await a batch         *)
  NoBatch     (* the caller awaits nothing                                  *)

ASSUME CollectorAssumption == NoBatch \notin Batch

VARIABLES
  registered,   (* batch ids ever passed to register()                      *)
  pending,      (* keys of ResultCollector._pending                         *)
  results,      (* results[t]: _BatchState.results of t's batch, at t       *)
  done,         (* batches whose _BatchState.done event is set              *)
  waiting       (* waiting[c]: the batch c sleeps on in gather_batch        *)

collectorVars == <<registered, pending, results, done, waiting>>

CollectorInit ==
  /\ registered = {}
  /\ pending = {}
  /\ results = [t \in Task |-> NoMsg]
  /\ done = {}
  /\ waiting = [c \in Caller |-> NoBatch]

-----------------------------------------------------------------------------
(* register(): the id is fresh, so the "already registered" raise is dead. *)
Register(b) ==
  /\ b \notin registered
  /\ registered' = registered \cup {b}
  /\ pending' = pending \cup {b}
  /\ UNCHANGED <<results, done>>

(* gather_batch() up to its await: the caller keeps a reference to the     *)
(* _BatchState, which outlives the _pending entry.                         *)
Await(c, b) ==
  /\ waiting[c] = NoBatch
  /\ b \in pending
  /\ waiting' = [waiting EXCEPT ![c] = b]

StopWaitingKeepsEntry(c) ==              \* mutant: no finally clause
  /\ waiting' = [waiting EXCEPT ![c] = NoBatch]
  /\ UNCHANGED <<registered, pending, results, done>>

(* The finally clause of gather_batch().                                   *)
StopWaiting(c) ==
  /\ waiting' = [waiting EXCEPT ![c] = NoBatch]
  /\ pending' = pending \ {waiting[c]}
  /\ UNCHANGED <<registered, results, done>>

(* The awaited event was set: gather_batch returns the slots in order.     *)
Settle(c) ==
  /\ waiting[c] \in done
  /\ StopWaiting(c)

(* The collector's own timeout: gather_batch returns what has arrived. The *)
(* clock may fire although the event was set a moment ago.                 *)
Expire(c) ==
  /\ waiting[c] # NoBatch
  /\ StopWaiting(c)

(* The caller is cancelled from outside (asyncio.timeout of the pipeline): *)
(* the CancelledError leaves through the same finally clause.              *)
Cancel(c) ==
  /\ waiting[c] # NoBatch
  /\ StopWaiting(c)

(* _on_message(): last write wins in the slot; the event is set once there *)
(* are as many results as expected.                                        *)
Complete(b, r) == \A t \in TasksOf(b) : r[t] # NoMsg

(* Deliberately wrong variants, used to check that the properties can fail *)
(* (PROJECT.json, "mutants"): a handler that unregisters the batch it      *)
(* completes, one that wakes the caller at the first arrival, one that     *)
(* files by order of arrival, one that counts arrivals instead of slots.   *)
Filed(m, t, woken, left) ==
  LET b == BatchOf(TaskOf(m))
  IN  /\ IF b \in pending
         THEN /\ results' = [results EXCEPT ![t] = m]
              /\ done' = IF woken THEN done \cup {b} ELSE done
         ELSE UNCHANGED <<results, done>>
      /\ pending' = pending \ left
      /\ UNCHANGED <<registered, waiting>>

OnMessageUnregisters(m) ==
  LET b == BatchOf(TaskOf(m))
  IN  Filed(m, TaskOf(m), Complete(b, results'), IF Complete(b, results') THEN {b} ELSE {})

OnMessageInArrivalOrder(m) ==
  LET b == BatchOf(TaskOf(m))
      empty == {t \in TasksOf(b) : results[t] = NoMsg}
      t == IF empty = {} THEN TaskOf(m)
           ELSE CHOOSE u \in empty : \A x \in empty : u[2] <= x[2]
  IN  Filed(m, t, Complete(b, results'), {})

OnMessageCountsArrivals(m) ==
  Filed(m, TaskOf(m),
        Complete(BatchOf(TaskOf(m)), results') \/ results[TaskOf(m)] # NoMsg, {})

OnMessage(m) ==
  LET b == BatchOf(TaskOf(m))
  IN  /\ IF b \in pending
         THEN /\ results' = [results EXCEPT ![TaskOf(m)] = m]
              /\ done' = IF Complete(b, results') THEN done \cup {b} ELSE done
         ELSE UNCHANGED <<results, done>>     (* collector_orphan_result *)
      /\ UNCHANGED <<registered, pending, waiting>>

-----------------------------------------------------------------------------
CollectorTypeOK ==
  /\ registered \subseteq Batch
  /\ pending \subseteq registered
  /\ results \in [Task -> Msg \cup {NoMsg}]
  /\ done \subseteq registered
  /\ waiting \in [Caller -> registered \cup {NoBatch}]

(* The wake-up is exact: while a batch can still be waited for, its event  *)
(* is set if and only if every slot has a result (_on_message compares     *)
(* len(results) with expected at every arrival, so a duplicate must not    *)
(* stand in for a missing slot and the last arrival must not be missed).   *)
WakeUpExact ==
  \A b \in registered : b \in done <=> Complete(b, results)
=============================================================================
