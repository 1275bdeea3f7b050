---------------------------------- MODULE Wire ----------------------------------
(***************************************************************************)
(* messages.py: the envelopes that cross the broker.  A TaskMessage is the *)
(* task id "{batch_id}-{slot}", here the pair <<batch, slot>>; its other   *)
(* fields are echoed or play no part in the protocol.  A ResultMessage     *)
(* names the task it answers and what the execution reports.               *)
(***************************************************************************)
EXTENDS Naturals

CONSTANTS
  Batch,      (* batch ids: uuid4, never used twice                         *)
  Slots,      (* Slots[b]: the slot numbers of batch b, one per task        *)
  MaxRuns,    (* bound: how often one task may be delivered                 *)
  NoMsg       (* the absence of a ResultMessage                             *)

ASSUME WireAssumption ==
  /\ Slots \in [Batch -> (SUBSET Nat) \ {{}}]  (* gather([]) sends nothing *)
  /\ MaxRuns \in Nat \ {0}

TasksOf(b) == {b} \X Slots[b]

Task == UNION {TasksOf(b) : b \in Batch}

BatchOf(t) == t[1]

(* success with a payload that fits the agent's output_type, failure, or   *)
(* success with a payload the publisher's output_type rejects.             *)
Outcome == {"ok", "error", "malformed"}

(* The k-th delivery of a task to the fleet.                               *)
Run == Task \X (1..MaxRuns)

(* A ResultMessage; run, which the wire does not carry, tells the model    *)
(* which execution of the task wrote it.                                   *)
Msg == [run : Run, outcome : Outcome]

TaskOf(m) == m.run[1]

ASSUME NoMsgAssumption == NoMsg \notin Msg
=============================================================================
