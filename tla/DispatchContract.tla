---------------------------- MODULE DispatchContract ----------------------------
(***************************************************************************)
(* What the broker round trip promises to whoever calls result() or        *)
(* gather(), with everything in between left out: executions of tasks      *)
(* report at most once each, and a call returns one entry per slot, each   *)
(* entry being the report of some execution of that slot's task.  Without  *)
(* a timeout no entry is missing.  A call made through AgentRuntime        *)
(* returns at most once.                                                   *)
(***************************************************************************)
EXTENDS Wire

CONSTANTS Handle, Direct, HasTimeout, Killed

VARIABLES
  executed,     (* the reports the fleet has published                      *)
  answers       (* answers[b]: the result lists calls on b have returned    *)

Init ==
  /\ executed = {}
  /\ answers = [b \in Batch |-> {}]

Execute(m) ==
  /\ \A n \in executed : n.run # m.run
  /\ executed' = executed \cup {m}
  /\ UNCHANGED answers

(* v holds, for every slot, a report on that slot's task, or nothing.      *)
Reported(b, v) ==
  \A t \in TasksOf(b) : \/ v[t] \in executed /\ TaskOf(v[t]) = t
                        \/ v[t] = NoMsg /\ HasTimeout

Resolve(b, v) ==
  /\ \/ Reported(b, v)
     \/ b \in Direct /\ \A t \in TasksOf(b) : v[t] = Killed
  /\ b \notin Direct => answers[b] = {}
  /\ answers' = [answers EXCEPT ![b] = @ \cup {v}]
  /\ UNCHANGED executed

Next ==
  \/ \E m \in Msg : Execute(m)
  \/ \E b \in Batch :
       \E v \in [TasksOf(b) -> executed \cup {NoMsg, Killed}] : Resolve(b, v)

Spec == Init /\ [][Next]_<<executed, answers>>
=============================================================================
