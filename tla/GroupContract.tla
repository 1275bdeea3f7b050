------------------------------ MODULE GroupContract ------------------------------
(***************************************************************************)
(* What run_group promises to whoever submits a group, with tiers, edges,  *)
(* tasks and mappers left out: every agent gets at most one outcome, in an *)
(* order that respects what it needs, and a verdict on the whole is given  *)
(* when nothing is running any more.  The group returns only if every      *)
(* agent has come to its outcome; it raises only for a reason.             *)
(***************************************************************************)
CONSTANT Node

VARIABLES
  plan,         (* the agents, which ones each needs, and the optional needs *)
  outcome,      (* outcome[n]: what has become of n                         *)
  cancelled,    (* the caller has cancelled                                 *)
  verdict       (* "open" until the group is refused, returns or raises     *)

Success == {"ok", "some"}

Failure == {"failed", "dead"}

Decided == Success \cup Failure \cup {"skipped"}

Init ==
  /\ plan.nodes \subseteq Node
  /\ plan.needs \in [Node -> SUBSET plan.nodes]
  /\ plan.optional \subseteq plan.nodes \X Node
  /\ outcome = [n \in Node |-> "waiting"]
  /\ cancelled = FALSE
  /\ verdict = "open"

(* All that n needs has been decided, and n has not.                       *)
Ready(n) ==
  /\ n \in plan.nodes /\ outcome[n] = "waiting"
  /\ \A u \in plan.needs[n] : outcome[u] \in Decided

Becomes(n, what) ==
  /\ verdict = "open"
  /\ outcome' = [outcome EXCEPT ![n] = what]
  /\ UNCHANGED <<plan, cancelled, verdict>>

Call(n) ==
  /\ Ready(n)
  /\ plan.needs[n] = {} \/ \E u \in plan.needs[n] : outcome[u] \in Success
  /\ Becomes(n, "called")

(* An agent that needs one other is skipped with it, or if the need is     *)
(* optional, but not because the other has failed.                         *)
Skip(n) ==
  /\ Ready(n)
  /\ \E u \in plan.nodes :
       /\ plan.needs[n] = {u}
       /\ outcome[u] = "skipped" \/ (outcome[u] \in Success /\ <<u, n>> \in plan.optional)
  /\ Becomes(n, "skipped")

Answer(n) ==
  /\ outcome[n] = "called"
  /\ \E v \in Success \cup Failure : Becomes(n, v)

(* An agent is lost to an error or a cancellation.                         *)
Lose(n) ==
  /\ Ready(n) \/ outcome[n] = "called"
  /\ Becomes(n, "lost")

Cancel ==
  /\ verdict = "open"
  /\ cancelled' = TRUE
  /\ UNCHANGED <<plan, outcome, verdict>>

AllDecided == \A n \in plan.nodes : outcome[n] \in Decided

(* The results of those nobody needs are returned, if there are any: one   *)
(* of each, successful or not.                                             *)
Fired ==
  {n \in plan.nodes : /\ \A m \in plan.nodes : n \notin plan.needs[m]
                      /\ outcome[n] # "skipped"}

Presentable == Fired # {} /\ \A n \in Fired : outcome[n] \in {"ok", "failed"}

Decide(how) ==
  /\ verdict = "open" /\ \A n \in Node : outcome[n] # "called"
  /\ verdict' = how
  /\ UNCHANGED <<plan, outcome, cancelled>>

Refuse == (\A n \in Node : outcome[n] = "waiting") /\ Decide("refused")

Return == AllDecided /\ Presentable /\ Decide("returned")

Raise ==
  /\ \/ cancelled
     \/ \E n \in plan.nodes : outcome[n] = "lost"
     \/ AllDecided /\ ~Presentable
  /\ Decide("raised")

Next ==
  \/ \E n \in Node : Call(n) \/ Skip(n) \/ Answer(n) \/ Lose(n)
  \/ Cancel \/ Refuse \/ Return \/ Raise

Spec == Init /\ [][Next]_<<plan, outcome, cancelled, verdict>>
=============================================================================
