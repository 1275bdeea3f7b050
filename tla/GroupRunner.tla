------------------------------- MODULE GroupRunner -------------------------------
(***************************************************************************)
(* groups/runner.py: the walk over the tiers of a group.  The nodes of a   *)
(* tier are resolved concurrently; each looks at its incoming edges, whose *)
(* predicates may suspend it, and then makes one call, runtime.run or      *)
(* runtime.gather, which answers when it likes, fails, or raises.  The     *)
(* first error cancels the rest of the tier, which is awaited before the   *)
(* error goes on.                                                          *)
(*                                                                         *)
(* The values of a node: "ok" and "failed" for one AgentResult, "some" and *)
(* "dead" for a batch with and without a success ("dead" if it is empty).  *)
(***************************************************************************)
EXTENDS GroupTopology

CONSTANT MaxCancels    (* how often the caller may cancel the walk          *)

ASSUME RunnerAssumption == MaxCancels \in Nat

VARIABLES
  turn,         (* the tier being walked                                    *)
  at,           (* at[n]: what resolving n has come to                      *)
  pos,          (* pos[n]: the last incoming edge looked at                 *)
  feed,         (* feed[n]: upstreams with a contribution that is not []    *)
  alive,        (* nodes with any_alive set                                 *)
  value,        (* value[n]: the outcome of n, "skipped" for _SKIPPED       *)
  made,         (* made[n]: classes of the items in n's output              *)
  given,        (* given[n]: classes of the items n's batch is made of      *)
  told,         (* tasks that have been cancelled                           *)
  cancels       (* cancellations of the walk so far                         *)

walkVars == <<turn, at, pos, feed, alive, value, made, given, told, cancels>>

vars == <<topologyVars, walkVars>>

Init ==
  /\ TopologyInit
  /\ turn = 0
  /\ at = [n \in Node |-> "idle"]
  /\ pos = [n \in Node |-> 0]
  /\ feed = [n \in Node |-> {}]
  /\ alive = {}
  /\ value = [n \in Node |-> "none"]
  /\ made = [n \in Node |-> {}]
  /\ given = [n \in Node |-> {}]
  /\ told = {}
  /\ cancels = 0

Tier == IF turn = 0 THEN {} ELSE tiers[turn]

(* gaveUp: AllAgentsFailedError; broken: any other error.                  *)
Finished == {"settled", "gaveUp", "broken", "cancelled"}

InFlight == {n \in Node : at[n] \in {"asking", "running", "gathering"}}

(* `results' and `skipped': what earlier tiers have stored.                *)
Stored(n) ==
  IF \E i \in 1..(turn - 1) : n \in tiers[i] THEN value[n] ELSE "none"

Dead(v) == v \in {"failed", "dead"}

Absent(v) == v \in {"skipped", "none"}

-----------------------------------------------------------------------------
(* mutant: the walk goes on when the first node of the tier has settled.   *)
NextTierEarly ==
  /\ phase = "walking" /\ turn < Len(tiers)
  /\ Tier # {} => \E n \in Tier : at[n] = "settled"
  /\ turn' = turn + 1
  /\ at' = [n \in Node |-> IF n \in tiers[turn + 1] THEN "asking" ELSE at[n]]
  /\ told' = {}
  /\ UNCHANGED <<topologyVars, pos, feed, alive, value, made, given, cancels>>

(* The walk goes on to the next tier when all of the last one is stored.   *)
NextTier ==
  /\ phase = "walking" /\ turn < Len(tiers)
  /\ \A n \in Tier : at[n] = "settled"
  /\ turn' = turn + 1
  /\ at' = [n \in Node |-> IF n \in tiers[turn + 1] THEN "asking" ELSE at[n]]
  /\ told' = {}
  /\ UNCHANGED <<topologyVars, pos, feed, alive, value, made, given, cancels>>

Settle(n, v) ==
  /\ at' = [at EXCEPT ![n] = "settled"]
  /\ value' = [value EXCEPT ![n] = v]

Stop(n, how) ==
  /\ at' = [at EXCEPT ![n] = how]
  /\ UNCHANGED value

(* A call is made: runtime.run, or runtime.gather of items of such classes.*)
Run(n) ==
  /\ at' = [at EXCEPT ![n] = "running"]
  /\ UNCHANGED <<value, given>>

Gather(n, classes) ==
  /\ at' = [at EXCEPT ![n] = "gathering"]
  /\ given' = [given EXCEPT ![n] = classes]
  /\ UNCHANGED value

(* The mapper returns a TaskSpec or a list of them, raises, or returns     *)
(* something else.                                                         *)
CallMapper(n) ==
  \/ Run(n)
  \/ \E classes \in {{}, Class} : Gather(n, classes)
  \/ Stop(n, "broken") /\ UNCHANGED given

(* An entry node gets the task of the group.                               *)
Enter(n) ==
  /\ at[n] = "asking" /\ n \notin told /\ Incoming(n) = {}
  /\ Run(n)
  /\ UNCHANGED <<topologyVars, turn, pos, feed, alive, made, told, cancels>>

(* The items a handler is given by type: isinstance(item, input_type).     *)
IsA(c, d) == c = d \/ <<c, d>> \in Subclass

Matched(n, items) == {c \in items : IsA(c, group.takes[n])}

Unexpected(src) ==
  \E c \in made[src] : \A d \in group.items[src] : ~IsA(c, d)

(* _dispatch_single_input over arrow i, its condition having fired.        *)
Routed(i) == ~Mapper(i) /\ Mixed(From(i)) /\ Takes(i) # NoType

DispatchOne(n, i) ==
  LET up == Stored(From(i))
  IN  \/ Mapper(i) /\ CallMapper(n)
      \/ /\ ~Mapper(i) /\ up = "some"
         /\ Stop(n, "broken") /\ UNCHANGED given
      \/ /\ Routed(i) /\ up = "ok"
         /\ IF Unexpected(From(i))
            THEN Stop(n, "broken") /\ UNCHANGED given
            ELSE Gather(n, Matched(n, made[From(i)]))
      \/ /\ ~Mapper(i) /\ ~Routed(i) /\ up = "ok"
         /\ IF group.items[From(i)] # {} THEN Gather(n, made[From(i)]) ELSE Run(n)

(* One incoming edge: the node is skipped with its upstream or when the    *)
(* condition does not hold, and gives up if the upstream is dead.          *)
FollowEdgeSkipsDead(n) ==                \* mutant: a dead upstream is skipped
  /\ at[n] = "asking" /\ n \notin told /\ Cardinality(Incoming(n)) = 1
  /\ \E i \in Incoming(n) :
       LET up == Stored(From(i))
       IN  \/ /\ Absent(up) \/ Dead(up) \/ Cond(i)
              /\ Settle(n, "skipped")
              /\ UNCHANGED given
           \/ ~Absent(up) /\ ~Dead(up) /\ DispatchOne(n, i)
  /\ UNCHANGED <<topologyVars, turn, pos, feed, alive, made, told, cancels>>

FollowEdge(n) ==
  /\ at[n] = "asking" /\ n \notin told /\ Cardinality(Incoming(n)) = 1
  /\ \E i \in Incoming(n) :
       LET up == Stored(From(i))
       IN  \/ /\ Absent(up) \/ (Cond(i) /\ ~Dead(up))
              /\ Settle(n, "skipped")
              /\ UNCHANGED given
           \/ /\ Dead(up)
              /\ Stop(n, "gaveUp")
              /\ UNCHANGED given
           \/ /\ Cond(i) /\ ~Absent(up) /\ ~Dead(up)
              /\ Stop(n, "broken")
              /\ UNCHANGED given
           \/ ~Absent(up) /\ ~Dead(up) /\ DispatchOne(n, i)
  /\ UNCHANGED <<topologyVars, turn, pos, feed, alive, made, told, cancels>>

(* Several incoming edges are looked at one after the other; a later edge  *)
(* from the same upstream replaces what an earlier one contributed.  A     *)
(* condition is asked of a batch without a success too.                    *)
Unseen(n) == {i \in Incoming(n) : i > pos[n]}

Contribute(n, i, fed) ==
  /\ feed' = [feed EXCEPT ![n] = IF fed THEN @ \cup {From(i)} ELSE @ \ {From(i)}]
  /\ alive' = IF fed THEN alive \cup {n} ELSE alive
  /\ pos' = [pos EXCEPT ![n] = i]
  /\ UNCHANGED <<at, value>>

LookAtEdgeOrDead(n) ==                   \* mutant: a dead upstream counts
  /\ at[n] = "asking" /\ n \notin told /\ Cardinality(Incoming(n)) > 1
  /\ \E i \in Unseen(n) :
       /\ \A j \in Unseen(n) : i <= j
       /\ \/ Contribute(n, i, ~Absent(Stored(From(i))))
          \/ Cond(i) /\ Contribute(n, i, FALSE)
  /\ UNCHANGED <<topologyVars, turn, made, given, told, cancels>>

LookAtEdge(n) ==
  /\ at[n] = "asking" /\ n \notin told /\ Cardinality(Incoming(n)) > 1
  /\ \E i \in Unseen(n) :
       LET up == Stored(From(i))
       IN  /\ \A j \in Unseen(n) : i <= j
           /\ \/ Contribute(n, i, ~Absent(up) /\ ~Dead(up))
              \/ Cond(i) /\ up \in {"ok", "some"} /\ Contribute(n, i, FALSE)
              \/ /\ Cond(i) /\ up \in {"ok", "some", "dead"}
                 /\ Stop(n, "broken")
                 /\ UNCHANGED <<feed, alive, pos>>
  /\ UNCHANGED <<topologyVars, turn, made, given, told, cancels>>

(* All edges looked at: exactly one of them must bring the aggregator.     *)
Mappers(n) == {i \in Incoming(n) : Mapper(i)}

Aggregate(n) ==
  /\ at[n] = "asking" /\ n \notin told /\ Cardinality(Incoming(n)) > 1
  /\ Unseen(n) = {}
  /\ IF Cardinality(Mappers(n)) > 1 THEN Stop(n, "broken") /\ UNCHANGED given
     ELSE IF n \notin alive THEN Stop(n, "gaveUp") /\ UNCHANGED given
     ELSE IF Mappers(n) = {} THEN Stop(n, "broken") /\ UNCHANGED given
     ELSE CallMapper(n)
  /\ UNCHANGED <<topologyVars, turn, pos, feed, alive, made, told, cancels>>

(* What the items in the output of n may be: which classes matters only    *)
(* where they are routed by it.                                            *)
Makes(n) == IF Mixed(n) THEN SUBSET Class ELSE {{}, group.items[n]}

(* The call of n ends: with results, or by raising (the pre-flight checks  *)
(* of run() and gather(), a backend that cannot dispatch).  A cancelled    *)
(* call may end in either way, since the in-process backend makes a result *)
(* of a cancellation.                                                      *)
Answer(n) ==
  /\ \/ /\ at[n] = "running"
        /\ \/ \E items \in Makes(n) :
                Settle(n, "ok") /\ made' = [made EXCEPT ![n] = items]
           \/ Settle(n, "failed") /\ UNCHANGED made
           \/ Stop(n, "broken") /\ UNCHANGED made
     \/ /\ at[n] = "gathering"
        /\ \/ given[n] # {} /\ Settle(n, "some")
           \/ Settle(n, "dead")
           \/ Stop(n, "broken")
        /\ UNCHANGED made
  /\ UNCHANGED <<topologyVars, turn, pos, feed, alive, given, told, cancels>>

(* A CancelledError is raised where the task awaits.                       *)
Cancelled(n) ==
  /\ n \in told /\ at[n] \in {"asking", "running", "gathering"}
  /\ Stop(n, "cancelled")
  /\ UNCHANGED <<topologyVars, turn, pos, feed, alive, made, given, told, cancels>>

(* The gather over the tier has seen a task raise: cancel the others.      *)
TierFailsOnErrors ==                     \* mutant: except Exception
  /\ phase = "walking"
  /\ \E n \in Tier : at[n] \in {"gaveUp", "broken"}
  /\ phase' = "draining"
  /\ told' = InFlight
  /\ UNCHANGED <<group, white, stack, degree, tiers, turn, at, pos, feed, alive,
                 value, made, given, cancels>>

TierFails ==
  /\ phase = "walking"
  /\ \E n \in Tier : at[n] \in {"gaveUp", "broken", "cancelled"}
  /\ phase' = "draining"
  /\ told' = InFlight
  /\ UNCHANGED <<group, white, stack, degree, tiers, turn, at, pos, feed, alive,
                 value, made, given, cancels>>

(* All of them have ended: the error goes on.                              *)
DrainedAtOnce ==                         \* mutant: nobody waits for them
  /\ phase = "draining"
  /\ phase' = "raised"
  /\ UNCHANGED <<group, white, stack, degree, tiers, walkVars>>

Drained ==
  /\ phase = "draining" /\ InFlight = {}
  /\ phase' = "raised"
  /\ UNCHANGED <<group, white, stack, degree, tiers, walkVars>>

(* The caller cancels the walk.  The only node of a tier is awaited by the *)
(* walk itself; a gather passes the cancellation on to all and remembers   *)
(* it.  Cancelled while it drains the walk goes on draining: a gather ends *)
(* when all its tasks have.                                                *)
CallerCancels ==
  /\ phase = "walking" /\ cancels < MaxCancels
  /\ InFlight # {} \/ Cardinality(Tier) > 1
  /\ cancels' = cancels + 1
  /\ told' = InFlight
  /\ phase' = IF Cardinality(Tier) = 1 THEN "walking" ELSE "draining"
  /\ UNCHANGED <<group, white, stack, degree, tiers, turn, at, pos, feed, alive,
                 value, made, given>>

(* mutant: only terminal nodes that succeeded count as fired.              *)
FiredWell == {n \in TerminalNodes : value[n] \in {"ok", "some"}}

(* The last tier is stored.  A terminal node that was given a batch, or    *)
(* none that fired, is an error.                                           *)
Fired == {n \in TerminalNodes : ~Absent(value[n])}

Finish ==
  /\ phase = "walking" /\ turn = Len(tiers)
  /\ \A n \in Tier : at[n] = "settled"
  /\ phase' = IF Fired # {} /\ \A n \in Fired : value[n] \in {"ok", "failed"}
              THEN "returned" ELSE "raised"
  /\ UNCHANGED <<group, white, stack, degree, tiers, walkVars>>

Resolve(n) == Enter(n) \/ FollowEdge(n) \/ LookAtEdge(n) \/ Aggregate(n)

Walk ==
  \/ NextTier \/ TierFails \/ Drained \/ Finish
  \/ \E n \in Node : Resolve(n) \/ Answer(n) \/ Cancelled(n)

Next ==
  \/ TopologyNext /\ UNCHANGED walkVars
  \/ Walk
  \/ CallerCancels

Spec == Init /\ [][Next]_vars

(* Every task that can take a step takes one, and calls answer: agents end *)
(* by themselves, by their timeout, or by being cancelled.  The caller     *)
(* need not cancel.                                                        *)
FairSpec ==
  /\ Spec
  /\ WF_vars(TopologyNext /\ UNCHANGED walkVars)
  /\ WF_vars(NextTier \/ TierFails \/ Drained \/ Finish)
  /\ \A n \in Node : WF_vars(Resolve(n)) /\ WF_vars(Answer(n) \/ Cancelled(n))

-----------------------------------------------------------------------------
TypeOK ==
  /\ TopologyTypeOK
  /\ phase \in {"constructing", "visiting", "rejected", "sorting", "walking",
                 "draining", "returned", "raised"}
  /\ turn \in 0..Len(tiers)
  /\ at \in [Node -> {"idle", "asking", "running", "gathering"} \cup Finished]
  /\ pos \in [Node -> {0} \cup Arrows]
  /\ \A n \in Node : pos[n] \in {0} \cup Incoming(n)
  /\ feed \in [Node -> SUBSET Node]
  /\ alive \subseteq Node /\ told \subseteq Node
  /\ value \in [Node -> {"none", "skipped", "ok", "failed", "some", "dead"}]
  /\ made \in [Node -> SUBSET Class] /\ given \in [Node -> SUBSET Class]
  /\ cancels \in 0..MaxCancels

(* No node is looked at before the results of all its upstreams, skips     *)
(* included, are stored: `upstream not in results' (runner.py:394, 480)    *)
(* never takes a node that is merely late for one that was skipped.        *)
OrderRespected ==
  \A n \in Node : at[n] # "idle" => \A m \in Upstreams(n) : Stored(m) # "none"

(* Nothing of a group is in flight when run_group has returned or raised,  *)
(* however it ended: a failure, a cancellation, both.                      *)
EndsDrained == phase \in {"returned", "raised"} => InFlight = {}

(* Whoever names an upstream twice lets the later edge erase what the      *)
(* earlier one contributed, and is called all the same.                    *)
NamesOnce(n) == \A i, j \in Incoming(n) : From(i) = From(j) => i = j

(* A group that returns has lost nothing silently: whoever failed was a    *)
(* terminal node, whose result is returned, or fed only aggregators, each  *)
(* of which went by another upstream, which had succeeded.                 *)
FailureSurfaces ==
  phase = "returned" =>
    \A n \in group.nodes : Dead(value[n]) =>
      \A m \in Downstreams(n) :
        /\ Cardinality(Incoming(m)) > 1
        /\ \E u \in Upstreams(m) \ {n} :
             value[u] \in {"ok", "some"} /\ (NamesOnce(m) => u \in feed[m])

(* An aggregator is called only with something to aggregate, and finds a   *)
(* contribution under the names of upstreams that succeeded, only.         *)
FedByLive ==
  \A n \in Node :
    Cardinality(Incoming(n)) > 1 /\ at[n] \in {"running", "gathering", "settled"} =>
      /\ NamesOnce(n) => feed[n] # {}
      /\ \A m \in feed[n] : Stored(m) \in {"ok", "some"}

(* Each item of a source of mixed items is given to a handler, and to one  *)
(* only unless its class is below two of the item types, if handlers have  *)
(* no other upstream and no mapper: what the construction validates and    *)
(* what the isinstance() lookup at dispatch does fit together.             *)
Unambiguous(c, types) == \A d, e \in types : IsA(c, d) /\ IsA(c, e) => d = e

RoutedOnce ==
  \A src \in group.nodes :
    /\ phase = "returned" /\ Mixed(src) /\ value[src] = "ok"
    /\ Outgoing(src) # {}
    /\ \A i \in Outgoing(src) : ~Mapper(i) /\ Incoming(To(i)) = {i}
    => \A c \in made[src] :
         LET receivers == {m \in Downstreams(src) : c \in given[m]}
         IN  /\ receivers # {}
             /\ Unambiguous(c, group.items[src]) => Cardinality(receivers) = 1

(* What upstreams hand over reaches who it is for, and nobody else.        *)
HandOverExact == FedByLive /\ RoutedOnce

(* What whoever runs a group can tell apart: an agent waits until it is    *)
(* called, and is lost if its resolution ends without a value; the walk is *)
(* open until it returns or raises.                                        *)
Plan ==
  [nodes |-> group.nodes,
   needs |-> [n \in Node |-> Upstreams(n)],
   optional |-> {<<From(i), To(i)>> : i \in {j \in Arrows : Cond(j)}}]

OutcomeOf(n) ==
  CASE at[n] \in {"idle", "asking"} -> "waiting"
    [] at[n] \in {"running", "gathering"} -> "called"
    [] at[n] = "settled" -> value[n]
    [] OTHER -> "lost"

Verdict ==
  CASE phase = "rejected" -> "refused"
    [] phase \in {"returned", "raised"} -> phase
    [] OTHER -> "open"

Contract == INSTANCE GroupContract
  WITH plan <- Plan, outcome <- [n \in Node |-> OutcomeOf(n)],
       cancelled <- cancels > 0, verdict <- Verdict

(* run_group keeps the promise of GroupContract, through tiers, edges,     *)
(* failures and cancellations.                                             *)
ImplementsGroupContract == Contract!Spec

(* Construction comes to a verdict, and a walk ends.                       *)
WalkEnds == <>(phase \in {"rejected", "returned", "raised"})
=============================================================================
