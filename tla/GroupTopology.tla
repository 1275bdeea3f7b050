------------------------------ MODULE GroupTopology ------------------------------
(***************************************************************************)
(* groups/spec.py: what AgentGroup.__post_init__ accepts, and the tiers    *)
(* topological_tiers() makes of it.                                        *)
(*                                                                         *)
(* A group is a record: `nodes', the agents; `arrows', one per target of   *)
(* an edge, in the order the code meets them, each with its ends and       *)
(* whether its edge has a mapper and a condition; `items[n]', the item     *)
(* types of the FanOut field of n's output type, {} when it has none;      *)
(* `takes[n]', n's input_type.  The order of declaration shows in the      *)
(* order of the arrows; within a tier, where the code sorts by it, it      *)
(* decides nothing but the order in which tasks are created.               *)
(***************************************************************************)
EXTENDS Integers, Sequences, FiniteSets

CONSTANTS
  Node,         (* agents                                                   *)
  Class,        (* classes of fan-out items                                 *)
  Subclass,     (* <<c, d>> \in Subclass: c is a proper subclass of d       *)
  NoType,       (* no input_type is declared                                *)
  Groups        (* the groups somebody tries to construct                   *)

ASSUME GroupAssumption ==
  /\ NoType \notin Class
  /\ Subclass \subseteq Class \X Class
  /\ \A g \in Groups :
       /\ g.nodes \subseteq Node /\ IsFiniteSet(g.nodes)
       /\ g.arrows \in Seq([from : g.nodes, to : Node, mapper : BOOLEAN,
                           cond : BOOLEAN])
       /\ g.items \in [Node -> SUBSET Class]
       /\ g.takes \in [Node -> Class \cup {NoType}]

VARIABLES
  group,        (* the group                                                *)
  phase,        (* how far it has come                                      *)
  white,        (* _has_cycle: nodes not visited yet                        *)
  stack,        (* its open visits, a node and the targets looked at        *)
  degree,       (* topological_tiers: indeg                                 *)
  tiers         (* the tiers so far; the last one is `ready'                *)

topologyVars == <<group, phase, white, stack, degree, tiers>>

Arrows == DOMAIN group.arrows

From(i) == group.arrows[i].from

To(i) == group.arrows[i].to

Mapper(i) == group.arrows[i].mapper

Cond(i) == group.arrows[i].cond

(* outgoing_edges() flattened, and incoming edges.                         *)
Outgoing(n) == {i \in Arrows : From(i) = n}

Incoming(n) == {i \in Arrows : To(i) = n}

Upstreams(n) == {From(i) : i \in Incoming(n)}

Downstreams(n) == {To(i) : i \in Outgoing(n)}

EntryNodes == {n \in group.nodes : Incoming(n) = {}}

TerminalNodes == {n \in group.nodes : Outgoing(n) = {}}

TopologyInit ==
  /\ group \in Groups
  /\ phase = "constructing"
  /\ white = group.nodes
  /\ stack = <<>>
  /\ degree = [n \in Node |-> 0]
  /\ tiers = <<>>

-----------------------------------------------------------------------------
(* Every target of an edge must be a node.                                 *)
CheckTargets ==
  /\ phase = "constructing"
  /\ phase' = IF group.nodes # {} /\ \A i \in Arrows : To(i) \in group.nodes
              THEN "visiting" ELSE "rejected"
  /\ UNCHANGED <<group, white, stack, degree, tiers>>

(* The depth-first visit: a node is gray while its visit is open, that is, *)
(* while it is on the stack.                                               *)
Gray == {stack[i].node : i \in DOMAIN stack}

Open(n) == [node |-> n, last |-> 0]

(* any(visit(a) for a in list(white)): the set's order is arbitrary.       *)
VisitRoot ==
  /\ phase = "visiting" /\ stack = <<>>
  /\ \E n \in white : white' = white \ {n} /\ stack' = <<Open(n)>>
  /\ UNCHANGED <<group, phase, degree, tiers>>

(* The targets of the innermost open visit that it has not looked at yet.  *)
Left == {i \in Outgoing(stack[Len(stack)].node) : i > stack[Len(stack)].last}

LookedAt(i) == [stack EXCEPT ![Len(stack)].last = i]

VisitTargetTwice ==                      \* mutant: white and gray confused
  /\ phase = "visiting" /\ stack # <<>>
  /\ \E i \in Left :
       /\ \A j \in Left : i <= j
       /\ \/ /\ To(i) \notin white
             /\ phase' = "rejected"
             /\ UNCHANGED <<white, stack>>
          \/ /\ To(i) \in white
             /\ white' = white \ {To(i)}
             /\ stack' = Append(LookedAt(i), Open(To(i)))
             /\ UNCHANGED phase
  /\ UNCHANGED <<group, degree, tiers>>

VisitTarget ==
  /\ phase = "visiting" /\ stack # <<>>
  /\ \E i \in Left :
       /\ \A j \in Left : i <= j
       /\ \/ /\ To(i) \in Gray
             /\ phase' = "rejected"
             /\ UNCHANGED <<white, stack>>
          \/ /\ To(i) \in white
             /\ white' = white \ {To(i)}
             /\ stack' = Append(LookedAt(i), Open(To(i)))
             /\ UNCHANGED phase
          \/ /\ To(i) \notin Gray \cup white
             /\ stack' = LookedAt(i)
             /\ UNCHANGED <<phase, white>>
  /\ UNCHANGED <<group, degree, tiers>>

CloseVisit ==
  /\ phase = "visiting" /\ stack # <<>> /\ Left = {}
  /\ stack' = SubSeq(stack, 1, Len(stack) - 1)
  /\ UNCHANGED <<group, phase, white, degree, tiers>>

(* _heterogeneous_dispatch_for: a source whose items are of several types  *)
(* needs exactly one target for each of them, and no condition.            *)
Mixed(n) == Cardinality(group.items[n]) > 1

Takes(i) == group.takes[To(i)]

RoutableUnhandled(src) ==                \* mutant: a type may lack a handler
  Mixed(src) =>
    /\ \A i \in Outgoing(src) : ~Cond(i)
    /\ \A i \in Outgoing(src) : Takes(i) \in group.items[src]
    /\ \A i, j \in Outgoing(src) : Takes(i) = Takes(j) => i = j

Routable(src) ==
  Mixed(src) =>
    /\ \A i \in Outgoing(src) : ~Cond(i)
    /\ Outgoing(src) # {} =>
         /\ Subclass \cap (group.items[src] \X group.items[src]) = {}
         /\ \A i \in Outgoing(src) : Takes(i) # NoType
         /\ \A i, j \in Outgoing(src) : Takes(i) = Takes(j) => i = j
         /\ \A c \in group.items[src] : \E i \in Outgoing(src) : Takes(i) = c
         /\ \A i \in Outgoing(src) : Takes(i) \in group.items[src]

(* The visit found no cycle: the other checks.  An accepted group is       *)
(* constructed; run_group() sorts it anew each time: topological_tiers()   *)
(* starts.                                                                 *)
Construct ==
  /\ phase = "visiting" /\ stack = <<>> /\ white = {}
  /\ IF /\ EntryNodes # {} /\ TerminalNodes # {}
        /\ \A n \in group.nodes : Routable(n)
     THEN /\ phase' = "sorting"
          /\ degree' = [n \in Node |-> Cardinality(Incoming(n))]
          /\ tiers' = <<EntryNodes>>
     ELSE /\ phase' = "rejected"
          /\ UNCHANGED <<degree, tiers>>
  /\ UNCHANGED <<group, white, stack>>

(* One turn of the loop: the nodes of the last tier release those they     *)
(* were the last to hold back.                                             *)
Ready == tiers[Len(tiers)]

Released == [n \in Node |-> Cardinality({i \in Incoming(n) : From(i) \in Ready})]

FreedEarly ==                            \* mutant: the first arrow releases
  {n \in group.nodes : degree[n] = Cardinality(Incoming(n)) /\ Released[n] > 0}

Freed == {n \in group.nodes : degree[n] > 0 /\ degree[n] = Released[n]}

Tiered == UNION {tiers[k] : k \in DOMAIN tiers}

Release ==
  /\ phase = "sorting"
  /\ degree' = [n \in Node |-> degree[n] - Released[n]]
  /\ IF Freed # {}
     THEN tiers' = Append(tiers, Freed) /\ UNCHANGED phase
     ELSE /\ phase' = IF Tiered = group.nodes THEN "walking" ELSE "raised"
          /\ UNCHANGED tiers
  /\ UNCHANGED <<group, white, stack>>

TopologyNext == CheckTargets \/ VisitRoot \/ VisitTarget \/ CloseVisit \/ Construct \/ Release

-----------------------------------------------------------------------------
TopologyTypeOK ==
  /\ group.nodes \subseteq Node
  /\ group.arrows \in Seq([from : group.nodes, to : Node, mapper : BOOLEAN,
                           cond : BOOLEAN])
  /\ white \subseteq group.nodes
  /\ stack \in Seq([node : group.nodes, last : 0..Len(group.arrows)])
  /\ degree \in [Node -> Nat]
  /\ tiers \in Seq(SUBSET group.nodes)

(* A group is acyclic when its nodes can be numbered along the arrows.     *)
Acyclic == \E rank \in [group.nodes -> 1..Cardinality(group.nodes)] :
             \A i \in Arrows : rank[From(i)] < rank[To(i)]

(* The verdict on cycles (_has_cycle) is exact whatever order the set of   *)
(* nodes is visited in: no group with a cycle comes to be sorted, and none *)
(* is rejected in the middle of the visit without one.                     *)
CycleExact ==
  /\ phase \notin {"constructing", "visiting", "rejected"} => Acyclic
  /\ phase = "rejected" /\ stack # <<>> => ~Acyclic

(* topological_tiers sorts every accepted group: each node is in exactly   *)
(* one tier, the first one after those of all its upstreams.               *)
Sorted == phase \notin {"constructing", "visiting", "sorting", "rejected"}

TiersExact ==
  Sorted =>
    \A n \in group.nodes : \E k \in DOMAIN tiers :
      /\ \A l \in DOMAIN tiers : n \in tiers[l] <=> l = k
      /\ \A m \in Upstreams(n) : \E l \in 1..(k - 1) : m \in tiers[l]
      /\ k > 1 => Upstreams(n) \cap tiers[k - 1] # {}

(* Both verdicts of the construction are right: what is a group, and in    *)
(* which order its nodes may run.                                          *)
TopologyExact == CycleExact /\ TiersExact
=============================================================================
