------------------------------ MODULE GroupProofs ------------------------------
(***************************************************************************)
(* What holds of the construction and the walk of any group, with any      *)
(* number of agents and edges: the types; that no node is looked at before *)
(* its upstreams are stored, for which Kahn's counters have to be right;   *)
(* that nothing is in flight when the walk is over; that the verdict, the  *)
(* ranks and the tiers are those of the graph; what a handler is handed,   *)
(* and where a failure shows; and that all this keeps the promise of       *)
(* GroupContract.                                                          *)
(***************************************************************************)
EXTENDS GroupRunner, FiniteSetTheorems, TLAPS

Unsorted == {"constructing", "visiting", "rejected"}

Past == UNION {tiers[k] : k \in 1..(Len(tiers) - 1)}

(* degree[n] counts the arrows from nodes that have not released yet, and  *)
(* is 0 once n is in a tier; so n gets into one tier only, and not before  *)
(* its upstreams.                                                          *)
Disjoint == \A k, l \in DOMAIN tiers : k # l => tiers[k] \cap tiers[l] = {}

Forward ==
  \A k \in DOMAIN tiers : \A n \in tiers[k] : \A m \in Upstreams(n) :
    \E l \in 1..(k - 1) : m \in tiers[l]

KahnInv ==
  /\ phase \in Unsorted => tiers = <<>>
  /\ phase = "sorting" =>
       /\ tiers # <<>>
       /\ \A n \in Node : degree[n] = Cardinality({i \in Incoming(n) : From(i) \notin Past})
       /\ \A n \in Tiered : degree[n] = 0
  /\ Disjoint
  /\ Forward

WalkInv ==
  /\ phase \in Unsorted \cup {"sorting"} => turn = 0
  /\ \A n \in Node : at[n] # "idle" => \E k \in 1..turn : n \in tiers[k]
  /\ \A k \in 1..(turn - 1) : \A n \in tiers[k] : at[n] = "settled"
  /\ \A n \in Node : at[n] = "settled" => value[n] # "none"
  /\ EndsDrained

IInv == group \in Groups /\ TypeOK /\ KahnInv /\ WalkInv

-----------------------------------------------------------------------------
LEMMA GroupTypes ==
  ASSUME group \in Groups
  PROVE  /\ group.nodes \subseteq Node
         /\ group.arrows \in Seq([from : group.nodes, to : Node, mapper : BOOLEAN,
                                  cond : BOOLEAN])
         /\ group.items \in [Node -> SUBSET Class]
         /\ group.takes \in [Node -> Class \cup {NoType}]
         /\ Arrows = 1..Len(group.arrows) /\ Len(group.arrows) \in Nat
         /\ \A i \in Arrows : From(i) \in group.nodes /\ To(i) \in Node
<1>1. /\ group.nodes \subseteq Node
      /\ group.arrows \in Seq([from : group.nodes, to : Node, mapper : BOOLEAN,
                               cond : BOOLEAN])
      /\ group.items \in [Node -> SUBSET Class]
      /\ group.takes \in [Node -> Class \cup {NoType}]
  BY GroupAssumption
<1> DEFINE Kind == [from : group.nodes, to : Node, mapper : BOOLEAN, cond : BOOLEAN]
<1>2. /\ DOMAIN group.arrows = 1..Len(group.arrows) /\ Len(group.arrows) \in Nat
      /\ \A i \in DOMAIN group.arrows : group.arrows[i] \in Kind
  <2> HIDE DEF Kind
  <2>1. group.arrows \in Seq(Kind)
    BY <1>1 DEF Kind
  <2> QED BY <2>1
<1> QED BY <1>1, <1>2 DEF Arrows, From, To

LEMMA IncomingFinite ==
  ASSUME group \in Groups, NEW n
  PROVE  IsFiniteSet(Incoming(n))
<1>1. IsFiniteSet(1..Len(group.arrows))
  BY GroupTypes, FS_Interval
<1>2. Incoming(n) \in SUBSET (1..Len(group.arrows))
  BY GroupTypes DEF Incoming
<1> QED BY <1>1, <1>2, FS_Subset

LEMMA InitInv == Init => IInv
<1> SUFFICES ASSUME Init PROVE IInv
  OBVIOUS
<1> USE DEF Init, TopologyInit
<1>1. group \in Groups
  OBVIOUS
<1>2. TypeOK
  BY <1>1, GroupTypes, RunnerAssumption DEF TypeOK, TopologyTypeOK, Finished
<1>3. KahnInv
  BY DEF KahnInv, Unsorted, Disjoint, Forward
<1>4. WalkInv
  BY DEF WalkInv, Unsorted, EndsDrained
<1> QED BY <1>1, <1>2, <1>3, <1>4 DEF IInv

-----------------------------------------------------------------------------
(* A turn of Kahn's loop keeps the counters right.                         *)
LEMMA ReleaseCounts ==
  ASSUME IInv, phase = "sorting", NEW n \in Node
  PROVE  /\ degree[n] - Released[n] = Cardinality({i \in Incoming(n) : From(i) \notin Tiered})
         /\ degree[n] - Released[n] \in Nat
         /\ Released[n] \in Nat
<1> DEFINE S == {i \in Incoming(n) : From(i) \notin Past}
           R == {i \in Incoming(n) : From(i) \in Ready}
           L == {i \in Incoming(n) : From(i) \notin Tiered}
<1>1. tiers # <<>> /\ tiers \in Seq(SUBSET group.nodes)
  BY DEF IInv, KahnInv, TypeOK, TopologyTypeOK
<1>2. Len(tiers) \in Nat /\ Len(tiers) > 0 /\ DOMAIN tiers = 1..Len(tiers)
  BY <1>1
<1>3. Tiered = Past \cup Ready
  BY <1>2 DEF Tiered, Past, Ready
<1>4. Past \cap Ready = {}
  BY <1>2 DEF Past, Ready, IInv, KahnInv, Disjoint
<1>5. IsFiniteSet(Incoming(n))
  BY IncomingFinite DEF IInv
<1>6. /\ IsFiniteSet(R) /\ IsFiniteSet(L) /\ IsFiniteSet(R \cap L)
      /\ Cardinality(R) \in Nat /\ Cardinality(L) \in Nat
  BY <1>5, FS_Subset, FS_CardinalityType
<1>7. R \cap L = {} /\ R \cup L = S
  BY <1>3, <1>4
<1>8. Cardinality(S) = Cardinality(R) + Cardinality(L) - Cardinality({})
  <2>1. Cardinality(R \cup L) = Cardinality(R) + Cardinality(L) - Cardinality(R \cap L)
    BY <1>6, FS_Union
  <2> QED BY <2>1, <1>7
<1>9. degree[n] = Cardinality(S) /\ Released[n] = Cardinality(R)
  BY DEF IInv, KahnInv, Released
<1> HIDE DEF S, R, L
<1>10. degree[n] - Released[n] = Cardinality(L) /\ Released[n] \in Nat
  BY <1>6, <1>8, <1>9, FS_EmptySet
<1> QED BY <1>10, <1>6 DEF L

LEMMA ReleaseInv ==
  ASSUME IInv, Release, UNCHANGED walkVars
  PROVE  IInv'
<1> USE DEF Release
<1>1. /\ group \in Groups /\ group' = group /\ phase = "sorting"
      /\ tiers # <<>> /\ tiers \in Seq(SUBSET group.nodes)
  BY DEF IInv, KahnInv, TypeOK, TopologyTypeOK
<1>2. Len(tiers) \in Nat /\ Len(tiers) > 0 /\ DOMAIN tiers = 1..Len(tiers)
  BY <1>1
<1>3. \A n \in Node : degree'[n] = Cardinality({i \in Incoming(n) : From(i) \notin Tiered})
  BY <1>1, ReleaseCounts
<1>4. degree' \in [Node -> Nat]
  BY <1>1, ReleaseCounts
<1>5. \A n \in Tiered : degree[n] = 0 /\ n \in Node
  <2>1. \A n \in Tiered : n \in group.nodes
    BY <1>1, <1>2 DEF Tiered
  <2> QED BY <2>1, <1>1, GroupTypes DEF IInv, KahnInv
<1>6. \A n \in Tiered : degree'[n] = 0
  <2> SUFFICES ASSUME NEW n \in Tiered PROVE degree'[n] = 0
    OBVIOUS
  <2>1. degree[n] = 0 /\ degree[n] - Released[n] \in Nat /\ Released[n] \in Nat
    BY <1>1, <1>5, ReleaseCounts
  <2> QED BY <2>1, <1>5
<1>7. Freed \subseteq group.nodes /\ Freed \cap Tiered = {}
  BY <1>5 DEF Freed
<1>8. \A n \in Freed : degree'[n] = 0 /\ Upstreams(n) \subseteq Tiered
  <2> SUFFICES ASSUME NEW n \in Freed PROVE degree'[n] = 0 /\ Upstreams(n) \subseteq Tiered
    OBVIOUS
  <2>1. n \in Node /\ degree[n] = Released[n] /\ Released[n] \in Nat
    BY <1>1, GroupTypes, ReleaseCounts DEF Freed
  <2>2. degree'[n] = 0
    BY <2>1
  <2> DEFINE L == {i \in Incoming(n) : From(i) \notin Tiered}
  <2>3. IsFiniteSet(L)
    BY <1>1, IncomingFinite, FS_Subset
  <2>4. Cardinality(L) = 0
    BY <2>1, <2>2, <1>3
  <2>5. L = {}
    BY <2>3, <2>4, FS_EmptySet
  <2> QED BY <2>2, <2>5 DEF Upstreams
<1>9. CASE Freed # {}
  <2>1. /\ tiers' = Append(tiers, Freed) /\ phase' = "sorting"
        /\ tiers' \in Seq(SUBSET group.nodes)
    BY <1>1, <1>7, <1>9
  <2>2. /\ Len(tiers') = Len(tiers) + 1 /\ DOMAIN tiers' = 1..(Len(tiers) + 1)
        /\ tiers'[Len(tiers) + 1] = Freed
        /\ \A k \in 1..Len(tiers) : tiers'[k] = tiers[k]
    BY <1>1, <1>2, <2>1
  <2>3. Past' = Tiered
    BY <1>2, <2>2 DEF Past, Tiered
  <2>4. Tiered' = Tiered \cup Freed
    BY <1>2, <2>2 DEF Tiered
  <2>5. Disjoint'
    <3> SUFFICES ASSUME NEW k \in DOMAIN tiers', NEW l \in DOMAIN tiers', k # l
                 PROVE  tiers'[k] \cap tiers'[l] = {}
      BY DEF Disjoint
    <3>1. CASE k \in 1..Len(tiers) /\ l \in 1..Len(tiers)
      BY <3>1, <1>2, <2>2 DEF Disjoint, IInv, KahnInv
    <3>2. CASE k = Len(tiers) + 1 /\ l \in 1..Len(tiers)
      BY <3>2, <1>2, <1>7, <2>2 DEF Tiered
    <3>3. CASE l = Len(tiers) + 1 /\ k \in 1..Len(tiers)
      BY <3>3, <1>2, <1>7, <2>2 DEF Tiered
    <3> QED BY <3>1, <3>2, <3>3, <1>2, <2>2
  <2>6. Forward'
    <3> SUFFICES ASSUME NEW k \in DOMAIN tiers', NEW n \in tiers'[k], NEW m \in Upstreams(n)
                 PROVE  \E l \in 1..(k - 1) : m \in tiers'[l]
      BY <1>1 DEF Forward, Upstreams, Incoming, Arrows, From, To
    <3>1. CASE k \in 1..Len(tiers)
      <4>1. \E l \in 1..(k - 1) : m \in tiers[l]
        BY <3>1, <1>2, <2>2 DEF IInv, KahnInv, Forward
      <4> QED BY <4>1, <3>1, <1>2, <2>2
    <3>2. CASE k = Len(tiers) + 1
      <4>1. m \in Tiered
        BY <3>2, <1>8, <2>2
      <4>2. PICK l \in 1..Len(tiers) : m \in tiers[l]
        BY <4>1, <1>2 DEF Tiered
      <4> QED BY <4>2, <3>2, <1>2, <2>2
    <3> QED BY <3>1, <3>2, <1>2, <2>2
  <2>7. \A n \in Node : degree'[n] = Cardinality({i \in Incoming(n) : From(i) \notin Past})'
    <3> TAKE n \in Node
    <3>1. {i \in Incoming(n) : From(i) \notin Past}'
            = {i \in Incoming(n) : From(i) \notin Tiered}
      BY <1>1, <2>3 DEF Incoming, Arrows, From, To
    <3> QED BY <3>1, <1>3
  <2>8. KahnInv'
    <3>1. phase' \notin Unsorted /\ tiers' # <<>>
      BY <2>1, <2>2, <1>2 DEF Unsorted
    <3>2. \A n \in Tiered' : degree'[n] = 0
      BY <1>6, <1>8, <2>4
    <3> QED BY <3>1, <3>2, <2>5, <2>6, <2>7 DEF KahnInv
  <2>9. TypeOK'
    BY <1>1, <1>4, <2>1, <2>2, <1>2 DEF IInv, TypeOK, TopologyTypeOK, walkVars,
       Incoming, Arrows, From, To, WalkInv
  <2>10. WalkInv'
    BY <1>1, <1>2, <2>1, <2>2 DEF IInv, TypeOK, WalkInv, walkVars, EndsDrained, InFlight
  <2> QED BY <1>1, <2>8, <2>9, <2>10 DEF IInv
<1>10. CASE Freed = {}
  <2>1. tiers' = tiers /\ phase' \in {"walking", "raised"}
    BY <1>10
  <2>2. KahnInv'
    BY <1>1, <2>1 DEF IInv, KahnInv, Unsorted, Disjoint, Forward, Upstreams, Incoming,
       Arrows, From, To
  <2>3. TypeOK'
    BY <1>1, <1>4, <2>1 DEF IInv, TypeOK, TopologyTypeOK, walkVars, Incoming, Arrows,
       From, To
  <2>4. \A n \in Node : at[n] = "idle"
    <3>1. turn = 0
      BY <1>1 DEF IInv, WalkInv
    <3> QED BY <3>1 DEF IInv, WalkInv
  <2>5. WalkInv'
    BY <1>1, <2>1, <2>4 DEF IInv, WalkInv, walkVars, EndsDrained, InFlight
  <2> QED BY <1>1, <2>2, <2>3, <2>5 DEF IInv
<1> QED BY <1>9, <1>10

-----------------------------------------------------------------------------
(* The other steps of construction.                                        *)
LEMMA TopologyInv ==
  ASSUME IInv, TopologyNext, UNCHANGED walkVars
  PROVE  IInv'
<1>1. CASE Release
  BY <1>1, ReleaseInv
<1>2. CASE CheckTargets \/ VisitRoot \/ VisitTarget \/ CloseVisit
  <2>1. /\ group' = group /\ degree' = degree /\ tiers' = tiers
        /\ phase \in Unsorted /\ phase' \in Unsorted
    BY <1>2 DEF CheckTargets, VisitRoot, VisitTarget, CloseVisit, Unsorted
  <2>2. white' \subseteq white
    BY <1>2 DEF CheckTargets, VisitRoot, VisitTarget, CloseVisit
  <2>3. stack' \in Seq([node : group.nodes, last : 0..Len(group.arrows)])
    <3> DEFINE Frame == [node : group.nodes, last : 0..Len(group.arrows)]
    <3>1. stack \in Seq(Frame) /\ white \subseteq group.nodes /\ group \in Groups
      BY DEF IInv, TypeOK, TopologyTypeOK
    <3>2. \A n \in group.nodes : Open(n) \in Frame
      BY <3>1, GroupTypes DEF Open
    <3>3. ASSUME stack # <<>>, NEW i \in Arrows PROVE LookedAt(i) \in Seq(Frame)
      <4>1. i \in 0..Len(group.arrows)
        BY <3>1, GroupTypes
      <4>2. stack[Len(stack)] \in Frame /\ Len(stack) \in 1..Len(stack)
        <5> HIDE DEF Frame
        <5> QED BY <3>1, <3>3
      <4>3. [stack[Len(stack)] EXCEPT !.last = i] \in Frame
        BY <4>1, <4>2
      <4>4. LookedAt(i) = [stack EXCEPT ![Len(stack)] = [stack[Len(stack)] EXCEPT !.last = i]]
        BY DEF LookedAt
      <4> HIDE DEF Frame
      <4> QED BY <3>1, <4>2, <4>3, <4>4
    <3>4. CASE CheckTargets
      BY <3>1, <3>4 DEF CheckTargets
    <3>5. CASE VisitRoot
      <4>1. PICK n \in white : stack' = <<Open(n)>>
        BY <3>5 DEF VisitRoot
      <4>2. Open(n) \in Frame
        BY <3>1, <3>2
      <4> HIDE DEF Frame
      <4>3. stack' \in Seq(Frame)
        BY <4>1, <4>2
      <4> QED BY <4>3 DEF Frame
    <3>6. CASE VisitTarget
      <4>1. PICK i \in Left : \/ stack' = stack
                              \/ stack' = LookedAt(i)
                              \/ /\ To(i) \in white
                                 /\ stack' = Append(LookedAt(i), Open(To(i)))
        BY <3>6 DEF VisitTarget
      <4>2. i \in Arrows /\ stack # <<>>
        BY <3>6 DEF VisitTarget, Left, Outgoing
      <4>3. LookedAt(i) \in Seq(Frame) /\ (To(i) \in white => Open(To(i)) \in Frame)
        BY <3>1, <3>2, <3>3, <4>2
      <4> HIDE DEF Frame
      <4>4. stack' \in Seq(Frame)
        BY <3>1, <4>1, <4>3
      <4> QED BY <4>4 DEF Frame
    <3>7. CASE CloseVisit
      <4> HIDE DEF Frame
      <4>1. stack' \in Seq(Frame)
        BY <3>1, <3>7 DEF CloseVisit
      <4> QED BY <4>1 DEF Frame
    <3> QED BY <1>2, <3>4, <3>5, <3>6, <3>7
  <2>4. TypeOK'
    BY <2>1, <2>2, <2>3 DEF IInv, TypeOK, TopologyTypeOK, walkVars, Unsorted, Incoming,
       Arrows, To
  <2>5. KahnInv'
    BY <2>1 DEF IInv, KahnInv, Unsorted, Disjoint, Forward
  <2>6. WalkInv'
    BY <2>1 DEF IInv, WalkInv, walkVars, Unsorted, EndsDrained, InFlight
  <2> QED BY <2>1, <2>4, <2>5, <2>6 DEF IInv
<1>3. CASE Construct
  <2>1. group' = group /\ group \in Groups /\ white' = white /\ stack' = stack
    BY <1>3 DEF Construct, IInv
  <2>2. phase = "visiting" /\ tiers = <<>> /\ turn = 0
    BY <1>3 DEF Construct, IInv, KahnInv, WalkInv, Unsorted
  <2>3. CASE phase' = "rejected" /\ degree' = degree /\ tiers' = tiers
    <3>1. TypeOK'
      BY <2>1, <2>3 DEF IInv, TypeOK, TopologyTypeOK, walkVars, Incoming, Arrows, To
    <3>2. KahnInv'
      BY <2>1, <2>2, <2>3 DEF IInv, KahnInv, Unsorted, Disjoint, Forward
    <3>3. WalkInv'
      BY <2>1, <2>2, <2>3 DEF IInv, WalkInv, walkVars, Unsorted, EndsDrained, InFlight
    <3> QED BY <2>1, <3>1, <3>2, <3>3 DEF IInv
  <2>4. CASE /\ phase' = "sorting" /\ tiers' = <<EntryNodes>>
             /\ degree' = [n \in Node |-> Cardinality(Incoming(n))]
    <3>1. /\ Len(tiers') = 1 /\ DOMAIN tiers' = {1} /\ tiers'[1] = EntryNodes
          /\ EntryNodes \subseteq group.nodes
      BY <2>4 DEF EntryNodes
    <3>2. \A n \in Node : Cardinality(Incoming(n)) \in Nat
      BY <2>1, IncomingFinite, FS_CardinalityType
    <3>3. TypeOK'
      <4> DEFINE T == SUBSET group.nodes
      <4>0. EntryNodes \in T
        BY <3>1
      <4>1. tiers' \in Seq(T)
        <5> HIDE DEF T
        <5> QED BY <4>0, <2>4
      <4>2. degree' \in [Node -> Nat]
        BY <2>4, <3>2
      <4>3. TopologyTypeOK'
        BY <2>1, <4>1, <4>2 DEF IInv, TypeOK, TopologyTypeOK
      <4>4. turn' \in 0..Len(tiers')
        BY <2>2, <3>1 DEF walkVars
      <4>5. /\ pos' \in [Node -> {0} \cup Arrows']
            /\ \A n \in Node : pos'[n] \in {0} \cup Incoming(n)'
        BY <2>1 DEF IInv, TypeOK, walkVars, Incoming, Arrows, To
      <4> QED BY <2>4, <4>3, <4>4, <4>5 DEF IInv, TypeOK, walkVars
    <3>4. Past' = {}
      BY <3>1 DEF Past
    <3>5. Tiered' = EntryNodes
      BY <3>1 DEF Tiered
    <3>6. \A n \in Node : degree'[n] = Cardinality({i \in Incoming(n) : From(i) \notin Past})'
      <4> TAKE n \in Node
      <4>1. {i \in Incoming(n) : From(i) \notin Past}' = Incoming(n)
        BY <2>1, <3>4 DEF Incoming, Arrows, From, To
      <4> QED BY <4>1, <2>4
    <3>7. \A n \in EntryNodes : n \in Node /\ Incoming(n) = {} /\ Upstreams(n) = {}
      BY <2>1, GroupTypes DEF EntryNodes, Upstreams
    <3>8. \A n \in Tiered' : degree'[n] = 0
      BY <2>4, <3>5, <3>7, FS_EmptySet
    <3>9. Disjoint' /\ Forward'
      BY <2>1, <3>1, <3>7 DEF Disjoint, Forward, Upstreams, Incoming, Arrows, From, To
    <3>10. KahnInv'
      <4>1. phase' \notin Unsorted /\ tiers' # <<>>
        BY <2>4 DEF Unsorted
      <4> QED BY <4>1, <3>6, <3>8, <3>9 DEF KahnInv
    <3>11. WalkInv'
      BY <2>2, <2>4 DEF IInv, WalkInv, walkVars, Unsorted, EndsDrained, InFlight
    <3> QED BY <2>1, <3>3, <3>10, <3>11 DEF IInv
  <2> QED BY <1>3, <2>3, <2>4 DEF Construct
<1> QED BY <1>1, <1>2, <1>3 DEF TopologyNext

-----------------------------------------------------------------------------
(* A step of the task that resolves n: it goes on, and what it settles has *)
(* a value.                                                                *)
Pending == {"asking", "running", "gathering"}

Value == {"none", "skipped", "ok", "failed", "some", "dead"}

Moves(n) ==
  \E x \in Pending \cup Finished, v \in Value :
    /\ at' = [at EXCEPT ![n] = x]
    /\ \/ value' = [value EXCEPT ![n] = v] /\ v # "none"
       \/ value' = value /\ x # "settled"

Hands(n) == given' = given \/ \E c \in SUBSET Class : given' = [given EXCEPT ![n] = c]

LEMMA SettleMoves ==
  ASSUME NEW n, NEW v \in Value \ {"none"}, Settle(n, v)
  PROVE  Moves(n)
BY DEF Settle, Moves, Finished

LEMMA StopMoves ==
  ASSUME NEW n, NEW how \in Finished \ {"settled"}, Stop(n, how)
  PROVE  Moves(n)
<1>1. how \in Pending \cup Finished /\ "none" \in Value
  BY DEF Value
<1>2. at' = [at EXCEPT ![n] = how] /\ value' = value /\ how # "settled"
  BY DEF Stop
<1> QED BY <1>1, <1>2 DEF Moves

LEMMA RunMoves ==
  ASSUME NEW n, Run(n)
  PROVE  Moves(n) /\ Hands(n)
<1>1. "running" \in Pending \cup Finished /\ "none" \in Value
  BY DEF Pending, Value
<1>2. at' = [at EXCEPT ![n] = "running"] /\ value' = value
  BY DEF Run
<1>3. "running" # "settled"
  OBVIOUS
<1>4. Moves(n)
  BY <1>1, <1>2, <1>3, Zenon DEF Moves
<1> QED BY <1>4 DEF Hands, Run

LEMMA GatherMoves ==
  ASSUME NEW n, NEW c \in SUBSET Class, Gather(n, c)
  PROVE  Moves(n) /\ Hands(n)
<1>1. "gathering" \in Pending \cup Finished /\ "none" \in Value
  BY DEF Pending, Value
<1>2. at' = [at EXCEPT ![n] = "gathering"] /\ value' = value
  BY DEF Gather
<1>3. "gathering" # "settled"
  OBVIOUS
<1>4. Moves(n)
  BY <1>1, <1>2, <1>3, Zenon DEF Moves
<1> QED BY <1>4 DEF Hands, Gather

LEMMA CallMapperMoves ==
  ASSUME NEW n, CallMapper(n)
  PROVE  Moves(n) /\ Hands(n)
<1>1. CASE Run(n)
  BY <1>1, RunMoves
<1>2. ASSUME NEW c \in {{}, Class}, Gather(n, c) PROVE Moves(n) /\ Hands(n)
  BY <1>2, GatherMoves
<1>3. CASE Stop(n, "broken") /\ UNCHANGED given
  BY <1>3, StopMoves DEF Hands, Finished
<1> QED BY <1>1, <1>2, <1>3 DEF CallMapper

LEMMA DispatchMoves ==
  ASSUME IInv, NEW n, NEW i \in Incoming(n), DispatchOne(n, i)
  PROVE  Moves(n) /\ Hands(n)
<1>1. From(i) \in Node /\ made[From(i)] \in SUBSET Class
  BY GroupTypes DEF IInv, TypeOK, Incoming
<1>2. Matched(n, made[From(i)]) \in SUBSET Class
  BY <1>1 DEF Matched
<1>3. ASSUME Stop(n, "broken"), UNCHANGED given PROVE Moves(n) /\ Hands(n)
  BY <1>3, StopMoves DEF Hands, Finished
<1> QED BY <1>1, <1>2, <1>3, CallMapperMoves, GatherMoves, RunMoves DEF DispatchOne

(* Once the tiers are made they stay what they are.                        *)
LEMMA KahnStable ==
  ASSUME KahnInv, UNCHANGED <<group, tiers>>, phase' \notin Unsorted \cup {"sorting"}
  PROVE  KahnInv'
<1>1. Disjoint'
  BY DEF KahnInv, Disjoint
<1>2. \A m : Upstreams(m)' = Upstreams(m)
  BY DEF Upstreams, Incoming, Arrows, From, To
<1>3. Forward'
  BY <1>2 DEF KahnInv, Forward
<1> QED BY <1>1, <1>3 DEF KahnInv

LEMMA NodeInv ==
  ASSUME IInv, NEW n \in Node, at[n] \in Pending, Moves(n), Hands(n),
         UNCHANGED <<topologyVars, turn, told, cancels>>,
         made' \in [Node -> SUBSET Class], feed' \in [Node -> SUBSET Node],
         alive' \subseteq Node, pos' \in [Node -> {0} \cup Arrows],
         \A m \in Node : pos'[m] \in {0} \cup Incoming(m)
  PROVE  IInv'
<1>1. PICK x \in Pending \cup Finished, v \in Value :
        /\ at' = [at EXCEPT ![n] = x]
        /\ \/ value' = [value EXCEPT ![n] = v] /\ v # "none"
           \/ value' = value /\ x # "settled"
  BY DEF Moves
<1>2. /\ at \in [Node -> {"idle"} \cup Pending \cup Finished]
      /\ value \in [Node -> Value] /\ given \in [Node -> SUBSET Class]
  BY DEF IInv, TypeOK, Pending, Value
<1>3. /\ at' \in [Node -> {"idle"} \cup Pending \cup Finished]
      /\ value' \in [Node -> Value]
      /\ at'[n] # "idle" /\ \A m \in Node \ {n} : at'[m] = at[m]
      /\ \A m \in Node : at'[m] = "settled" => value'[m] # "none"
  BY <1>1, <1>2 DEF IInv, WalkInv, Pending, Finished
<1>4. given' \in [Node -> SUBSET Class]
  BY <1>2 DEF Hands
<1>5. /\ \A m \in Node : Incoming(m)' = Incoming(m)
      /\ Arrows' = Arrows
      /\ \A m \in Node : Upstreams(m)' = Upstreams(m)
  BY DEF topologyVars, Incoming, Upstreams, Arrows, To, From
<1>6. TypeOK'
  <2>1. TopologyTypeOK'
    BY DEF IInv, TypeOK, TopologyTypeOK, topologyVars
  <2>2. at' \in [Node -> {"idle", "asking", "running", "gathering"} \cup Finished]
    BY <1>3 DEF Pending
  <2> QED BY <1>3, <1>4, <1>5, <2>1, <2>2 DEF IInv, TypeOK, topologyVars, Value
<1>7. KahnInv'
  <2>1. \E k \in 1..turn : n \in tiers[k]
    BY DEF IInv, WalkInv, Pending
  <2>2. phase \notin Unsorted \cup {"sorting"}
    BY <2>1 DEF IInv, WalkInv
  <2> QED BY <2>2, KahnStable DEF IInv, topologyVars
<1>8. WalkInv'
  <2>1. phase \notin {"returned", "raised"}
    BY DEF IInv, WalkInv, EndsDrained, InFlight, Pending
  <2>2. EndsDrained'
    BY <2>1 DEF EndsDrained, topologyVars
  <2>3. \A m \in Node : at'[m] # "idle" => \E k \in 1..turn : m \in tiers[k]
    BY <1>3 DEF IInv, WalkInv, Pending
  <2>4. \A k \in 1..(turn - 1) : \A m \in tiers[k] : at'[m] = "settled"
    <3> SUFFICES ASSUME NEW k \in 1..(turn - 1), NEW m \in tiers[k]
                 PROVE  at'[m] = "settled"
      OBVIOUS
    <3>1. at[m] = "settled"
      BY DEF IInv, WalkInv
    <3>2. m # n
      BY <3>1 DEF Pending
    <3> QED BY <3>1, <3>2, <1>1, <1>2
  <2> QED BY <1>3, <2>2, <2>3, <2>4 DEF IInv, WalkInv, topologyVars, Unsorted
<1> QED BY <1>6, <1>7, <1>8 DEF IInv, topologyVars

LEMMA ResolveInv ==
  ASSUME IInv, NEW n \in Node, Resolve(n)
  PROVE  IInv'
<1>1. at[n] \in Pending
  BY DEF Resolve, Enter, FollowEdge, LookAtEdge, Aggregate, Pending
<1>2. /\ made \in [Node -> SUBSET Class] /\ feed \in [Node -> SUBSET Node]
      /\ alive \subseteq Node /\ pos \in [Node -> {0} \cup Arrows]
      /\ \A m \in Node : pos[m] \in {0} \cup Incoming(m)
  BY DEF IInv, TypeOK
<1>3. UNCHANGED <<topologyVars, turn, told, cancels, made>>
  BY DEF Resolve, Enter, FollowEdge, LookAtEdge, Aggregate
<1>4. CASE Enter(n)
  BY <1>1, <1>2, <1>3, <1>4, RunMoves, NodeInv DEF Enter
<1>5. CASE FollowEdge(n)
  <2>1. Moves(n) /\ Hands(n)
    <3>1. PICK i \in Incoming(n) :
            \/ Settle(n, "skipped") /\ UNCHANGED given
            \/ Stop(n, "gaveUp") /\ UNCHANGED given
            \/ Stop(n, "broken") /\ UNCHANGED given
            \/ DispatchOne(n, i)
      BY <1>5 DEF FollowEdge
    <3>2. "skipped" \in Value \ {"none"} /\ {"gaveUp", "broken"} \subseteq Finished \ {"settled"}
      BY DEF Value, Finished
    <3> QED BY <3>1, <3>2, SettleMoves, StopMoves, DispatchMoves DEF Hands
  <2> QED BY <1>1, <1>2, <1>3, <1>5, <2>1, NodeInv DEF FollowEdge
<1>6. CASE LookAtEdge(n)
  <2>1. PICK i \in Unseen(n) :
          \/ \E fed \in BOOLEAN : Contribute(n, i, fed)
          \/ Stop(n, "broken") /\ UNCHANGED <<feed, alive, pos>>
    <3>1. PICK i \in Unseen(n) :
            \/ Contribute(n, i, ~Absent(Stored(From(i))) /\ ~Dead(Stored(From(i))))
            \/ Contribute(n, i, FALSE)
            \/ Stop(n, "broken") /\ UNCHANGED <<feed, alive, pos>>
      BY <1>6 DEF LookAtEdge
    <3>2. /\ (~Absent(Stored(From(i))) /\ ~Dead(Stored(From(i)))) \in BOOLEAN
          /\ FALSE \in BOOLEAN
      OBVIOUS
    <3> QED BY <3>1, <3>2, Zenon
  <2>2. i \in Incoming(n) /\ From(i) \in Node
    BY GroupTypes DEF IInv, Unseen, Incoming
  <2>3. Hands(n)
    BY <1>6 DEF LookAtEdge, Hands
  <2>4. CASE Stop(n, "broken") /\ UNCHANGED <<feed, alive, pos>>
    <3>1. "broken" \in Finished \ {"settled"}
      BY DEF Finished
    <3>2. Moves(n)
      BY <2>4, <3>1, StopMoves
    <3> QED BY <1>1, <1>2, <1>3, <2>3, <2>4, <3>2, NodeInv
  <2>5. ASSUME NEW fed \in BOOLEAN, Contribute(n, i, fed) PROVE IInv'
    <3>1. feed' \in [Node -> SUBSET Node] /\ alive' \subseteq Node
      BY <1>2, <2>2, <2>5 DEF Contribute
    <3>2. /\ pos' \in [Node -> {0} \cup Arrows]
          /\ \A m \in Node : pos'[m] \in {0} \cup Incoming(m)
      <4>1. i \in Arrows
        BY <2>2 DEF Incoming
      <4> QED BY <1>2, <2>2, <2>5, <4>1 DEF Contribute
    <3>3. at' = [at EXCEPT ![n] = at[n]] /\ value' = value /\ "none" \in Value
      BY <2>5 DEF Contribute, IInv, TypeOK, Value
    <3>4. at[n] \in Pending \cup Finished /\ at[n] # "settled"
      BY <1>1 DEF Pending
    <3>5. Moves(n)
      BY <3>3, <3>4, Zenon DEF Moves
    <3> QED BY <1>1, <1>2, <1>3, <2>3, <3>1, <3>2, <3>5, NodeInv
  <2> QED BY <2>1, <2>4, <2>5
<1>7. CASE Aggregate(n)
  <2>1. \/ Stop(n, "broken") /\ UNCHANGED given
        \/ Stop(n, "gaveUp") /\ UNCHANGED given
        \/ CallMapper(n)
    BY <1>7 DEF Aggregate
  <2>2. {"gaveUp", "broken"} \subseteq Finished \ {"settled"}
    BY DEF Finished
  <2>3. Moves(n) /\ Hands(n)
    BY <2>1, <2>2, StopMoves, CallMapperMoves DEF Hands
  <2> QED BY <1>1, <1>2, <1>3, <1>7, <2>3, NodeInv DEF Aggregate
<1> QED BY <1>4, <1>5, <1>6, <1>7 DEF Resolve

LEMMA EndInv ==
  ASSUME IInv, NEW n \in Node, Answer(n) \/ Cancelled(n)
  PROVE  IInv'
<1>1. at[n] \in Pending
  BY DEF Answer, Cancelled, Pending
<1>2. /\ made \in [Node -> SUBSET Class] /\ feed \in [Node -> SUBSET Node]
      /\ alive \subseteq Node /\ pos \in [Node -> {0} \cup Arrows]
      /\ \A m \in Node : pos[m] \in {0} \cup Incoming(m)
  BY DEF IInv, TypeOK
<1>3. UNCHANGED <<topologyVars, turn, told, cancels, feed, alive, pos, given>>
  BY DEF Answer, Cancelled
<1>4. made' \in [Node -> SUBSET Class]
  <2>1. Makes(n) \subseteq SUBSET Class
    BY GroupTypes DEF IInv, Makes
  <2> QED BY <1>2, <2>1 DEF Answer, Cancelled
<1>5. Moves(n)
  <2>1. \/ \E v \in {"ok", "failed", "some", "dead"} : Settle(n, v)
        \/ \E how \in {"broken", "cancelled"} : Stop(n, how)
    BY DEF Answer, Cancelled
  <2>2. /\ {"ok", "failed", "some", "dead"} \subseteq Value \ {"none"}
        /\ {"broken", "cancelled"} \subseteq Finished \ {"settled"}
    BY DEF Value, Finished
  <2> QED BY <2>1, <2>2, SettleMoves, StopMoves
<1> QED BY <1>1, <1>2, <1>3, <1>4, <1>5, NodeInv DEF Hands

(* The walk itself: it goes on when its tier is settled, and is over when  *)
(* nothing of it is left.                                                  *)
LEMMA InFlightInTier ==
  ASSUME IInv
  PROVE  InFlight \subseteq Tier
<1> SUFFICES ASSUME NEW n \in InFlight PROVE n \in Tier
  OBVIOUS
<1>1. n \in Node /\ at[n] # "idle" /\ at[n] # "settled"
  BY DEF InFlight
<1>2. PICK k \in 1..turn : n \in tiers[k]
  BY <1>1 DEF IInv, WalkInv
<1>3. turn \in Nat
  BY DEF IInv, TypeOK, TopologyTypeOK
<1>4. ~(k \in 1..(turn - 1))
  BY <1>1, <1>2 DEF IInv, WalkInv
<1> QED BY <1>2, <1>3, <1>4 DEF Tier

LEMMA TiersTyped ==
  ASSUME IInv
  PROVE  /\ Len(tiers) \in Nat /\ turn \in 0..Len(tiers) /\ DOMAIN tiers = 1..Len(tiers)
         /\ \A k \in 1..Len(tiers) : tiers[k] \subseteq Node
<1>1. tiers \in Seq(SUBSET group.nodes) /\ group.nodes \subseteq Node
      /\ turn \in 0..Len(tiers)
  BY DEF IInv, TypeOK, TopologyTypeOK
<1>2. \A k \in 1..Len(tiers) : tiers[k] \subseteq group.nodes
  BY <1>1
<1> QED BY <1>1, <1>2

LEMMA NextTierInv ==
  ASSUME IInv, NextTier
  PROVE  IInv'
<1> USE DEF NextTier
<1>1. /\ group' = group /\ phase' = phase /\ tiers' = tiers /\ phase = "walking"
      /\ turn' = turn + 1 /\ value' = value
  BY DEF topologyVars
<1>2. turn \in Nat /\ turn + 1 \in 1..Len(tiers) /\ tiers[turn + 1] \subseteq Node
  BY TiersTyped
<1>3. \A n \in tiers[turn + 1] : \A k \in 1..turn : n \notin tiers[k]
  BY <1>2, TiersTyped DEF IInv, KahnInv, Disjoint
<1>4. \A n \in Node : at'[n] = IF n \in tiers[turn + 1] THEN "asking" ELSE at[n]
  OBVIOUS
<1>5. at' \in [Node -> {"idle", "asking", "running", "gathering"} \cup Finished]
  BY <1>4 DEF IInv, TypeOK
<1>6. TypeOK'
  <2>1. TopologyTypeOK'
    BY DEF IInv, TypeOK, TopologyTypeOK, topologyVars
  <2>2. Arrows' = Arrows /\ \A n \in Node : Incoming(n)' = Incoming(n)
    BY <1>1 DEF Incoming, Arrows, To
  <2> QED BY <1>1, <1>2, <1>5, <2>1, <2>2 DEF IInv, TypeOK
<1>7. KahnInv'
  <2>1. phase' \notin Unsorted \cup {"sorting"}
    BY <1>1 DEF Unsorted
  <2> QED BY <1>1, <2>1, KahnStable DEF IInv
<1>8. WalkInv'
  <2>1. phase' \notin Unsorted \cup {"sorting"} /\ EndsDrained'
    BY <1>1 DEF Unsorted, EndsDrained
  <2>2. \A n \in Node : at'[n] # "idle" => \E k \in 1..turn' : n \in tiers[k]
    <3> SUFFICES ASSUME NEW n \in Node, at'[n] # "idle"
                 PROVE  \E k \in 1..(turn + 1) : n \in tiers[k]
      BY <1>1
    <3>1. CASE n \in tiers[turn + 1]
      BY <3>1, <1>2
    <3>2. CASE n \notin tiers[turn + 1]
      <4>1. PICK k \in 1..turn : n \in tiers[k]
        BY <3>2, <1>4 DEF IInv, WalkInv
      <4> QED BY <4>1, <1>2
    <3> QED BY <3>1, <3>2
  <2>3. \A k \in 1..(turn' - 1) : \A n \in tiers[k] : at'[n] = "settled"
    <3> SUFFICES ASSUME NEW k \in 1..turn, NEW n \in tiers[k]
                 PROVE  at'[n] = "settled"
      BY <1>1, <1>2
    <3>1. n \in Node /\ n \notin tiers[turn + 1]
      BY <1>2, <1>3, TiersTyped
    <3>2. at[n] = "settled"
      <4>1. CASE k = turn
        BY <4>1, <1>2 DEF Tier
      <4>2. CASE k # turn
        BY <4>2, <1>2 DEF IInv, WalkInv
      <4> QED BY <4>1, <4>2
    <3> QED BY <3>1, <3>2, <1>4
  <2>4. \A n \in Node : at'[n] = "settled" => value[n] # "none"
    BY <1>4 DEF IInv, WalkInv
  <2> QED BY <1>1, <2>1, <2>2, <2>3, <2>4 DEF WalkInv
<1> QED BY <1>1, <1>6, <1>7, <1>8 DEF IInv

LEMMA PhaseInv ==
  ASSUME IInv, TierFails \/ Drained \/ CallerCancels \/ Finish
  PROVE  IInv'
<1>1. /\ group' = group /\ tiers' = tiers /\ phase \notin Unsorted \cup {"sorting"}
      /\ phase' \in {"walking", "draining", "returned", "raised"}
      /\ UNCHANGED <<white, stack, degree, turn, at, pos, feed, alive, value, made, given>>
  BY DEF TierFails, Drained, CallerCancels, Finish, Unsorted, walkVars
<1>2. told' \subseteq Node /\ cancels' \in 0..MaxCancels
  <2>1. told \subseteq Node /\ cancels \in 0..MaxCancels /\ MaxCancels \in Nat
    BY RunnerAssumption DEF IInv, TypeOK
  <2> QED BY <2>1 DEF TierFails, Drained, CallerCancels, Finish, InFlight, walkVars
<1>3. TypeOK'
  <2>1. TopologyTypeOK'
    BY <1>1 DEF IInv, TypeOK, TopologyTypeOK
  <2>2. Arrows' = Arrows /\ \A n \in Node : Incoming(n)' = Incoming(n)
    BY <1>1 DEF Incoming, Arrows, To
  <2> QED BY <1>1, <1>2, <2>1, <2>2 DEF IInv, TypeOK
<1>4. KahnInv'
  <2>1. phase' \notin Unsorted \cup {"sorting"}
    BY <1>1 DEF Unsorted
  <2> QED BY <1>1, <2>1, KahnStable DEF IInv
<1>5. EndsDrained'
  <2>1. phase' \in {"returned", "raised"} => InFlight = {}
    <3>1. CASE TierFails
      BY <3>1 DEF TierFails
    <3>2. CASE Drained
      BY <3>2 DEF Drained
    <3>3. CASE CallerCancels
      BY <3>3 DEF CallerCancels
    <3>4. CASE Finish
      BY <3>4, InFlightInTier DEF Finish, InFlight
    <3> QED BY <3>1, <3>2, <3>3, <3>4
  <2> QED BY <1>1, <2>1 DEF EndsDrained, InFlight
<1>6. WalkInv'
  <2>1. phase' \notin Unsorted \cup {"sorting"}
    BY <1>1 DEF Unsorted
  <2> QED BY <1>1, <1>5, <2>1 DEF IInv, WalkInv
<1> QED BY <1>1, <1>3, <1>4, <1>6 DEF IInv

LEMMA StepInv == IInv /\ [Next]_vars => IInv'
<1> SUFFICES ASSUME IInv, [Next]_vars PROVE IInv'
  OBVIOUS
<1>1. CASE TopologyNext /\ UNCHANGED walkVars
  BY <1>1, TopologyInv
<1>2. CASE Walk
  BY <1>2, NextTierInv, PhaseInv, ResolveInv, EndInv DEF Walk
<1>3. CASE CallerCancels
  BY <1>3, PhaseInv
<1>4. CASE UNCHANGED vars
  <2>1. TypeOK'
    BY <1>4 DEF IInv, TypeOK, TopologyTypeOK, vars, topologyVars, walkVars, Incoming,
       Arrows, To
  <2>2. WalkInv'
    BY <1>4 DEF IInv, WalkInv, vars, topologyVars, walkVars, EndsDrained, InFlight
  <2>3. KahnInv'
    BY <1>4 DEF IInv, KahnInv, Disjoint, Forward, Upstreams, Incoming, Arrows, From, To,
       Tiered, Past, vars, topologyVars
  <2> QED BY <1>4, <2>1, <2>2, <2>3 DEF IInv, vars, topologyVars
<1> QED BY <1>1, <1>2, <1>3, <1>4 DEF Next

-----------------------------------------------------------------------------
(* Every reachable state of the construction and the walk of a group is    *)
(* well typed, Kahn's counters included, which never become negative       *)
(* (AgentGroup.topological_tiers).                                         *)
THEOREM GroupTypeCorrect == Spec => []TypeOK
<1>1. IInv => TypeOK
  BY DEF IInv
<1> QED BY <1>1, InitInv, StepInv, PTL DEF Spec

(* No node is looked at before the results of its upstreams are stored, in *)
(* any group: what topological_tiers promises run_group.                   *)
THEOREM OrderCorrect == Spec => []OrderRespected
<1>1. IInv => OrderRespected
  <2> SUFFICES ASSUME IInv, NEW n \in Node, at[n] # "idle", NEW m \in Upstreams(n)
               PROVE  Stored(m) # "none"
    BY DEF OrderRespected
  <2>1. PICK k \in 1..turn : n \in tiers[k]
    BY DEF IInv, WalkInv
  <2>2. turn \in 0..Len(tiers) /\ Len(tiers) \in Nat /\ k \in DOMAIN tiers
    BY <2>1, TiersTyped
  <2>3. PICK l \in 1..(k - 1) : m \in tiers[l]
    BY <2>1, <2>2 DEF IInv, KahnInv, Forward
  <2>4. l \in 1..(turn - 1) /\ m \in Node
    BY <2>1, <2>2, <2>3, TiersTyped
  <2>5. value[m] # "none"
    BY <2>3, <2>4 DEF IInv, WalkInv
  <2> QED BY <2>3, <2>4, <2>5 DEF Stored
<1> QED BY <1>1, InitInv, StepInv, PTL DEF Spec

(* However the walk of any group ends, nothing of it is in flight then     *)
(* (_dispatch_tier_parallel cancels and drains).                           *)
THEOREM DrainCorrect == Spec => []EndsDrained
<1>1. IInv => EndsDrained
  BY DEF IInv, WalkInv
<1> QED BY <1>1, InitInv, StepInv, PTL DEF Spec
-----------------------------------------------------------------------------
(* The verdicts of the construction.                                       *)

(* Every non-empty set of natural numbers has a least member: what stands  *)
(* in for the library's induction, which takes an operator.                *)
LEMMA Least ==
  ASSUME NEW S \in SUBSET Nat, S # {}
  PROVE  \E n \in S : \A m \in S : n <= m
<1>. DEFINE Below == {0..n : n \in S}
<1>1. IsWellFoundedOn(StrictSubsetOrdering(Nat), FiniteSubsetsOf(Nat))
  BY FS_StrictSubsetOrderingWellFounded
<1>2. ASSUME NEW n \in S PROVE 0..n \in FiniteSubsetsOf(Nat)
  BY FS_Interval DEF FiniteSubsetsOf
<1>3. Below \subseteq FiniteSubsetsOf(Nat) /\ Below # {}
  BY <1>2
<1>4. PICK x \in Below : \A y \in Below : <<y, x>> \notin StrictSubsetOrdering(Nat)
  <2>. HIDE DEF Below
  <2>. QED
    BY <1>1, <1>3, WFMin
<1>5. PICK n \in S : x = 0..n
  BY <1>4
<1>6. ASSUME NEW m \in S, m < n PROVE FALSE
  <2>1. m \in Nat /\ n \in Nat /\ 0..m \in SUBSET Nat /\ 0..n \in SUBSET Nat
    OBVIOUS
  <2>2. 0..m \subseteq 0..n
    BY <1>6, <2>1
  <2>3. n \in 0..n /\ n \notin 0..m
    BY <1>6, <2>1
  <2>4. <<0..m, 0..n>> \in StrictSubsetOrdering(Nat)
    BY <2>1, <2>2, <2>3 DEF StrictSubsetOrdering
  <2>. QED
    BY <2>4, <1>4, <1>5
<1>. QED
  BY <1>6

(* What only the group decides stays what it is.                           *)
LEMMA SameGroup ==
  ASSUME group' = group
  PROVE  /\ Arrows' = Arrows
         /\ \A i : From(i)' = From(i) /\ To(i)' = To(i)
         /\ \A n : Outgoing(n)' = Outgoing(n) /\ Incoming(n)' = Incoming(n)
         /\ \A n : Upstreams(n)' = Upstreams(n)
         /\ Acyclic' = Acyclic
BY DEF Arrows, From, To, Outgoing, Incoming, Upstreams, Acyclic

(* The depth-first visit.  Black nodes have been visited; they are ordered *)
(* along their arrows, none of which leaves them.  The open visits follow  *)
(* a path, and have looked at arrows to black nodes and the next visit.    *)
Black == group.nodes \ (white \cup Gray)

Ranks(rank, B) ==
  /\ rank \in [B -> 1..Cardinality(B)]
  /\ \A i \in Arrows : From(i) \in B => To(i) \in B /\ rank[From(i)] < rank[To(i)]

Distinct ==
  /\ white \cap Gray = {}
  /\ \A p, q \in DOMAIN stack : stack[p].node = stack[q].node => p = q

LookedInv ==
  \A p \in DOMAIN stack : \A i \in Outgoing(stack[p].node) :
    i <= stack[p].last =>
      \/ To(i) \in Black
      \/ p < Len(stack) /\ To(i) = stack[p + 1].node

PathInv ==
  \A p \in DOMAIN stack :
    p < Len(stack) => \E i \in Outgoing(stack[p].node) : To(i) = stack[p + 1].node

VisitInv == Distinct /\ LookedInv /\ PathInv /\ \E rank : Ranks(rank, Black)

TargetsInv ==
  /\ phase = "constructing" => stack = <<>>
  /\ phase \notin {"constructing", "rejected"} => \A i \in Arrows : To(i) \in group.nodes

LEMMA StackTypes ==
  ASSUME IInv
  PROVE  /\ Len(stack) \in Nat /\ DOMAIN stack = 1..Len(stack)
         /\ \A p \in 1..Len(stack) :
              stack[p].node \in group.nodes /\ stack[p].last \in Nat
         /\ \A n \in group.nodes : Open(n).node = n /\ Open(n).last = 0
<1>. DEFINE Entry == [node : group.nodes, last : 0..Len(group.arrows)]
<1>1. stack \in Seq(Entry)
  BY DEF IInv, TypeOK, TopologyTypeOK
<1>2. Len(group.arrows) \in Nat
  BY GroupTypes DEF IInv
<1>3. /\ Len(stack) \in Nat /\ DOMAIN stack = 1..Len(stack)
      /\ \A p \in 1..Len(stack) : stack[p] \in Entry
  <2>. HIDE DEF Entry
  <2>. QED
    BY <1>1
<1>. QED
  BY <1>2, <1>3 DEF Open

(* A visit that opens, on top of a stack whose nodes stay what they were.  *)
LEMMA OpensVisit ==
  ASSUME IInv, VisitInv, group' = group, NEW x \in white,
         white' = white \ {x},
         Len(stack') = Len(stack) + 1, DOMAIN stack' = 1..(Len(stack) + 1),
         stack'[Len(stack) + 1] = Open(x),
         \A p \in 1..Len(stack) : stack'[p].node = stack[p].node
  PROVE  /\ Distinct' /\ Black' = Black
         /\ Gray' = Gray \cup {x}
<1>0. /\ Len(stack) \in Nat /\ DOMAIN stack = 1..Len(stack)
      /\ x \in group.nodes /\ Open(x).node = x
  BY StackTypes DEF IInv, TypeOK, TopologyTypeOK
<1>1. Gray = {stack[p].node : p \in 1..Len(stack)}
  BY <1>0 DEF Gray
<1>2. Gray' = Gray \cup {x}
  <2>1. Gray' = {stack'[p].node : p \in 1..(Len(stack) + 1)}
    BY DEF Gray
  <2>2. \A p \in 1..(Len(stack) + 1) : p \in 1..Len(stack) \/ p = Len(stack) + 1
    BY <1>0
  <2>3. \A p \in 1..Len(stack) : p \in 1..(Len(stack) + 1)
    BY <1>0
  <2>4. Len(stack) + 1 \in 1..(Len(stack) + 1)
    BY <1>0
  <2>5. Gray' \subseteq Gray \cup {x}
    BY <1>0, <1>1, <2>1, <2>2
  <2>6. Gray \cup {x} \subseteq Gray'
    BY <1>0, <1>1, <2>1, <2>3, <2>4
  <2>. QED
    BY <2>5, <2>6
<1>3. x \notin Gray
  BY DEF VisitInv, Distinct
<1>4. \A p, q \in DOMAIN stack' : stack'[p].node = stack'[q].node => p = q
  <2>. SUFFICES ASSUME NEW p \in DOMAIN stack', NEW q \in DOMAIN stack',
                       stack'[p].node = stack'[q].node
                PROVE  p = q
    OBVIOUS
  <2>1. ASSUME NEW r \in DOMAIN stack' PROVE r \in 1..Len(stack) \/ r = Len(stack) + 1
    BY <1>0
  <2>2. ASSUME NEW r \in 1..Len(stack) PROVE stack'[r].node # x
    BY <1>1, <1>3
  <2>. QED
    BY <1>0, <2>1, <2>2 DEF VisitInv, Distinct
<1>5. Distinct'
  BY <1>2, <1>3, <1>4 DEF VisitInv, Distinct
<1>6. Black' = Black
  BY <1>2, <1>3 DEF Black
<1>. QED
  BY <1>2, <1>5, <1>6

LEMMA RanksKept ==
  ASSUME group' = group, Black' = Black, VisitInv
  PROVE  (\E rank : Ranks(rank, Black))'
BY SameGroup DEF VisitInv, Ranks

LEMMA RootKeeps ==
  ASSUME IInv, VisitInv, VisitRoot
  PROVE  VisitInv'
<1>1. PICK n \in white : white' = white \ {n} /\ stack' = <<Open(n)>>
  BY DEF VisitRoot
<1>2. /\ stack = <<>> /\ group' = group /\ Len(stack) = 0
      /\ Len(stack') = 1 /\ DOMAIN stack' = 1..1 /\ stack'[1] = Open(n)
      /\ n \in group.nodes /\ Open(n).last = 0 /\ Open(n).node = n
  BY <1>1, StackTypes DEF VisitRoot, IInv, TypeOK, TopologyTypeOK
<1>3. Distinct' /\ Black' = Black
  BY <1>1, <1>2, OpensVisit
<1>4. LookedInv'
  <2>1. \A i \in Outgoing(n) : ~(i <= 0)
    BY GroupTypes DEF IInv, Outgoing
  <2>. QED
    BY <1>2, <2>1, SameGroup DEF LookedInv
<1>5. PathInv'
  BY <1>2 DEF PathInv
<1>. QED
  BY <1>2, <1>3, <1>4, <1>5, RanksKept DEF VisitInv

(* One more arrow of the innermost visit has been looked at.               *)
LEMMA LookedAtIs ==
  ASSUME IInv, stack # <<>>, NEW i \in Left
  PROVE  /\ LookedAt(i) \in Seq([node : group.nodes, last : 0..Len(group.arrows)])
         /\ Len(LookedAt(i)) = Len(stack)
         /\ \A p \in 1..Len(stack) : LookedAt(i)[p].node = stack[p].node
         /\ \A p \in 1..Len(stack) : p < Len(stack) => LookedAt(i)[p] = stack[p]
         /\ LookedAt(i)[Len(stack)].last = i
         /\ Len(stack) \in 1..Len(stack) /\ i \in Outgoing(stack[Len(stack)].node)
         /\ i \in 1..Len(group.arrows)
<1>. DEFINE Entry == [node : group.nodes, last : 0..Len(group.arrows)]
            top == stack[Len(stack)]
<1>1. stack \in Seq(Entry)
  BY DEF IInv, TypeOK, TopologyTypeOK
<1>2. i \in 1..Len(group.arrows) /\ i \in 0..Len(group.arrows) /\ i \in Outgoing(top.node)
  BY GroupTypes DEF IInv, Left, Outgoing
<1>3. top \in Entry /\ Len(stack) \in 1..Len(stack) /\ Len(stack) \in Nat
  <2>. HIDE DEF Entry
  <2>. QED
    BY <1>1
<1>. DEFINE new == [top EXCEPT !.last = i]
<1>4. new \in Entry /\ new.node = top.node /\ new.last = i
  BY <1>2, <1>3
<1>5. LookedAt(i) = [stack EXCEPT ![Len(stack)] = new]
  BY DEF LookedAt
<1>6. /\ LookedAt(i) \in Seq(Entry) /\ Len(LookedAt(i)) = Len(stack)
      /\ \A p \in 1..Len(stack) : LookedAt(i)[p] = IF p = Len(stack) THEN new ELSE stack[p]
  <2>. HIDE DEF Entry, new
  <2>. QED
    BY <1>1, <1>3, <1>4, <1>5
<1>. QED
  BY <1>2, <1>3, <1>4, <1>6

(* What a visit finds under the first arrow it has not looked at yet.      *)
LEMMA FirstLeft ==
  ASSUME IInv, stack # <<>>, NEW i \in Left, \A j \in Left : i <= j,
         NEW j \in Outgoing(stack[Len(stack)].node), j <= i
  PROVE  j <= stack[Len(stack)].last \/ j = i
<1>1. /\ j \in 1..Len(group.arrows) /\ i \in 1..Len(group.arrows)
      /\ Len(group.arrows) \in Nat /\ Len(stack) \in 1..Len(stack)
  BY GroupTypes, LookedAtIs DEF IInv, Outgoing
<1>2. stack[Len(stack)].last \in Nat
  BY <1>1, StackTypes
<1>3. j > stack[Len(stack)].last => j \in Left
  BY DEF Left
<1>. QED
  BY <1>1, <1>2, <1>3

LEMMA PassesKeeps ==
  ASSUME IInv, VisitInv, group' = group, white' = white, stack # <<>>,
         NEW i \in Left, \A j \in Left : i <= j,
         To(i) \in Black, stack' = LookedAt(i)
  PROVE  VisitInv'
<1>0. /\ Len(stack) \in Nat /\ DOMAIN stack = 1..Len(stack)
      /\ Len(stack') = Len(stack) /\ DOMAIN stack' = 1..Len(stack)
      /\ \A p \in 1..Len(stack) : stack'[p].node = stack[p].node
      /\ \A p \in 1..Len(stack) : p < Len(stack) => stack'[p] = stack[p]
      /\ stack'[Len(stack)].last = i
  BY StackTypes, LookedAtIs
<1>1. Gray' = Gray
  BY <1>0 DEF Gray
<1>2. Black' = Black
  BY <1>1 DEF Black
<1>3. Distinct'
  BY <1>0, <1>1 DEF VisitInv, Distinct
<1>4. PathInv'
  BY <1>0, SameGroup DEF VisitInv, PathInv
<1>5. LookedInv'
  <2>. SUFFICES ASSUME NEW p \in 1..Len(stack), NEW j \in Outgoing(stack[p].node),
                       j <= stack'[p].last
                PROVE  \/ To(j) \in Black
                       \/ p < Len(stack) /\ To(j) = stack[p + 1].node
    BY <1>0, <1>2, SameGroup DEF LookedInv
  <2>1. CASE p < Len(stack)
    BY <1>0, <2>1 DEF VisitInv, LookedInv
  <2>2. CASE p = Len(stack)
    <3>1. j <= stack[p].last \/ j = i
      BY <1>0, <2>2, FirstLeft
    <3>. QED
      BY <1>0, <3>1 DEF VisitInv, LookedInv
  <2>. QED
    BY <1>0, <2>1, <2>2
<1>. QED
  BY <1>2, <1>3, <1>4, <1>5, RanksKept DEF VisitInv

LEMMA DescendsIs ==
  ASSUME IInv, stack # <<>>, NEW i \in Left,
         stack' = Append(LookedAt(i), Open(To(i)))
  PROVE  /\ Len(stack') = Len(stack) + 1 /\ DOMAIN stack' = 1..(Len(stack) + 1)
         /\ stack'[Len(stack) + 1] = Open(To(i))
         /\ \A p \in 1..Len(stack) : stack'[p].node = stack[p].node
         /\ \A p \in 1..Len(stack) : p < Len(stack) => stack'[p] = stack[p]
         /\ stack'[Len(stack)].last = i
<1>. DEFINE Entry == [node : group.nodes, last : 0..Len(group.arrows)]
            s == LookedAt(i)
<1>1. /\ s \in Seq(Entry) /\ Len(s) = Len(stack) /\ Len(stack) \in Nat
  BY StackTypes, LookedAtIs
<1>2. /\ Len(stack') = Len(stack) + 1 /\ DOMAIN stack' = 1..(Len(stack) + 1)
      /\ stack'[Len(stack) + 1] = Open(To(i))
      /\ \A p \in 1..Len(stack) : stack'[p] = s[p]
  <2>. HIDE DEF Entry, s
  <2>1. stack' = Append(s, Open(To(i)))
    BY DEF s
  <2>2. Len(s) \in Nat /\ DOMAIN s = 1..Len(s)
    BY <1>1
  <2>. QED
    BY <1>1, <2>1, <2>2
<1>. QED
  BY <1>2, LookedAtIs

LEMMA DescendsKeeps ==
  ASSUME IInv, VisitInv, group' = group, stack # <<>>,
         NEW i \in Left, \A j \in Left : i <= j,
         To(i) \in white, white' = white \ {To(i)},
         NEW n, n = Len(stack), Len(stack') = n + 1, DOMAIN stack' = 1..(n + 1),
         stack'[n + 1] = Open(To(i)),
         \A p \in 1..n : stack'[p].node = stack[p].node,
         \A p \in 1..n : p < n => stack'[p] = stack[p],
         stack'[n].last = i
  PROVE  VisitInv'
<1>. DEFINE x == To(i)
<1>0. /\ n \in Nat /\ DOMAIN stack = 1..n /\ n \in 1..n
      /\ Len(stack') = n + 1 /\ DOMAIN stack' = 1..(n + 1)
      /\ stack'[n + 1] = Open(x)
      /\ \A p \in 1..n : stack'[p].node = stack[p].node
      /\ \A p \in 1..n : p < n => stack'[p] = stack[p]
      /\ stack'[n].last = i
  BY StackTypes, LookedAtIs
<1>1. x \in group.nodes /\ Open(x).node = x /\ Open(x).last = 0
  BY StackTypes DEF IInv, TypeOK, TopologyTypeOK
<1>2. Distinct' /\ Black' = Black
  BY <1>0, OpensVisit
<1>3. \A p \in 1..(n + 1) : p < n \/ p = n \/ p = n + 1
  BY <1>0
<1>4. PathInv'
  <2>. SUFFICES ASSUME NEW p \in 1..n
                PROVE  \E j \in Outgoing(stack[p].node) : To(j) = stack'[p + 1].node
    BY <1>0, SameGroup DEF PathInv
  <2>1. CASE p < n
    <3>1. p + 1 \in 1..n
      BY <1>0, <2>1
    <3>. QED
      BY <1>0, <2>1, <3>1 DEF VisitInv, PathInv
  <2>2. CASE p = n
    BY <1>0, <1>1, <2>2, LookedAtIs
  <2>. QED
    BY <1>0, <2>1, <2>2
<1>5. LookedInv'
  <2>. SUFFICES ASSUME NEW p \in 1..(n + 1), NEW j \in Outgoing(stack'[p].node),
                       j <= stack'[p].last
                PROVE  \/ To(j) \in Black
                       \/ p < n + 1 /\ To(j) = stack'[p + 1].node
    BY <1>0, <1>2, SameGroup DEF LookedInv
  <2>1. CASE p < n
    <3>1. p + 1 \in 1..n /\ p \in 1..n
      BY <1>0, <2>1
    <3>. QED
      BY <1>0, <2>1, <3>1 DEF VisitInv, LookedInv
  <2>2. CASE p = n
    <3>1. j <= stack[p].last \/ j = i
      BY <1>0, <2>2, FirstLeft
    <3>2. j <= stack[p].last => To(j) \in Black
      BY <1>0, <2>2 DEF VisitInv, LookedInv
    <3>3. j = i => p < n + 1 /\ To(j) = stack'[p + 1].node
      BY <1>0, <1>1, <2>2
    <3>. QED
      BY <3>1, <3>2, <3>3
  <2>3. CASE p = n + 1
    <3>1. j \in 1..Len(group.arrows) /\ Len(group.arrows) \in Nat
      BY GroupTypes DEF IInv, Outgoing
    <3>. QED
      BY <1>0, <1>1, <2>3, <3>1
  <2>. QED
    BY <1>3, <2>1, <2>2, <2>3
<1>. QED
  BY <1>2, <1>4, <1>5, RanksKept DEF VisitInv

(* Nodes are ranked in the order in which their visits end, the last first.*)
LEMMA RanksGrow ==
  ASSUME group \in Groups, NEW B \in SUBSET group.nodes, NEW n \in group.nodes,
         n \notin B, NEW rank, Ranks(rank, B),
         \A i \in Outgoing(n) : To(i) \in B
  PROVE  \E r : Ranks(r, B \cup {n})
<1>. DEFINE N == Cardinality(B)
            C == B \cup {n}
            r == [b \in C |-> IF b = n THEN 1 ELSE rank[b] + 1]
<1>1. IsFiniteSet(B) /\ N \in Nat
  BY GroupAssumption, FS_Subset, FS_CardinalityType
<1>2. Cardinality(C) = N + 1
  BY <1>1, FS_AddElement
<1>3. rank \in [B -> 1..N]
  BY DEF Ranks
<1>4. r \in [C -> 1..(N + 1)]
  <2>1. ASSUME NEW b \in B PROVE rank[b] + 1 \in 1..(N + 1)
    BY <1>1, <1>3
  <2>2. 1 \in 1..(N + 1)
    BY <1>1
  <2>. HIDE DEF N
  <2>. QED
    BY <2>1, <2>2
<1>5. ASSUME NEW i \in Arrows, From(i) \in C
      PROVE  To(i) \in C /\ r[From(i)] < r[To(i)]
  <2>1. CASE From(i) = n
    <3>1. To(i) \in B
      BY <2>1 DEF Outgoing
    <3>2. r[To(i)] = rank[To(i)] + 1 /\ rank[To(i)] \in 1..N /\ r[n] = 1
      BY <1>3, <3>1
    <3>. QED
      BY <1>1, <2>1, <3>1, <3>2
  <2>2. CASE From(i) # n
    <3>1. From(i) \in B /\ To(i) \in B /\ rank[From(i)] < rank[To(i)]
      BY <1>5, <2>2 DEF Ranks
    <3>2. /\ r[From(i)] = rank[From(i)] + 1 /\ r[To(i)] = rank[To(i)] + 1
          /\ rank[From(i)] \in 1..N /\ rank[To(i)] \in 1..N
      BY <1>3, <3>1
    <3>. QED
      BY <1>1, <3>1, <3>2
  <2>. QED
    BY <2>1, <2>2
<1>6. Ranks(r, C)
  <2>. HIDE DEF r, C
  <2>. QED
    BY <1>2, <1>4, <1>5 DEF Ranks, N
<1>. QED
  BY <1>6

(* An ending visit turns its node black.                                   *)
LEMMA CloseKeeps ==
  ASSUME IInv, VisitInv, CloseVisit, NEW n, n = Len(stack)
  PROVE  VisitInv'
<1>. DEFINE x == stack[n].node
<1>0. /\ group' = group /\ white' = white /\ stack # <<>> /\ Left = {}
  BY DEF CloseVisit
<1>1. /\ n \in Nat /\ n \in 1..n /\ DOMAIN stack = 1..n
      /\ \A p \in 1..n : stack[p].node \in group.nodes /\ stack[p].last \in Nat
  <2>1. n # 0
    BY <1>0 DEF IInv, TypeOK, TopologyTypeOK
  <2>2. n \in Nat
    BY StackTypes
  <2>. QED
    BY <2>1, <2>2, StackTypes
<1>2. /\ Len(stack') = n - 1 /\ DOMAIN stack' = 1..(n - 1)
      /\ \A p \in 1..(n - 1) : stack'[p] = stack[p]
  <2>. DEFINE Entry == [node : group.nodes, last : 0..Len(group.arrows)]
  <2>1. stack \in Seq(Entry)
    BY DEF IInv, TypeOK, TopologyTypeOK
  <2>2. stack' = SubSeq(stack, 1, n - 1)
    BY DEF CloseVisit
  <2>. HIDE DEF Entry
  <2>. QED
    BY <1>1, <2>1, <2>2
<1>3. \A p \in 1..(n - 1) : p \in 1..n /\ p < n /\ p + 1 \in 1..n
  BY <1>1
<1>4. \A p \in 1..n : p = n \/ p \in 1..(n - 1)
  BY <1>1
<1>5. ASSUME NEW p \in 1..(n - 1) PROVE stack[p].node # x
  <2>1. p \in DOMAIN stack /\ n \in DOMAIN stack /\ p # n
    BY <1>1, <1>3
  <2>. QED
    BY <2>1, Zenon DEF VisitInv, Distinct
<1>6. Gray = Gray' \cup {x} /\ x \notin Gray'
  <2>1. Gray = {stack[p].node : p \in 1..n}
    BY <1>1 DEF Gray
  <2>2. Gray' = {stack'[p].node : p \in 1..(n - 1)}
    BY <1>2 DEF Gray
  <2>3. Gray' \subseteq Gray /\ x \in Gray /\ x \notin Gray'
    BY <1>1, <1>2, <1>3, <1>5, <2>1, <2>2
  <2>4. Gray \subseteq Gray' \cup {x}
    BY <1>2, <1>4, <2>1, <2>2
  <2>. QED
    BY <2>3, <2>4
<1>7. x \in group.nodes /\ x \notin Black /\ Black' = Black \cup {x}
  BY <1>0, <1>1, <1>6 DEF VisitInv, Distinct, Black
<1>8. \A i \in Outgoing(x) : To(i) \in Black
  <2>1. \A i \in Outgoing(x) : i <= stack[n].last
    BY <1>0, <1>1, GroupTypes DEF Left, Outgoing, IInv
  <2>. QED
    BY <1>1, <2>1 DEF VisitInv, LookedInv
<1>9. (\E rank : Ranks(rank, Black))'
  <2>1. PICK rank : Ranks(rank, Black)
    BY DEF VisitInv
  <2>2. \E r : Ranks(r, Black \cup {x})
    <3>1. Black \in SUBSET group.nodes /\ group \in Groups
      BY DEF Black, IInv
    <3>. HIDE DEF x
    <3>. QED
      BY <1>7, <1>8, <2>1, <3>1, RanksGrow
  <2>. QED
    BY <1>0, <1>7, <2>2, SameGroup DEF Ranks
<1>10. Distinct'
  BY <1>0, <1>1, <1>2, <1>3, <1>6 DEF VisitInv, Distinct
<1>11. PathInv'
  <2>. SUFFICES ASSUME NEW p \in 1..(n - 1), p < n - 1
                PROVE  \E j \in Outgoing(stack[p].node) : To(j) = stack'[p + 1].node
    <3>1. Len(stack') = n - 1 /\ DOMAIN stack' = 1..(n - 1)
      BY <1>2
    <3>2. \A p \in 1..(n - 1) : stack'[p] = stack[p]
      BY <1>2
    <3>3. \A i : To(i)' = To(i) /\ From(i)' = From(i)
      BY <1>0, SameGroup
    <3>4. Arrows' = Arrows
      BY <1>0, SameGroup
    <3>5. ASSUME NEW p \in 1..(n - 1), p < n - 1
          PROVE  (\E i \in Outgoing(stack[p].node) : To(i) = stack[p + 1].node)'
      <4>1. PICK j \in Outgoing(stack[p].node) : To(j) = stack'[p + 1].node
        BY <3>5
      <4>2. j \in Outgoing(stack[p].node)'
        BY <3>2, <3>3, <3>4 DEF Outgoing
      <4>. QED
        BY <3>3, <4>1, <4>2
    <3>. QED
      BY <3>1, <3>5 DEF PathInv
  <2>1. p \in 1..n /\ p < n /\ p + 1 \in 1..(n - 1)
    BY <1>1
  <2>. QED
    BY <1>1, <1>2, <2>1 DEF VisitInv, PathInv
<1>12. LookedInv'
  <2>. SUFFICES ASSUME NEW p \in 1..(n - 1), NEW j \in Outgoing(stack[p].node),
                       j <= stack[p].last
                PROVE  \/ To(j) \in Black'
                       \/ p < n - 1 /\ To(j) = stack'[p + 1].node
    BY <1>0, <1>2, SameGroup DEF LookedInv
  <2>1. To(j) \in Black \/ To(j) = stack[p + 1].node
    BY <1>1, <1>3 DEF VisitInv, LookedInv
  <2>2. p + 1 = n \/ (p < n - 1 /\ p + 1 \in 1..(n - 1))
    BY <1>1
  <2>. QED
    BY <1>2, <1>7, <2>1, <2>2
<1>. QED
  BY <1>9, <1>10, <1>11, <1>12 DEF VisitInv

(* An arrow back to an open visit closes a cycle.                          *)
LEMMA BackArrow ==
  ASSUME IInv, VisitInv, stack # <<>>, NEW i \in Left, To(i) \in Gray
  PROVE  ~Acyclic
<1>. DEFINE M == Cardinality(group.nodes)
<1>0. SUFFICES ASSUME NEW rank \in [group.nodes -> 1..M],
                      \A j \in Arrows : rank[From(j)] < rank[To(j)]
               PROVE  FALSE
  BY DEF Acyclic
<1>1. M \in Nat
  BY GroupAssumption, FS_CardinalityType DEF IInv
<1>2. \A v \in group.nodes : rank[v] \in Int
  BY <1>1
<1>. HIDE DEF M
<1>3. PICK q \in 1..Len(stack) : To(i) = stack[q].node
  BY StackTypes DEF Gray
<1>4. /\ Len(stack) \in Nat /\ Len(stack) \in 1..Len(stack)
      /\ \A p \in 1..Len(stack) : stack[p].node \in group.nodes
  BY StackTypes, LookedAtIs
<1>. DEFINE Bad == {p \in q..Len(stack) : ~(rank[stack[q].node] <= rank[stack[p].node])}
<1>5. Bad = {}
  <2>. SUFFICES ASSUME Bad # {} PROVE FALSE
    OBVIOUS
  <2>1. Bad \in SUBSET Nat
    BY <1>3, <1>4
  <2>2. PICK m \in Bad : \A p \in Bad : m <= p
    <3>. HIDE DEF Bad
    <3>. QED
      BY <2>1, Least
  <2>3. m # q
    BY <1>2, <1>3, <1>4
  <2>4. /\ m - 1 \in q..Len(stack) /\ m - 1 \notin Bad /\ m \in 1..Len(stack)
        /\ m - 1 \in 1..Len(stack) /\ m - 1 < Len(stack) /\ (m - 1) + 1 = m
    BY <1>3, <1>4, <2>2, <2>3
  <2>5. PICK j \in Outgoing(stack[m - 1].node) : To(j) = stack[m].node
    BY <1>4, <2>4, StackTypes DEF VisitInv, PathInv
  <2>6. rank[stack[m - 1].node] < rank[stack[m].node]
    BY <1>0, <2>5 DEF Outgoing
  <2>7. rank[stack[q].node] <= rank[stack[m - 1].node]
    BY <2>4
  <2>8. /\ rank[stack[q].node] \in Int /\ rank[stack[m].node] \in Int
        /\ rank[stack[m - 1].node] \in Int
    BY <1>2, <1>3, <1>4, <2>4
  <2>9. rank[stack[q].node] <= rank[stack[m].node]
    BY <2>6, <2>7, <2>8
  <2>. QED
    BY <2>9
<1>6. rank[stack[q].node] <= rank[stack[Len(stack)].node]
  BY <1>3, <1>4, <1>5
<1>7. rank[stack[Len(stack)].node] < rank[stack[q].node]
  BY <1>0, <1>3, LookedAtIs DEF Outgoing
<1>8. rank[stack[q].node] \in Int /\ rank[stack[Len(stack)].node] \in Int
  BY <1>2, <1>3, <1>4
<1>. QED
  BY <1>6, <1>7, <1>8

(* When everything is black, nothing is on a cycle.                        *)
LEMMA AllBlack ==
  ASSUME IInv, VisitInv, TargetsInv, phase = "visiting", stack = <<>>, white = {}
  PROVE  Acyclic
<1>1. Black = group.nodes
  BY DEF Black, Gray
<1>. QED
  BY <1>1, GroupTypes DEF VisitInv, Ranks, Acyclic, IInv

-----------------------------------------------------------------------------
(* Every tier but the first holds what the one before released; what is in *)
(* no tier waits for something that has not released.                      *)
TightInv ==
  /\ \A k \in DOMAIN tiers : \A n \in tiers[k] :
       k > 1 => Upstreams(n) \cap tiers[k - 1] # {}
  /\ phase = "sorting" => \A n \in group.nodes \ Tiered : degree[n] > 0
  /\ Sorted => Tiered = group.nodes

TopoInv == VisitInv /\ TargetsInv /\ CycleExact /\ TightInv

(* If nothing is released any more, in a group without a cycle, everything *)
(* has been.                                                               *)
LEMMA AllReleased ==
  ASSUME IInv, TightInv, TargetsInv, Acyclic, phase = "sorting", Freed = {}
  PROVE  Tiered = group.nodes
<1>1. /\ tiers \in Seq(SUBSET group.nodes) /\ group \in Groups
      /\ degree \in [Node -> Nat] /\ group.nodes \subseteq Node
  BY DEF IInv, TypeOK, TopologyTypeOK
<1>2. Tiered \subseteq group.nodes
  BY <1>1 DEF Tiered
<1>. DEFINE Rest == group.nodes \ Tiered
            M == Cardinality(group.nodes)
<1>3. SUFFICES ASSUME Rest # {} PROVE FALSE
  BY <1>2
<1>4. ASSUME NEW n \in Rest PROVE \E i \in Incoming(n) : From(i) \in Rest
  <2>1. degree[n] > 0 /\ n \in Node /\ degree[n] # Released[n]
    BY <1>1 DEF TightInv, Freed
  <2>. DEFINE L == {i \in Incoming(n) : From(i) \notin Tiered}
  <2>2. degree[n] - Released[n] = Cardinality(L) /\ Released[n] \in Nat
    BY <2>1, ReleaseCounts
  <2>3. Cardinality(L) # 0
    <3>. HIDE DEF L
    <3>. QED
      BY <1>1, <2>1, <2>2
  <2>4. L # {}
    BY <2>3, FS_EmptySet
  <2>. QED
    BY <1>1, <2>4, GroupTypes DEF Incoming
<1>5. PICK rank \in [group.nodes -> 1..M] : \A i \in Arrows : rank[From(i)] < rank[To(i)]
  BY DEF Acyclic
<1>6. M \in Nat
  BY <1>1, GroupAssumption, FS_CardinalityType
<1>. HIDE DEF M
<1>. DEFINE Values == {rank[n] : n \in Rest}
<1>7. Values \in SUBSET Nat /\ Values # {}
  BY <1>3, <1>5, <1>6
<1>8. PICK v \in Values : \A w \in Values : v <= w
  <2>. HIDE DEF Values
  <2>. QED
    BY <1>7, Least
<1>9. PICK n \in Rest : v = rank[n]
  BY <1>8
<1>10. PICK i \in Incoming(n) : From(i) \in Rest
  BY <1>4
<1>11. rank[From(i)] < rank[n] /\ rank[From(i)] \in Values
  BY <1>5, <1>10 DEF Incoming
<1>12. v \in Nat /\ rank[From(i)] \in Nat /\ v <= rank[From(i)]
  BY <1>7, <1>8, <1>11
<1>. HIDE DEF Values, Rest
<1>. QED
  BY <1>9, <1>11, <1>12

(* A turn of the loop keeps the tiers tight.                               *)
LEMMA ReleaseTight ==
  ASSUME IInv, TopoInv, Release
  PROVE  TopoInv'
<1>1. /\ group' = group /\ white' = white /\ stack' = stack /\ phase = "sorting"
      /\ phase' \in {"sorting", "walking", "raised"} /\ group \in Groups
      /\ group.nodes \subseteq Node
  BY DEF Release, IInv, TypeOK, TopologyTypeOK
<1>2. Acyclic /\ TargetsInv /\ TightInv
  BY <1>1 DEF TopoInv, CycleExact
<1>3. VisitInv'
  <2>1. Black' = Black /\ Gray' = Gray
    BY <1>1 DEF Black, Gray
  <2>. QED
    BY <1>1, <2>1, SameGroup, RanksKept DEF TopoInv, VisitInv, Distinct, LookedInv, PathInv,
       Outgoing
<1>4. TargetsInv' /\ CycleExact'
  BY <1>1, <1>2, SameGroup DEF TargetsInv, CycleExact
<1>5. /\ tiers # <<>> /\ tiers \in Seq(SUBSET group.nodes) /\ degree \in [Node -> Nat]
  BY <1>1 DEF IInv, KahnInv, TypeOK, TopologyTypeOK
<1>6. Len(tiers) \in Nat /\ Len(tiers) > 0 /\ DOMAIN tiers = 1..Len(tiers)
  BY <1>5
<1>7. CASE Freed = {}
  <2>1. Tiered = group.nodes
    BY <1>1, <1>2, <1>7, AllReleased
  <2>2. tiers' = tiers /\ phase' = "walking"
    BY <1>7, <2>1 DEF Release
  <2>3. TightInv'
    BY <1>1, <1>2, <2>1, <2>2, SameGroup DEF TightInv, Tiered
  <2>. QED
    BY <1>3, <1>4, <2>3 DEF TopoInv
<1>8. CASE Freed # {}
  <2>1. phase' = "sorting" /\ tiers' = Append(tiers, Freed)
    BY <1>1, <1>8 DEF Release
  <2>2. \A n \in Node : degree'[n] = degree[n] - Released[n]
    BY DEF Release
  <2>3. /\ DOMAIN tiers' = 1..(Len(tiers) + 1)
        /\ tiers'[Len(tiers) + 1] = Freed
        /\ \A k \in 1..Len(tiers) : tiers'[k] = tiers[k]
    BY <1>5, <1>6, <2>1
  <2>4. Tiered' = Tiered \cup Freed
    BY <1>6, <2>3 DEF Tiered
  <2>5. \A n \in group.nodes \ Tiered' : degree'[n] > 0
    <3>. SUFFICES ASSUME NEW n \in group.nodes \ Tiered' PROVE degree'[n] > 0
      OBVIOUS
    <3>1. n \in Node /\ n \notin Tiered /\ n \notin Freed
      BY <1>1, <2>4
    <3>2. degree[n] > 0 /\ degree[n] # Released[n]
      BY <1>1, <1>2, <3>1 DEF TightInv, Freed
    <3>3. degree[n] - Released[n] \in Nat /\ Released[n] \in Nat /\ degree[n] \in Nat
      BY <1>1, <1>5, <3>1, ReleaseCounts
    <3>. QED
      BY <2>2, <3>1, <3>2, <3>3
  <2>6. ASSUME NEW n \in Freed PROVE Upstreams(n) \cap Ready # {}
    <3>1. n \in Node /\ degree[n] > 0 /\ degree[n] = Released[n]
      BY <1>1, <2>6 DEF Freed
    <3>. DEFINE R == {j \in Incoming(n) : From(j) \in Ready}
    <3>2. Cardinality(R) # 0
      BY <3>1 DEF Released
    <3>3. R # {}
      BY <3>2, FS_EmptySet
    <3>. QED
      BY <3>3 DEF Upstreams
  <2>7. ASSUME NEW k \in 1..(Len(tiers) + 1), NEW n \in tiers'[k], k > 1
        PROVE  Upstreams(n) \cap tiers'[k - 1] # {}
    <3>1. CASE k \in 1..Len(tiers)
      <4>1. k - 1 \in 1..Len(tiers) /\ n \in tiers[k]
        BY <1>6, <2>3, <2>7, <3>1
      <4>. QED
        BY <1>2, <1>6, <2>3, <2>7, <3>1, <4>1 DEF TightInv
    <3>2. CASE k = Len(tiers) + 1
      <4>1. k - 1 = Len(tiers) /\ Len(tiers) \in 1..Len(tiers)
        BY <1>6, <3>2
      <4>2. tiers'[k - 1] = Ready
        BY <2>3, <4>1 DEF Ready
      <4>. QED
        BY <2>3, <2>6, <2>7, <3>2, <4>2
    <3>. QED
      BY <1>6, <3>1, <3>2
  <2>8. TightInv'
    <3>1. \A n : Upstreams(n)' = Upstreams(n)
      BY <1>1, SameGroup
    <3>2. ~Sorted'
      BY <2>1 DEF Sorted
    <3>. QED
      BY <1>1, <2>3, <2>5, <2>7, <3>1, <3>2 DEF TightInv
  <2>. QED
    BY <1>3, <1>4, <2>8 DEF TopoInv
<1>. QED
  BY <1>7, <1>8

(* While the construction checks, there are no tiers.                      *)
LEMMA NoTiersYet ==
  ASSUME IInv, group' = group, tiers' = tiers, phase \in Unsorted, phase' \in Unsorted
  PROVE  TightInv'
<1>1. DOMAIN tiers' = {}
  BY DEF IInv, KahnInv
<1>2. phase' # "sorting" /\ ~Sorted'
  BY DEF Unsorted, Sorted
<1>. QED
  BY <1>1, <1>2 DEF TightInv

LEMMA VisitTopo ==
  ASSUME IInv, TopoInv, CheckTargets \/ VisitRoot \/ VisitTarget \/ CloseVisit
  PROVE  TopoInv'
<1>1. /\ group' = group /\ tiers' = tiers /\ phase \in {"constructing", "visiting"}
      /\ phase' \in {"visiting", "rejected"}
  BY DEF CheckTargets, VisitRoot, VisitTarget, CloseVisit
<1>2. TightInv'
  BY <1>1, NoTiersYet DEF Unsorted
<1>3. CASE CheckTargets
  <2>1. UNCHANGED <<white, stack>>
    BY <1>3 DEF CheckTargets
  <2>2. Black' = Black /\ Gray' = Gray
    BY <1>1, <2>1 DEF Black, Gray
  <2>3. VisitInv'
    BY <1>1, <2>1, <2>2, SameGroup, RanksKept DEF TopoInv, VisitInv, Distinct, LookedInv,
       PathInv, Outgoing
  <2>4. TargetsInv'
    BY <1>1, <1>3, SameGroup DEF CheckTargets, TargetsInv
  <2>5. CycleExact'
    <3>1. phase = "constructing"
      BY <1>3 DEF CheckTargets
    <3>2. stack' = <<>>
      BY <2>1, <3>1 DEF TopoInv, TargetsInv
    <3>. QED
      BY <1>1, <3>2 DEF CycleExact
  <2>. QED
    BY <1>2, <2>3, <2>4, <2>5 DEF TopoInv
<1>4. CASE VisitRoot \/ CloseVisit
  <2>1. VisitInv'
    BY <1>4, RootKeeps, CloseKeeps DEF TopoInv
  <2>2. phase' = "visiting" /\ phase = "visiting"
    BY <1>4 DEF VisitRoot, CloseVisit
  <2>3. TargetsInv' /\ CycleExact'
    BY <1>1, <2>2, SameGroup DEF TopoInv, TargetsInv, CycleExact
  <2>. QED
    BY <1>2, <2>1, <2>3 DEF TopoInv
<1>5. CASE VisitTarget
  <2>1. PICK i \in Left :
          /\ \A j \in Left : i <= j
          /\ \/ /\ To(i) \in Gray
                /\ phase' = "rejected"
                /\ UNCHANGED <<white, stack>>
             \/ /\ To(i) \in white
                /\ white' = white \ {To(i)}
                /\ stack' = Append(LookedAt(i), Open(To(i)))
                /\ UNCHANGED phase
             \/ /\ To(i) \notin Gray \cup white
                /\ stack' = LookedAt(i)
                /\ UNCHANGED <<phase, white>>
    BY <1>5 DEF VisitTarget
  <2>2. stack # <<>> /\ phase = "visiting" /\ VisitInv /\ TargetsInv
    BY <1>5 DEF VisitTarget, TopoInv
  <2>3. To(i) \in group.nodes
    BY <2>1, <2>2 DEF TargetsInv, Left, Outgoing
  <2>4. CASE To(i) \in Gray /\ phase' = "rejected" /\ UNCHANGED <<white, stack>>
    <3>1. Black' = Black /\ Gray' = Gray
      BY <1>1, <2>4 DEF Black, Gray
    <3>2. VisitInv'
      BY <1>1, <2>2, <2>4, <3>1, SameGroup, RanksKept DEF VisitInv, Distinct, LookedInv,
         PathInv, Outgoing
    <3>3. CycleExact'
      BY <1>1, <2>2, <2>4, BackArrow, SameGroup DEF CycleExact
    <3>4. TargetsInv'
      BY <2>4 DEF TargetsInv
    <3>. QED
      BY <1>2, <3>2, <3>3, <3>4 DEF TopoInv
  <2>5. ASSUME phase' = phase PROVE TargetsInv' /\ CycleExact'
    BY <1>1, <2>2, <2>5, SameGroup DEF TargetsInv, CycleExact
  <2>6. CASE /\ To(i) \in white /\ white' = white \ {To(i)}
             /\ stack' = Append(LookedAt(i), Open(To(i))) /\ UNCHANGED phase
    <3>1. VisitInv'
      BY <1>1, <2>1, <2>2, <2>6, DescendsIs, DescendsKeeps
    <3>. QED
      BY <1>2, <2>5, <2>6, <3>1 DEF TopoInv
  <2>7. CASE /\ To(i) \notin Gray \cup white /\ stack' = LookedAt(i)
             /\ UNCHANGED <<phase, white>>
    <3>1. To(i) \in Black
      BY <2>3, <2>7 DEF Black
    <3>2. VisitInv'
      BY <1>1, <2>1, <2>2, <2>7, <3>1, PassesKeeps
    <3>. QED
      BY <1>2, <2>5, <2>7, <3>2 DEF TopoInv
  <2>. QED
    BY <2>1, <2>4, <2>6, <2>7
<1>. QED
  BY <1>3, <1>4, <1>5

LEMMA ConstructTopo ==
  ASSUME IInv, TopoInv, Construct
  PROVE  TopoInv'
<1>1. /\ group' = group /\ white' = white /\ stack' = stack /\ phase = "visiting"
      /\ stack = <<>> /\ white = {} /\ phase' \in {"sorting", "rejected"}
      /\ tiers = <<>> /\ group.nodes \subseteq Node /\ group \in Groups
  BY DEF Construct, IInv, KahnInv, Unsorted, TypeOK, TopologyTypeOK
<1>2. VisitInv'
  <2>1. Black' = Black /\ Gray' = Gray
    BY <1>1 DEF Black, Gray
  <2>. QED
    BY <1>1, <2>1, SameGroup, RanksKept DEF TopoInv, VisitInv, Distinct, LookedInv, PathInv,
       Outgoing
<1>3. Acyclic
  BY <1>1, AllBlack DEF TopoInv
<1>4. TargetsInv' /\ CycleExact'
  BY <1>1, <1>3, SameGroup DEF TopoInv, TargetsInv, CycleExact
<1>5. CASE phase' = "rejected" /\ tiers' = tiers
  <2>1. TightInv'
    BY <1>1, <1>5, NoTiersYet DEF Unsorted
  <2>. QED
    BY <1>2, <1>4, <2>1 DEF TopoInv
<1>6. CASE /\ phase' = "sorting" /\ tiers' = <<EntryNodes>>
           /\ degree' = [n \in Node |-> Cardinality(Incoming(n))]
  <2>1. DOMAIN tiers' = {1} /\ tiers'[1] = EntryNodes
    BY <1>6
  <2>2. Tiered' = EntryNodes
    BY <2>1 DEF Tiered
  <2>3. ASSUME NEW n \in group.nodes, n \notin EntryNodes PROVE degree'[n] > 0
    <3>1. Incoming(n) # {} /\ degree'[n] = Cardinality(Incoming(n))
      BY <1>1, <1>6, <2>3 DEF EntryNodes
    <3>2. IsFiniteSet(Incoming(n))
      BY <1>1, IncomingFinite
    <3>3. Cardinality(Incoming(n)) \in Nat /\ Cardinality(Incoming(n)) # 0
      BY <3>1, <3>2, FS_CardinalityType, FS_EmptySet
    <3>. QED
      BY <3>1, <3>3
  <2>4. TightInv'
    <3>1. ~Sorted'
      BY <1>6 DEF Sorted
    <3>. QED
      BY <1>1, <2>1, <2>2, <2>3, <3>1 DEF TightInv
  <2>. QED
    BY <1>2, <1>4, <2>4 DEF TopoInv
<1>. QED
  BY <1>5, <1>6 DEF Construct

(* The walk leaves what the construction has found.                        *)
LEMMA WalkTopo ==
  ASSUME IInv, TopoInv, UNCHANGED <<group, white, stack, degree, tiers>>,
         \/ phase' = phase
         \/ Sorted /\ Sorted'
  PROVE  TopoInv'
<1>1. Black' = Black /\ Gray' = Gray /\ Tiered' = Tiered
  BY DEF Black, Gray, Tiered
<1>2. VisitInv'
  BY <1>1, SameGroup, RanksKept DEF TopoInv, VisitInv, Distinct, LookedInv, PathInv, Outgoing
<1>3. TargetsInv' /\ CycleExact'
  BY SameGroup DEF TopoInv, TargetsInv, CycleExact, Sorted
<1>4. TightInv'
  BY <1>1, SameGroup DEF TopoInv, TightInv, Sorted
<1>. QED
  BY <1>2, <1>3, <1>4 DEF TopoInv

LEMMA TopoStarts == Init => TopoInv
<1>. SUFFICES ASSUME Init PROVE TopoInv
  OBVIOUS
<1>1. /\ phase = "constructing" /\ white = group.nodes /\ stack = <<>> /\ tiers = <<>>
      /\ group \in Groups
  BY DEF Init, TopologyInit
<1>2. Gray = {} /\ Black = {}
  BY <1>1 DEF Gray, Black
<1>3. Ranks(<<>>, {})
  <2>1. DOMAIN <<>> = {} /\ <<>> = [b \in {} |-> 0]
    OBVIOUS
  <2>2. <<>> \in [{} -> 1..Cardinality({})]
    BY <2>1
  <2>. QED
    BY <2>2 DEF Ranks
<1>4. VisitInv
  BY <1>1, <1>2, <1>3 DEF VisitInv, Distinct, LookedInv, PathInv
<1>5. TargetsInv /\ CycleExact /\ TightInv
  BY <1>1 DEF TargetsInv, CycleExact, TightInv, Sorted
<1>. QED
  BY <1>4, <1>5 DEF TopoInv

LEMMA TopoStep == IInv /\ TopoInv /\ [Next]_vars => TopoInv'
<1>. SUFFICES ASSUME IInv, TopoInv, [Next]_vars PROVE TopoInv'
  OBVIOUS
<1>1. CASE TopologyNext
  BY <1>1, VisitTopo, ConstructTopo, ReleaseTight DEF TopologyNext
<1>2. CASE UNCHANGED topologyVars
  BY <1>2, WalkTopo DEF topologyVars
<1>3. CASE TierFails \/ Drained \/ Finish \/ CallerCancels
  <2>1. /\ UNCHANGED <<group, white, stack, degree, tiers>>
        /\ phase \in {"walking", "draining"}
        /\ phase' \in {"walking", "draining", "returned", "raised"}
    BY <1>3 DEF TierFails, Drained, Finish, CallerCancels
  <2>. QED
    BY <2>1, WalkTopo DEF Sorted
<1>4. ASSUME Walk PROVE UNCHANGED topologyVars \/ TierFails \/ Drained \/ Finish
  BY <1>4 DEF Walk, NextTier, Resolve, Enter, FollowEdge, LookAtEdge, Aggregate,
     Answer, Cancelled
<1>5. UNCHANGED vars => UNCHANGED topologyVars
  BY DEF vars
<1>. QED
  BY <1>1, <1>2, <1>3, <1>4, <1>5 DEF Next

(* _has_cycle and topological_tiers, for any group and any order in which  *)
(* the nodes are visited: a group is rejected in the middle of the visit   *)
(* only for a cycle, is sorted only without one, and is sorted to the end, *)
(* each node into the first tier after those of all its upstreams.         *)
THEOREM TopologyCorrect == Spec => []TopologyExact
<1>1. IInv /\ TopoInv => TopologyExact
  <2>. SUFFICES ASSUME IInv, TopoInv, Sorted, NEW n \in group.nodes
                PROVE  \E k \in DOMAIN tiers :
                         /\ \A l \in DOMAIN tiers : n \in tiers[l] <=> l = k
                         /\ \A m \in Upstreams(n) : \E l \in 1..(k - 1) : m \in tiers[l]
                         /\ k > 1 => Upstreams(n) \cap tiers[k - 1] # {}
    BY DEF TopologyExact, TiersExact, TopoInv
  <2>1. PICK k \in DOMAIN tiers : n \in tiers[k]
    BY DEF TopoInv, TightInv, Tiered
  <2>2. \A l \in DOMAIN tiers : n \in tiers[l] <=> l = k
    BY <2>1 DEF IInv, KahnInv, Disjoint
  <2>3. \A m \in Upstreams(n) : \E l \in 1..(k - 1) : m \in tiers[l]
    BY <2>1 DEF IInv, KahnInv, Forward
  <2>4. k > 1 => Upstreams(n) \cap tiers[k - 1] # {}
    BY <2>1 DEF TopoInv, TightInv
  <2>. QED
    BY <2>2, <2>3, <2>4
<1>2. Init => IInv /\ TopoInv
  BY InitInv, TopoStarts
<1>3. IInv /\ TopoInv /\ [Next]_vars => (IInv /\ TopoInv)'
  BY StepInv, TopoStep
<1>. QED
  BY <1>1, <1>2, <1>3, PTL DEF Spec

-----------------------------------------------------------------------------
(* What is handed over.  What earlier tiers have stored stays as it is;    *)
(* what a node has been given, it was given from there.                    *)
Live == {"ok", "some"}

Called == {"running", "gathering", "settled"}

(* Contributions come from edges looked at and upstreams that succeeded;   *)
(* who is called has something alive upstream.                             *)
Fed(n) ==
  /\ \A u \in feed[n] :
       /\ Stored(u) \in Live
       /\ \E j \in Incoming(n) : j <= pos[n] /\ From(j) = u
  /\ n \in alive =>
       \E u \in Upstreams(n) : Stored(u) \in Live /\ (NamesOnce(n) => u \in feed[n])
  /\ Cardinality(Incoming(n)) > 1 /\ at[n] \in Called => n \in alive
  /\ Cardinality(Incoming(n)) = 1 /\ at[n] \in Called =>
       \A u \in Upstreams(n) : ~Dead(Stored(u))

(* A handler was given the items of its type, of a source whose items all  *)
(* have one.                                                               *)
Handled(n) ==
  at[n] \in Called =>
    \A i \in Incoming(n) :
      Incoming(n) = {i} /\ ~Mapper(i) /\ Mixed(From(i)) /\ Stored(From(i)) = "ok" =>
        given[n] = Matched(n, made[From(i)]) /\ ~Unexpected(From(i))

HandInv ==
  /\ \A n \in Node : Fed(n) /\ Handled(n)
  /\ phase \notin Unsorted => \A n \in group.nodes : Routable(n)
  /\ phase = "returned" => turn = Len(tiers) /\ \A n \in Tier : at[n] = "settled"

(* Nothing is stored of a node that is being resolved, or by a step of it. *)
LEMMA PendingNotStored ==
  ASSUME IInv, NEW n \in Node, at[n] \in Pending
  PROVE  Stored(n) = "none" /\ phase \notin Unsorted \cup {"sorting", "returned"}
<1>1. ~\E k \in 1..(turn - 1) : n \in tiers[k]
  BY DEF IInv, WalkInv, Pending
<1>2. \E k \in 1..turn : n \in tiers[k]
  BY DEF IInv, WalkInv, Pending
<1>3. phase \notin Unsorted \cup {"sorting"}
  <2>1. turn # 0
    BY <1>2
  <2>. QED
    BY <2>1 DEF IInv, WalkInv
<1>4. phase # "returned"
  BY DEF IInv, WalkInv, EndsDrained, InFlight, Pending
<1>. QED
  BY <1>1, <1>3, <1>4 DEF Stored

LEMMA StoredKept ==
  ASSUME IInv, NEW n \in Node, at[n] \in Pending, UNCHANGED <<tiers, turn>>,
         \A m \in Node \ {n} : value'[m] = value[m]
  PROVE  \A u \in Node : Stored(u)' = Stored(u)
<1>1. ~\E k \in 1..(turn - 1) : n \in tiers[k]
  BY DEF IInv, WalkInv, Pending
<1>. QED
  BY <1>1 DEF Stored

(* Only n changes.                                                         *)
OnlyNode(n) ==
  /\ \A m \in Node \ {n} :
       /\ at'[m] = at[m] /\ feed'[m] = feed[m] /\ pos'[m] = pos[m]
       /\ given'[m] = given[m] /\ (m \in alive' <=> m \in alive)
       /\ value'[m] = value[m] /\ made'[m] = made[m]
  /\ UNCHANGED <<group, phase, tiers, turn>>

LEMMA OthersKept ==
  ASSUME IInv, HandInv, NEW n \in Node, at[n] \in Pending, OnlyNode(n),
         NEW m \in Node, m # n
  PROVE  (Fed(m) /\ Handled(m))'
<1>1. \A u \in Node : Stored(u)' = Stored(u)
  BY StoredKept DEF OnlyNode
<1>2. /\ \A j \in Incoming(m) : From(j) \in Node
      /\ feed[m] \subseteq Node /\ Upstreams(m) \subseteq Node
  BY GroupTypes DEF IInv, TypeOK, Incoming, Upstreams
<1>3. /\ Incoming(m)' = Incoming(m) /\ Upstreams(m)' = Upstreams(m)
      /\ NamesOnce(m)' = NamesOnce(m)
      /\ \A j : From(j)' = From(j) /\ Mapper(j)' = Mapper(j)
      /\ \A u : Mixed(u)' = Mixed(u)
  BY SameGroup DEF OnlyNode, NamesOnce, Mapper, Mixed
<1>4. Fed(m) /\ Handled(m)
  BY DEF HandInv
<1>5. Fed(m)'
  BY <1>1, <1>2, <1>3, <1>4 DEF OnlyNode, Fed
<1>6. Handled(m)'
  <2>. SUFFICES ASSUME at[m] \in Called, NEW i \in Incoming(m), Incoming(m) = {i},
                       ~Mapper(i), Mixed(From(i)), Stored(From(i)) = "ok"
                PROVE  (given[m] = Matched(m, made[From(i)]) /\ ~Unexpected(From(i)))'
    BY <1>1, <1>2, <1>3 DEF OnlyNode, Handled
  <2>1. given[m] = Matched(m, made[From(i)]) /\ ~Unexpected(From(i))
    BY <1>4 DEF Handled
  <2>2. From(i) # n
    BY PendingNotStored
  <2>3. made'[From(i)] = made[From(i)] /\ given'[m] = given[m] /\ group' = group
    BY <1>2, <2>2 DEF OnlyNode
  <2>4. Matched(m, made[From(i)])' = Matched(m, made[From(i)])
    BY <1>3, <2>3 DEF Matched, IsA
  <2>5. Unexpected(From(i))' = Unexpected(From(i))
    BY <1>3, <2>3 DEF Unexpected, IsA
  <2>. QED
    BY <2>1, <2>3, <2>4, <2>5
<1>. QED
  BY <1>5, <1>6

LEMMA NodeHand ==
  ASSUME IInv, HandInv, NEW n \in Node, at[n] \in Pending, OnlyNode(n),
         (Fed(n) /\ Handled(n))'
  PROVE  HandInv'
<1>1. \A m \in Node : (Fed(m) /\ Handled(m))'
  BY OthersKept
<1>2. group' = group /\ phase' = phase /\ phase # "returned"
  BY PendingNotStored DEF OnlyNode
<1>3. \A m : Routable(m)' = Routable(m)
  BY <1>2 DEF Routable, Mixed, Outgoing, Arrows, From, To, Cond, Takes
<1>. QED
  BY <1>1, <1>2, <1>3 DEF HandInv

(* What a step of n leaves to be read as it was.                           *)
LEMMA Reads ==
  ASSUME IInv, NEW n \in Node, at[n] \in Pending, OnlyNode(n)
  PROVE  /\ \A u \in Node : Stored(u)' = Stored(u)
         /\ Incoming(n)' = Incoming(n) /\ Upstreams(n)' = Upstreams(n)
         /\ NamesOnce(n)' = NamesOnce(n)
         /\ \A j : From(j)' = From(j) /\ Mapper(j)' = Mapper(j)
         /\ \A u : Mixed(u)' = Mixed(u)
         /\ \A j \in Incoming(n) : From(j) \in Node /\ From(j) \in group.nodes /\ j \in Arrows
         /\ feed[n] \subseteq Node /\ Upstreams(n) \subseteq Node
BY StoredKept, SameGroup, GroupTypes
DEF OnlyNode, NamesOnce, Mapper, Mixed, IInv, TypeOK, Incoming, Upstreams

(* Nothing is contributed: what was holds, if n is not called, or may be.  *)
LEMMA FedKept ==
  ASSUME IInv, HandInv, NEW n \in Node, at[n] \in Pending, OnlyNode(n),
         feed' = feed, alive' = alive, pos' = pos,
         Cardinality(Incoming(n)) > 1 /\ at'[n] \in Called => n \in alive,
         Cardinality(Incoming(n)) = 1 /\ at'[n] \in Called =>
           \A u \in Upstreams(n) : ~Dead(Stored(u))
  PROVE  Fed(n)'
<1>1. Fed(n)
  BY DEF HandInv
<1>. QED
  BY <1>1, Reads DEF Fed

(* A step of a node that is not being called.                              *)
LEMMA NotCalled ==
  ASSUME IInv, HandInv, NEW n \in Node, at[n] \in Pending, OnlyNode(n),
         feed' = feed, alive' = alive, pos' = pos, at'[n] \notin Called
  PROVE  HandInv'
<1>1. Fed(n)'
  BY FedKept
<1>2. Handled(n)'
  BY DEF Handled
<1>. QED
  BY <1>1, <1>2, NodeHand

(* A node is stopped, or starts to run or gather.                          *)
LEMMA StepsOfNode ==
  ASSUME IInv, NEW n \in Node
  PROVE  /\ \A how : Stop(n, how) =>
              /\ at'[n] = how
              /\ \A m \in Node \ {n} : at'[m] = at[m] /\ value'[m] = value[m]
         /\ \A v : Settle(n, v) =>
              /\ at'[n] = "settled"
              /\ \A m \in Node \ {n} : at'[m] = at[m] /\ value'[m] = value[m]
         /\ Run(n) =>
              /\ at'[n] = "running" /\ given' = given
              /\ \A m \in Node \ {n} : at'[m] = at[m] /\ value'[m] = value[m]
         /\ \A c : Gather(n, c) =>
              /\ at'[n] = "gathering" /\ given'[n] = c
              /\ \A m \in Node \ {n} : /\ at'[m] = at[m] /\ value'[m] = value[m]
                                       /\ given'[m] = given[m]
BY DEF IInv, TypeOK, Stop, Settle, Run, Gather

LEMMA CallsMapper ==
  ASSUME IInv, NEW n \in Node, CallMapper(n)
  PROVE  /\ at'[n] \in {"running", "gathering", "broken"}
         /\ \A m \in Node \ {n} : /\ at'[m] = at[m] /\ value'[m] = value[m]
                                  /\ given'[m] = given[m]
BY StepsOfNode DEF CallMapper

LEMMA EnterHand ==
  ASSUME IInv, HandInv, NEW n \in Node, Enter(n)
  PROVE  HandInv'
<1>1. /\ at[n] \in Pending /\ Incoming(n) = {} /\ Run(n)
      /\ UNCHANGED <<topologyVars, turn, pos, feed, alive, made, told, cancels>>
  BY DEF Enter, Pending
<1>2. OnlyNode(n)
  BY <1>1, StepsOfNode DEF OnlyNode, topologyVars
<1>3. Cardinality(Incoming(n)) = 0
  BY <1>1, FS_EmptySet
<1>4. Fed(n)'
  BY <1>1, <1>2, <1>3, FedKept
<1>5. Handled(n)'
  BY <1>1, <1>2, Reads DEF Handled
<1>. QED
  BY <1>1, <1>2, <1>4, <1>5, NodeHand

(* One edge is followed only if its upstream is not dead; one from a       *)
(* source of mixed items has no condition, and its target has a type.      *)
LEMMA FollowHand ==
  ASSUME IInv, HandInv, NEW n \in Node, FollowEdge(n)
  PROVE  HandInv'
<1>1. /\ at[n] \in Pending /\ Cardinality(Incoming(n)) = 1
      /\ UNCHANGED <<topologyVars, turn, pos, feed, alive, made, told, cancels>>
  BY DEF FollowEdge, Pending
<1>2. PICK i \in Incoming(n) :
        LET up == Stored(From(i))
        IN  \/ /\ Absent(up) \/ (Cond(i) /\ ~Dead(up))
               /\ Settle(n, "skipped")
               /\ UNCHANGED given
            \/ /\ Dead(up)
               /\ Stop(n, "gaveUp")
               /\ UNCHANGED given
            \/ /\ Cond(i) /\ ~Absent(up) /\ ~Dead(up)
               /\ Stop(n, "broken")
               /\ UNCHANGED given
            \/ ~Absent(up) /\ ~Dead(up) /\ DispatchOne(n, i)
  BY DEF FollowEdge
<1>3. Incoming(n) = {i}
  <2>1. IsFiniteSet(Incoming(n))
    BY IncomingFinite DEF IInv
  <2>2. \E x : Incoming(n) = {x}
    BY <1>1, <2>1, FS_Singleton
  <2>. QED
    BY <1>2, <2>2
<1>4. Upstreams(n) = {From(i)}
  BY <1>3 DEF Upstreams
<1>. DEFINE up == Stored(From(i))
<1>5. CASE Stop(n, "gaveUp") /\ UNCHANGED given
  <2>1. OnlyNode(n) /\ at'[n] = "gaveUp"
    BY <1>1, <1>5, StepsOfNode DEF OnlyNode, topologyVars
  <2>. QED
    BY <1>1, <2>1, NotCalled DEF Called
<1>6. CASE Stop(n, "broken") /\ UNCHANGED given
  <2>1. OnlyNode(n) /\ at'[n] = "broken"
    BY <1>1, <1>6, StepsOfNode DEF OnlyNode, topologyVars
  <2>. QED
    BY <1>1, <2>1, NotCalled DEF Called
<1>7. ASSUME Mixed(From(i)), up = "ok" PROVE ~Cond(i) /\ Takes(i) # NoType
  <2>1. From(i) \in group.nodes /\ i \in Outgoing(From(i))
    BY <1>2, GroupTypes DEF IInv, Incoming, Outgoing
  <2>2. Routable(From(i))
    BY <1>1, <2>1, PendingNotStored DEF HandInv
  <2>. QED
    BY <1>7, <2>1, <2>2 DEF Routable
<1>8. CASE (Absent(up) \/ (Cond(i) /\ ~Dead(up))) /\ Settle(n, "skipped") /\ UNCHANGED given
  <2>1. OnlyNode(n) /\ at'[n] = "settled"
    BY <1>1, <1>8, StepsOfNode DEF OnlyNode, topologyVars
  <2>2. ~Dead(up)
    BY <1>8 DEF Absent, Dead
  <2>3. Fed(n)'
    BY <1>1, <1>4, <2>1, <2>2, FedKept
  <2>4. ~(~Mapper(i) /\ Mixed(From(i)) /\ up = "ok")
    BY <1>7, <1>8 DEF Absent
  <2>5. Handled(n)'
    BY <1>1, <1>3, <2>1, <2>4, Reads DEF Handled
  <2>. QED
    BY <1>1, <2>1, <2>3, <2>5, NodeHand
<1>9. CASE ~Absent(up) /\ ~Dead(up) /\ DispatchOne(n, i)
  <2>1. OnlyNode(n)
    BY <1>1, <1>9, StepsOfNode, CallsMapper DEF OnlyNode, topologyVars, DispatchOne
  <2>2. Fed(n)'
    BY <1>1, <1>4, <1>9, <2>1, FedKept
  <2>3. ASSUME ~Mapper(i), Mixed(From(i)), up = "ok", at'[n] \in Called
        PROVE  given'[n] = Matched(n, made[From(i)]) /\ ~Unexpected(From(i))
    <3>1. Routed(i)
      BY <1>7, <2>3 DEF Routed
    <3>2. \/ Stop(n, "broken")
          \/ ~Unexpected(From(i)) /\ Gather(n, Matched(n, made[From(i)]))
      BY <1>9, <2>3, <3>1 DEF DispatchOne
    <3>3. ~Stop(n, "broken")
      BY <2>3, StepsOfNode DEF Called
    <3>. QED
      BY <3>2, <3>3, StepsOfNode
  <2>4. Handled(n)'
    <3>1. /\ Matched(n, made[From(i)])' = Matched(n, made[From(i)])
          /\ Unexpected(From(i))' = Unexpected(From(i))
      BY <1>1, <2>1, Reads DEF Matched, Unexpected, IsA, topologyVars
    <3>. QED
      BY <1>1, <1>3, <2>1, <2>3, <3>1, Reads DEF Handled
  <2>. QED
    BY <1>1, <2>1, <2>2, <2>4, NodeHand
<1>. QED
  BY <1>2, <1>5, <1>6, <1>8, <1>9

(* One of several edges adds what its upstream has, or takes away what an  *)
(* earlier edge from there has added.                                      *)
LEMMA Contributes ==
  ASSUME IInv, HandInv, NEW n \in Node, at[n] \in Pending, at[n] \notin Called,
         NEW i \in Unseen(n), NEW fed \in BOOLEAN, Contribute(n, i, fed),
         fed => Stored(From(i)) \in Live,
         UNCHANGED <<topologyVars, turn, made, given, told, cancels>>
  PROVE  HandInv'
<1>. DEFINE x == From(i)
<1>0. /\ i \in Incoming(n) /\ i > pos[n] /\ at' = at /\ value' = value
      /\ x \in Node /\ x \in Upstreams(n)
  BY GroupTypes DEF Unseen, Contribute, IInv, Incoming, Upstreams
<1>1. /\ feed'[n] = IF fed THEN feed[n] \cup {x} ELSE feed[n] \ {x}
      /\ pos'[n] = i /\ (n \in alive' <=> fed \/ n \in alive)
      /\ \A m \in Node \ {n} : /\ feed'[m] = feed[m] /\ pos'[m] = pos[m]
                               /\ (m \in alive' <=> m \in alive)
  BY DEF IInv, TypeOK, Contribute
<1>2. OnlyNode(n)
  BY <1>0, <1>1 DEF OnlyNode, topologyVars
<1>3. Fed(n)
  BY DEF HandInv
<1>4. pos[n] \in Int /\ \A j \in Incoming(n) : j \in Int
  BY GroupTypes DEF IInv, TypeOK, Incoming
<1>5. ASSUME NEW u \in feed'[n]
      PROVE  Stored(u) \in Live /\ \E j \in Incoming(n) : j <= pos'[n] /\ From(j) = u
  <2>1. CASE u \in feed[n]
    <3>1. Stored(u) \in Live
      BY <1>3, <2>1 DEF Fed
    <3>2. PICK j \in Incoming(n) : j <= pos[n] /\ From(j) = u
      BY <1>3, <2>1 DEF Fed
    <3>3. j <= pos'[n]
      BY <1>0, <1>1, <1>4, <3>2
    <3>. QED
      BY <3>1, <3>2, <3>3
  <2>2. CASE u \notin feed[n]
    <3>1. fed /\ u = x
      BY <1>1, <1>5, <2>2
    <3>. QED
      BY <1>0, <1>1, <1>4, <3>1
  <2>. QED
    BY <2>1, <2>2
<1>6. ASSUME n \in alive'
      PROVE  \E u \in Upstreams(n) : Stored(u) \in Live /\ (NamesOnce(n) => u \in feed'[n])
  <2>1. CASE fed
    BY <1>0, <1>1, <2>1
  <2>2. CASE ~fed
    <3>1. PICK u \in Upstreams(n) : Stored(u) \in Live /\ (NamesOnce(n) => u \in feed[n])
      BY <1>1, <1>3, <1>6, <2>2 DEF Fed
    <3>2. ASSUME NamesOnce(n) PROVE u # x
      <4>1. PICK j \in Incoming(n) : j <= pos[n] /\ From(j) = u
        BY <1>3, <3>1, <3>2 DEF Fed
      <4>2. j # i
        BY <1>0, <1>4, <4>1
      <4>. QED
        BY <1>0, <3>2, <4>1, <4>2 DEF NamesOnce
    <3>. QED
      BY <1>1, <2>2, <3>1, <3>2
  <2>. QED
    BY <2>1, <2>2
<1>7. at'[n] \notin Called
  BY <1>0
<1>8. \A u \in feed'[n] : u \in Node
  BY <1>0, <1>1, Reads, <1>2
<1>9. Fed(n)'
  <2>. HIDE DEF x
  <2>. QED
    BY <1>2, <1>5, <1>6, <1>7, <1>8, Reads DEF Fed
<1>10. Handled(n)'
  BY <1>7 DEF Handled
<1>. QED
  BY <1>2, <1>9, <1>10, NodeHand

LEMMA LookHand ==
  ASSUME IInv, HandInv, NEW n \in Node, LookAtEdge(n)
  PROVE  HandInv'
<1>1. /\ at[n] \in Pending /\ at[n] \notin Called
      /\ UNCHANGED <<topologyVars, turn, made, given, told, cancels>>
  BY DEF LookAtEdge, Pending, Called
<1>. DEFINE good(i) == ~Absent(Stored(From(i))) /\ ~Dead(Stored(From(i)))
<1>2. PICK i \in Unseen(n) :
        \/ Contribute(n, i, good(i))
        \/ Contribute(n, i, FALSE)
        \/ Stop(n, "broken") /\ UNCHANGED <<feed, alive, pos>>
  BY DEF LookAtEdge
<1>3. good(i) => Stored(From(i)) \in Live
  <2>1. From(i) \in Node
    BY GroupTypes DEF IInv, Unseen, Incoming
  <2>2. Stored(From(i)) \in {"none", "skipped", "ok", "failed", "some", "dead"}
    BY <2>1 DEF IInv, TypeOK, Stored
  <2>. QED
    BY <2>2 DEF Absent, Dead, Live
<1>4. good(i) \in BOOLEAN /\ FALSE \in BOOLEAN
  OBVIOUS
<1>5. CASE Contribute(n, i, good(i))
  <2>. HIDE DEF good
  <2>. QED
    BY <1>1, <1>3, <1>4, <1>5, Contributes
<1>6. CASE Contribute(n, i, FALSE)
  BY <1>1, <1>4, <1>6, Contributes
<1>7. CASE Stop(n, "broken") /\ UNCHANGED <<feed, alive, pos>>
  <2>1. OnlyNode(n) /\ at'[n] = "broken"
    BY <1>1, <1>7, StepsOfNode DEF OnlyNode, topologyVars
  <2>. QED
    BY <1>1, <1>7, <2>1, NotCalled DEF Called
<1>. QED
  BY <1>2, <1>5, <1>6, <1>7

LEMMA AggregateHand ==
  ASSUME IInv, HandInv, NEW n \in Node, Aggregate(n)
  PROVE  HandInv'
<1>1. /\ at[n] \in Pending /\ Cardinality(Incoming(n)) > 1
      /\ UNCHANGED <<topologyVars, turn, pos, feed, alive, made, told, cancels>>
      /\ \/ Stop(n, "broken") /\ UNCHANGED given
         \/ Stop(n, "gaveUp") /\ UNCHANGED given
         \/ n \in alive /\ CallMapper(n)
  BY DEF Aggregate, Pending
<1>2. CASE Stop(n, "broken") /\ UNCHANGED given
  <2>1. OnlyNode(n) /\ at'[n] = "broken"
    BY <1>1, <1>2, StepsOfNode DEF OnlyNode, topologyVars
  <2>. QED
    BY <1>1, <2>1, NotCalled DEF Called
<1>3. CASE Stop(n, "gaveUp") /\ UNCHANGED given
  <2>1. OnlyNode(n) /\ at'[n] = "gaveUp"
    BY <1>1, <1>3, StepsOfNode DEF OnlyNode, topologyVars
  <2>. QED
    BY <1>1, <2>1, NotCalled DEF Called
<1>4. CASE n \in alive /\ CallMapper(n)
  <2>1. OnlyNode(n)
    BY <1>1, <1>4, CallsMapper DEF OnlyNode, topologyVars
  <2>2. Fed(n)'
    BY <1>1, <1>4, <2>1, FedKept
  <2>3. \A j : Incoming(n) # {j}
    BY <1>1, FS_Singleton
  <2>4. Handled(n)'
    BY <1>1, <2>1, <2>3, Reads DEF Handled
  <2>. QED
    BY <1>1, <2>1, <2>2, <2>4, NodeHand
<1>. QED
  BY <1>1, <1>2, <1>3, <1>4

LEMMA EndHand ==
  ASSUME IInv, HandInv, NEW n \in Node, Answer(n) \/ Cancelled(n)
  PROVE  HandInv'
<1>1. /\ at[n] \in Pending
      /\ UNCHANGED <<topologyVars, turn, pos, feed, alive, given, told, cancels>>
  BY DEF Answer, Cancelled, Pending
<1>2. \A m \in Node \ {n} : at'[m] = at[m] /\ value'[m] = value[m] /\ made'[m] = made[m]
  BY StepsOfNode DEF Answer, Cancelled, IInv, TypeOK
<1>3. OnlyNode(n)
  BY <1>1, <1>2 DEF OnlyNode, topologyVars
<1>4. CASE Cancelled(n)
  <2>1. at'[n] = "cancelled"
    BY <1>4, StepsOfNode DEF Cancelled
  <2>. QED
    BY <1>1, <1>3, <2>1, NotCalled DEF Called
<1>5. CASE Answer(n)
  <2>1. at[n] \in Called
    BY <1>5 DEF Answer, Called
  <2>2. Fed(n) /\ Handled(n)
    BY DEF HandInv
  <2>3. Fed(n)'
    BY <1>1, <1>3, <2>1, <2>2, FedKept DEF Fed
  <2>4. Handled(n)'
    <3>. SUFFICES ASSUME NEW i \in Incoming(n), Incoming(n) = {i}, ~Mapper(i),
                         Mixed(From(i)), Stored(From(i)) = "ok"
                  PROVE  (given[n] = Matched(n, made[From(i)]) /\ ~Unexpected(From(i)))'
      BY <1>1, <1>3, Reads DEF Handled
    <3>1. given[n] = Matched(n, made[From(i)]) /\ ~Unexpected(From(i))
      BY <2>1, <2>2 DEF Handled
    <3>2. From(i) # n /\ From(i) \in Node
      BY <1>1, <1>3, PendingNotStored, Reads
    <3>3. made'[From(i)] = made[From(i)] /\ given' = given /\ group' = group
      BY <1>1, <1>2, <3>2 DEF topologyVars
    <3>4. Matched(n, made[From(i)])' = Matched(n, made[From(i)])
      BY <1>1, <1>3, <3>3, Reads DEF Matched, IsA
    <3>5. Unexpected(From(i))' = Unexpected(From(i))
      BY <1>1, <1>3, <3>3, Reads DEF Unexpected, IsA
    <3>. QED
      BY <3>1, <3>3, <3>4, <3>5
  <2>. QED
    BY <1>1, <1>3, <2>3, <2>4, NodeHand
<1>. QED
  BY <1>4, <1>5

(* The next tier: more is stored, and what was stays.                      *)
LEMMA NextTierHand ==
  ASSUME IInv, HandInv, NextTier
  PROVE  HandInv'
<1>1. /\ phase = "walking" /\ turn' = turn + 1 /\ turn \in Nat /\ turn + 1 \in 1..Len(tiers)
      /\ UNCHANGED <<topologyVars, pos, feed, alive, value, made, given>>
  BY TiersTyped DEF NextTier
<1>2. \A u \in Node : Stored(u) # "none" => Stored(u)' = Stored(u)
  BY <1>1 DEF Stored, topologyVars
<1>3. \A n \in Node : at'[n] \in Called => at[n] \in Called
  BY DEF NextTier, Called
<1>4. ASSUME NEW n \in Node, at'[n] \in Called, NEW u \in Upstreams(n)
      PROVE  Stored(u) # "none"
  <2>1. at[n] # "idle"
    BY <1>3, <1>4 DEF Called
  <2>2. PICK k \in 1..turn : n \in tiers[k]
    BY <2>1 DEF IInv, WalkInv
  <2>3. turn \in 0..Len(tiers) /\ Len(tiers) \in Nat /\ k \in DOMAIN tiers
    BY <2>2, TiersTyped
  <2>4. PICK l \in 1..(k - 1) : u \in tiers[l]
    BY <2>2, <2>3 DEF IInv, KahnInv, Forward
  <2>5. l \in 1..(turn - 1) /\ u \in Node
    BY <2>2, <2>3, <2>4, TiersTyped
  <2>6. value[u] # "none"
    BY <2>4, <2>5 DEF IInv, WalkInv
  <2>. QED
    BY <2>4, <2>5, <2>6 DEF Stored
<1>5. /\ \A n : /\ Incoming(n)' = Incoming(n) /\ Upstreams(n)' = Upstreams(n)
                /\ NamesOnce(n)' = NamesOnce(n) /\ Mixed(n)' = Mixed(n)
                /\ Routable(n)' = Routable(n) /\ Unexpected(n)' = Unexpected(n)
      /\ \A j : From(j)' = From(j) /\ Mapper(j)' = Mapper(j)
      /\ group' = group /\ phase' = phase
  BY <1>1, SameGroup DEF topologyVars, NamesOnce, Mixed, Mapper, Routable, Unexpected, IsA,
     Outgoing, Arrows, From, To, Cond, Takes
<1>6. ASSUME NEW n \in Node PROVE Fed(n)'
  <2>1. Fed(n) /\ feed[n] \subseteq Node /\ Upstreams(n) \subseteq Node
    BY GroupTypes DEF HandInv, IInv, TypeOK, Upstreams, Incoming
  <2>2. \A u \in Node : Stored(u) \in Live => Stored(u)' = Stored(u)
    BY <1>2 DEF Live
  <2>3. \A u \in Upstreams(n) : at'[n] \in Called => Stored(u)' = Stored(u)
    BY <1>2, <1>4, <2>1
  <2>. QED
    BY <1>1, <1>3, <1>5, <2>1, <2>2, <2>3 DEF Fed
<1>7. ASSUME NEW n \in Node PROVE Handled(n)'
  <2>. SUFFICES ASSUME at'[n] \in Called, NEW i \in Incoming(n), Incoming(n) = {i},
                       ~Mapper(i), Mixed(From(i)), Stored(From(i))' = "ok"
                PROVE  (given[n] = Matched(n, made[From(i)]) /\ ~Unexpected(From(i)))'
    BY <1>5 DEF Handled
  <2>1. From(i) \in Upstreams(n) /\ From(i) \in Node
    BY GroupTypes DEF IInv, Upstreams, Incoming
  <2>0. \A u \in Node : u = From(i) => Stored(u)' = "ok"
    BY <1>5
  <2>2. Stored(From(i)) = "ok"
    BY <1>2, <1>4, <2>0, <2>1
  <2>3. given[n] = Matched(n, made[From(i)]) /\ ~Unexpected(From(i))
    BY <1>3, <2>2 DEF HandInv, Handled
  <2>4. Matched(n, made[From(i)])' = Matched(n, made[From(i)])
    BY <1>1, <1>5 DEF Matched, IsA
  <2>. QED
    BY <1>1, <1>5, <2>3, <2>4
<1>. QED
  BY <1>1, <1>5, <1>6, <1>7 DEF HandInv

LEMMA HandStarts == Init => HandInv
<1>. SUFFICES ASSUME Init PROVE HandInv
  OBVIOUS
<1>1. \A n \in Node : feed[n] = {} /\ n \notin alive /\ at[n] = "idle"
  BY DEF Init
<1>2. \A n \in Node : Fed(n) /\ Handled(n)
  BY <1>1 DEF Fed, Handled, Called
<1>3. phase = "constructing"
  BY DEF Init, TopologyInit
<1>. QED
  BY <1>2, <1>3 DEF HandInv, Unsorted

(* While a group is constructed and sorted nothing is stored, and a group  *)
(* is accepted only if all its sources can be routed.                      *)
LEMMA TopologyHand ==
  ASSUME IInv, HandInv, TopologyNext, UNCHANGED walkVars
  PROVE  HandInv'
<1>1. /\ group' = group /\ phase' # "returned"
      /\ phase \in Unsorted \cup {"sorting"}
      /\ phase' \in Unsorted \/ phase = "sorting" \/ (\A n \in group.nodes : Routable(n))
  BY DEF TopologyNext, CheckTargets, VisitRoot, VisitTarget, CloseVisit, Construct, Release,
     Unsorted
<1>2. turn = 0 /\ turn' = 0 /\ UNCHANGED <<at, feed, alive>>
  BY <1>1 DEF IInv, WalkInv, walkVars
<1>3. \A n \in Node : at[n] = "idle"
  BY <1>2 DEF IInv, WalkInv
<1>4. \A u : Stored(u) = "none"
  BY <1>2 DEF Stored
<1>5. \A n \in Node : feed[n] = {} /\ n \notin alive
  BY <1>4 DEF HandInv, Fed, Live
<1>6. \A n \in Node : (Fed(n) /\ Handled(n))'
  BY <1>2, <1>3, <1>5 DEF Fed, Handled, Called
<1>7. \A n : Routable(n)' = Routable(n)
  BY <1>1 DEF Routable, Mixed, Outgoing, Arrows, From, To, Cond, Takes
<1>8. phase = "sorting" => \A n \in group.nodes : Routable(n)
  BY DEF HandInv, Unsorted
<1>. QED
  BY <1>1, <1>6, <1>7, <1>8 DEF HandInv

(* Steps of the walk as a whole, and none at all.                          *)
LEMMA PhaseHand ==
  ASSUME IInv, HandInv, UNCHANGED <<group, tiers, turn, at, pos, feed, alive, value, made, given>>,
         \/ phase' = phase
         \/ /\ phase \notin Unsorted
            /\ phase' = "returned" => turn = Len(tiers) /\ \A n \in Tier : at[n] = "settled"
  PROVE  HandInv'
<1>1. \A u : Stored(u)' = Stored(u)
  BY DEF Stored
<1>2. /\ \A n : Routable(n)' = Routable(n) /\ Unexpected(n)' = Unexpected(n)
      /\ \A n : Mixed(n)' = Mixed(n) /\ NamesOnce(n)' = NamesOnce(n)
      /\ \A n : Incoming(n)' = Incoming(n) /\ Upstreams(n)' = Upstreams(n)
      /\ \A i : From(i)' = From(i) /\ Mapper(i)' = Mapper(i)
      /\ \A n, items : Matched(n, items)' = Matched(n, items)
      /\ Tier' = Tier
  BY SameGroup DEF Routable, Mixed, Outgoing, Arrows, From, To, Cond, Takes, Unexpected, IsA,
     Matched, NamesOnce, Mapper, Tier
<1>3. \A n \in Node : Fed(n)'
  BY <1>1, <1>2 DEF HandInv, Fed
<1>4. ASSUME NEW n \in Node PROVE Handled(n)'
  <2>. SUFFICES ASSUME at[n] \in Called, NEW i \in Incoming(n), Incoming(n) = {i},
                       ~Mapper(i), Mixed(From(i)), Stored(From(i)) = "ok"
                PROVE  (given[n] = Matched(n, made[From(i)]) /\ ~Unexpected(From(i)))'
    BY <1>1, <1>2 DEF Handled
  <2>1. given[n] = Matched(n, made[From(i)]) /\ ~Unexpected(From(i))
    BY DEF HandInv, Handled
  <2>2. Matched(n, made[From(i)])' = Matched(n, made[From(i)])
    BY <1>2 DEF Matched, IsA
  <2>3. Unexpected(From(i))' = Unexpected(From(i))
    BY <1>2 DEF Unexpected, IsA
  <2>. QED
    BY <2>1, <2>2, <2>3
<1>5. \/ phase' = phase
      \/ phase' = "returned" => turn = Len(tiers) /\ \A n \in Tier : at[n] = "settled"
  OBVIOUS
<1>6. (phase = "returned" => turn = Len(tiers) /\ \A n \in Tier : at[n] = "settled")'
  BY <1>2, <1>5 DEF HandInv
<1>7. phase' \notin Unsorted => \A n \in group.nodes : Routable(n)
  BY DEF HandInv
<1>. QED
  BY <1>2, <1>3, <1>4, <1>6, <1>7 DEF HandInv

LEMMA HandStep == IInv /\ HandInv /\ [Next]_vars => HandInv'
<1>. SUFFICES ASSUME IInv, HandInv, [Next]_vars PROVE HandInv'
  OBVIOUS
<1>1. CASE TopologyNext /\ UNCHANGED walkVars
  BY <1>1, TopologyHand
<1>2. CASE UNCHANGED vars
  BY <1>2, PhaseHand DEF vars, topologyVars, walkVars
<1>3. CASE TierFails \/ Drained \/ Finish \/ CallerCancels
  <2>1. /\ UNCHANGED <<group, tiers, turn, at, pos, feed, alive, value, made, given>>
        /\ phase \notin Unsorted
        /\ phase' = "returned" => turn = Len(tiers) /\ \A n \in Tier : at[n] = "settled"
    BY <1>3 DEF TierFails, Drained, Finish, CallerCancels, Unsorted, walkVars
  <2>. QED
    BY <2>1, PhaseHand
<1>4. CASE NextTier
  BY <1>4, NextTierHand
<1>5. CASE \E n \in Node : Resolve(n) \/ Answer(n) \/ Cancelled(n)
  BY <1>5, EnterHand, FollowHand, LookHand, AggregateHand, EndHand DEF Resolve
<1>. QED
  BY <1>1, <1>2, <1>3, <1>4, <1>5 DEF Next, Walk

(* When a group returns, all its nodes are settled, each with the results  *)
(* of its upstreams stored.                                                *)
LEMMA ReturnedSettled ==
  ASSUME IInv, TopoInv, HandInv, phase = "returned", NEW n \in group.nodes
  PROVE  /\ n \in Node /\ at[n] \in Called
         /\ \A u \in Upstreams(n) : u \in Node /\ Stored(u) = value[u]
<1>1. n \in Tiered /\ n \in Node
  BY GroupTypes DEF TopoInv, TightInv, Sorted, IInv
<1>2. PICK k \in DOMAIN tiers : n \in tiers[k]
  BY <1>1 DEF Tiered
<1>3. turn = Len(tiers) /\ Len(tiers) \in Nat /\ DOMAIN tiers = 1..Len(tiers)
  BY TiersTyped DEF HandInv
<1>4. at[n] = "settled"
  <2>1. CASE k = turn
    BY <1>2, <1>3, <2>1 DEF HandInv, Tier
  <2>2. CASE k # turn
    <3>1. k \in 1..(turn - 1)
      BY <1>2, <1>3, <2>2
    <3>. QED
      BY <1>2, <3>1 DEF IInv, WalkInv
  <2>. QED
    BY <2>1, <2>2
<1>5. ASSUME NEW u \in Upstreams(n)
      PROVE  u \in Node /\ Stored(u) = value[u]
  <2>1. PICK l \in 1..(k - 1) : u \in tiers[l]
    BY <1>2 DEF IInv, KahnInv, Forward
  <2>2. l \in 1..(turn - 1)
    BY <1>2, <1>3, <2>1
  <2>3. u \in Node
    BY GroupTypes DEF IInv, Upstreams, Incoming
  <2>. QED
    BY <2>1, <2>2, <2>3 DEF Stored
<1>. QED
  BY <1>1, <1>4, <1>5 DEF Called

LEMMA RoutedToAll ==
  ASSUME IInv, TopoInv, HandInv, phase = "returned", NEW src \in group.nodes,
         Mixed(src), value[src] = "ok", Outgoing(src) # {},
         \A i \in Outgoing(src) : ~Mapper(i) /\ Incoming(To(i)) = {i}
  PROVE  /\ Routable(src) /\ ~Unexpected(src)
         /\ \A i \in Outgoing(src) : given[To(i)] = Matched(To(i), made[src])
<1>1. Routable(src)
  BY DEF HandInv, Unsorted
<1>2. ASSUME NEW i \in Outgoing(src)
      PROVE  given[To(i)] = Matched(To(i), made[src]) /\ ~Unexpected(src)
  <2>1. To(i) \in group.nodes /\ From(i) = src /\ i \in Incoming(To(i)) /\ ~Mapper(i)
        /\ Incoming(To(i)) = {i}
    BY DEF TopoInv, TargetsInv, Outgoing, Incoming
  <2>2. src \in Upstreams(To(i))
    BY <2>1 DEF Upstreams
  <2>3. To(i) \in Node /\ at[To(i)] \in Called /\ Stored(src) = "ok"
    BY <2>1, <2>2, ReturnedSettled
  <2>. QED
    BY <2>1, <2>3 DEF HandInv, Handled
<1>. QED
  BY <1>1, <1>2

(* Who is called is called with what its upstreams succeeded in, and every *)
(* item of a mixed source is given to a handler of its type, the only one  *)
(* if its class has no two of the item types above it: in any group, with  *)
(* any classes (_dispatch_single_input, _dispatch_aggregator).             *)
THEOREM HandOverCorrect == Spec => []HandOverExact
<1>1. IInv /\ HandInv => FedByLive
  <2>. SUFFICES ASSUME IInv, HandInv, NEW n \in Node, Cardinality(Incoming(n)) > 1,
                       at[n] \in {"running", "gathering", "settled"}
                PROVE  /\ NamesOnce(n) => feed[n] # {}
                       /\ \A m \in feed[n] : Stored(m) \in {"ok", "some"}
    BY DEF FedByLive
  <2>1. Fed(n) /\ n \in alive
    BY DEF HandInv, Fed, Called
  <2>. QED
    BY <2>1 DEF Fed, Live
<1>2. IInv /\ TopoInv /\ HandInv => RoutedOnce
  <2>. SUFFICES ASSUME IInv, TopoInv, HandInv, phase = "returned", NEW src \in group.nodes,
                       Mixed(src), value[src] = "ok", Outgoing(src) # {},
                       \A i \in Outgoing(src) : ~Mapper(i) /\ Incoming(To(i)) = {i},
                       NEW c \in made[src]
                PROVE  LET receivers == {m \in Downstreams(src) : c \in given[m]}
                       IN  /\ receivers # {}
                           /\ Unambiguous(c, group.items[src]) => Cardinality(receivers) = 1
    BY DEF RoutedOnce
  <2>. DEFINE receivers == {m \in Downstreams(src) : c \in given[m]}
  <2>1. /\ Routable(src) /\ ~Unexpected(src)
        /\ \A i \in Outgoing(src) : given[To(i)] = Matched(To(i), made[src])
    BY RoutedToAll
  <2>2. PICK d \in group.items[src] : IsA(c, d)
    BY <2>1 DEF Unexpected
  <2>3. PICK i \in Outgoing(src) : Takes(i) = d
    BY <2>1, <2>2 DEF Routable
  <2>4. To(i) \in receivers
    BY <2>1, <2>2, <2>3 DEF Matched, Takes, Downstreams
  <2>5. ASSUME Unambiguous(c, group.items[src]), NEW m \in receivers PROVE m = To(i)
    <3>1. PICK j \in Outgoing(src) : m = To(j)
      BY DEF Downstreams
    <3>2. IsA(c, Takes(j)) /\ Takes(j) \in group.items[src]
      BY <2>1, <3>1 DEF Matched, Takes, Routable
    <3>3. Takes(j) = d
      BY <2>2, <2>5, <3>2 DEF Unambiguous
    <3>4. j = i
      BY <2>1, <2>3, <3>3 DEF Routable
    <3>. QED
      BY <3>1, <3>4
  <2>6. ASSUME Unambiguous(c, group.items[src]) PROVE Cardinality(receivers) = 1
    <3>1. receivers = {To(i)}
      BY <2>4, <2>5, <2>6
    <3>. QED
      BY <3>1, FS_Singleton
  <2>. QED
    BY <2>4, <2>6
<1>3. IInv /\ TopoInv /\ HandInv => HandOverExact
  BY <1>1, <1>2 DEF HandOverExact
<1>4. Init => IInv /\ TopoInv /\ HandInv
  BY InitInv, TopoStarts, HandStarts
<1>5. IInv /\ TopoInv /\ HandInv /\ [Next]_vars => (IInv /\ TopoInv /\ HandInv)'
  BY StepInv, TopoStep, HandStep
<1>. QED
  BY <1>3, <1>4, <1>5, PTL DEF Spec

(* A group that returns has not lost a failure: whatever the group, a dead *)
(* node fed only aggregators, and each went by another upstream that had   *)
(* succeeded (_dispatch_single_input raises, _dispatch_aggregator goes on).*)
THEOREM FailuresCorrect == Spec => []FailureSurfaces
<1>1. IInv /\ TopoInv /\ HandInv => FailureSurfaces
  <2>. SUFFICES ASSUME IInv, TopoInv, HandInv, phase = "returned", NEW n \in group.nodes,
                       Dead(value[n]), NEW m \in Downstreams(n)
                PROVE  /\ Cardinality(Incoming(m)) > 1
                       /\ \E u \in Upstreams(m) \ {n} :
                            value[u] \in {"ok", "some"} /\ (NamesOnce(m) => u \in feed[m])
    BY DEF FailureSurfaces
  <2>1. PICK i \in Outgoing(n) : m = To(i)
    BY DEF Downstreams
  <2>2. m \in group.nodes /\ i \in Incoming(m) /\ n \in Upstreams(m)
    BY <2>1 DEF TopoInv, TargetsInv, Outgoing, Incoming, Upstreams
  <2>3. /\ m \in Node /\ at[m] \in Called
        /\ \A u \in Upstreams(m) : Stored(u) = value[u]
    BY <2>2, ReturnedSettled
  <2>4. Fed(m)
    BY <2>3 DEF HandInv
  <2>5. Cardinality(Incoming(m)) > 1
    <3>1. Cardinality(Incoming(m)) # 1
      BY <2>2, <2>3, <2>4 DEF Fed
    <3>2. IsFiniteSet(Incoming(m))
      BY IncomingFinite DEF IInv
    <3>3. Cardinality(Incoming(m)) \in Nat /\ Cardinality(Incoming(m)) # 0
      BY <2>2, <3>2, FS_CardinalityType, FS_EmptySet
    <3>. QED
      BY <3>1, <3>3
  <2>6. PICK u \in Upstreams(m) : Stored(u) \in Live /\ (NamesOnce(m) => u \in feed[m])
    BY <2>3, <2>4, <2>5 DEF Fed
  <2>7. value[u] \in {"ok", "some"} /\ u # n
    BY <2>3, <2>6 DEF Live, Dead
  <2>. QED
    BY <2>5, <2>6, <2>7
<1>2. Init => IInv /\ TopoInv /\ HandInv
  BY InitInv, TopoStarts, HandStarts
<1>3. IInv /\ TopoInv /\ HandInv /\ [Next]_vars => (IInv /\ TopoInv /\ HandInv)'
  BY StepInv, TopoStep, HandStep
<1>. QED
  BY <1>1, <1>2, <1>3, PTL DEF Spec

-----------------------------------------------------------------------------
(* What run_group promises.  A walk drains for a reason.                   *)
Lost == {"gaveUp", "broken", "cancelled"}

DrainInv ==
  phase = "draining" => cancels > 0 \/ \E n \in group.nodes \cap Node : at[n] \in Lost

Outcomes == [n \in Node |-> OutcomeOf(n)]

LEMMA OutcomeIs ==
  ASSUME NEW n
  PROVE  /\ at[n] \in {"idle", "asking"} => OutcomeOf(n) = "waiting"
         /\ at[n] \in {"running", "gathering"} => OutcomeOf(n) = "called"
         /\ at[n] = "settled" => OutcomeOf(n) = value[n]
         /\ at[n] \in Lost => OutcomeOf(n) = "lost"
BY DEF OutcomeOf, Lost

LEMMA VerdictIs ==
  /\ phase = "rejected" => Verdict = "refused"
  /\ phase = "returned" => Verdict = "returned"
  /\ phase = "raised" => Verdict = "raised"
  /\ phase \notin {"rejected", "returned", "raised"} => Verdict = "open"
BY DEF Verdict

LEMMA PlanIs ==
  /\ Plan.nodes = group.nodes
  /\ \A n \in Node : Plan.needs[n] = Upstreams(n)
  /\ \A i \in Arrows : Cond(i) => <<From(i), To(i)>> \in Plan.optional
BY DEF Plan

LEMMA PlanTyped ==
  ASSUME group \in Groups
  PROVE  /\ Plan.nodes \subseteq Node
         /\ Plan.needs \in [Node -> SUBSET Plan.nodes]
         /\ Plan.optional \subseteq Plan.nodes \X Node
<1>1. \A n : Upstreams(n) \subseteq group.nodes
  BY GroupTypes DEF Upstreams, Incoming
<1>2. \A i \in Arrows : <<From(i), To(i)>> \in group.nodes \X Node
  BY GroupTypes
<1>. QED
  BY <1>1, <1>2, GroupTypes DEF Plan

LEMMA SamePlan ==
  ASSUME group' = group
  PROVE  Plan' = Plan
<1>1. \A n \in Node : Upstreams(n)' = Upstreams(n)
  BY SameGroup
<1>2. Arrows' = Arrows /\ \A i : From(i)' = From(i) /\ To(i)' = To(i) /\ Cond(i)' = Cond(i)
  BY SameGroup DEF Cond
<1>. QED
  BY <1>1, <1>2 DEF Plan

(* Whoever has been taken up is an agent of the group; its upstreams have  *)
(* come to their outcomes, which are what is stored of them.               *)
LEMMA TakenUp ==
  ASSUME IInv, NEW n \in Node, at[n] # "idle"
  PROVE  /\ n \in group.nodes
         /\ \A u \in Upstreams(n) :
              /\ u \in group.nodes /\ u \in Node
              /\ Outcomes[u] = Stored(u) /\ Stored(u) \in Value \ {"none"}
<1>1. PICK k \in 1..turn : n \in tiers[k]
  BY DEF IInv, WalkInv
<1>2. turn \in Nat /\ k \in DOMAIN tiers /\ DOMAIN tiers = 1..Len(tiers) /\ Len(tiers) \in Nat
  BY <1>1, TiersTyped
<1>3. n \in group.nodes
  BY <1>1, <1>2 DEF IInv, TypeOK, TopologyTypeOK
<1>4. ASSUME NEW u \in Upstreams(n)
      PROVE  /\ u \in group.nodes /\ u \in Node
             /\ Outcomes[u] = Stored(u) /\ Stored(u) \in Value \ {"none"}
  <2>1. u \in group.nodes /\ u \in Node
    BY GroupTypes DEF IInv, Upstreams, Incoming
  <2>2. PICK l \in 1..(k - 1) : u \in tiers[l]
    BY <1>1, <1>2 DEF IInv, KahnInv, Forward
  <2>3. l \in 1..(turn - 1)
    BY <1>1, <1>2, <2>2
  <2>4. at[u] = "settled" /\ Stored(u) = value[u]
    BY <2>2, <2>3 DEF IInv, WalkInv, Stored
  <2>5. value[u] \in Value \ {"none"}
    BY <2>1, <2>4 DEF IInv, TypeOK, WalkInv, Value
  <2>. QED
    BY <2>1, <2>4, <2>5, OutcomeIs DEF Outcomes
<1>. QED
  BY <1>3, <1>4

LEMMA ReadyIs ==
  ASSUME IInv, NEW n \in Node, at[n] = "asking"
  PROVE  Contract!Ready(n)
<1>1. /\ n \in Plan.nodes /\ Plan.needs[n] = Upstreams(n)
      /\ \A u \in Upstreams(n) : Outcomes[u] \in Value \ {"none"}
  BY TakenUp, PlanIs
<1>2. Outcomes[n] = "waiting"
  BY OutcomeIs DEF Outcomes
<1>3. Value \ {"none"} \subseteq Contract!Decided
  BY DEF Value, Contract!Decided, Contract!Success, Contract!Failure
<1>. QED
  BY <1>1, <1>2, <1>3 DEF Contract!Ready, Outcomes

(* A step of one node is a change of its outcome.                          *)
LEMMA NodeBecomes ==
  ASSUME IInv, IInv', NEW n \in Node, at[n] \in Pending, OnlyNode(n), cancels' = cancels,
         NEW x, OutcomeOf(n)' = x
  PROVE  /\ Outcomes' = [Outcomes EXCEPT ![n] = x]
         /\ Contract!Becomes(n, x)
<1>1. \A m \in Node \ {n} : OutcomeOf(m)' = OutcomeOf(m)
  BY DEF OnlyNode, OutcomeOf
<1>2. Outcomes' = [Outcomes EXCEPT ![n] = x]
  BY <1>1 DEF Outcomes
<1>3. Plan' = Plan
  BY SamePlan DEF OnlyNode
<1>4. phase \notin {"rejected", "returned", "raised"} /\ phase' = phase
  BY PendingNotStored DEF OnlyNode, Unsorted, IInv, WalkInv, EndsDrained, InFlight, Pending
<1>5. Verdict = "open" /\ Verdict' = "open"
  BY <1>4 DEF Verdict
<1>6. (cancels > 0)' = (cancels > 0)
  OBVIOUS
<1>. QED
  BY <1>2, <1>3, <1>5, <1>6 DEF Contract!Becomes, Outcomes

(* Most steps of a node call it, lose it, or keep it waiting.              *)
LEMMA AskingSteps ==
  ASSUME IInv, IInv', NEW n \in Node, at[n] = "asking", OnlyNode(n), cancels' = cancels
  PROVE  /\ at'[n] \in Lost => Contract!Lose(n)
         /\ /\ at'[n] \in {"running", "gathering"}
            /\ Upstreams(n) = {} \/ \E u \in Upstreams(n) : Stored(u) \in Live
            => Contract!Call(n)
         /\ /\ at'[n] = "settled" /\ value'[n] = "skipped"
            /\ \E u \in Upstreams(n) :
                 /\ Upstreams(n) = {u}
                 /\ \/ Stored(u) = "skipped"
                    \/ Stored(u) \in Live /\ <<u, n>> \in Plan.optional
            => Contract!Skip(n)
<1>1. Contract!Ready(n) /\ at[n] \in Pending
  BY ReadyIs DEF Pending
<1>2. /\ n \in Plan.nodes /\ Plan.needs[n] = Upstreams(n) /\ Plan.nodes = group.nodes
      /\ \A u \in Upstreams(n) : u \in group.nodes /\ u \in Node /\ Outcomes[u] = Stored(u)
  BY TakenUp, PlanIs
<1>3. CASE at'[n] \in Lost
  <2>1. OutcomeOf(n)' = "lost"
    BY <1>3 DEF OutcomeOf, Lost
  <2>2. Contract!Becomes(n, "lost")
    BY <1>1, <2>1, NodeBecomes
  <2>. QED
    BY <1>1, <1>3, <2>2 DEF Contract!Lose, Lost
<1>4. CASE /\ at'[n] \in {"running", "gathering"}
           /\ Upstreams(n) = {} \/ \E u \in Upstreams(n) : Stored(u) \in Live
  <2>1. OutcomeOf(n)' = "called"
    BY <1>4 DEF OutcomeOf
  <2>2. Contract!Becomes(n, "called")
    BY <1>1, <2>1, NodeBecomes
  <2>3. Plan.needs[n] = {} \/ \E u \in Plan.needs[n] : Outcomes[u] \in Contract!Success
    BY <1>2, <1>4 DEF Live, Contract!Success
  <2>. QED
    BY <1>1, <1>4, <2>2, <2>3 DEF Contract!Call, Lost, Outcomes
<1>5. CASE /\ at'[n] = "settled" /\ value'[n] = "skipped"
           /\ \E u \in Upstreams(n) :
                /\ Upstreams(n) = {u}
                /\ \/ Stored(u) = "skipped"
                   \/ Stored(u) \in Live /\ <<u, n>> \in Plan.optional
  <2>1. OutcomeOf(n)' = "skipped"
    BY <1>5 DEF OutcomeOf
  <2>2. Contract!Becomes(n, "skipped")
    BY <1>1, <2>1, NodeBecomes
  <2>3. \E u \in Plan.nodes :
          /\ Plan.needs[n] = {u}
          /\ \/ Outcomes[u] = "skipped"
             \/ Outcomes[u] \in Contract!Success /\ <<u, n>> \in Plan.optional
    BY <1>2, <1>5 DEF Live, Contract!Success
  <2>. QED
    BY <1>1, <1>5, <2>2, <2>3 DEF Contract!Skip, Lost, Outcomes
<1>. QED
  BY <1>3, <1>4, <1>5

Promised == <<Plan, Outcomes, cancels > 0, Verdict>>

LEMMA EnterPromised ==
  ASSUME IInv, IInv', NEW n \in Node, Enter(n)
  PROVE  Contract!Call(n)
<1>1. /\ at[n] = "asking" /\ Incoming(n) = {} /\ Run(n) /\ cancels' = cancels
      /\ UNCHANGED <<topologyVars, turn, pos, feed, alive, made>>
  BY DEF Enter
<1>2. OnlyNode(n) /\ at'[n] = "running"
  BY <1>1, StepsOfNode DEF OnlyNode, topologyVars
<1>3. Upstreams(n) = {}
  BY <1>1 DEF Upstreams
<1>. QED
  BY <1>1, <1>2, <1>3, AskingSteps

LEMMA FollowPromised ==
  ASSUME IInv, IInv', NEW n \in Node, FollowEdge(n)
  PROVE  Contract!Call(n) \/ Contract!Skip(n) \/ Contract!Lose(n)
<1>1. /\ at[n] = "asking" /\ Cardinality(Incoming(n)) = 1 /\ cancels' = cancels
      /\ UNCHANGED <<topologyVars, turn, pos, feed, alive, made>>
  BY DEF FollowEdge
<1>2. PICK i \in Incoming(n) :
        LET up == Stored(From(i))
        IN  \/ /\ Absent(up) \/ (Cond(i) /\ ~Dead(up))
               /\ Settle(n, "skipped")
               /\ UNCHANGED given
            \/ /\ Dead(up)
               /\ Stop(n, "gaveUp")
               /\ UNCHANGED given
            \/ /\ Cond(i) /\ ~Absent(up) /\ ~Dead(up)
               /\ Stop(n, "broken")
               /\ UNCHANGED given
            \/ ~Absent(up) /\ ~Dead(up) /\ DispatchOne(n, i)
  BY DEF FollowEdge
<1>3. Upstreams(n) = {From(i)} /\ To(i) = n /\ i \in Arrows
  <2>1. IsFiniteSet(Incoming(n))
    BY IncomingFinite DEF IInv
  <2>2. \E x : Incoming(n) = {x}
    BY <1>1, <2>1, FS_Singleton
  <2>. QED
    BY <1>2, <2>2 DEF Upstreams, Incoming
<1>4. PICK up : up = Stored(From(i))
  OBVIOUS
<1>5. up \in Value \ {"none"}
  BY <1>1, <1>3, <1>4, TakenUp
<1>6. ASSUME ~Absent(up), ~Dead(up) PROVE \E u \in Upstreams(n) : Stored(u) \in Live
  BY <1>3, <1>4, <1>5, <1>6 DEF Absent, Dead, Live, Value
<1>7. CASE (Absent(up) \/ (Cond(i) /\ ~Dead(up))) /\ Settle(n, "skipped") /\ UNCHANGED given
  <2>1. OnlyNode(n) /\ at'[n] = "settled" /\ value'[n] = "skipped"
    BY <1>1, <1>7, StepsOfNode DEF OnlyNode, topologyVars, Settle, IInv, TypeOK
  <2>2. \/ Stored(From(i)) = "skipped"
        \/ Stored(From(i)) \in Live /\ <<From(i), n>> \in Plan.optional
    BY <1>3, <1>4, <1>5, <1>7, PlanIs DEF Absent, Dead, Live, Value
  <2>. QED
    BY <1>1, <1>3, <2>1, <2>2, AskingSteps
<1>8. CASE \E how \in {"gaveUp", "broken"} : Stop(n, how) /\ UNCHANGED given
  <2>1. OnlyNode(n) /\ at'[n] \in Lost
    BY <1>1, <1>8, StepsOfNode DEF OnlyNode, topologyVars, Lost
  <2>. QED
    BY <1>1, <2>1, AskingSteps
<1>9. CASE ~Absent(up) /\ ~Dead(up) /\ DispatchOne(n, i)
  <2>1. OnlyNode(n)
    BY <1>1, <1>9, StepsOfNode, CallsMapper DEF OnlyNode, topologyVars, DispatchOne
  <2>2. at'[n] \in {"running", "gathering", "broken"}
    BY <1>9, StepsOfNode, CallsMapper DEF DispatchOne
  <2>. QED
    BY <1>1, <1>6, <1>9, <2>1, <2>2, AskingSteps DEF Lost
<1>. QED
  BY <1>2, <1>4, <1>7, <1>8, <1>9

(* Looking at one of several edges is nobody's business.                   *)
LEMMA LookPromised ==
  ASSUME IInv, IInv', NEW n \in Node, LookAtEdge(n)
  PROVE  Contract!Lose(n) \/ UNCHANGED Promised
<1>1. /\ at[n] = "asking" /\ cancels' = cancels
      /\ UNCHANGED <<topologyVars, turn, made, given>>
  BY DEF LookAtEdge
<1>2. \/ UNCHANGED <<at, value>>
      \/ Stop(n, "broken") /\ UNCHANGED <<feed, alive, pos>>
  BY DEF LookAtEdge, Contribute
<1>3. CASE UNCHANGED <<at, value>>
  <2>1. Outcomes' = Outcomes
    BY <1>3 DEF Outcomes, OutcomeOf
  <2>2. Plan' = Plan
    BY <1>1, SamePlan DEF topologyVars
  <2>3. Verdict' = Verdict
    BY <1>1 DEF Verdict, topologyVars
  <2>. QED
    BY <1>1, <2>1, <2>2, <2>3 DEF Promised
<1>4. CASE Stop(n, "broken") /\ UNCHANGED <<feed, alive, pos>>
  <2>1. OnlyNode(n) /\ at'[n] \in Lost
    BY <1>1, <1>4, StepsOfNode DEF OnlyNode, topologyVars, Lost
  <2>. QED
    BY <1>1, <2>1, AskingSteps
<1>. QED
  BY <1>2, <1>3, <1>4

LEMMA AggregatePromised ==
  ASSUME IInv, IInv', HandInv, NEW n \in Node, Aggregate(n)
  PROVE  Contract!Call(n) \/ Contract!Lose(n)
<1>1. /\ at[n] = "asking" /\ cancels' = cancels
      /\ UNCHANGED <<topologyVars, turn, pos, feed, alive, made>>
      /\ \/ Stop(n, "broken") /\ UNCHANGED given
         \/ Stop(n, "gaveUp") /\ UNCHANGED given
         \/ n \in alive /\ CallMapper(n)
  BY DEF Aggregate
<1>2. CASE \E how \in {"gaveUp", "broken"} : Stop(n, how) /\ UNCHANGED given
  <2>1. OnlyNode(n) /\ at'[n] \in Lost
    BY <1>1, <1>2, StepsOfNode DEF OnlyNode, topologyVars, Lost
  <2>. QED
    BY <1>1, <2>1, AskingSteps
<1>3. CASE n \in alive /\ CallMapper(n)
  <2>1. OnlyNode(n) /\ at'[n] \in {"running", "gathering", "broken"}
    BY <1>1, <1>3, CallsMapper DEF OnlyNode, topologyVars
  <2>2. \E u \in Upstreams(n) : Stored(u) \in Live
    BY <1>3 DEF HandInv, Fed
  <2>. QED
    BY <1>1, <2>1, <2>2, AskingSteps DEF Lost
<1>. QED
  BY <1>1, <1>2, <1>3

LEMMA EndPromised ==
  ASSUME IInv, IInv', NEW n \in Node, Answer(n) \/ Cancelled(n)
  PROVE  Contract!Answer(n) \/ Contract!Lose(n)
<1>1. /\ at[n] \in Pending /\ cancels' = cancels
      /\ UNCHANGED <<topologyVars, turn, pos, feed, alive, given>>
  BY DEF Answer, Cancelled, Pending
<1>2. \A m \in Node \ {n} : at'[m] = at[m] /\ value'[m] = value[m] /\ made'[m] = made[m]
  BY StepsOfNode DEF Answer, Cancelled, IInv, TypeOK
<1>3. OnlyNode(n)
  BY <1>1, <1>2 DEF OnlyNode, topologyVars
<1>4. \/ \E v \in {"ok", "failed", "some", "dead"} : Settle(n, v) /\ at[n] # "asking"
      \/ \E how \in {"broken", "cancelled"} : Stop(n, how)
  BY DEF Answer, Cancelled
<1>5. ASSUME NEW v \in {"ok", "failed", "some", "dead"}, Settle(n, v), at[n] # "asking"
      PROVE  Contract!Answer(n)
  <2>1. at'[n] = "settled" /\ value'[n] = v
    BY <1>5 DEF Settle, IInv, TypeOK
  <2>2. OutcomeOf(n)' = v
    BY <2>1 DEF OutcomeOf
  <2>3. Contract!Becomes(n, v)
    BY <1>1, <1>3, <2>2, NodeBecomes
  <2>4. Outcomes[n] = "called"
    BY <1>1, <1>5, OutcomeIs DEF Outcomes, Pending
  <2>5. v \in Contract!Success \cup Contract!Failure
    BY DEF Contract!Success, Contract!Failure
  <2>. QED
    BY <2>3, <2>4, <2>5 DEF Contract!Answer, Outcomes
<1>6. ASSUME NEW how \in {"broken", "cancelled"}, Stop(n, how)
      PROVE  Contract!Lose(n)
  <2>1. at'[n] \in Lost
    BY <1>6, StepsOfNode DEF Lost
  <2>2. OutcomeOf(n)' = "lost"
    BY <2>1 DEF OutcomeOf, Lost
  <2>3. Contract!Becomes(n, "lost")
    BY <1>1, <1>3, <2>2, NodeBecomes
  <2>4. Contract!Ready(n) \/ Outcomes[n] = "called"
    BY <1>1, ReadyIs, OutcomeIs DEF Outcomes, Pending
  <2>. QED
    BY <2>3, <2>4 DEF Contract!Lose, Outcomes
<1>. QED
  BY <1>4, <1>5, <1>6

LEMMA DrainStep == IInv /\ IInv' /\ DrainInv /\ [Next]_vars => DrainInv'
<1>. SUFFICES ASSUME IInv, IInv', DrainInv, [Next]_vars, phase' = "draining"
              PROVE  (cancels > 0 \/ \E n \in group.nodes \cap Node : at[n] \in Lost)'
  BY DEF DrainInv
<1>1. CASE TopologyNext /\ UNCHANGED walkVars
  <2>1. phase' \in {"visiting", "rejected", "sorting", "walking", "raised"}
    BY <1>1 DEF TopologyNext, CheckTargets, VisitRoot, VisitTarget, CloseVisit, Construct,
       Release
  <2>. QED
    BY <2>1
<1>2. CASE UNCHANGED vars
  BY <1>2 DEF vars, topologyVars, walkVars, DrainInv
<1>3. CASE TierFails
  <2>1. PICK n \in Tier : at[n] \in Lost
    BY <1>3 DEF TierFails, Lost
  <2>2. n \in Tier /\ n \in Node
    BY TiersTyped DEF Tier
  <2>3. n \in group.nodes
    BY <2>1, <2>2, TakenUp DEF Lost
  <2>. QED
    BY <1>3, <2>1, <2>2, <2>3 DEF TierFails
<1>4. CASE CallerCancels
  <2>1. cancels \in Nat /\ cancels' = cancels + 1
    BY <1>4, RunnerAssumption DEF CallerCancels, IInv, TypeOK
  <2>. QED
    BY <2>1
<1>5. CASE NextTier \/ Drained \/ Finish
  BY <1>5 DEF NextTier, Drained, Finish, topologyVars
<1>6. ASSUME NEW n \in Node, Resolve(n) \/ Answer(n) \/ Cancelled(n)
      PROVE  (cancels > 0 \/ \E m \in group.nodes \cap Node : at[m] \in Lost)'
  <2>1. at[n] \in Pending /\ UNCHANGED <<group, phase, cancels>>
    BY <1>6 DEF Resolve, Enter, FollowEdge, LookAtEdge, Aggregate, Answer, Cancelled, Pending,
       topologyVars
  <2>2. \A m \in Node \ {n} : at'[m] = at[m]
    BY <1>6, StepsOfNode, CallsMapper DEF Resolve, Enter, FollowEdge, LookAtEdge, Aggregate,
       Answer, Cancelled, DispatchOne, Contribute
  <2>3. \A m : at[m] \in Lost => m # n
    BY <2>1 DEF Lost, Pending
  <2>. QED
    BY <2>1, <2>2, <2>3 DEF DrainInv
<1>. QED
  BY <1>1, <1>2, <1>3, <1>4, <1>5, <1>6 DEF Next, Walk

(* The construction changes nothing until it refuses the group, and the    *)
(* tiers never fail a group that was constructed.                          *)
LEMMA TopologyPromised ==
  ASSUME IInv, TopoInv', TopologyNext, UNCHANGED walkVars
  PROVE  Contract!Refuse \/ UNCHANGED Promised
<1>1. /\ group' = group /\ UNCHANGED <<turn, at, value, cancels>>
      /\ phase \in Unsorted \cup {"sorting"} /\ phase # "rejected"
      /\ phase' \in {"visiting", "rejected", "sorting", "walking", "raised"}
  BY DEF TopologyNext, CheckTargets, VisitRoot, VisitTarget, CloseVisit, Construct, Release,
     walkVars, Unsorted
<1>2. phase' # "raised"
  <2>1. ~(Release /\ phase' = "raised")
    <3>. SUFFICES ASSUME Release, phase' = "raised" PROVE FALSE
      OBVIOUS
    <3>1. Tiered # group.nodes /\ tiers' = tiers
      BY DEF Release
    <3>2. Tiered' = Tiered
      BY <3>1 DEF Tiered
    <3>3. Tiered' = group'.nodes
      BY DEF TopoInv, TightInv, Sorted
    <3>. QED
      BY <1>1, <3>1, <3>2, <3>3
  <2>2. Release \/ phase' \in {"visiting", "rejected", "sorting"}
    BY DEF TopologyNext, CheckTargets, VisitRoot, VisitTarget, CloseVisit, Construct
  <2>. QED
    BY <2>1, <2>2
<1>3. Plan' = Plan /\ Outcomes' = Outcomes /\ (cancels > 0)' = (cancels > 0)
  BY <1>1, SamePlan DEF Outcomes, OutcomeOf
<1>4. Verdict = "open"
  BY <1>1 DEF Verdict, Unsorted
<1>5. \A n \in Node : at[n] = "idle"
  BY <1>1 DEF IInv, WalkInv
<1>6. \A n \in Node : Outcomes[n] = "waiting"
  BY <1>5, OutcomeIs DEF Outcomes
<1>7. CASE phase' = "rejected"
  <2>1. Verdict' = "refused"
    BY <1>7 DEF Verdict
  <2>. QED
    BY <1>3, <1>4, <1>6, <2>1 DEF Contract!Refuse, Contract!Decide, Outcomes
<1>8. CASE phase' # "rejected"
  <2>1. Verdict' = "open"
    BY <1>1, <1>2, <1>8 DEF Verdict
  <2>. QED
    BY <1>3, <1>4, <2>1 DEF Promised
<1>. QED
  BY <1>7, <1>8

LEMMA NextTierPromised ==
  ASSUME IInv, NextTier
  PROVE  UNCHANGED Promised
<1>1. /\ UNCHANGED <<group, phase, value, cancels>> /\ turn + 1 \in 1..Len(tiers)
      /\ turn \in Nat
  BY TiersTyped DEF NextTier, topologyVars
<1>2. \A n \in tiers[turn + 1] : \A k \in 1..turn : n \notin tiers[k]
  BY <1>1, TiersTyped DEF IInv, KahnInv, Disjoint
<1>3. \A n \in Node : n \in tiers[turn + 1] => at[n] = "idle"
  BY <1>2 DEF IInv, WalkInv
<1>4. \A n \in Node : at'[n] = IF n \in tiers[turn + 1] THEN "asking" ELSE at[n]
  BY DEF NextTier
<1>5. \A n \in Node : OutcomeOf(n)' = OutcomeOf(n)
  BY <1>1, <1>3, <1>4 DEF OutcomeOf
<1>6. Plan' = Plan /\ Verdict' = Verdict /\ Outcomes' = Outcomes
  BY <1>1, <1>5, SamePlan DEF Verdict, Outcomes
<1>. QED
  BY <1>1, <1>6 DEF Promised

(* A walk ends when nobody is called any more.                             *)
LEMMA EndsQuietly ==
  ASSUME IInv', UNCHANGED <<group, at, value, cancels>>, phase \in {"walking", "draining"},
         phase' \in {"returned", "raised"}
  PROVE  Contract!Decide(phase')
<1>1. \A n \in Node : at[n] \notin {"running", "gathering"}
  BY DEF IInv, WalkInv, EndsDrained, InFlight
<1>2. \A n \in Node : at[n] = "settled" => value[n] \in Value \ {"none"}
  BY DEF IInv, TypeOK, WalkInv, Value
<1>3. \A n \in Node : OutcomeOf(n) # "called"
  BY <1>1, <1>2 DEF OutcomeOf, Value
<1>4. Plan' = Plan /\ Outcomes' = Outcomes
  BY SamePlan DEF Outcomes, OutcomeOf
<1>5. Verdict = "open" /\ Verdict' = phase'
  BY DEF Verdict
<1>. QED
  BY <1>3, <1>4, <1>5 DEF Contract!Decide, Outcomes

LEMMA DrainedPromised ==
  ASSUME IInv, IInv', DrainInv, Drained
  PROVE  Contract!Raise
<1>1. /\ UNCHANGED <<group, at, value, cancels>> /\ phase = "draining" /\ phase' = "raised"
  BY DEF Drained, walkVars
<1>2. Contract!Decide("raised")
  BY <1>1, EndsQuietly
<1>3. CASE cancels > 0
  BY <1>2, <1>3 DEF Contract!Raise
<1>4. CASE \E n \in group.nodes \cap Node : at[n] \in Lost
  <2>1. \E n \in Plan.nodes : Outcomes[n] = "lost"
    BY <1>4, OutcomeIs, PlanIs DEF Outcomes
  <2>. QED
    BY <1>2, <2>1 DEF Contract!Raise, Outcomes
<1>. QED
  BY <1>1, <1>3, <1>4 DEF DrainInv

(* At the end of the last tier all have been decided, and the terminal     *)
(* nodes that fired are those of the plan.                                 *)
LEMMA FinishPromised ==
  ASSUME IInv, IInv', TopoInv, Finish
  PROVE  Contract!Return \/ Contract!Raise
<1>1. /\ UNCHANGED <<group, at, value, cancels>> /\ phase = "walking"
      /\ phase' \in {"returned", "raised"}
      /\ turn = Len(tiers) /\ \A n \in Tier : at[n] = "settled"
  BY DEF Finish, walkVars
<1>2. Contract!Decide(phase')
  BY <1>1, EndsQuietly
<1>3. ASSUME NEW n \in group.nodes
      PROVE  n \in Node /\ Outcomes[n] = value[n] /\ value[n] \in Value \ {"none"}
  <2>1. n \in Tiered /\ n \in Node
    BY <1>1, GroupTypes DEF TopoInv, TightInv, Sorted, IInv
  <2>2. PICK k \in DOMAIN tiers : n \in tiers[k]
    BY <2>1 DEF Tiered
  <2>3. at[n] = "settled"
    <3>1. CASE k = turn
      BY <1>1, <2>2, <3>1, TiersTyped DEF Tier
    <3>2. CASE k # turn
      <4>1. k \in 1..(turn - 1)
        BY <1>1, <2>2, <3>2, TiersTyped
      <4>. QED
        BY <2>2, <4>1 DEF IInv, WalkInv
    <3>. QED
      BY <3>1, <3>2
  <2>. QED
    BY <2>1, <2>3, OutcomeIs DEF Outcomes, IInv, TypeOK, WalkInv, Value
<1>4. Value \ {"none"} \subseteq Contract!Decided
  BY DEF Value, Contract!Decided, Contract!Success, Contract!Failure
<1>5. Contract!AllDecided
  BY <1>3, <1>4, PlanIs DEF Contract!AllDecided, Outcomes
<1>6. \A n \in group.nodes : Outgoing(n) = {} <=> \A m \in group.nodes : n \notin Upstreams(m)
  <2>1. \A i \in Arrows : To(i) \in group.nodes
    BY <1>1 DEF TopoInv, TargetsInv
  <2>. QED
    BY <2>1 DEF Outgoing, Upstreams, Incoming
<1>7. Fired = Contract!Fired
  <2>1. \A n \in group.nodes : ~Absent(value[n]) <=> Outcomes[n] # "skipped"
    BY <1>3 DEF Absent
  <2>2. \A n \in group.nodes : n \in Node /\ Plan.needs[n] = Upstreams(n)
    BY <1>3, PlanIs
  <2>3. Plan.nodes = group.nodes
    BY PlanIs
  <2>4. \A n : n \in Contract!Fired <=>
          /\ n \in group.nodes /\ \A m \in group.nodes : n \notin Upstreams(m)
          /\ Outcomes[n] # "skipped"
    BY <2>2, <2>3 DEF Contract!Fired, Outcomes
  <2>5. \A n : n \in Fired <=> n \in group.nodes /\ Outgoing(n) = {} /\ ~Absent(value[n])
    BY DEF Fired, TerminalNodes
  <2>. QED
    BY <1>6, <2>1, <2>4, <2>5
<1>8. Contract!Presentable <=> Fired # {} /\ \A n \in Fired : value[n] \in {"ok", "failed"}
  <2>1. \A n \in Fired : Outcomes[n] = value[n]
    BY <1>3 DEF Fired, TerminalNodes
  <2>. QED
    BY <1>7, <2>1 DEF Contract!Presentable, Outcomes
<1>9. phase' = IF Contract!Presentable THEN "returned" ELSE "raised"
  BY <1>8 DEF Finish
<1>. QED
  BY <1>2, <1>5, <1>9 DEF Contract!Return, Contract!Raise

LEMMA CancelPromised ==
  ASSUME IInv, CallerCancels
  PROVE  Contract!Cancel
<1>1. /\ UNCHANGED <<group, at, value>> /\ phase = "walking"
      /\ phase' \in {"walking", "draining"} /\ cancels' = cancels + 1 /\ cancels \in Nat
  BY RunnerAssumption DEF CallerCancels, IInv, TypeOK
<1>2. Plan' = Plan /\ Outcomes' = Outcomes
  BY <1>1, SamePlan DEF Outcomes, OutcomeOf
<1>3. Verdict = "open" /\ Verdict' = "open"
  BY <1>1 DEF Verdict
<1>4. (cancels > 0)' = TRUE
  BY <1>1
<1>. QED
  BY <1>2, <1>3, <1>4 DEF Contract!Cancel, Outcomes

LEMMA StepPromised ==
  ASSUME IInv, IInv', TopoInv, TopoInv', HandInv, DrainInv, [Next]_vars
  PROVE  Contract!Next \/ UNCHANGED Promised
<1>1. CASE TopologyNext /\ UNCHANGED walkVars
  BY <1>1, TopologyPromised DEF Contract!Next
<1>2. CASE UNCHANGED vars \/ TierFails
  <2>1. /\ UNCHANGED <<group, at, value, cancels>>
        /\ phase' = phase \/ (phase = "walking" /\ phase' = "draining")
    BY <1>2 DEF vars, topologyVars, walkVars, TierFails
  <2>2. Plan' = Plan /\ Outcomes' = Outcomes /\ Verdict' = Verdict
    BY <2>1, SamePlan DEF Outcomes, OutcomeOf, Verdict
  <2>. QED
    BY <2>1, <2>2 DEF Promised
<1>3. CASE NextTier
  BY <1>3, NextTierPromised
<1>4. CASE Drained \/ Finish \/ CallerCancels
  BY <1>4, DrainedPromised, FinishPromised, CancelPromised DEF Contract!Next
<1>5. CASE \E n \in Node : Resolve(n) \/ Answer(n) \/ Cancelled(n)
  BY <1>5, EnterPromised, FollowPromised, LookPromised, AggregatePromised, EndPromised
  DEF Contract!Next, Resolve
<1>. QED
  BY <1>1, <1>2, <1>3, <1>4, <1>5 DEF Next, Walk

(* run_group, with its tiers, edges, aggregators and cancellations, keeps  *)
(* the promise of GroupContract for any group: no agent is called before   *)
(* what it needs is decided, or without a need that succeeded; a failure   *)
(* is never taken for a skip; and run_group returns or raises only for the *)
(* reasons the contract names, with nobody called any more.                *)
THEOREM WalkImplementsContract == Spec => ImplementsGroupContract
<1>1. Init => Contract!Init
  <2>. SUFFICES ASSUME Init PROVE Contract!Init
    OBVIOUS
  <2>1. /\ group \in Groups /\ phase = "constructing" /\ cancels = 0
        /\ \A n \in Node : at[n] = "idle"
    BY DEF Init, TopologyInit
  <2>2. Outcomes = [n \in Node |-> "waiting"] /\ Verdict = "open"
    BY <2>1 DEF Outcomes, OutcomeOf, Verdict
  <2>. QED
    BY <2>1, <2>2, PlanTyped DEF Contract!Init, Outcomes
<1>2. Init => IInv /\ TopoInv /\ HandInv /\ DrainInv
  BY InitInv, TopoStarts, HandStarts DEF DrainInv, Init, TopologyInit
<1>3. /\ IInv /\ TopoInv /\ HandInv /\ DrainInv /\ [Next]_vars
      => (IInv /\ TopoInv /\ HandInv /\ DrainInv)'
  BY StepInv, TopoStep, HandStep, DrainStep
<1>4. /\ IInv /\ IInv' /\ TopoInv /\ TopoInv' /\ HandInv /\ DrainInv /\ [Next]_vars
      => [Contract!Next]_<<Plan, [n \in Node |-> OutcomeOf(n)], cancels > 0, Verdict>>
  BY StepPromised DEF Promised, Outcomes
<1>. QED
  BY <1>1, <1>2, <1>3, <1>4, PTL DEF Spec, ImplementsGroupContract, Contract!Spec
=============================================================================
