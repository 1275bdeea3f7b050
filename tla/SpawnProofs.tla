------------------------------ MODULE SpawnProofs ------------------------------
(***************************************************************************)
(* Theorems about admission, for every set of calls, agents and runtimes   *)
(* and every setting of the limits: the spawn cap is never exceeded, what  *)
(* an agent's tools see of their own chain is true, and cascades end.      *)
(***************************************************************************)
EXTENDS SpawnAdmission, FiniteSetTheorems, TLAPS

-----------------------------------------------------------------------------
(* Contexts and frames.                                                    *)
LEMMA ChildType ==
  ASSUME NEW f \in Frame \cup {NoFrame}
  PROVE  Child(f) \in Context
BY NoFrameAssumption DEF NoFrameAssumption, Child, Chain, Top, Frame, Context

LEMMA OverlayType ==
  ASSUME NEW p \in Context, NEW x \in Context
  PROVE  Overlay(p, x) = x
BY DEF Overlay, Context

LEMMA RehydrateType ==
  ASSUME NEW x \in Context
  PROVE  Rehydrate(x) \in Frame \cup {NoFrame}
<1>1. CASE x.parent = NoAgent
  BY <1>1 DEF Rehydrate
<1>2. CASE x.parent # NoAgent
  <2>1. /\ x.parent \in Agent /\ x.ancestors \ {x.parent} \in SUBSET Agent
        /\ (IF x.depth > 0 THEN x.depth - 1 ELSE 0) \in Nat
    BY <1>2 DEF Context
  <2>. QED
    BY <1>2, <2>1 DEF Rehydrate, Frame, Context
<1>. QED
  BY <1>1, <1>2

(* The context x belongs to an agent at the end of chain ch.               *)
Truthful(x, a, ch) ==
  /\ Len(ch) >= 1 /\ ch[Len(ch)] = a
  /\ x.depth = Len(ch) - 1
  /\ x.ancestors = Front(ch)
  /\ x.parent = IF Len(ch) = 1 THEN NoAgent ELSE ch[Len(ch) - 1]

(* A call from outside starts a chain of its own.                          *)
LEMMA TopTruthful ==
  ASSUME NEW a \in Agent
  PROVE  <<a>> \in Seq(Agent) /\ Truthful(Child(NoFrame), a, <<a>>)
BY DEF Child, Top, Truthful, Front

(* A tool's call, under its agent's truthful frame, continues the chain.   *)
LEMMA ToolTruthful ==
  ASSUME NEW f \in Frame, NEW ch \in Seq(Agent), NEW a \in Agent,
         Truthful(f.context, f.agent, ch)
  PROVE  /\ Append(ch, a) \in Seq(Agent)
         /\ Truthful(Child(f), a, Append(ch, a))
<1>. DEFINE new == Append(ch, a)
<1>1. /\ new \in Seq(Agent) /\ Len(new) = Len(ch) + 1 /\ Len(ch) \in Nat
      /\ new[Len(new)] = a /\ \A i \in 1..Len(ch) : new[i] = ch[i]
  OBVIOUS
<1>2. Child(f) = [depth |-> f.context.depth + 1, parent |-> f.agent,
                  ancestors |-> f.context.ancestors \cup {f.agent}]
  BY NoFrameAssumption DEF NoFrameAssumption, Child, Chain
<1>3. Front(new) = Front(ch) \cup {ch[Len(ch)]}
  BY <1>1 DEF Front, Truthful
<1>. QED
  BY <1>1, <1>2, <1>3 DEF Truthful

(* A broker hop loses nothing of the chain.                                *)
LEMMA HopTruthful ==
  ASSUME NEW x \in Context, NEW a \in Agent, NEW ch \in Seq(Agent),
         Truthful(x, a, ch)
  PROVE  Truthful(Child(Rehydrate(x)), a, ch)
<1>1. CASE Len(ch) = 1
  <2>1. x.parent = NoAgent /\ x.depth = 0 /\ x.ancestors = Front(ch)
    BY <1>1 DEF Truthful
  <2>2. Child(Rehydrate(x)) = Top
    BY <2>1 DEF Rehydrate, Child
  <2>3. Front(ch) = {}
    BY <1>1 DEF Front
  <2>. QED
    BY <1>1, <2>2, <2>3 DEF Truthful, Top
<1>2. CASE Len(ch) # 1
  <2>0. Len(ch) \in Nat /\ Len(ch) > 1
    <3>1. Len(ch) \in Nat
      OBVIOUS
    <3>2. Len(ch) >= 1
      BY DEF Truthful
    <3>3. \A n \in Nat : n >= 1 /\ n # 1 => n > 1
      OBVIOUS
    <3>. QED
      BY <1>2, <3>1, <3>2, <3>3, Zenon
  <2>1. /\ Len(ch) \in Nat /\ Len(ch) > 1 /\ ch[Len(ch) - 1] \in Agent
        /\ x.parent = ch[Len(ch) - 1] /\ x.depth > 0 /\ x.depth \in Nat
        /\ x.ancestors = Front(ch)
    <3>1. 1 <= Len(ch) - 1 /\ Len(ch) - 1 <= Len(ch) /\ Len(ch) # 1
      BY <2>0
    <3>2. ch[Len(ch) - 1] \in Agent
      BY <2>0, <3>1
    <3>3. /\ x.parent = ch[Len(ch) - 1] /\ x.depth = Len(ch) - 1
          /\ x.ancestors = Front(ch)
      BY <3>1 DEF Truthful
    <3>. QED
      BY <2>0, <3>2, <3>3
  <2>2. x.parent # NoAgent /\ x.parent \in Front(ch)
    BY <2>1, AdmissionAssumption DEF AdmissionAssumption, Front
  <2>3. Rehydrate(x) = [agent |-> x.parent,
                        context |-> [depth |-> x.depth - 1, parent |-> NoAgent,
                                     ancestors |-> x.ancestors \ {x.parent}]]
    BY <2>1, <2>2 DEF Rehydrate
  <2>4. Rehydrate(x) # NoFrame
    <3>1. Rehydrate(x) \in Frame
      BY <2>1, <2>3 DEF Frame, Context
    <3>. QED
      BY <3>1, NoFrameAssumption DEF NoFrameAssumption
  <2>5. Child(Rehydrate(x)) = [depth |-> x.depth, parent |-> x.parent,
                               ancestors |-> x.ancestors]
    <3>1. (x.ancestors \ {x.parent}) \cup {x.parent} = x.ancestors
      BY <2>1, <2>2
    <3>2. x.depth - 1 + 1 = x.depth
      BY <2>1
    <3>. DEFINE f == Rehydrate(x)
    <3>3. /\ f.agent = x.parent
          /\ f.context.depth = x.depth - 1
          /\ f.context.ancestors = x.ancestors \ {x.parent}
      BY <2>3
    <3>4. Child(f) = [depth |-> f.context.depth + 1, parent |-> f.agent,
                      ancestors |-> f.context.ancestors \cup {f.agent}]
      BY <2>4 DEF Child, Chain
    <3>. QED
      BY <3>1, <3>2, <3>3, <3>4
  <2>. QED
    BY <2>5 DEF Truthful
<1>. QED
  BY <1>1, <1>2

-----------------------------------------------------------------------------
(* The inductive invariant: every accepted call's context tells the truth  *)
(* about its chain, every frame is its call's, and chains are bounded.     *)
ChainInv ==
  \A c \in Call :
    /\ Accepted(c) =>
         /\ Truthful(call[c].context, call[c].agent, call[c].chain)
         /\ call[c].context.depth < MaxDepth
         /\ Strict => Distinct(call[c].chain)
    /\ frame[c] # NoFrame =>
         /\ Accepted(c)
         /\ frame[c] = [agent |-> call[c].agent, context |-> call[c].context]

SInv == TypeOK /\ ChainInv /\ CapHolds

LEMMA SpawnInit == Init => SInv
BY AdmissionAssumption
DEF AdmissionAssumption, Init, SInv, TypeOK, ChainInv, CapHolds, Accepted, Limit

(* What run() and gather() do when they are called, in terms of the frame  *)
(* they find and of the true chain.                                        *)
LEMMA EnterStep ==
  ASSUME SInv,
         NEW c \in Call, NEW r \in Runtime, NEW a \in Agent,
         NEW n \in 0..MaxSize, NEW g \in BOOLEAN,
         NEW f \in Frame \cup {NoFrame}, NEW s \in Call \cup {NoCall},
         NEW ch \in Seq(Agent),
         Truthful(Child(f), a, ch),
         Strict /\ ~Cycle(f, a) => Distinct(ch),
         Enter(c, r, a, n, g, f, s, ch)
  PROVE  SInv'
<1>. DEFINE rec == [runtime |-> r, agent |-> a, size |-> n, gathers |-> g,
                    context |-> Child(f), spawner |-> s, chain |-> ch]
<1>0. TypeOK /\ ChainInv /\ CapHolds /\ status[c] = "new"
  BY DEF SInv, Enter
<1>1. rec \in CallRecord
  BY ChildType DEF CallRecord
<1>2. UNCHANGED <<frame, failures, spent, remaining, window, resets>>
  BY DEF Enter
<1>3. frame[c] = NoFrame
  BY <1>0 DEF ChainInv, Accepted
<1>4. CASE UNCHANGED <<call, spawned>> /\ status' = [status EXCEPT ![c] = "rejected"]
  <2>1. \A d \in Call : Accepted(d)' => Accepted(d)
    BY <1>0, <1>4 DEF Accepted, TypeOK
  <2>2. \A d \in Call : status'[d] = "executing" => status[d] = "executing"
    BY <1>0, <1>4 DEF TypeOK
  <2>3. TypeOK'
    BY <1>0, <1>2, <1>4, <2>1, <2>2 DEF TypeOK
  <2>4. \A d \in Call : Accepted(d) => Accepted(d)'
    BY <1>0, <1>4 DEF Accepted, TypeOK
  <2>5. ChainInv'
    BY <1>0, <1>2, <1>4, <2>1, <2>4 DEF ChainInv
  <2>. QED
    BY <1>0, <1>4, <2>3, <2>5 DEF SInv, CapHolds
<1>5. CASE /\ ~(Cycle(f, a) \/ TooDeep(f) \/ OutOfTokens(r) \/ OverCap(r, n))
           /\ status' = [status EXCEPT ![c] = "admitted"]
           /\ call' = [call EXCEPT ![c] = rec]
           /\ spawned' = [spawned EXCEPT ![r] = @ + n]
  <2>1. \A d \in Call : d # c => status'[d] = status[d] /\ call'[d] = call[d]
    BY <1>0, <1>5 DEF TypeOK
  <2>2. status'[c] = "admitted" /\ DOMAIN call' = DOMAIN call
    BY <1>0, <1>5 DEF TypeOK
  <2>3. call'[c] = rec
    BY <1>0, <1>5 DEF TypeOK
  <2>4. spawned' \in [Runtime -> Nat]
    BY <1>0, <1>5 DEF TypeOK
  <2>5. TypeOK'
    BY <1>0, <1>1, <1>2, <1>5, <2>1, <2>2, <2>3, <2>4 DEF TypeOK, Accepted
  <2>6. Child(f).depth < MaxDepth /\ (Strict => Distinct(ch))
    <3>1. Child(f).depth \in Nat /\ MaxDepth \in Nat
      BY ChildType, AdmissionAssumption DEF Context, AdmissionAssumption
    <3>. QED
      BY <1>5, <3>1 DEF TooDeep
  <2>7. ChainInv'
    BY <1>0, <1>2, <1>3, <2>1, <2>2, <2>3, <2>6 DEF ChainInv, Accepted
  <2>8. CapHolds'
    <3>1. CASE Cap # NoLimit
      <4>1. Cap \in Nat
        BY <3>1, AdmissionAssumption DEF AdmissionAssumption
      <4>2. n = 0 \/ spawned[r] + n <= Cap
        BY <1>0, <1>5, <3>1, <4>1 DEF OverCap, TypeOK
      <4>. QED
        BY <1>0, <1>5, <3>1, <4>1, <4>2 DEF CapHolds, TypeOK
    <3>. QED
      BY <3>1 DEF CapHolds
  <2>. QED
    BY <2>5, <2>7, <2>8 DEF SInv
<1>. QED
  BY <1>4, <1>5 DEF Enter

(* A frame found in the contextvar, or snapshot onto the wire, tells the   *)
(* truth about the call that owns it.                                      *)
LEMMA FrameTruthful ==
  ASSUME SInv, NEW p \in Call, frame[p] # NoFrame
  PROVE  /\ frame[p] \in Frame /\ call[p] \in CallRecord
         /\ frame[p].agent = call[p].agent
         /\ frame[p].context = call[p].context
         /\ Truthful(call[p].context, call[p].agent, call[p].chain)
         /\ Strict => Distinct(call[p].chain)
<1>1. /\ frame[p] \in Frame
      /\ frame[p] = [agent |-> call[p].agent, context |-> call[p].context]
      /\ Accepted(p)
  BY DEF SInv, TypeOK, ChainInv
<1>2. call[p] \in CallRecord
  BY <1>1 DEF SInv, TypeOK
<1>. QED
  BY <1>1, <1>2 DEF SInv, ChainInv

LEMMA FromOutside ==
  ASSUME SInv, NEW c \in Call, NEW r \in Runtime, NEW a \in Agent,
         NEW n \in 0..MaxSize, NEW g \in BOOLEAN, CallFromOutside(c, r, a, n, g)
  PROVE  SInv'
<1>1. Distinct(<<a>>)
  BY DEF Distinct
<1>. QED
  BY <1>1, TopTruthful, EnterStep DEF CallFromOutside

LEMMA FromTool ==
  ASSUME SInv, NEW c \in Call, NEW r \in Runtime, NEW a \in Agent,
         NEW n \in 0..MaxSize, NEW g \in BOOLEAN, NEW p \in Call,
         CallFromTool(c, r, a, n, g, p)
  PROVE  SInv'
<1>. DEFINE ch == call[p].chain
            f == frame[p]
<1>1. f # NoFrame
  BY DEF CallFromTool, SInv, TypeOK
<1>2. /\ f \in Frame /\ ch \in Seq(Agent) /\ Truthful(f.context, f.agent, ch)
      /\ Strict => Distinct(ch)
  BY <1>1, FrameTruthful DEF CallRecord
<1>3. /\ Append(ch, a) \in Seq(Agent)
      /\ Truthful(Child(f), a, Append(ch, a))
  BY <1>2, ToolTruthful
<1>4. ASSUME Strict, ~Cycle(f, a) PROVE Distinct(Append(ch, a))
  <2>1. a \notin Front(ch) /\ a # ch[Len(ch)]
    BY <1>1, <1>2, <1>4 DEF Cycle, Chain, Truthful
  <2>2. \A i \in 1..Len(ch) : ch[i] # a
    BY <1>2, <2>1 DEF Front
  <2>3. /\ Len(Append(ch, a)) = Len(ch) + 1 /\ Len(ch) \in Nat
        /\ \A i \in 1..Len(ch) : Append(ch, a)[i] = ch[i]
        /\ Append(ch, a)[Len(ch) + 1] = a
    BY <1>2
  <2>4. \A i \in 1..(Len(ch) + 1) : i \in 1..Len(ch) \/ i = Len(ch) + 1
    BY <2>3
  <2>. QED
    BY <1>2, <1>4, <2>2, <2>3, <2>4 DEF Distinct
<1>. QED
  BY <1>2, <1>3, <1>4, EnterStep DEF CallFromTool

LEMMA OnWorker ==
  ASSUME SInv, NEW c \in Call, NEW r \in Runtime, NEW p \in Call,
         RunOnWorker(c, r, p)
  PROVE  SInv'
<1>1. /\ frame[p].context = call[p].context /\ call[p] \in CallRecord
      /\ Truthful(call[p].context, call[p].agent, call[p].chain)
      /\ Strict => Distinct(call[p].chain)
  BY FrameTruthful DEF RunOnWorker
<1>2. /\ call[p].context \in Context /\ call[p].agent \in Agent
      /\ call[p].chain \in Seq(Agent)
  BY <1>1 DEF CallRecord
<1>3. /\ Rehydrate(frame[p].context) \in Frame \cup {NoFrame}
      /\ Truthful(Child(Rehydrate(frame[p].context)), call[p].agent,
                  call[p].chain)
  BY <1>1, <1>2, RehydrateType, HopTruthful
<1>4. CASE 1 \in 0..MaxSize
  BY <1>1, <1>2, <1>3, <1>4, EnterStep DEF RunOnWorker
<1>. QED
  BY <1>4, AdmissionAssumption DEF AdmissionAssumption

(* A step after admission that moves one accepted call between accepted    *)
(* states, and at most replaces its frame by the one it should have.       *)
LEMMA MoveStep ==
  ASSUME SInv, NEW c \in Call, Accepted(c),
         NEW to \in {"admitted", "executing", "returned", "aborted"},
         status' = [status EXCEPT ![c] = to],
         UNCHANGED <<call, spawned>>,
         \/ frame' = frame /\ (to = "executing" => frame[c] # NoFrame)
         \/ frame' = [frame EXCEPT ![c] = [agent |-> call[c].agent,
                                           context |-> call[c].context]],
         failures' \in [Call -> Nat], spent' \in [Call -> Nat],
         remaining' \in [Runtime -> Int], window' \in [Runtime -> SUBSET Call],
         resets' \in Nat
  PROVE  SInv'
<1>0. TypeOK /\ ChainInv /\ CapHolds
  BY DEF SInv
<1>. DEFINE fr == [agent |-> call[c].agent, context |-> call[c].context]
<1>1. \A d \in Call : Accepted(d)' <=> Accepted(d)
  BY <1>0 DEF Accepted, TypeOK
<1>2. fr \in Frame
  BY <1>0 DEF TypeOK, CallRecord, Frame
<1>3. frame' \in [Call -> Frame \cup {NoFrame}]
  BY <1>0, <1>2 DEF TypeOK
<1>4. \A d \in Call : status'[d] = "executing" => frame'[d] # NoFrame
  BY <1>0, <1>2, NoFrameAssumption DEF TypeOK, NoFrameAssumption
<1>5. TypeOK'
  <2>1. status' \in [Call -> {"new", "admitted", "executing", "returned",
                              "aborted", "rejected"}]
    BY <1>0 DEF TypeOK
  <2>2. \A d \in Call : Accepted(d)' => call'[d] \in CallRecord
    BY <1>0, <1>1 DEF TypeOK
  <2>. QED
    BY <1>0, <1>3, <1>4, <2>1, <2>2 DEF TypeOK
<1>6. \A d \in Call : frame'[d] = frame[d] \/ (d = c /\ frame'[d] = fr)
  BY <1>0 DEF TypeOK
<1>7. ChainInv'
  BY <1>0, <1>1, <1>6 DEF ChainInv
<1>. QED
  BY <1>0, <1>5, <1>7 DEF SInv, CapHolds

LEMMA DispatchStep ==
  ASSUME SInv, NEW c \in Call, Dispatch(c)
  PROVE  SInv'
<1>1. Accepted(c) /\ call[c].context \in Context
  BY DEF Dispatch, Accepted, SInv, TypeOK, CallRecord
<1>2. Top \in Context
  BY DEF Top, Context
<1>3. frame' = [frame EXCEPT ![c] = [agent |-> call[c].agent,
                                     context |-> call[c].context]]
  <2>1. PICK prepared \in {call[c].context, Top} :
          frame' = [frame EXCEPT ![c] =
                      [agent |-> call[c].agent,
                       context |-> Overlay(prepared, call[c].context)]]
    BY DEF Dispatch
  <2>2. Overlay(prepared, call[c].context) = call[c].context
    BY <1>1, <1>2, OverlayType
  <2>. QED
    BY <2>1, <2>2
<1>. QED
  BY <1>1, <1>3, MoveStep DEF Dispatch, SInv, TypeOK

LEMMA RetryStep ==
  ASSUME SInv, NEW c \in Call, Retry(c)
  PROVE  SInv'
<1>1. Accepted(c) /\ failures' \in [Call -> Nat]
  BY DEF Retry, Live, Accepted, SInv, TypeOK
<1>. QED
  BY <1>1, MoveStep DEF Retry, SInv, TypeOK

LEMMA AbortStep ==
  ASSUME SInv, NEW c \in Call, Abort(c)
  PROVE  SInv'
<1>1. Accepted(c)
  BY DEF Abort, Live, Accepted, SInv, TypeOK
<1>. QED
  BY <1>1, MoveStep DEF Abort, SInv, TypeOK

LEMMA ReturnStep ==
  ASSUME SInv, NEW c \in Call, NEW tokens \in 0..MaxTokens, Return(c, tokens)
  PROVE  SInv'
<1>1. Accepted(c) /\ tokens \in Nat
  BY AdmissionAssumption DEF Return, Accepted, AdmissionAssumption
<1>2. /\ spent' \in [Call -> Nat] /\ remaining' \in [Runtime -> Int]
      /\ window' \in [Runtime -> SUBSET Call]
  BY <1>1 DEF Return, SInv, TypeOK
<1>. QED
  BY <1>1, <1>2, MoveStep DEF Return, SInv, TypeOK

LEMMA ResetStep ==
  ASSUME SInv, NEW r \in Runtime, Reset(r)
  PROVE  SInv'
<1>1. Limit \in Int
  BY AdmissionAssumption DEF Limit, AdmissionAssumption
<1>2. TypeOK'
  BY <1>1 DEF Reset, SInv, TypeOK, Accepted
<1>. QED
  BY <1>2 DEF Reset, SInv, ChainInv, CapHolds, Accepted

LEMMA SpawnStep ==
  ASSUME SInv, [Next]_vars
  PROVE  SInv'
<1>1. CASE UNCHANGED vars
  BY <1>1 DEF vars, SInv, TypeOK, ChainInv, CapHolds, Accepted
<1>2. CASE \E c \in Call, r \in Runtime, a \in Agent, n \in 0..MaxSize,
             g \in BOOLEAN : CallFromOutside(c, r, a, n, g)
  BY <1>2, FromOutside
<1>3. CASE \E c \in Call, r \in Runtime, a \in Agent, n \in 0..MaxSize,
             g \in BOOLEAN, p \in Call : CallFromTool(c, r, a, n, g, p)
  BY <1>3, FromTool
<1>4. CASE \E c, p \in Call, r \in Runtime : RunOnWorker(c, r, p)
  BY <1>4, OnWorker
<1>5. CASE \E c \in Call : \/ Dispatch(c) \/ Retry(c) \/ Abort(c)
                           \/ \E tokens \in 0..MaxTokens : Return(c, tokens)
  BY <1>5, DispatchStep, RetryStep, AbortStep, ReturnStep
<1>6. CASE \E r \in Runtime : Reset(r)
  BY <1>6, ResetStep
<1>. QED
  BY <1>1, <1>2, <1>3, <1>4, <1>5, <1>6 DEF Next

LEMMA SpawnInv == Spec => []SInv
BY SpawnInit, SpawnStep, PTL DEF Spec

-----------------------------------------------------------------------------
(* Every reachable state is well typed: an accepted call has a record and  *)
(* an executing one a frame, so no tool can miss its caller's context.     *)
THEOREM SpawnTypeCorrect == Spec => []TypeOK
<1>1. SInv => TypeOK
  BY DEF SInv
<1>. QED
  BY <1>1, SpawnInv, PTL

(* runtime.py _claim_spawn_batch: max_total_spawns is a hard limit.        *)
THEOREM CapCorrect == Spec => []CapHolds
<1>1. SInv => CapHolds
  BY DEF SInv
<1>. QED
  BY <1>1, SpawnInv, PTL

(* The frame an executing agent's tools find in the contextvar is the      *)
(* truth about the runs that led to it, across tools, broker hops, retries *)
(* and context passers.                                                    *)
THEOREM ChainCorrect == Spec => []ChainFaithful
<1>1. SInv => ChainFaithful
  <2>. SUFFICES ASSUME SInv, NEW c \in Call, status[c] = "executing"
                PROVE  LET ch == call[c].chain
                       IN  /\ frame[c].agent = ch[Len(ch)]
                           /\ frame[c].context.depth = Len(ch) - 1
                           /\ frame[c].context.ancestors = Front(ch)
    BY DEF ChainFaithful
  <2>1. frame[c] # NoFrame
    BY DEF SInv, TypeOK
  <2>. QED
    BY <2>1, FrameTruthful DEF Truthful
<1>. QED
  BY <1>1, SpawnInv, PTL

(* depth_limit.py and the cycle check: no cascade of accepted calls grows  *)
(* past max_spawn_depth, or names an agent twice under the strict policy.  *)
THEOREM CascadeCorrect == Spec => []CascadeBounded
<1>1. SInv => CascadeBounded
  <2>. SUFFICES ASSUME SInv, NEW c \in Call, Accepted(c)
                PROVE  LET ch == call[c].chain
                       IN  Len(ch) <= MaxDepth /\ (Strict => Distinct(ch))
    BY DEF CascadeBounded
  <2>1. /\ Truthful(call[c].context, call[c].agent, call[c].chain)
        /\ call[c].context.depth < MaxDepth
        /\ Strict => Distinct(call[c].chain)
    BY DEF SInv, ChainInv
  <2>2. Len(call[c].chain) \in Nat /\ MaxDepth \in Nat
    BY AdmissionAssumption DEF SInv, TypeOK, CallRecord, AdmissionAssumption
  <2>3. call[c].context.depth = Len(call[c].chain) - 1
    BY <2>1 DEF Truthful
  <2>. QED
    BY <2>1, <2>2, <2>3
<1>. QED
  BY <1>1, SpawnInv, PTL

-----------------------------------------------------------------------------
(* Sums over finite sets, by minimal counterexample.                       *)

(* Every non-empty family of finite sets has a minimal member: what stands *)
(* in for the library's induction, which takes an operator.                *)
LEMMA Minimal ==
  ASSUME NEW U, NEW Q \in SUBSET FiniteSubsetsOf(U), Q # {}
  PROVE  \E m \in Q : \A s \in Q : s \subseteq m => s = m
<1>1. PICK m \in Q : \A s \in Q : <<s, m>> \notin StrictSubsetOrdering(U)
  BY FS_StrictSubsetOrderingWellFounded, WFMin
<1>. QED
  BY <1>1 DEF StrictSubsetOrdering, FiniteSubsetsOf

(* A sum is defined by recursion: g gives the sums of f over the subsets   *)
(* of D.                                                                   *)
SumStep(f, g, s) ==
  IF s = {} THEN 0 ELSE LET x == CHOOSE x \in s : TRUE IN f[x] + g[s \ {x}]

Sums(f, g, D) == g = [s \in SUBSET D |-> SumStep(f, g, s)]

TheSums(f, D) == CHOOSE g : Sums(f, g, D)

LEMMA SumIs ==
  ASSUME NEW f, NEW S
  PROVE  SumOver(f, S) = TheSums(f, S)[S]
BY DEF SumOver, MapThenSumSet, MapThenFoldSet, TheSums, Sums, SumStep

(* Where two such functions are defined, they agree.                       *)
LEMMA SumsAgree ==
  ASSUME NEW f, NEW D, NEW E, NEW g, NEW h, Sums(f, g, D), Sums(f, h, E),
         NEW S \in SUBSET (D \cap E), IsFiniteSet(S)
  PROVE  g[S] = h[S]
<1>. DEFINE Bad == {s \in SUBSET S : g[s] # h[s]}
<1>1. Bad \in SUBSET FiniteSubsetsOf(S)
  BY FS_Subset DEF FiniteSubsetsOf
<1>2. SUFFICES ASSUME Bad # {} PROVE FALSE
  OBVIOUS
<1>3. PICK m \in Bad : \A s \in Bad : s \subseteq m => s = m
  <2>. HIDE DEF Bad
  <2>. QED
    BY <1>1, <1>2, Minimal
<1>4. m \in SUBSET D /\ m \in SUBSET E /\ m \in SUBSET S /\ g[m] # h[m]
  OBVIOUS
<1>5. g[m] = SumStep(f, g, m) /\ h[m] = SumStep(f, h, m)
  BY <1>4 DEF Sums
<1>6. CASE m = {}
  BY <1>4, <1>5, <1>6 DEF SumStep
<1>7. CASE m # {}
  <2>. DEFINE x == CHOOSE x \in m : TRUE
  <2>1. x \in m
    BY <1>7
  <2>. HIDE DEF x
  <2>2. g[m \ {x}] = h[m \ {x}]
    BY <1>3, <1>4, <2>1
  <2>. QED
    BY <1>4, <1>5, <1>7, <2>2 DEF SumStep, x
<1>. QED
  BY <1>6, <1>7

(* They exist over every finite set.                                       *)
LEMMA SumsExist ==
  ASSUME NEW f, NEW D, IsFiniteSet(D)
  PROVE  Sums(f, TheSums(f, D), D)
<1>. DEFINE Bad == {s \in SUBSET D : ~ \E g : Sums(f, g, s)}
<1>1. Bad \in SUBSET FiniteSubsetsOf(D)
  BY FS_Subset DEF FiniteSubsetsOf
<1>2. Bad = {}
  <2>. SUFFICES ASSUME Bad # {} PROVE FALSE
    OBVIOUS
  <2>1. PICK m \in Bad : \A s \in Bad : s \subseteq m => s = m
    <3>. HIDE DEF Bad
    <3>. QED
      BY <1>1, Minimal
  <2>2. m \in SUBSET D /\ ~ \E g : Sums(f, g, m)
    OBVIOUS
  <2>3. ASSUME NEW s \in SUBSET m, s # m PROVE Sums(f, TheSums(f, s), s) /\ IsFiniteSet(s)
    <3>1. \E g : Sums(f, g, s)
      BY <2>1, <2>3
    <3>. QED
      BY <2>2, <3>1, FS_Subset DEF TheSums
  <2>. DEFINE low == [s \in SUBSET m |-> TheSums(f, s)[s]]
              h == [s \in SUBSET m |-> IF s = m THEN SumStep(f, low, m) ELSE TheSums(f, s)[s]]
  <2>4. ASSUME NEW s \in SUBSET m PROVE h[s] = SumStep(f, h, s)
    <3>1. CASE s = {}
      <4>1. s # m => TheSums(f, s)[s] = SumStep(f, TheSums(f, s), s)
        BY <2>3 DEF Sums
      <4>. QED
        BY <3>1, <4>1 DEF SumStep
    <3>2. CASE s # {}
      <4>. DEFINE x == CHOOSE x \in s : TRUE
                  t == s \ {x}
      <4>1. x \in s /\ t \in SUBSET m /\ t # m /\ t \in SUBSET s
        BY <3>2
      <4>. HIDE DEF x
      <4>2. h[t] = TheSums(f, t)[t] /\ low[t] = TheSums(f, t)[t]
        BY <4>1
      <4>3. CASE s = m
        BY <3>2, <4>2, <4>3 DEF SumStep, x
      <4>4. CASE s # m
        <5>1. h[s] = TheSums(f, s)[s] /\ Sums(f, TheSums(f, s), s)
          BY <2>3, <4>4
        <5>2. h[s] = SumStep(f, TheSums(f, s), s)
          BY <5>1 DEF Sums
        <5>3. TheSums(f, s)[t] = TheSums(f, t)[t]
          <6>1. Sums(f, TheSums(f, t), t) /\ IsFiniteSet(t) /\ t \in SUBSET (s \cap t)
            BY <2>3, <4>1
          <6>. QED
            BY <5>1, <6>1, SumsAgree
        <5>. QED
          BY <3>2, <4>2, <5>2, <5>3 DEF SumStep, x
      <4>. QED
        BY <4>3, <4>4
    <3>. QED
      BY <3>1, <3>2
  <2>5. Sums(f, h, m)
    <3>1. h = [s \in SUBSET m |-> h[s]]
      OBVIOUS
    <3>. HIDE DEF h
    <3>. QED
      BY <2>4, <3>1 DEF Sums
  <2>. QED
    BY <2>2, <2>5
<1>3. \E g : Sums(f, g, D)
  BY <1>2
<1>. QED
  BY <1>3 DEF TheSums

LEMMA SumUnfolds ==
  ASSUME NEW f, NEW S, IsFiniteSet(S)
  PROVE  /\ SumOver(f, {}) = 0
         /\ S # {} => \E x \in S : /\ x = CHOOSE y \in S : TRUE
                                   /\ SumOver(f, S) = f[x] + SumOver(f, S \ {x})
<1>1. ASSUME NEW D, IsFiniteSet(D) PROVE SumOver(f, D) = SumStep(f, TheSums(f, D), D)
  <2>. DEFINE g == TheSums(f, D)
  <2>1. Sums(f, g, D)
    BY <1>1, SumsExist
  <2>2. g[D] = SumStep(f, g, D)
    <3>. HIDE DEF g
    <3>. QED
      BY <2>1 DEF Sums
  <2>. QED
    BY <2>2, SumIs
<1>2. SumOver(f, {}) = 0
  BY <1>1, FS_EmptySet DEF SumStep
<1>3. ASSUME S # {}
      PROVE  \E x \in S : /\ x = CHOOSE y \in S : TRUE
                          /\ SumOver(f, S) = f[x] + SumOver(f, S \ {x})
  <2>. DEFINE x == CHOOSE y \in S : TRUE
              T == S \ {x}
  <2>1. x \in S /\ IsFiniteSet(T) /\ T \in SUBSET (S \cap T)
    BY <1>3, FS_Subset
  <2>2. TheSums(f, S)[T] = TheSums(f, T)[T]
    BY <2>1, SumsExist, SumsAgree
  <2>3. SumOver(f, S) = f[x] + TheSums(f, S)[T]
    BY <1>1, <1>3 DEF SumStep
  <2>4. SumOver(f, T) = TheSums(f, T)[T]
    BY SumIs
  <2>. QED
    BY <2>1, <2>2, <2>3, <2>4
<1>. QED
  BY <1>2, <1>3

(* A sum of integers takes its terms in any order.                         *)
Splits(f, s) ==
  /\ SumOver(f, s) \in Int
  /\ \A x \in s : SumOver(f, s) = f[x] + SumOver(f, s \ {x})

LEMMA SumSplits ==
  ASSUME NEW f, NEW S, IsFiniteSet(S), \A x \in S : f[x] \in Int
  PROVE  Splits(f, S)
<1>. DEFINE Bad == {s \in SUBSET S : ~Splits(f, s)}
<1>1. Bad \in SUBSET FiniteSubsetsOf(S)
  BY FS_Subset DEF FiniteSubsetsOf
<1>2. SUFFICES ASSUME Bad # {} PROVE FALSE
  OBVIOUS
<1>3. PICK m \in Bad : \A s \in Bad : s \subseteq m => s = m
  <2>. HIDE DEF Bad
  <2>. QED
    BY <1>1, <1>2, Minimal
<1>4. m \in SUBSET S /\ ~Splits(f, m) /\ IsFiniteSet(m)
  BY FS_Subset
<1>5. m # {}
  <2>1. SumOver(f, {}) = 0
    BY SumUnfolds, FS_EmptySet
  <2>2. Splits(f, {})
    BY <2>1 DEF Splits
  <2>. QED
    BY <1>4, <2>2
<1>6. PICK y \in m : SumOver(f, m) = f[y] + SumOver(f, m \ {y})
  BY <1>4, <1>5, SumUnfolds
<1>7. ASSUME NEW x \in m PROVE Splits(f, m \ {x})
  BY <1>3, <1>4
<1>8. SumOver(f, m) \in Int
  BY <1>4, <1>6, <1>7 DEF Splits
<1>9. ASSUME NEW x \in m PROVE SumOver(f, m) = f[x] + SumOver(f, m \ {x})
  <2>1. CASE x = y
    BY <1>6, <2>1
  <2>2. CASE x # y
    <3>. DEFINE T == (m \ {x}) \ {y}
    <3>1. T = (m \ {y}) \ {x} /\ x \in m \ {y} /\ y \in m \ {x}
      BY <2>2
    <3>2. /\ SumOver(f, m \ {y}) = f[x] + SumOver(f, T)
          /\ SumOver(f, m \ {y}) \in Int
      BY <1>7, <3>1 DEF Splits
    <3>3. /\ SumOver(f, m \ {x}) = f[y] + SumOver(f, T)
          /\ SumOver(f, m \ {x}) \in Int
      BY <1>7, <3>1 DEF Splits
    <3>4. f[x] \in Int /\ f[y] \in Int
      BY <1>4
    <3>5. SumOver(f, T) \in Int
      <4>1. Splits(f, T)
        BY <1>3, <1>4, <2>2
      <4>. QED
        BY <4>1 DEF Splits
    <3>. HIDE DEF T
    <3>. QED
      BY <1>6, <3>2, <3>3, <3>4, <3>5
  <2>. QED
    BY <2>1, <2>2
<1>. QED
  BY <1>4, <1>8, <1>9 DEF Splits

(* It depends only on the terms it adds.                                   *)
LEMMA SumSame ==
  ASSUME NEW f, NEW h, NEW S, IsFiniteSet(S), \A x \in S : f[x] = h[x]
  PROVE  SumOver(f, S) = SumOver(h, S)
<1>. DEFINE Bad == {s \in SUBSET S : SumOver(f, s) # SumOver(h, s)}
<1>1. Bad \in SUBSET FiniteSubsetsOf(S)
  BY FS_Subset DEF FiniteSubsetsOf
<1>2. SUFFICES ASSUME Bad # {} PROVE FALSE
  OBVIOUS
<1>3. PICK m \in Bad : \A s \in Bad : s \subseteq m => s = m
  <2>. HIDE DEF Bad
  <2>. QED
    BY <1>1, <1>2, Minimal
<1>4. m \in SUBSET S /\ SumOver(f, m) # SumOver(h, m) /\ IsFiniteSet(m)
  BY FS_Subset
<1>5. m # {}
  BY <1>4, SumUnfolds, FS_EmptySet
<1>. DEFINE y == CHOOSE y \in m : TRUE
<1>6. /\ y \in m
      /\ SumOver(f, m) = f[y] + SumOver(f, m \ {y})
      /\ SumOver(h, m) = h[y] + SumOver(h, m \ {y})
  <2>1. y \in m
    BY <1>5
  <2>2. IsFiniteSet(m)
    BY <1>4
  <2>3. \E x \in m : x = y /\ SumOver(f, m) = f[x] + SumOver(f, m \ {x})
    BY <1>5, <2>2, SumUnfolds
  <2>4. \E x \in m : x = y /\ SumOver(h, m) = h[x] + SumOver(h, m \ {x})
    BY <1>5, <2>2, SumUnfolds
  <2>. HIDE DEF y
  <2>. QED
    BY <2>1, <2>3, <2>4
<1>. HIDE DEF y
<1>7. SumOver(f, m \ {y}) = SumOver(h, m \ {y})
  BY <1>3, <1>4, <1>6
<1>. QED
  BY <1>4, <1>6, <1>7

-----------------------------------------------------------------------------
(* The counters.  A call that is charged has returned, which it does once; *)
(* only finitely many calls have been made.                                *)
ChargedInv ==
  \A r \in Runtime :
    /\ IsFiniteSet(AcceptedCalls(r)) /\ IsFiniteSet(window[r])
    /\ \A c \in window[r] : status[c] = "returned"

CountInv == SInv /\ ChargedInv /\ CountersExact

(* What a step may do to the slots: c takes n on r, or nothing.            *)
TakesSlots(c, r, n) ==
  /\ ~Accepted(c) /\ Accepted(c)' /\ call'[c].runtime = r /\ call'[c].size = n
  /\ \A d \in Call \ {c} : (Accepted(d)' <=> Accepted(d)) /\ call'[d] = call[d]
  /\ spawned' = [spawned EXCEPT ![r] = @ + n]

LeavesSlots ==
  /\ \A d \in Call : (Accepted(d)' <=> Accepted(d)) /\ call'[d] = call[d]
  /\ spawned' = spawned

(* What it may do to the ledger.                                           *)
LeavesLedger ==
  /\ \A d \in Call : status[d] = "returned" => status'[d] = "returned"
  /\ UNCHANGED <<spent, remaining, window>>

(* A call enters with the slots it asks for, or leaves everything alone.   *)
LEMMA EnterSlots ==
  ASSUME TypeOK, NEW c \in Call, NEW r \in Runtime, NEW a, NEW n, NEW g, NEW f,
         NEW s, NEW ch, Enter(c, r, a, n, g, f, s, ch)
  PROVE  (TakesSlots(c, r, n) \/ LeavesSlots) /\ LeavesLedger
<1>1. LeavesLedger
  BY DEF Enter, TypeOK, LeavesLedger
<1>. DEFINE rec == [runtime |-> r, agent |-> a, size |-> n, gathers |-> g,
                    context |-> Child(f), spawner |-> s, chain |-> ch]
<1>2. CASE UNCHANGED <<call, spawned>> /\ status' = [status EXCEPT ![c] = "rejected"]
  <2>1. status[c] = "new"
    BY DEF Enter
  <2>2. \A d \in Call : Accepted(d)' <=> Accepted(d)
    BY <1>2, <2>1 DEF TypeOK, Accepted
  <2>. QED
    BY <1>1, <1>2, <2>2 DEF LeavesSlots
<1>3. CASE /\ status' = [status EXCEPT ![c] = "admitted"]
           /\ call' = [call EXCEPT ![c] = rec]
           /\ spawned' = [spawned EXCEPT ![r] = @ + n]
  <2>1. /\ status[c] = "new" /\ status'[c] = "admitted"
        /\ \A d \in Call \ {c} : status'[d] = status[d] /\ call'[d] = call[d]
        /\ call'[c] = rec
    BY <1>3 DEF Enter, TypeOK
  <2>2. rec.runtime = r /\ rec.size = n
    OBVIOUS
  <2>. HIDE DEF rec
  <2>3. TakesSlots(c, r, n)
    BY <1>3, <2>1, <2>2 DEF TakesSlots, Accepted
  <2>. QED
    BY <1>1, <2>3
<1>. QED
  BY <1>1, <1>2, <1>3 DEF Enter

(* Everything that happens to the counters.                                *)
LEMMA CounterCases ==
  ASSUME TypeOK, [Next]_vars
  PROVE  \/ /\ \/ LeavesSlots
               \/ \E c \in Call, r \in Runtime, n \in 0..MaxSize : TakesSlots(c, r, n)
            /\ LeavesLedger
         \/ /\ LeavesSlots
            /\ \/ \E c \in Call, tokens \in 0..MaxTokens : Return(c, tokens)
               \/ \E r \in Runtime : Reset(r)
<1>1. CASE UNCHANGED vars
  BY <1>1 DEF vars, LeavesSlots, LeavesLedger, Accepted
<1>2. ASSUME NEW c \in Call, NEW r \in Runtime, NEW a \in Agent,
             NEW n \in 0..MaxSize, NEW g \in BOOLEAN,
             \/ CallFromOutside(c, r, a, n, g)
             \/ \E p \in Call : CallFromTool(c, r, a, n, g, p)
      PROVE  (TakesSlots(c, r, n) \/ LeavesSlots) /\ LeavesLedger
  BY <1>2, EnterSlots DEF CallFromOutside, CallFromTool
<1>3. ASSUME NEW c \in Call, NEW r \in Runtime, NEW p \in Call, RunOnWorker(c, r, p)
      PROVE  (TakesSlots(c, r, 1) \/ LeavesSlots) /\ LeavesLedger
  BY <1>3, EnterSlots DEF RunOnWorker
<1>4. 1 \in 0..MaxSize
  BY AdmissionAssumption DEF AdmissionAssumption
<1>5. ASSUME NEW c \in Call, Dispatch(c) \/ Retry(c) \/ Abort(c)
      PROVE  LeavesSlots /\ LeavesLedger
  BY <1>5 DEF Dispatch, Retry, Abort, Live, TypeOK, LeavesSlots, LeavesLedger,
              Accepted
<1>6. ASSUME NEW c \in Call, NEW tokens \in 0..MaxTokens, Return(c, tokens)
      PROVE  LeavesSlots
  BY <1>6 DEF Return, TypeOK, LeavesSlots, Accepted
<1>7. ASSUME NEW r \in Runtime, Reset(r) PROVE LeavesSlots
  BY <1>7 DEF Reset, LeavesSlots, Accepted
<1>. QED
  BY <1>1, <1>2, <1>3, <1>4, <1>5, <1>6, <1>7 DEF Next

(* The size of an accepted call is what the sum adds for it.               *)
LEMMA SizesAre ==
  ASSUME TypeOK
  PROVE  /\ \A c \in Call : Accepted(c) => Sizes[c] = call[c].size
         /\ \A c \in Call : Accepted(c) => Sizes[c] \in Int
<1>1. \A c \in Call : Accepted(c) => call[c].size \in 0..MaxSize
  BY DEF TypeOK, CallRecord
<1>2. MaxSize \in Nat
  BY AdmissionAssumption DEF AdmissionAssumption
<1>. QED
  BY <1>1, <1>2 DEF Sizes

(* A step that takes no slots leaves every sum of slots alone.             *)
LEMMA LeavesStep ==
  ASSUME CountInv, TypeOK', LeavesSlots, NEW r \in Runtime
  PROVE  /\ AcceptedCalls(r)' = AcceptedCalls(r)
         /\ IsFiniteSet(AcceptedCalls(r)')
         /\ spawned'[r] = SumOver(Sizes', AcceptedCalls(r)')
<1>. DEFINE A == AcceptedCalls(r)
            f == Sizes'
<1>1. AcceptedCalls(r)' = A
  BY DEF LeavesSlots, AcceptedCalls
<1>2. IsFiniteSet(A) /\ spawned[r] = SumOver(Sizes, A) /\ TypeOK
  BY DEF CountInv, SInv, ChargedInv, CountersExact, SlotsAreHonest
<1>3. \A c \in A : f[c] = Sizes[c]
  BY DEF AcceptedCalls, Sizes, LeavesSlots
<1>4. SumOver(f, A) = SumOver(Sizes, A)
  <2>. HIDE DEF f, A
  <2>. QED
    BY <1>2, <1>3, SumSame
<1>5. spawned' = spawned
  BY DEF LeavesSlots
<1>. QED
  BY <1>1, <1>2, <1>4, <1>5

(* A call that takes slots adds one term to the sum of its runtime.        *)
LEMMA TakesStep ==
  ASSUME CountInv, TypeOK', NEW c \in Call, NEW k \in Runtime,
         NEW n \in 0..MaxSize, TakesSlots(c, k, n), NEW r \in Runtime
  PROVE  /\ IsFiniteSet(AcceptedCalls(r)')
         /\ spawned'[r] = SumOver(Sizes', AcceptedCalls(r)')
<1>. DEFINE A == AcceptedCalls(r)
            B == AcceptedCalls(r)'
            f == Sizes'
<1>1. /\ IsFiniteSet(A) /\ spawned[r] = SumOver(Sizes, A) /\ TypeOK
      /\ spawned \in [Runtime -> Nat]
  BY DEF CountInv, SInv, ChargedInv, CountersExact, SlotsAreHonest, TypeOK
<1>2. /\ \A d \in A : d \in Call /\ d # c /\ f[d] = Sizes[d]
      /\ c \notin A /\ f[c] = n
  BY DEF AcceptedCalls, Sizes, TakesSlots
<1>3. SumOver(f, A) = SumOver(Sizes, A)
  <2>. HIDE DEF f, A
  <2>. QED
    BY <1>1, <1>2, SumSame
<1>4. B = IF r = k THEN A \cup {c} ELSE A
  BY DEF AcceptedCalls, TakesSlots
<1>5. IsFiniteSet(B)
  BY <1>1, <1>4, FS_AddElement
<1>6. \A d \in B : f[d] \in Int
  <2>1. \A d \in Call : Accepted(d)' => Sizes'[d] \in Int
    <3>1. \A d \in Call : Accepted(d)' => call'[d].size \in 0..MaxSize
      BY DEF TypeOK, CallRecord
    <3>2. MaxSize \in Nat
      BY AdmissionAssumption DEF AdmissionAssumption
    <3>. QED
      BY <3>1, <3>2 DEF Sizes
  <2>. QED
    BY <2>1 DEF AcceptedCalls
<1>7. CASE r = k
  <2>1. c \in B /\ B \ {c} = A
    BY <1>2, <1>4, <1>7
  <2>2. Splits(f, B)
    <3>. HIDE DEF f, B
    <3>. QED
      BY <1>5, <1>6, SumSplits
  <2>3. spawned'[r] = spawned[r] + n
    BY <1>1, <1>7 DEF TakesSlots
  <2>4. SumOver(f, B) = n + SumOver(f, A)
    <3>. HIDE DEF f, A, B
    <3>. QED
      BY <1>2, <2>1, <2>2 DEF Splits
  <2>5. spawned[r] \in Int /\ n \in Int
    BY <1>1
  <2>6. spawned'[r] = SumOver(f, B)
    <3>. HIDE DEF f, A, B
    <3>. QED
      BY <1>1, <1>3, <2>3, <2>4, <2>5
  <2>. QED
    BY <1>5, <2>6
<1>8. CASE r # k
  <2>1. spawned'[r] = spawned[r] /\ B = A
    BY <1>1, <1>4, <1>8 DEF TakesSlots
  <2>. QED
    BY <1>1, <1>3, <1>5, <2>1
<1>. QED
  BY <1>7, <1>8

(* What the ledger says of one runtime.                                    *)
Charged(r) ==
  /\ IsFiniteSet(window[r])
  /\ \A c \in window[r] : status[c] = "returned"
  /\ Budget # NoLimit => remaining[r] = Limit - SumOver(spent, window[r])

LEMMA ChargedIs == CountInv => \A r \in Runtime : Charged(r)
BY DEF CountInv, ChargedInv, CountersExact, Ledger, Charged

(* Tokens are charged to the runtime of the call that returns, which was   *)
(* in no window.                                                           *)
LEMMA ReturnCharges ==
  ASSUME CountInv, NEW c \in Call, NEW tokens \in 0..MaxTokens,
         Return(c, tokens), NEW r \in Runtime
  PROVE  Charged(r)'
<1>. DEFINE W == window[r]
            f == spent'
<1>1. /\ Charged(r) /\ TypeOK /\ status[c] = "executing" /\ tokens \in Int
      /\ call[c] \in CallRecord
  <2>1. TypeOK /\ status[c] = "executing"
    BY DEF CountInv, SInv, Return
  <2>2. tokens \in Int
    BY AdmissionAssumption DEF AdmissionAssumption
  <2>. QED
    BY <2>1, <2>2, ChargedIs DEF TypeOK, Accepted
<1>2. /\ W \in SUBSET Call /\ c \notin W /\ remaining[r] \in Int
      /\ \A d \in W : f[d] = spent[d] /\ status'[d] = "returned"
      /\ f[c] = tokens /\ status'[c] = "returned"
      /\ \A d \in Call : f[d] \in Int
  BY <1>1 DEF Return, TypeOK, Charged
<1>3. IsFiniteSet(W)
  BY <1>1 DEF Charged
<1>4. SumOver(f, W) = SumOver(spent, W)
  <2>. HIDE DEF f, W
  <2>. QED
    BY <1>2, <1>3, SumSame
<1>5. CASE Budget # NoLimit /\ r = call[c].runtime
  <2>. DEFINE V == W \cup {c}
  <2>1. window'[r] = V /\ remaining'[r] = remaining[r] - tokens
    BY <1>1, <1>5 DEF Return, TypeOK
  <2>2. IsFiniteSet(V) /\ c \in V /\ V \ {c} = W /\ V \subseteq Call
    BY <1>2, <1>3, FS_AddElement
  <2>3. Splits(f, V)
    <3>. HIDE DEF f, V
    <3>. QED
      BY <1>2, <2>2, SumSplits
  <2>4. Splits(f, W)
    <3>. HIDE DEF f, W
    <3>. QED
      BY <1>2, <1>3, SumSplits
  <2>5. SumOver(f, V) = tokens + SumOver(f, W) /\ SumOver(f, W) \in Int
    <3>. HIDE DEF f, V, W
    <3>. QED
      BY <1>2, <2>2, <2>3, <2>4 DEF Splits
  <2>6. Limit \in Int /\ remaining[r] = Limit - SumOver(spent, W)
    BY <1>1, <1>5, AdmissionAssumption DEF Charged, Limit, AdmissionAssumption
  <2>7. remaining'[r] = Limit - SumOver(f, V)
    <3>. HIDE DEF f, V, W
    <3>. QED
      BY <1>1, <1>2, <1>4, <2>1, <2>5, <2>6
  <2>8. \A d \in V : status'[d] = "returned"
    BY <1>2
  <2>. HIDE DEF f, V
  <2>9. IsFiniteSet(window'[r])
    BY <2>1, <2>2
  <2>10. remaining'[r] = Limit - SumOver(f, window'[r])
    BY <2>1, <2>7
  <2>. QED
    BY <2>1, <2>8, <2>9, <2>10 DEF Charged, f, Limit
<1>6. CASE ~(Budget # NoLimit /\ r = call[c].runtime)
  <2>1. window'[r] = W /\ remaining'[r] = remaining[r]
    BY <1>1, <1>6 DEF Return, TypeOK
  <2>2. Budget # NoLimit => remaining'[r] = Limit - SumOver(f, window'[r])
    BY <1>1, <1>4, <2>1 DEF Charged
  <2>. QED
    BY <1>2, <1>3, <2>1, <2>2 DEF Charged, Limit
<1>. QED
  BY <1>5, <1>6

(* A budget that is reset starts over, with nobody charged.                *)
LEMMA ResetCharges ==
  ASSUME CountInv, NEW k \in Runtime, Reset(k), NEW r \in Runtime
  PROVE  Charged(r)'
<1>1. TypeOK /\ Charged(r)
  BY ChargedIs DEF CountInv, SInv
<1>2. UNCHANGED <<status, spent>>
  BY DEF Reset
<1>3. CASE r = k
  <2>1. window'[r] = {} /\ remaining'[r] = Limit
    BY <1>1, <1>3 DEF Reset, TypeOK
  <2>. DEFINE f == spent'
  <2>2. SumOver(f, {}) = 0
    <3>. HIDE DEF f
    <3>. QED
      BY SumUnfolds, FS_EmptySet
  <2>3. Limit \in Int
    BY AdmissionAssumption DEF Limit, AdmissionAssumption
  <2>4. remaining'[r] = Limit - SumOver(f, window'[r])
    <3>. HIDE DEF f
    <3>. QED
      BY <2>1, <2>2, <2>3
  <2>. QED
    BY <2>1, <2>4, FS_EmptySet DEF Charged, Limit
<1>4. CASE r # k
  <2>1. window'[r] = window[r] /\ remaining'[r] = remaining[r]
    BY <1>1, <1>4 DEF Reset, TypeOK
  <2>. QED
    BY <1>1, <1>2, <2>1 DEF Charged, Limit
<1>. QED
  BY <1>3, <1>4

LEMMA CountInit == Init => CountInv
<1>. SUFFICES ASSUME Init PROVE CountInv
  OBVIOUS
<1>1. SInv
  BY SpawnInit
<1>2. \A r \in Runtime : /\ AcceptedCalls(r) = {} /\ window[r] = {}
                         /\ spawned[r] = 0 /\ remaining[r] = Limit
  BY DEF Init, AcceptedCalls, Accepted
<1>3. \A f : SumOver(f, {}) = 0
  BY SumUnfolds, FS_EmptySet
<1>4. Limit \in Int
  BY AdmissionAssumption DEF Limit, AdmissionAssumption
<1>5. SlotsAreHonest
  BY <1>2, <1>3 DEF SlotsAreHonest
<1>6. Ledger
  <2>1. ASSUME NEW r \in Runtime PROVE remaining[r] = Limit - SumOver(spent, window[r])
    <3>1. SumOver(spent, window[r]) = 0
      BY <1>2, <1>3
    <3>. QED
      BY <1>2, <1>4, <3>1
  <2>. QED
    BY <2>1 DEF Ledger
<1>. QED
  BY <1>1, <1>2, <1>5, <1>6, FS_EmptySet DEF CountInv, ChargedInv, CountersExact

LEMMA CountStep == CountInv /\ [Next]_vars => CountInv'
<1>. SUFFICES ASSUME CountInv, [Next]_vars PROVE CountInv'
  OBVIOUS
<1>1. SInv /\ TypeOK /\ SInv' /\ TypeOK'
  BY SpawnStep DEF CountInv, SInv
<1>2. ASSUME NEW r \in Runtime
      PROVE  /\ IsFiniteSet(AcceptedCalls(r)')
             /\ spawned'[r] = SumOver(Sizes', AcceptedCalls(r)')
  BY <1>1, CounterCases, LeavesStep, TakesStep
<1>3. ASSUME NEW r \in Runtime, LeavesLedger PROVE Charged(r)'
  <2>1. Charged(r) /\ window[r] \in SUBSET Call
    BY <1>1, ChargedIs DEF TypeOK
  <2>. QED
    BY <1>3, <2>1 DEF LeavesLedger, Charged, Limit
<1>4. ASSUME NEW r \in Runtime PROVE Charged(r)'
  BY <1>1, <1>3, CounterCases, ReturnCharges, ResetCharges
<1>5. SlotsAreHonest'
  BY <1>2 DEF SlotsAreHonest
<1>6. Ledger'
  BY <1>4 DEF Ledger, Charged
<1>7. ChargedInv'
  BY <1>2, <1>4 DEF ChargedInv, Charged
<1>. QED
  BY <1>1, <1>5, <1>6, <1>7 DEF CountInv, CountersExact

(* runtime.py _claim_spawn_batch and budgets.py: a runtime's spawn counter *)
(* is the number of tasks it accepted, and what is missing from its token  *)
(* budget is what the calls that returned since reset() reported, for      *)
(* every interleaving of runs, gathers, retries and refusals.              *)
THEOREM CountersCorrect == Spec => []CountersExact
<1>1. CountInv => CountersExact
  BY DEF CountInv
<1>2. Spec => []CountInv
  BY CountInit, CountStep, PTL DEF Spec
<1>. QED
  BY <1>1, <1>2, PTL
=============================================================================
