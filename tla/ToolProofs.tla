------------------------------ MODULE ToolProofs ------------------------------
(***************************************************************************)
(* Theorems about AgentTools: the semaphore of fan-outs is exact, nobody   *)
(* runs a tool its agent was not granted, and delegates are told the truth *)
(* about what they said before - for every forest of runs and calls, every *)
(* population of agents and every team.                                    *)
(***************************************************************************)
EXTENDS AgentTools, FiniteSetTheorems, TLAPS

-----------------------------------------------------------------------------
(* Facts about numbers and subsequences.                                   *)

(* Every non-empty set of natural numbers has a least member: what stands  *)
(* in for the library's induction, which takes an operator.                *)
LEMMA Least ==
  ASSUME NEW S \in SUBSET Nat, S # {}
  PROVE  \E n \in S : \A m \in S : n <= m
<1>. DEFINE Below == {0..n : n \in S}
<1>1. IsWellFoundedOn(StrictSubsetOrdering(Nat), FiniteSubsetsOf(Nat))
  BY FS_StrictSubsetOrderingWellFounded
<1>2. ASSUME NEW n \in S PROVE 0..n \in FiniteSubsetsOf(Nat)
  BY FS_Interval DEF FiniteSubsetsOf
<1>3. Below \subseteq FiniteSubsetsOf(Nat) /\ Below # {}
  BY <1>2
<1>4. PICK x \in Below : \A y \in Below : <<y, x>> \notin StrictSubsetOrdering(Nat)
  <2>. HIDE DEF Below
  <2>. QED
    BY <1>1, <1>3, WFMin
<1>5. PICK n \in S : x = 0..n
  BY <1>4
<1>6. ASSUME NEW m \in S, m < n PROVE FALSE
  <2>1. m \in Nat /\ n \in Nat /\ 0..m \in SUBSET Nat /\ 0..n \in SUBSET Nat
    OBVIOUS
  <2>2. 0..m \subseteq 0..n
    BY <1>6, <2>1
  <2>3. n \in 0..n /\ n \notin 0..m
    BY <1>6, <2>1
  <2>4. <<0..m, 0..n>> \in StrictSubsetOrdering(Nat)
    BY <2>1, <2>2, <2>3 DEF StrictSubsetOrdering
  <2>. QED
    BY <2>4, <1>4, <1>5
<1>. QED
  BY <1>6

(* The k-th position is there, and comes before the next.                  *)
LEMMA RankedIsThere ==
  ASSUME NEW P \in SUBSET Nat, IsFiniteSet(P)
  PROVE  /\ \A k \in 1..Cardinality(P) :
              /\ Ranked(P, k) \in P
              /\ Cardinality({j \in P : j <= Ranked(P, k)}) = k
         /\ \A i \in P : \E k \in 1..Cardinality(P) : Ranked(P, k) = i
         /\ \A k, l \in 1..Cardinality(P) : k < l => Ranked(P, k) < Ranked(P, l)
<1>. DEFINE N == Cardinality(P)
            Upto(i) == {j \in P : j <= i}
            rank == [i \in P |-> Cardinality(Upto(i))]
<1>0. N \in Nat
  BY FS_CardinalityType
<1>1. ASSUME NEW i \in P
      PROVE  /\ IsFiniteSet(Upto(i)) /\ i \in Upto(i) /\ Upto(i) \in SUBSET P
             /\ rank[i] \in 1..N
  <2>0. Upto(i) \in SUBSET P /\ i \in Upto(i)
    OBVIOUS
  <2>1. IsFiniteSet(Upto(i)) /\ Cardinality(Upto(i)) <= N /\ i \in Upto(i)
    BY <2>0, FS_Subset
  <2>2. Cardinality(Upto(i)) \in Nat /\ Cardinality(Upto(i)) # 0
    BY <2>1, FS_CardinalityType, FS_EmptySet
  <2>3. rank[i] = Cardinality(Upto(i))
    OBVIOUS
  <2>. HIDE DEF rank, Upto
  <2>. QED
    BY <1>0, <2>0, <2>1, <2>2, <2>3
<1>2. ASSUME NEW i \in P, NEW j \in P, i < j PROVE rank[i] < rank[j]
  <2>0. i \in Nat /\ j \in Nat /\ \A x \in P : x \in Nat
    OBVIOUS
  <2>a. ASSUME NEW x \in Upto(i) PROVE x \in Upto(j)
    <3>1. x \in P /\ x <= i
      OBVIOUS
    <3>. QED
      BY <1>2, <2>0, <3>1
  <2>1. Upto(i) \subseteq Upto(j) /\ j \notin Upto(i) /\ j \in Upto(j)
    <3>1. j \notin Upto(i) /\ j \in Upto(j)
      BY <1>2, <2>0
    <3>. HIDE DEF Upto
    <3>. QED
      BY <2>a, <3>1
  <2>2. Cardinality(Upto(i)) <= Cardinality(Upto(j))
        /\ Cardinality(Upto(i)) # Cardinality(Upto(j))
    BY <1>1, <2>1, FS_Subset
  <2>. QED
    BY <1>1, <2>2
<1>3. ASSUME NEW i \in P, NEW j \in P, rank[i] = rank[j] PROVE i = j
  <2>1. i \in Nat /\ j \in Nat /\ rank[i] \in Nat /\ rank[j] \in Nat
    BY <1>1
  <2>2. ~(i < j) /\ ~(j < i)
    BY <1>2, <1>3, <2>1
  <2>. QED
    BY <2>1, <2>2
<1>4. rank \in Injection(P, 1..N)
  <2>1. rank \in [P -> 1..N]
    BY <1>1
  <2>. HIDE DEF rank
  <2>. QED
    BY <1>3, <2>1 DEF Injection, IsInjective
<1>5. rank \in Surjection(P, 1..N)
  <2>1. IsFiniteSet(1..N) /\ Cardinality(1..N) = N
    BY <1>0, FS_Interval
  <2>. QED
    BY <1>4, <2>1, FS_Injection
<1>6. ASSUME NEW k \in 1..N PROVE Ranked(P, k) \in P /\ rank[Ranked(P, k)] = k
  <2>1. PICK p \in P : rank[p] = k
    BY <1>5 DEF Surjection
  <2>2. \E i \in P : Cardinality({j \in P : j <= i}) = k
    BY <2>1
  <2>. QED
    BY <2>2 DEF Ranked
<1>7. ASSUME NEW i \in P PROVE \E k \in 1..N : Ranked(P, k) = i
  <2>1. rank[i] \in 1..N
    BY <1>1
  <2>. HIDE DEF rank
  <2>. QED
    BY <2>1, <1>3, <1>6
<1>8. ASSUME NEW k \in 1..N, NEW l \in 1..N, k < l PROVE Ranked(P, k) < Ranked(P, l)
  <2>1. /\ Ranked(P, k) \in P /\ rank[Ranked(P, k)] = k
        /\ Ranked(P, l) \in P /\ rank[Ranked(P, l)] = l
    BY <1>6
  <2>. HIDE DEF rank
  <2>2. CASE Ranked(P, l) < Ranked(P, k)
    <3>1. l < k
      BY <1>2, <2>1, <2>2
    <3>. QED
      BY <1>0, <1>8, <3>1
  <2>3. Ranked(P, k) # Ranked(P, l)
    BY <1>0, <1>8, <2>1
  <2>4. Ranked(P, k) \in Nat /\ Ranked(P, l) \in Nat
    BY <2>1
  <2>. QED
    BY <2>2, <2>3, <2>4
<1>. QED
  BY <1>6, <1>7, <1>8

(* Who leaves a queue leaves the order of the others alone.                *)
LEMMA WithoutFacts ==
  ASSUME NEW Q, NEW s \in Seq(Q), NEW gone
  PROVE  /\ Without(s, gone) \in Seq(Q)
         /\ ToSet(Without(s, gone)) = ToSet(s) \ gone
         /\ \A k, l \in DOMAIN Without(s, gone) : k < l =>
              \E i, j \in DOMAIN s : /\ i < j /\ Without(s, gone)[k] = s[i]
                                     /\ Without(s, gone)[l] = s[j]
         /\ IsInjective(s) => IsInjective(Without(s, gone))
<1>. DEFINE P == Staying(s, gone)
            w == Without(s, gone)
            N == Cardinality(P)
<1>1. P \in SUBSET Nat /\ IsFiniteSet(P) /\ N \in Nat
  <2>1. P \in SUBSET (1..Len(s)) /\ IsFiniteSet(1..Len(s)) /\ Len(s) \in Nat
    BY FS_Interval DEF Staying
  <2>. QED
    BY <2>1, FS_Subset, FS_CardinalityType
<1>2. \A i \in P : i \in DOMAIN s /\ s[i] \in Q /\ s[i] \notin gone
  BY DEF Staying
<1>3. w = [k \in 1..N |-> s[Ranked(P, k)]]
  BY DEF Without
<1>4. /\ \A k \in 1..N : Ranked(P, k) \in P
      /\ \A i \in P : \E k \in 1..N : Ranked(P, k) = i
      /\ \A k, l \in 1..N : k < l => Ranked(P, k) < Ranked(P, l)
  <2>. HIDE DEF P
  <2>. QED
    BY <1>1, RankedIsThere
<1>5. ASSUME NEW i \in DOMAIN s, s[i] \notin gone PROVE i \in P
  BY <1>5 DEF Staying
<1>. HIDE DEF P, w, N
<1>6. w \in Seq(Q) /\ DOMAIN w = 1..N
  <2>1. w \in [1..N -> Q]
    BY <1>2, <1>3, <1>4
  <2>. QED
    BY <1>1, <2>1
<1>7. ToSet(w) = ToSet(s) \ gone
  <2>1. ASSUME NEW x \in ToSet(w) PROVE x \in ToSet(s) \ gone
    <3>1. PICK k \in 1..N : x = w[k]
      BY <1>6 DEF ToSet
    <3>. QED
      BY <3>1, <1>2, <1>3, <1>4 DEF ToSet
  <2>2. ASSUME NEW x \in ToSet(s) \ gone PROVE x \in ToSet(w)
    <3>1. PICK i \in DOMAIN s : x = s[i]
      BY DEF ToSet
    <3>2. PICK k \in 1..N : Ranked(P, k) = i
      BY <3>1, <2>2, <1>4, <1>5
    <3>3. x = w[k]
      BY <3>1, <3>2, <1>3
    <3>. QED
      BY <3>3, <1>6 DEF ToSet
  <2>. QED
    BY <2>1, <2>2
<1>8. \A k, l \in 1..N : k < l =>
        \E i, j \in DOMAIN s : i < j /\ w[k] = s[i] /\ w[l] = s[j]
  BY <1>2, <1>3, <1>4
<1>9. ASSUME IsInjective(s), NEW k \in 1..N, NEW l \in 1..N, w[k] = w[l] PROVE k = l
  <2>1. Ranked(P, k) = Ranked(P, l)
    BY <1>2, <1>3, <1>4, <1>9 DEF IsInjective
  <2>2. Ranked(P, k) \in Nat
    BY <1>1, <1>4
  <2>3. ~(k < l) /\ ~(l < k)
    BY <1>4, <2>1, <2>2
  <2>. QED
    BY <1>1, <2>3
<1>10. IsInjective(s) => IsInjective(w)
  BY <1>6, <1>9 DEF IsInjective
<1>. QED
  BY <1>6, <1>7, <1>8, <1>10 DEF w

(* The first n of a sequence without repetitions are n, and the rest is    *)
(* what remains.                                                           *)
LEMMA FirstAndRest ==
  ASSUME NEW Q, NEW s \in Seq(Q), IsInjective(s), NEW n \in 0..Len(s)
  PROVE  LET first == {s[i] : i \in 1..n}
             rest  == SubSeq(s, n + 1, Len(s))
         IN  /\ IsFiniteSet(first) /\ Cardinality(first) = n /\ first \subseteq ToSet(s)
             /\ rest \in Seq(Q) /\ IsInjective(rest) /\ ToSet(rest) = ToSet(s) \ first
             /\ rest # <<>> => n < Len(s)
<1>. DEFINE first == {s[i] : i \in 1..n}
            rest  == SubSeq(s, n + 1, Len(s))
            f == [i \in 1..n |-> s[i]]
<1>0. /\ Len(s) \in Nat /\ DOMAIN s = 1..Len(s) /\ n \in Nat /\ n <= Len(s)
      /\ 1..n \subseteq 1..Len(s)
  OBVIOUS
<1>1. IsFiniteSet(first) /\ Cardinality(first) = n
  <2>1. f \in Bijection(1..n, first)
    <3>1. f \in [1..n -> first] /\ \A x \in first : \E i \in 1..n : f[i] = x
      OBVIOUS
    <3>2. IsInjective(f)
      BY <1>0 DEF IsInjective
    <3>. HIDE DEF f, first
    <3>. QED
      BY <3>1, <3>2 DEF Bijection, Injection, Surjection
  <2>2. ExistsBijection(1..n, first)
    BY <2>1 DEF ExistsBijection
  <2>. QED
    BY <1>0, <2>2, FS_NatBijection, FS_CountingElements
<1>2. first \subseteq ToSet(s)
  BY <1>0 DEF ToSet
<1>3. /\ rest \in Seq(Q) /\ DOMAIN rest = 1..(Len(s) - n)
      /\ \A k \in 1..(Len(s) - n) : rest[k] = s[n + k]
  BY <1>0
<1>4. IsInjective(rest)
  <2>1. ASSUME NEW k \in 1..(Len(s) - n), NEW l \in 1..(Len(s) - n), rest[k] = rest[l]
        PROVE  k = l
    <3>1. n + k \in 1..Len(s) /\ n + l \in 1..Len(s) /\ s[n + k] = s[n + l]
      BY <1>0, <1>3, <2>1
    <3>2. n + k = n + l
      BY <1>0, <3>1 DEF IsInjective
    <3>. QED
      BY <1>0, <3>2
  <2>. HIDE DEF rest
  <2>. QED
    BY <1>3, <2>1 DEF IsInjective
<1>5. ToSet(rest) = ToSet(s) \ first
  <2>1. ASSUME NEW k \in 1..(Len(s) - n) PROVE rest[k] \in ToSet(s) \ first
    <3>1. n + k \in 1..Len(s) /\ rest[k] = s[n + k] /\ n + k \notin 1..n
      BY <1>0, <1>3
    <3>2. \A i \in 1..n : s[i] # s[n + k]
      BY <1>0, <3>1 DEF IsInjective
    <3>. QED
      BY <1>0, <3>1, <3>2 DEF ToSet
  <2>2. ASSUME NEW i \in 1..Len(s), s[i] \notin first
        PROVE  i - n \in 1..(Len(s) - n) /\ rest[i - n] = s[i]
    <3>1. i \notin 1..n
      BY <2>2
    <3>2. i - n \in 1..(Len(s) - n) /\ n + (i - n) = i
      BY <1>0, <3>1
    <3>. QED
      BY <1>3, <3>2
  <2>. HIDE DEF rest, first
  <2>. QED
    BY <1>0, <1>3, <2>1, <2>2 DEF ToSet
<1>6. rest # <<>> => n < Len(s)
  BY <1>0
<1>. QED
  BY <1>1, <1>2, <1>3, <1>4, <1>5, <1>6
(* One sequence behind another.                                            *)
LEMMA Joined ==
  ASSUME NEW Q, NEW s \in Seq(Q), NEW u \in Seq(Q)
  PROVE  /\ s \o u \in Seq(Q) /\ Len(s \o u) = Len(s) + Len(u)
         /\ ToSet(s \o u) = ToSet(s) \cup ToSet(u)
         /\ IsInjective(s) /\ IsInjective(u) /\ ToSet(s) \cap ToSet(u) = {}
              => IsInjective(s \o u)
<1>. DEFINE m == Len(s)
            n == Len(u)
            w == s \o u
<1>1. /\ m \in Nat /\ n \in Nat /\ DOMAIN s = 1..m /\ DOMAIN u = 1..n
      /\ w \in Seq(Q) /\ DOMAIN w = 1..(m + n)
  OBVIOUS
<1>2. /\ \A i \in 1..m : w[i] = s[i]
      /\ \A i \in 1..n : w[m + i] = u[i]
      /\ \A i \in 1..(m + n) : i > m => w[i] = u[i - m]
  OBVIOUS
<1>. HIDE DEF m, n, w
<1>3. ASSUME NEW i \in 1..(m + n)
      PROVE  \/ i \in 1..m /\ w[i] = s[i] /\ w[i] \in ToSet(s)
             \/ i > m /\ i - m \in 1..n /\ w[i] = u[i - m] /\ w[i] \in ToSet(u)
  <2>1. CASE i <= m
    BY <1>1, <1>2, <2>1 DEF ToSet
  <2>2. CASE i > m
    <3>1. i - m \in 1..n /\ w[i] = u[i - m]
      BY <1>1, <1>2, <2>2
    <3>. QED
      BY <1>1, <2>2, <3>1 DEF ToSet
  <2>. QED
    BY <1>1, <2>1, <2>2
<1>4. ToSet(w) = ToSet(s) \cup ToSet(u)
  <2>1. \A x \in ToSet(w) : x \in ToSet(s) \cup ToSet(u)
    BY <1>1, <1>3 DEF ToSet
  <2>2. \A x \in ToSet(s) : x \in ToSet(w)
    BY <1>1, <1>2 DEF ToSet
  <2>3. \A i \in 1..n : m + i \in 1..(m + n) /\ w[m + i] = u[i]
    BY <1>1, <1>2
  <2>4. \A x \in ToSet(u) : x \in ToSet(w)
    BY <1>1, <2>3 DEF ToSet
  <2>. QED
    BY <2>1, <2>2, <2>4
<1>5. ASSUME IsInjective(s), IsInjective(u), ToSet(s) \cap ToSet(u) = {},
             NEW i \in 1..(m + n), NEW j \in 1..(m + n), w[i] = w[j]
      PROVE  i = j
  <2>1. CASE i \in 1..m /\ j \in 1..m
    BY <1>1, <1>2, <1>5, <2>1 DEF IsInjective
  <2>2. CASE i > m /\ j > m
    <3>1. i - m \in 1..n /\ j - m \in 1..n /\ u[i - m] = u[j - m]
      BY <1>1, <1>3, <1>5, <2>2
    <3>2. i - m = j - m
      BY <1>1, <1>5, <3>1 DEF IsInjective
    <3>. QED
      BY <1>1, <3>2
  <2>. QED
    BY <1>3, <1>5, <2>1, <2>2
<1>6. IsInjective(s) /\ IsInjective(u) /\ ToSet(s) \cap ToSet(u) = {} => IsInjective(w)
  BY <1>1, <1>5 DEF IsInjective
<1>7. Len(w) = m + n
  BY <1>1
<1>. QED
  BY <1>1, <1>4, <1>6, <1>7 DEF m, n, w

-----------------------------------------------------------------------------
(* The types of the variables.  A line of a history is a question or an    *)
(* answer of one call.                                                     *)
RunState == {"idle", "queued", "ready", "dispatched", "running", "ok", "failed",
             "cancelled"}

Over == {"ok", "failed", "cancelled"}

CallState == {"new", "refused", "executing", "returned", "failed", "cancelled"}

AnyTool ==
  {SpawnTool, NoAgent} \cup {DelegateTool[t] : t \in Team} \cup
  UNION {Agent[a].tools \cup UNION {p.reports : p \in Agent[a].servers} :
           a \in DOMAIN Agent}

Line == {"user", "assistant"} \X Call

CallRecord == [st : CallState, tool : AnyTool, uses : Seq(Run),
               target : Delegate \cup {NoAgent}]

TypeOK ==
  /\ chosen \in DOMAIN Settings
  /\ run \in [Run -> RunState]
  /\ agent \in [Run -> DOMAIN Agent \cup {NoAgent}]
  /\ call \in [Call -> CallRecord]
  /\ permits \in Nat /\ queue \in Seq(Run)
  /\ rounds \in [Team -> Nat]
  /\ history \in [Team -> [Delegate -> Seq(Line)]]
  /\ seen \in [Run -> Seq(Line)]

(* The call that run r is a delegation of.                                 *)
Delegated(r) ==
  LET c == Caller[r]
  IN  /\ c # NoCall /\ call[c].target \in Delegate
      /\ Owner[c] \in Team /\ call[c].tool = DelegateTool[Owner[c]]

(* What a call has started is what its run, its slots and its tool allow.  *)
ForestInv ==
  /\ \A r \in Run :
       /\ Caller[r] = NoCall => run[r] \notin {"queued", "ready"}
       /\ Caller[r] # NoCall /\ run[r] # "idle" =>
            /\ call[Caller[r]].st \notin {"new", "refused"}
            /\ Fanned(r) \/ Delegated(r)
       /\ run[r] = "queued" => Fanned(r)
       /\ Active(r) => agent[r] \in DOMAIN Agent
       /\ r \in Team /\ run[r] # "idle" => agent[r] = Coordinator
  /\ \A c \in Call : call[c].st # "new" =>
       /\ run[Owner[c]] \in {"running"} \cup Over
       /\ agent[Owner[c]] \in DOMAIN Agent

IInv == TypeOK /\ ForestInv /\ PermitsExact

(* Cancellation only reaches runs that are going on, or wait to.           *)
LEMMA AwaitedAreLive ==
  ASSUME NEW r \in Run
  PROVE  \A x \in AwaitedBy(r) : x \in Run /\ Live(x)
<1>. DEFINE L == {x \in Run : Live(x)}
            Wider(S) == S \cup Started(S \cup {r})
            Walk(g, m) == g = [n \in 0..m |-> IF n = 0 THEN {} ELSE Wider(g[n - 1])]
            Bad == {m \in Nat : ~ \E g : Walk(g, m)}
<1>0. Nesting \in Nat
  BY ToolsAssumption DEF ToolsAssumption
<1>1. Bad = {}
  <2>. SUFFICES ASSUME Bad # {} PROVE FALSE
    OBVIOUS
  <2>1. PICK m \in Bad : \A k \in Bad : m <= k
    <3>1. Bad \in SUBSET Nat
      OBVIOUS
    <3>. HIDE DEF Bad
    <3>. QED
      BY <3>1, Least
  <2>2. m \in Nat /\ ~ \E g : Walk(g, m)
    OBVIOUS
  <2>3. CASE m = 0
    <3>. DEFINE g == [n \in 0..0 |-> {}]
    <3>1. Walk(g, 0)
      BY 0..0 = {0}
    <3>. QED
      BY <3>1, <2>2, <2>3
  <2>4. CASE m # 0
    <3>1. m - 1 \in Nat /\ m - 1 \notin Bad
      <4>1. m - 1 \in Nat /\ ~(m <= m - 1)
        BY <2>2, <2>4
      <4>. HIDE DEF Bad
      <4>. QED
        BY <2>1, <4>1
    <3>2. PICK g : Walk(g, m - 1)
      BY <3>1
    <3>. HIDE DEF Wider
    <3>. DEFINE h == [n \in 0..m |-> IF n = m THEN Wider(g[m - 1]) ELSE g[n]]
    <3>3. ASSUME NEW n \in 0..m
          PROVE  h[n] = IF n = 0 THEN {} ELSE Wider(h[n - 1])
      <4>1. CASE n = m
        <5>1. h[n] = Wider(g[m - 1]) /\ h[m - 1] = g[m - 1]
          BY <2>2, <2>4, <4>1
        <5>. QED
          BY <5>1, <4>1, <2>4
      <4>2. CASE n # m
        <5>1. n \in 0..(m - 1) /\ h[n] = g[n]
          BY <2>2, <4>2
        <5>2. g[n] = IF n = 0 THEN {} ELSE Wider(g[n - 1])
          BY <5>1, <3>2
        <5>3. n # 0 => h[n - 1] = g[n - 1]
          BY <2>2, <5>1
        <5>. QED
          BY <5>1, <5>2, <5>3
      <4>. QED
        BY <4>1, <4>2
    <3>4. h = [n \in 0..m |-> h[n]]
      OBVIOUS
    <3>5. Walk(h, m)
      <4>. HIDE DEF h
      <4>. QED
        BY <3>3, <3>4
    <3>. QED
      BY <3>5, <2>2
  <2>. QED
    BY <2>3, <2>4
<1>. DEFINE Reach == CHOOSE g : Walk(g, Nesting)
<1>2. Walk(Reach, Nesting)
  <2>1. \E g : Walk(g, Nesting)
    BY <1>0, <1>1
  <2>. HIDE DEF Walk
  <2>. QED
    BY <2>1
<1>3. AwaitedBy(r) = Reach[Nesting]
  BY DEF AwaitedBy
<1>. HIDE DEF Reach
<1>. DEFINE Wrong == {n \in 0..Nesting : ~(Reach[n] \subseteq L)}
<1>4. Wrong = {}
  <2>. SUFFICES ASSUME Wrong # {} PROVE FALSE
    OBVIOUS
  <2>1. PICK m \in Wrong : \A k \in Wrong : m <= k
    <3>1. Wrong \in SUBSET Nat
      BY <1>0
    <3>. HIDE DEF Wrong
    <3>. QED
      BY <3>1, Least
  <2>2. m \in 0..Nesting /\ Reach[m] = IF m = 0 THEN {} ELSE Wider(Reach[m - 1])
    BY <1>2
  <2>3. m # 0 => m - 1 \in 0..Nesting /\ Reach[m - 1] \subseteq L
    BY <2>1, <2>2, <1>0
  <2>4. \A S : S \subseteq L => Wider(S) \subseteq L
    BY DEF Started
  <2>. QED
    BY <2>2, <2>3, <2>4
<1>. QED
  BY <1>0, <1>3, <1>4
-----------------------------------------------------------------------------
(* The runs that would hold a permit if the runs stood as f says.          *)
HoldersIn(f) == {r \in Run : Fanned(r) /\ f[r] \in {"ready", "dispatched", "running"}}

(* What PermitsExact says of the semaphore, in parts.                      *)
Semaphore(f, p, q) ==
  /\ p + Cardinality(HoldersIn(f)) = setting.width
  /\ p \in Nat
  /\ q # <<>> => p = 0
  /\ {r \in Run : f[r] = "queued"} = ToSet(q)
  /\ IsInjective(q)

(* PermitsExact says that of the state, part by part.                      *)
LEMMA SemaphoreNow ==
  ASSUME TypeOK
  PROVE  PermitsExact <=> Semaphore(run, permits, queue)
<1>1. Holders = HoldersIn(run)
  BY DEF Holders, HoldersIn, Active, TypeOK
<1>. QED
  BY <1>1 DEF PermitsExact, Semaphore, TypeOK

(* And of the state a step leads to, if the calls stay what they are.      *)
LEMMA SemaphoreThen ==
  ASSUME TypeOK, TypeOK', setting' = setting,
         \A r \in Run : run'[r] # "idle" => (Fanned(r)' <=> Fanned(r)),
         Semaphore(run', permits', queue')
  PROVE  PermitsExact'
<1>1. Holders' = HoldersIn(run')
  BY DEF Holders, HoldersIn, Active, TypeOK
<1>. QED
  BY <1>1 DEF PermitsExact, Semaphore, TypeOK

(* What is so once the runs in gone have ended as outcome says.            *)
Unwound(gone, outcome) ==
  /\ run' \in [Run -> RunState] /\ permits' \in Nat /\ queue' \in Seq(Run)
  /\ \A x \in gone : run'[x] = outcome[x]
  /\ \A x \in Run \ gone :
       run'[x] = run[x] \/ (run[x] = "queued" /\ run'[x] = "ready")
  /\ Semaphore(run', permits', queue')
  /\ registry' = registry \ {DelegateTool[x] : x \in gone \cap Team}

(* However runs end, the permits they held and the places in the queue     *)
(* they had go to those who wait longest.                                  *)
LEMMA UnwindKeeps ==
  ASSUME TypeOK, ForestInv, PermitsExact, NEW gone \in SUBSET Run, NEW outcome,
         \A x \in gone : outcome[x] \in Over, Unwind(gone, outcome)
  PROVE  Unwound(gone, outcome)
<1>. DEFINE waiting == Without(queue, gone)
            free    == permits + Cardinality(gone \cap Holders)
            passed  == IF free < Len(waiting) THEN free ELSE Len(waiting)
            woken   == {waiting[i] : i \in 1..passed}
            rest    == SubSeq(waiting, passed + 1, Len(waiting))
<1>1. /\ run' = [x \in Run |-> IF x \in gone THEN outcome[x]
                               ELSE IF x \in woken THEN "ready" ELSE run[x]]
      /\ queue' = rest /\ permits' = free - passed
      /\ registry' = registry \ {DelegateTool[x] : x \in gone \cap Team}
  BY DEF Unwind
<1>2. Semaphore(run, permits, queue) /\ Holders = HoldersIn(run)
  BY SemaphoreNow DEF Holders, HoldersIn, Active, TypeOK
<1>3. /\ waiting \in Seq(Run) /\ IsInjective(waiting)
      /\ ToSet(waiting) = {r \in Run : run[r] = "queued"} \ gone
  BY <1>2, WithoutFacts DEF Semaphore, TypeOK
<1>4. /\ IsFiniteSet(Holders) /\ IsFiniteSet(gone \cap Holders)
      /\ Cardinality(gone \cap Holders) \in Nat /\ Cardinality(Holders) \in Nat
      /\ free \in Nat /\ permits \in Nat
  <2>1. Holders \in SUBSET Run /\ gone \cap Holders \in SUBSET Run /\ IsFiniteSet(Run)
    BY ToolsAssumption DEF Holders, ToolsAssumption
  <2>2. IsFiniteSet(Holders) /\ IsFiniteSet(gone \cap Holders)
    BY <2>1, FS_Subset
  <2>3. Cardinality(gone \cap Holders) \in Nat /\ Cardinality(Holders) \in Nat
    BY <2>2, FS_CardinalityType
  <2>. QED
    BY <2>2, <2>3 DEF TypeOK
<1>. HIDE DEF waiting
<1>5. passed \in 0..Len(waiting) /\ passed <= free /\ (passed < Len(waiting) => passed = free)
  BY <1>3, <1>4
<1>a. free = permits + Cardinality(gone \cap Holders)
  OBVIOUS
<1>. HIDE DEF passed, free
<1>6. /\ IsFiniteSet(woken) /\ Cardinality(woken) = passed /\ woken \subseteq ToSet(waiting)
      /\ rest \in Seq(Run) /\ IsInjective(rest) /\ ToSet(rest) = ToSet(waiting) \ woken
      /\ rest # <<>> => passed < Len(waiting)
  BY <1>3, <1>5, FirstAndRest
<1>. HIDE DEF woken, rest
<1>7. \A x \in woken : x \in Run /\ x \notin gone /\ run[x] = "queued" /\ Fanned(x)
  BY <1>3, <1>6 DEF ForestInv
<1>8. run' \in [Run -> RunState]
  BY <1>1 DEF TypeOK, RunState, Over
<1>9. permits' \in Nat
  BY <1>1, <1>4, <1>5
<1>10. HoldersIn(run') = (Holders \ gone) \cup woken
  BY <1>1, <1>2, <1>7 DEF HoldersIn, Over, TypeOK
<1>11. permits' + Cardinality(HoldersIn(run')) = setting.width
  <2>1. /\ IsFiniteSet(Holders \ gone)
        /\ Cardinality(Holders \ gone) = Cardinality(Holders) - Cardinality(gone \cap Holders)
    BY <1>4, FS_Difference, Holders \cap gone = gone \cap Holders
  <2>2. (Holders \ gone) \cap woken = {}
    BY <1>2, <1>7 DEF HoldersIn
  <2>3. Cardinality(HoldersIn(run')) = Cardinality(Holders \ gone) + Cardinality(woken)
    <3>. DEFINE A == Holders \ gone
    <3>1. IsFiniteSet(A) /\ IsFiniteSet(woken) /\ A \cap woken = {}
      BY <1>6, <2>1, <2>2
    <3>. HIDE DEF A
    <3>2. Cardinality(A \cup woken) = Cardinality(A) + Cardinality(woken) - Cardinality(A \cap woken)
      BY <3>1, FS_Union
    <3>3. Cardinality(A) \in Nat /\ Cardinality(woken) \in Nat /\ Cardinality({}) = 0
      BY <3>1, FS_CardinalityType, FS_EmptySet
    <3>4. HoldersIn(run') = A \cup woken
      BY <1>10 DEF A
    <3>5. Cardinality(HoldersIn(run')) = Cardinality(A) + Cardinality(woken)
      <4>1. Cardinality(A \cap woken) = 0
        BY <3>1, <3>3, Zenon
      <4>2. Cardinality(HoldersIn(run')) = Cardinality(A \cup woken)
        BY <3>4, Zenon
      <4>. QED
        BY <3>2, <3>3, <4>1, <4>2
    <3>. QED
      BY <3>5 DEF A
  <2>4. permits + Cardinality(Holders) = setting.width
    BY <1>2 DEF Semaphore
  <2>5. permits' = permits + Cardinality(gone \cap Holders) - passed
    BY <1>1, <1>4, <1>5, <1>a
  <2>. QED
    BY <1>4, <1>5, <1>6, <2>1, <2>3, <2>4, <2>5
<1>12. queue' # <<>> => permits' = 0
  BY <1>1, <1>4, <1>5, <1>6
<1>13. {r \in Run : run'[r] = "queued"} = ToSet(queue')
  BY <1>1, <1>3, <1>6, <1>7 DEF Over
<1>14. Semaphore(run', permits', queue')
  BY <1>1, <1>6, <1>9, <1>11, <1>12, <1>13 DEF Semaphore
<1>15. \A x \in Run \ gone : run'[x] = run[x] \/ (run[x] = "queued" /\ run'[x] = "ready")
  BY <1>1, <1>7
<1>. QED
  BY <1>1, <1>6, <1>8, <1>9, <1>14, <1>15 DEF Unwound
-----------------------------------------------------------------------------
(* The invariant, action by action.                                        *)
(* Calls of runs that end may be cancelled; else they are what they were.  *)
CallsStand ==
  /\ call' \in [Call -> CallRecord]
  /\ \A c \in Call :
       /\ call'[c].tool = call[c].tool /\ call'[c].uses = call[c].uses
       /\ call'[c].target = call[c].target
       /\ \/ call'[c].st = call[c].st
          \/ call[c].st = "executing" /\ call'[c].st = "cancelled"

(* How a run was started does not change when calls are cancelled.         *)
LEMMA FannedStands ==
  ASSUME CallsStand, NEW r \in Run
  PROVE  (Fanned(r)' <=> Fanned(r)) /\ (Delegated(r)' <=> Delegated(r))
BY ToolsAssumption DEF CallsStand, Fanned, Delegated, ToolsAssumption

(* Runs that are going on, or wait to, end together.                       *)
EndTogether(gone, outcome) ==
  /\ \A x \in gone : Live(x) /\ outcome[x] \in Over
  /\ Unwind(gone, outcome) /\ CallsStand
  /\ UNCHANGED <<chosen, agent, rounds, history, seen>>

(* Every way a run can end is one of these.                                *)
EndOf(r) ==
  \E st \in Over : Live(r) /\ (EndAlone(r, st) \/ EndWithAll(r, st))

(* One run ends alone, or with all it awaits: both are such an end.        *)
LEMMA EndOfCases ==
  ASSUME TypeOK, NEW r \in Run, EndOf(r)
  PROVE  \E gone \in SUBSET Run : \E outcome : EndTogether(gone, outcome)
<1>1. PICK st \in Over : Live(r) /\ (EndAlone(r, st) \/ EndWithAll(r, st))
  BY DEF EndOf
<1>2. CASE EndAlone(r, st)
  <2>. DEFINE outcome == [x \in {r} |-> st]
  <2>1. Unwind({r}, outcome) /\ UNCHANGED <<chosen, agent, call, rounds, history, seen>>
    BY <1>2 DEF EndAlone
  <2>2. \A x \in {r} : Live(x) /\ outcome[x] \in Over
    BY <1>1
  <2>3. CallsStand
    BY <2>1 DEF TypeOK, CallsStand, CallRecord
  <2>. HIDE DEF outcome
  <2>4. EndTogether({r}, outcome)
    BY <2>1, <2>2, <2>3 DEF EndTogether
  <2>. QED
    BY <2>4
<1>3. CASE EndWithAll(r, st)
  <2>. DEFINE gone == {r} \cup AwaitedBy(r)
              outcome == [x \in gone |-> IF x = r THEN st ELSE "cancelled"]
  <2>1. /\ Unwind(gone, outcome)
        /\ call' = [c \in Call |-> IF Executing(c) /\ Owner[c] \in gone
                                   THEN [call[c] EXCEPT !.st = "cancelled"]
                                   ELSE call[c]]
        /\ UNCHANGED <<chosen, agent, rounds, history, seen>>
    BY <1>3 DEF EndWithAll
  <2>2. gone \in SUBSET Run /\ \A x \in gone : Live(x) /\ outcome[x] \in Over
    BY <1>1, AwaitedAreLive DEF Over
  <2>. HIDE DEF gone, outcome
  <2>3. CallsStand
    BY <2>1 DEF TypeOK, CallsStand, CallRecord, CallState, Executing
  <2>4. EndTogether(gone, outcome)
    BY <2>1, <2>2, <2>3 DEF EndTogether
  <2>. QED
    BY <2>2, <2>4
<1>. QED
  BY <1>1, <1>2, <1>3

(* Runs that end together leave the invariant as it was.                   *)
LEMMA EndsKeep ==
  ASSUME IInv, NEW gone \in SUBSET Run, NEW outcome, EndTogether(gone, outcome)
  PROVE  IInv'
<1>0. /\ Unwound(gone, outcome) /\ CallsStand
      /\ UNCHANGED <<chosen, agent, rounds, history, seen>>
      /\ \A x \in gone : Live(x) /\ outcome[x] \in Over
  BY UnwindKeeps DEF IInv, EndTogether
<1>1. /\ run' \in [Run -> RunState] /\ permits' \in Nat /\ queue' \in Seq(Run)
      /\ \A x \in gone : run'[x] = outcome[x]
      /\ \A x \in Run \ gone :
           run'[x] = run[x] \/ (run[x] = "queued" /\ run'[x] = "ready")
      /\ Semaphore(run', permits', queue')
  BY <1>0 DEF Unwound
<1>2. TypeOK'
  BY <1>0, <1>1 DEF IInv, TypeOK, CallsStand, CallRecord
<1>3. PermitsExact'
  BY <1>0, <1>1, <1>2, FannedStands, SemaphoreThen DEF IInv, setting
<1>4. ForestInv'
  <2>1. ASSUME NEW r \in Run
        PROVE  (/\ Caller[r] = NoCall => run[r] \notin {"queued", "ready"}
                /\ Caller[r] # NoCall /\ run[r] # "idle" =>
                     /\ call[Caller[r]].st \notin {"new", "refused"}
                     /\ Fanned(r) \/ Delegated(r)
                /\ run[r] = "queued" => Fanned(r)
                /\ Active(r) => agent[r] \in DOMAIN Agent
                /\ r \in Team /\ run[r] # "idle" => agent[r] = Coordinator)'
    <3>1. /\ Caller[r] = NoCall => run[r] \notin {"queued", "ready"}
          /\ Caller[r] # NoCall /\ run[r] # "idle" =>
               /\ call[Caller[r]].st \notin {"new", "refused"}
               /\ Fanned(r) \/ Delegated(r)
          /\ run[r] = "queued" => Fanned(r)
          /\ Active(r) => agent[r] \in DOMAIN Agent
          /\ r \in Team /\ run[r] # "idle" => agent[r] = Coordinator
          /\ Fanned(r) => Caller[r] # NoCall
      BY DEF IInv, ForestInv, Fanned
    <3>2. run[r] = "idle" => run'[r] = "idle"
      BY <1>0, <1>1 DEF Live, Active
    <3>3. \/ run'[r] \in Over
          \/ run'[r] = run[r]
          \/ run[r] = "queued" /\ run'[r] = "ready"
      BY <1>0, <1>1
    <3>4. (Fanned(r)' <=> Fanned(r)) /\ (Delegated(r)' <=> Delegated(r))
      BY <1>0, FannedStands
    <3>5. Caller[r] # NoCall =>
            (call'[Caller[r]].st \in {"new", "refused"} => call[Caller[r]].st \in {"new", "refused"})
      BY <1>0, ToolsAssumption DEF CallsStand, ToolsAssumption
    <3>. QED
      BY <1>0, <3>1, <3>2, <3>3, <3>4, <3>5 DEF Active, Over
  <2>2. ASSUME NEW c \in Call, call'[c].st # "new"
        PROVE  run'[Owner[c]] \in {"running"} \cup Over /\ agent'[Owner[c]] \in DOMAIN Agent
    <3>1. Owner[c] \in Run /\ call[c].st # "new"
      BY <1>0, <2>2, ToolsAssumption DEF CallsStand, ToolsAssumption
    <3>2. run[Owner[c]] \in {"running"} \cup Over /\ agent[Owner[c]] \in DOMAIN Agent
      BY <3>1 DEF IInv, ForestInv
    <3>. QED
      BY <1>0, <1>1, <3>1, <3>2 DEF Over
  <2>. QED
    BY <2>1, <2>2 DEF ForestInv
<1>. QED
  BY <1>2, <1>3, <1>4 DEF IInv

-----------------------------------------------------------------------------
(* What is offered and let through was granted: the two-step path from an  *)
(* agent's definition over toolsets and plain tools to the executor ends   *)
(* within what the agent's trust level and allow-lists say.                *)
LEMMA TrustPath ==
  ASSUME NEW a, NEW route \in Offered(a), Admits(a.trust, route)
  PROVE  route.name \in Granted(a)
<1>1. a.trust # "sandbox" /\ route.name \in route.allowed
      /\ (a.trust = "low" => route.name \in ReadOnly \cup route.overrides)
  BY DEF Admits
<1>2. CASE route \in {Route(n, a.tools, {}, FALSE) : n \in Plain(a)}
  <2>1. route.name \in a.tools /\ route.allowed = a.tools /\ route.overrides = {}
    BY <1>2 DEF Route, Plain
  <2>. QED
    BY <1>1, <2>1 DEF Granted
<1>3. ASSUME NEW p \in Toolsets(a),
             route \in {Route(n, a.tools \cup Names(p),
                              IF a.trust = "low" THEN Names(p) ELSE {}, TRUE) : n \in p.reports}
      PROVE  route.name \in Granted(a)
  <2>1. /\ route.name \in p.reports /\ route.allowed = a.tools \cup Names(p)
        /\ route.overrides = IF a.trust = "low" THEN Names(p) ELSE {}
    BY <1>3 DEF Route
  <2>2. p \in a.servers /\ (a.trust = "low" => p.allow # NoAllow)
    BY DEF Toolsets
  <2>3. route.name \in a.tools \/ route.name \in Names(p)
    BY <1>1, <2>1
  <2>4. p.allow # NoAllow => Names(p) = p.reports \cap p.allow
    BY DEF Names
  <2>5. CASE a.trust = "low"
    <3>1. route.name \in (a.tools \cap ReadOnly) \cup (p.reports \cap p.allow)
      BY <1>1, <2>1, <2>2, <2>3, <2>4, <2>5
    <3>. QED
      BY <1>1, <2>2, <2>5, <3>1 DEF Granted
  <2>6. CASE a.trust # "low"
    <3>1. \/ route.name \in a.tools
          \/ p.allow # NoAllow /\ route.name \in p.reports \cap p.allow
          \/ p.allow = NoAllow /\ route.name \in p.reports
      BY <2>1, <2>3, <2>4
    <3>. QED
      BY <1>1, <2>2, <2>6, <3>1 DEF Granted
  <2>. QED
    BY <2>5, <2>6
<1>. QED
  BY <1>2, <1>3 DEF Offered

(* Every tool a run is offered is one of its agent's or of its servers',   *)
(* or is the tool of the team the run itself is.                           *)
LEMMA OfferedTools ==
  ASSUME NEW r \in Run, agent[r] \in DOMAIN Agent, NEW route \in Offered(AgentOf(r))
  PROVE  /\ route.name \in AnyTool
         /\ \A t \in Team : route.name = DelegateTool[t] => r = t
<1>. DEFINE a == Agent[agent[r]]
            own == IF r \in Team THEN {DelegateTool[r]} ELSE {}
<1>1. a = [trust |-> a.trust, tools |-> a.tools, servers |-> a.servers]
  BY AgentsAssumption DEF AgentsAssumption
<1>2. AgentOf(r).tools = a.tools \cup own /\ AgentOf(r).servers = a.servers
  <2>. HIDE DEF a
  <2>1. AgentOf(r) = IF r \in Team THEN [a EXCEPT !.tools = a.tools \cup {DelegateTool[r]}] ELSE a
    BY DEF AgentOf, a
  <2>. QED
    BY <1>1, <2>1
<1>3. route.name \in a.tools \cup own \cup UNION {p.reports : p \in a.servers}
  BY <1>2 DEF Offered, Route, Plain, Toolsets
<1>4. route.name \in AnyTool
  BY <1>3 DEF AnyTool
<1>5. ASSUME NEW t \in Team, route.name = DelegateTool[t] PROVE r = t
  BY <1>3, <1>5, NamesAssumption DEF NamesAssumption
<1>. QED
  BY <1>4, <1>5

(* What the executor does with a call, in terms of what was granted.       *)
Lets(c, n) ==
  /\ n \in Granted(AgentOf(Owner[c]))
  /\ \A t \in Team : n = DelegateTool[t] => Owner[c] = t
  /\ \/ n = SpawnTool /\ \E k \in 0..Len(Slots[c]) : FanOut(c, k)
     \/ \E t \in Team, d \in Delegate, i \in Inputs :
          n = DelegateTool[t] /\ DelegateTo(c, t, d, i)
     \/ n # SpawnTool /\ Invoke(c, n)

(* The executor refuses a call, or lets through what was granted.          *)
LEMMA ExecuteCases ==
  ASSUME IInv, NEW c \in Call, Execute(c)
  PROVE  /\ run[Owner[c]] = "running" /\ call[c].st = "new"
         /\ \E n \in AnyTool : Refuse(c, n) \/ Lets(c, n)
<1>. DEFINE r == Owner[c]
<1>1. run[r] = "running" /\ call[c].st = "new" /\ r \in Run
  BY ToolsAssumption DEF Execute, ToolsAssumption
<1>2. PICK route \in Offered(AgentOf(r)) :
        IF \/ ~Admits(AgentOf(r).trust, route)
           \/ ~route.external /\ route.name \notin registry
        THEN Refuse(c, route.name)
        ELSE \/ /\ route.name = SpawnTool
                /\ \E k \in 0..Len(Slots[c]) : FanOut(c, k)
             \/ \E t \in Team, d \in Delegate, i \in Inputs :
                  route.name = DelegateTool[t] /\ DelegateTo(c, t, d, i)
             \/ /\ route.name # SpawnTool /\ \A t \in Team : route.name # DelegateTool[t]
                /\ Invoke(c, route.name)
  BY DEF Execute
<1>3. agent[r] \in DOMAIN Agent
  BY <1>1 DEF IInv, ForestInv, Active
<1>4. /\ route.name \in AnyTool
      /\ \A t \in Team : route.name = DelegateTool[t] => r = t
  BY <1>1, <1>3, OfferedTools
<1>5. Admits(AgentOf(r).trust, route) => route.name \in Granted(AgentOf(r))
  BY TrustPath
<1>. QED
  BY <1>1, <1>2, <1>4, <1>5 DEF Lets

(* A step that leaves holders and waiters where they are.                  *)
LEMMA SemaphoreStays ==
  ASSUME IInv, TypeOK', UNCHANGED <<chosen, permits, queue>>,
         \A r \in Run :
           /\ run'[r] # "idle" => (Fanned(r)' <=> Fanned(r))
           /\ run'[r] = "queued" <=> run[r] = "queued"
           /\ Fanned(r) => (run'[r] \in {"ready", "dispatched", "running"} <=>
                            run[r] \in {"ready", "dispatched", "running"})
  PROVE  PermitsExact'
<1>1. Semaphore(run, permits, queue) /\ setting' = setting
  BY SemaphoreNow DEF IInv, setting
<1>2. HoldersIn(run') = HoldersIn(run)
  BY DEF HoldersIn
<1>3. {r \in Run : run'[r] = "queued"} = {r \in Run : run[r] = "queued"}
  OBVIOUS
<1>4. Cardinality(HoldersIn(run')) = Cardinality(HoldersIn(run))
  BY <1>2, Zenon
<1>5. Semaphore(run', permits', queue')
  BY <1>1, <1>3, <1>4 DEF Semaphore
<1>. QED
  BY <1>1, <1>5, SemaphoreThen DEF IInv

(* Runs that start, are dispatched or are built.                           *)
Begins(r) ==
  \/ \E a \in Boss : StartRun(r, a)
  \/ StartTeam(r)
  \/ Dispatch(r)
  \/ /\ run[r] = "dispatched" /\ run' = [run EXCEPT ![r] = "running"]
     /\ UNCHANGED <<chosen, registry, agent, call, permits, queue, rounds, history, seen>>

(* A run begins: nobody gets or loses a permit.                            *)
LEMMA BeginKeeps ==
  ASSUME IInv, NEW r \in Run, Begins(r)
  PROVE  IInv'
<1>1. /\ UNCHANGED <<chosen, call, permits, queue, rounds, history>>
      /\ \/ /\ r \in setting.roots /\ run[r] = "idle" /\ UNCHANGED seen
            /\ run' = [run EXCEPT ![r] = "dispatched"]
            /\ \E a \in DOMAIN Agent : /\ agent' = [agent EXCEPT ![r] = a]
                                       /\ r \in Team => a = Coordinator
         \/ /\ run[r] = "ready"
            /\ run' = [run EXCEPT ![r] = "dispatched"]
            /\ agent' = [agent EXCEPT ![r] = IF Fanned(r) THEN Template
                                             ELSE call[Caller[r]].target]
            /\ seen' = IF Fanned(r) THEN seen
                       ELSE [seen EXCEPT ![r] =
                               Prepared(Owner[Caller[r]], call[Caller[r]].target)]
         \/ /\ run[r] = "dispatched" /\ run' = [run EXCEPT ![r] = "running"]
            /\ UNCHANGED <<agent, seen>>
  BY AgentsAssumption DEF AgentsAssumption, Begins, StartRun, StartTeam, Dispatch
<1>2. run[r] = "ready" => Caller[r] # NoCall /\ (Fanned(r) \/ Delegated(r)) /\ r \notin Team
  BY ToolsAssumption DEF IInv, ForestInv, ToolsAssumption
<1>3. r \in setting.roots => Caller[r] = NoCall
  BY ToolsAssumption DEF ToolsAssumption, IInv, TypeOK, setting
<1>4. run' \in [Run -> RunState] /\ agent' \in [Run -> DOMAIN Agent \cup {NoAgent}]
  BY <1>1, <1>2, AgentsAssumption DEF AgentsAssumption, IInv, TypeOK, RunState, Delegated
<1>5. seen' \in [Run -> Seq(Line)]
  <2>1. CASE seen' = seen
    BY <2>1 DEF IInv, TypeOK
  <2>2. CASE seen' # seen
    <3>1. /\ Delegated(r)
          /\ seen' = [seen EXCEPT ![r] = Prepared(Owner[Caller[r]], call[Caller[r]].target)]
      BY <1>1, <1>2, <2>2
    <3>2. Prepared(Owner[Caller[r]], call[Caller[r]].target) \in Seq(Line)
      BY <3>1 DEF IInv, TypeOK, Prepared, Delegated
    <3>. QED
      BY <3>1, <3>2 DEF IInv, TypeOK
  <2>. QED
    BY <2>1, <2>2
<1>6. TypeOK'
  BY <1>1, <1>4, <1>5 DEF IInv, TypeOK
<1>7. \A x \in Run : (Fanned(x)' <=> Fanned(x)) /\ (Delegated(x)' <=> Delegated(x))
  BY <1>1 DEF Fanned, Delegated
<1>8. \A x \in Run \ {r} : run'[x] = run[x] /\ agent'[x] = agent[x]
  BY <1>1 DEF IInv, TypeOK
<1>9. /\ run'[r] \in {"dispatched", "running"}
      /\ run[r] \in {"idle", "ready", "dispatched"}
      /\ Fanned(r) => run[r] # "idle"
  BY <1>1, <1>3 DEF IInv, TypeOK, Fanned
<1>10. PermitsExact'
  <2>1. \A x \in Run :
          /\ run'[x] # "idle" => (Fanned(x)' <=> Fanned(x))
          /\ run'[x] = "queued" <=> run[x] = "queued"
          /\ Fanned(x) => (run'[x] \in {"ready", "dispatched", "running"} <=>
                           run[x] \in {"ready", "dispatched", "running"})
    BY <1>7, <1>8, <1>9
  <2>. QED
    BY <1>1, <1>6, <2>1, SemaphoreStays
<1>11. agent'[r] \in DOMAIN Agent /\ (r \in Team => agent'[r] = Coordinator)
  BY <1>1, <1>2, AgentsAssumption
  DEF AgentsAssumption, IInv, TypeOK, ForestInv, Active, Delegated
<1>12. ForestInv'
  <2>1. ASSUME NEW x \in Run
        PROVE  /\ Caller[x] = NoCall => run'[x] \notin {"queued", "ready"}
               /\ Caller[x] # NoCall /\ run'[x] # "idle" =>
                    /\ call[Caller[x]].st \notin {"new", "refused"}
                    /\ Fanned(x) \/ Delegated(x)
               /\ run'[x] = "queued" => Fanned(x)
               /\ run'[x] \in {"dispatched", "running"} => agent'[x] \in DOMAIN Agent
               /\ x \in Team /\ run'[x] # "idle" => agent'[x] = Coordinator
    <3>1. CASE x = r
      BY <3>1, <1>1, <1>2, <1>3, <1>9, <1>11 DEF IInv, ForestInv
    <3>2. CASE x # r
      BY <3>2, <1>8 DEF IInv, ForestInv, Active
    <3>. QED
      BY <3>1, <3>2
  <2>2. ASSUME NEW c \in Call, call[c].st # "new"
        PROVE  run'[Owner[c]] \in {"running"} \cup Over /\ agent'[Owner[c]] \in DOMAIN Agent
    BY <2>2, <1>8, <1>9, ToolsAssumption DEF IInv, ForestInv, Over, ToolsAssumption
  <2>. QED
    BY <1>1, <1>7, <2>1, <2>2 DEF ForestInv, Active
<1>. QED
  BY <1>6, <1>10, <1>12 DEF IInv

(* Calls that are refused, start nothing, or are over; a tool that goes.   *)
LEMMA QuietKeeps ==
  ASSUME IInv, NEW c \in Call, call' \in [Call -> CallRecord],
         UNCHANGED <<chosen, run, agent, permits, queue, rounds, seen>>,
         history' \in [Team -> [Delegate -> Seq(Line)]],
         \A d \in Call \ {c} : call'[d] = call[d],
         \/ /\ call[c].st = "new" /\ run[Owner[c]] = "running"
         \/ /\ call[c].st \notin {"new", "refused"} /\ call'[c].st \notin {"new", "refused"}
            /\ call'[c].tool = call[c].tool /\ call'[c].target = call[c].target
  PROVE  IInv'
<1>1. TypeOK'
  BY DEF IInv, TypeOK, CallRecord
<1>2. \A x \in Run : run[x] # "idle" => /\ Fanned(x)' <=> Fanned(x)
                                        /\ Delegated(x)' <=> Delegated(x)
  <2>. SUFFICES ASSUME NEW x \in Run, run[x] # "idle"
                PROVE  (Fanned(x)' <=> Fanned(x)) /\ (Delegated(x)' <=> Delegated(x))
    OBVIOUS
  <2>1. Caller[x] = NoCall \/ Caller[x] \in Call
    BY ToolsAssumption DEF ToolsAssumption
  <2>2. CASE Caller[x] = NoCall
    BY <2>2 DEF Fanned, Delegated
  <2>3. CASE Caller[x] # NoCall
    <3>1. call[Caller[x]].st \notin {"new", "refused"}
      BY <2>3 DEF IInv, ForestInv
    <3>2. /\ call'[Caller[x]].tool = call[Caller[x]].tool
          /\ call'[Caller[x]].target = call[Caller[x]].target
      BY <2>1, <2>3, <3>1
    <3>. QED
      BY <3>2 DEF Fanned, Delegated
  <2>. QED
    BY <2>2, <2>3
<1>3. PermitsExact'
  <2>1. Semaphore(run, permits, queue) /\ setting' = setting
    BY SemaphoreNow DEF IInv, setting
  <2>2. \A x \in Run : Fanned(x) /\ run[x] = "idle" => run'[x] = "idle"
    OBVIOUS
  <2>3. Semaphore(run', permits', queue')
    BY <2>1 DEF Semaphore, HoldersIn
  <2>. QED
    BY <1>1, <1>2, <2>1, <2>3, SemaphoreThen DEF IInv
<1>4. ForestInv'
  <2>1. ASSUME NEW x \in Run
        PROVE  /\ Caller[x] = NoCall => run'[x] \notin {"queued", "ready"}
               /\ Caller[x] # NoCall /\ run'[x] # "idle" =>
                    /\ call'[Caller[x]].st \notin {"new", "refused"}
                    /\ Fanned(x)' \/ Delegated(x)'
               /\ run'[x] = "queued" => Fanned(x)'
               /\ run'[x] \in {"dispatched", "running"} => agent'[x] \in DOMAIN Agent
               /\ x \in Team /\ run'[x] # "idle" => agent'[x] = Coordinator
    <3>1. Caller[x] # NoCall /\ run[x] # "idle" => call'[Caller[x]].st \notin {"new", "refused"}
      BY ToolsAssumption DEF IInv, ForestInv, ToolsAssumption
    <3>. QED
      BY <1>2, <3>1 DEF IInv, ForestInv, Active
  <2>2. ASSUME NEW d \in Call, call'[d].st # "new"
        PROVE  run'[Owner[d]] \in {"running"} \cup Over /\ agent'[Owner[d]] \in DOMAIN Agent
    <3>1. CASE call[d].st # "new"
      BY <3>1 DEF IInv, ForestInv
    <3>2. CASE call[d].st = "new"
      BY <2>2, <3>2, ToolsAssumption DEF IInv, ForestInv, Active, ToolsAssumption
    <3>. QED
      BY <3>1, <3>2
  <2>. QED
    BY <2>1, <2>2 DEF ForestInv, Active
<1>. QED
  BY <1>1, <1>3, <1>4 DEF IInv

(* Refused calls, and tools that start no run.                             *)
LEMMA RecordKeeps ==
  ASSUME IInv, NEW c \in Call, NEW n \in AnyTool, Refuse(c, n) \/ Invoke(c, n),
         call[c].st = "new", run[Owner[c]] = "running"
  PROVE  IInv'
<1>1. call' \in [Call -> CallRecord]
  <2>1. \A st \in {"refused", "executing"} :
          [st |-> st, tool |-> n, uses |-> <<>>, target |-> NoAgent] \in CallRecord
    BY DEF CallRecord, CallState
  <2>. QED
    BY <2>1 DEF IInv, TypeOK, Refuse, Invoke, Record
<1>2. \A d \in Call \ {c} : call'[d] = call[d]
  BY DEF IInv, TypeOK, Refuse, Invoke, Record
<1>. QED
  BY <1>1, <1>2, QuietKeeps DEF IInv, TypeOK, Refuse, Invoke

(* A call comes back, or its tool raises.                                  *)
LEMMA FinishKeeps ==
  ASSUME IInv, NEW c \in Call, Finish(c) \/ Raise(c)
  PROVE  IInv'
<1>1. /\ call[c].st = "executing"
      /\ \E st \in {"returned", "failed"} : call' = [call EXCEPT ![c].st = st]
      /\ UNCHANGED <<chosen, registry, run, agent, permits, queue, rounds, seen>>
      /\ \/ history' = history
         \/ history' = [history EXCEPT ![Owner[c]][call[c].target] = @ \o Exchange(c)]
  BY DEF Finish, Raise, Executing
<1>2. call' \in [Call -> CallRecord]
  <2>1. \A st \in {"returned", "failed"} : [call[c] EXCEPT !.st = st] \in CallRecord
    BY DEF IInv, TypeOK, CallRecord, CallState
  <2>. QED
    BY <1>1, <2>1 DEF IInv, TypeOK
<1>3. /\ \A d \in Call \ {c} : call'[d] = call[d]
      /\ call'[c].st \in {"returned", "failed"}
      /\ call'[c].tool = call[c].tool /\ call'[c].target = call[c].target
  BY <1>1 DEF IInv, TypeOK, CallRecord
<1>4. history' \in [Team -> [Delegate -> Seq(Line)]]
  <2>1. CASE history' = history
    BY <2>1 DEF IInv, TypeOK
  <2>2. CASE history' = [history EXCEPT ![Owner[c]][call[c].target] = @ \o Exchange(c)]
    <3>1. Exchange(c) \in Seq(Line)
      BY DEF Exchange, Line
    <3>2. \A t \in Team, d \in Delegate : history[t][d] \o Exchange(c) \in Seq(Line)
      BY <3>1 DEF IInv, TypeOK
    <3>. HIDE DEF Exchange
    <3>. QED
      BY <2>2, <3>2 DEF IInv, TypeOK
  <2>. QED
    BY <1>1, <2>1, <2>2
<1>. QED
  BY <1>1, <1>2, <1>3, <1>4, QuietKeeps

(* The children of a fan-out take the free permits in order, the others    *)
(* queue behind those who wait already.                                    *)
LEMMA FanOutKeeps ==
  ASSUME IInv, NEW c \in Call, NEW n \in 0..Len(Slots[c]), FanOut(c, n),
         call[c].st = "new", run[Owner[c]] = "running"
  PROVE  IInv'
<1>. DEFINE uses   == SubSeq(Slots[c], 1, n)
            passed == IF permits < n THEN permits ELSE n
            first  == {uses[i] : i \in 1..passed}
            rest   == SubSeq(uses, passed + 1, n)
            mine   == {r \in Run : Caller[r] = c}
<1>1. /\ call' = [call EXCEPT ![c] = [st |-> "executing", tool |-> SpawnTool,
                                      uses |-> uses, target |-> NoAgent]]
      /\ run' = [x \in Run |-> IF x \notin ToSet(uses) THEN run[x]
                               ELSE IF x \in ToSet(SubSeq(uses, 1, passed))
                                    THEN "ready" ELSE "queued"]
      /\ queue' = queue \o rest
      /\ permits' = permits - passed
      /\ UNCHANGED <<chosen, registry, agent, rounds, history, seen>>
  BY DEF FanOut, Record
<1>2. /\ Slots[c] \in Seq(Run) /\ IsInjective(Slots[c]) /\ ToSet(Slots[c]) = mine
      /\ mine \subseteq Run /\ c # NoCall
  BY ToolsAssumption DEF ToolsAssumption
<1>3. /\ uses \in Seq(Run) /\ Len(uses) = n /\ IsInjective(uses) /\ ToSet(uses) \subseteq mine
  <2>1. /\ uses \in Seq(Run) /\ Len(uses) = n /\ n <= Len(Slots[c]) /\ n \in Nat
        /\ \A i \in 1..n : uses[i] = Slots[c][i] /\ i \in 1..Len(Slots[c])
    BY <1>2
  <2>2. DOMAIN uses = 1..n /\ DOMAIN Slots[c] = 1..Len(Slots[c])
    BY <1>2, <2>1
  <2>. HIDE DEF uses
  <2>. QED
    BY <1>2, <2>1, <2>2 DEF IsInjective, ToSet
<1>4. permits \in Nat /\ passed \in 0..n /\ passed <= permits
      /\ (passed < n => passed = permits)
  BY DEF IInv, TypeOK
<1>. HIDE DEF uses, passed
<1>5. /\ IsFiniteSet(first) /\ Cardinality(first) = passed /\ first \subseteq ToSet(uses)
      /\ rest \in Seq(Run) /\ IsInjective(rest) /\ ToSet(rest) = ToSet(uses) \ first
      /\ rest # <<>> => passed < n
  <2>1. rest = SubSeq(uses, passed + 1, Len(uses)) /\ passed \in 0..Len(uses)
    BY <1>3, <1>4
  <2>. HIDE DEF rest
  <2>2. LET f == {uses[i] : i \in 1..passed}
            v == SubSeq(uses, passed + 1, Len(uses))
        IN  /\ IsFiniteSet(f) /\ Cardinality(f) = passed /\ f \subseteq ToSet(uses)
            /\ v \in Seq(Run) /\ IsInjective(v) /\ ToSet(v) = ToSet(uses) \ f
            /\ v # <<>> => passed < Len(uses)
    BY <1>3, <2>1, FirstAndRest
  <2>. QED
    BY <1>3, <2>1, <2>2
<1>6. ToSet(SubSeq(uses, 1, passed)) = first
  <2>1. /\ DOMAIN SubSeq(uses, 1, passed) = 1..passed
        /\ \A i \in 1..passed : SubSeq(uses, 1, passed)[i] = uses[i]
    BY <1>3, <1>4
  <2>. QED
    BY <2>1 DEF ToSet
<1>. HIDE DEF first, rest
<1>7. \A x \in mine : run[x] = "idle"
  BY <1>2 DEF IInv, ForestInv, mine
<1>8. /\ \A x \in first : run'[x] = "ready"
      /\ \A x \in ToSet(uses) \ first : run'[x] = "queued"
      /\ \A x \in Run \ ToSet(uses) : run'[x] = run[x]
      /\ run' \in [Run -> RunState]
  BY <1>1, <1>2, <1>3, <1>5, <1>6 DEF IInv, TypeOK, RunState
<1>9. TypeOK'
  <2>1. [st |-> "executing", tool |-> SpawnTool, uses |-> uses, target |-> NoAgent]
          \in CallRecord
    BY <1>3 DEF CallRecord, CallState, AnyTool
  <2>2. permits' \in Nat /\ queue' \in Seq(Run)
    BY <1>1, <1>4, <1>5 DEF IInv, TypeOK
  <2>. QED
    BY <1>1, <1>8, <2>1, <2>2 DEF IInv, TypeOK
<1>10. /\ \A x \in mine : Fanned(x)'
       /\ \A x \in Run \ mine : (Fanned(x)' <=> Fanned(x)) /\ (Delegated(x)' <=> Delegated(x))
  BY <1>1, <1>2 DEF IInv, TypeOK, Fanned, Delegated, mine
<1>11. Semaphore(run, permits, queue) /\ setting' = setting
  BY <1>1, SemaphoreNow DEF IInv, setting
<1>. DEFINE H == {r \in Run : Fanned(r)' /\ run'[r] \in {"ready", "dispatched", "running"}}
<1>12. H = HoldersIn(run) \cup first /\ HoldersIn(run) \cap first = {}
  <2>1. \A x \in ToSet(uses) : x \in mine /\ x \notin HoldersIn(run)
    BY <1>3, <1>7 DEF HoldersIn
  <2>2. \A x \in first : x \in H /\ x \notin HoldersIn(run)
    BY <1>2, <1>3, <1>5, <1>8, <1>10, <2>1
  <2>3. \A x \in ToSet(uses) \ first : x \notin H
    BY <1>8
  <2>4. \A x \in Run \ ToSet(uses) : x \in H <=> x \in HoldersIn(run)
    BY <1>7, <1>8, <1>10 DEF HoldersIn
  <2>5. H \subseteq Run /\ HoldersIn(run) \subseteq Run
    BY DEF HoldersIn
  <2>. HIDE DEF H
  <2>. QED
    BY <1>2, <1>3, <1>5, <2>1, <2>2, <2>3, <2>4, <2>5
<1>13. Cardinality(H) = Cardinality(HoldersIn(run)) + passed
  <2>1. IsFiniteSet(HoldersIn(run)) /\ Cardinality(HoldersIn(run)) \in Nat
    <3>1. HoldersIn(run) \in SUBSET Run /\ IsFiniteSet(Run)
      BY ToolsAssumption DEF HoldersIn, ToolsAssumption
    <3>. QED
      BY <3>1, FS_Subset, FS_CardinalityType
  <2>2. Cardinality(HoldersIn(run) \cup first)
          = Cardinality(HoldersIn(run)) + Cardinality(first)
            - Cardinality(HoldersIn(run) \cap first)
    BY <1>5, <2>1, FS_Union
  <2>3. Cardinality(HoldersIn(run) \cap first) = 0
    BY <1>12, FS_EmptySet, Zenon
  <2>4. Cardinality(H) = Cardinality(HoldersIn(run) \cup first)
    BY <1>12, Zenon
  <2>5. passed \in Nat
    BY <1>4
  <2>. QED
    BY <1>5, <2>1, <2>2, <2>3, <2>4, <2>5
<1>14. {r \in Run : run'[r] = "queued"} = ToSet(queue')
  <2>1. ToSet(queue') = ToSet(queue) \cup ToSet(rest)
    BY <1>1, <1>5, Joined DEF IInv, TypeOK
  <2>2. ToSet(queue) = {r \in Run : run[r] = "queued"}
    BY <1>11 DEF Semaphore
  <2>3. \A x \in ToSet(uses) : x \in Run /\ run[x] = "idle"
    BY <1>2, <1>3, <1>7
  <2>. QED
    BY <1>5, <1>8, <2>1, <2>2, <2>3
<1>15. IsInjective(queue')
  <2>1. ToSet(queue) \cap ToSet(rest) = {} /\ IsInjective(queue)
    <3>1. \A x \in ToSet(rest) : run[x] = "idle"
      BY <1>3, <1>5, <1>7
    <3>. QED
      BY <1>11, <3>1 DEF Semaphore
  <2>. QED
    BY <1>1, <1>5, <2>1, Joined DEF IInv, TypeOK
<1>16. queue' # <<>> => permits' = 0
  <2>1. CASE queue # <<>>
    <3>1. permits = 0
      BY <1>11, <2>1 DEF Semaphore
    <3>. QED
      BY <1>1, <1>4, <3>1
  <2>2. CASE queue = <<>>
    <3>1. queue' = rest
      BY <1>1, <1>5, <2>2
    <3>. QED
      BY <1>1, <1>4, <1>5, <3>1
  <2>. QED
    BY <2>1, <2>2
<1>17. PermitsExact'
  <2>1. Holders' = H
    BY DEF Holders, Active
  <2>2. Cardinality(Holders') = Cardinality(H)
    BY <2>1, Zenon
  <2>3. permits' + Cardinality(H) = setting'.width
    <3>1. permits + Cardinality(HoldersIn(run)) = setting.width
      BY <1>11 DEF Semaphore
    <3>2. Cardinality(HoldersIn(run)) \in Nat /\ passed \in Nat
      <4>1. HoldersIn(run) \in SUBSET Run /\ IsFiniteSet(Run)
        BY ToolsAssumption DEF HoldersIn, ToolsAssumption
      <4>. QED
        BY <1>4, <4>1, FS_Subset, FS_CardinalityType
    <3>. HIDE DEF H
    <3>. QED
      BY <1>1, <1>4, <1>11, <1>13, <3>1, <3>2
  <2>. QED
    BY <1>9, <1>14, <1>15, <1>16, <2>2, <2>3 DEF PermitsExact, TypeOK
<1>18. ForestInv'
  <2>1. ASSUME NEW x \in Run
        PROVE  /\ Caller[x] = NoCall => run'[x] \notin {"queued", "ready"}
               /\ Caller[x] # NoCall /\ run'[x] # "idle" =>
                    /\ call'[Caller[x]].st \notin {"new", "refused"}
                    /\ Fanned(x)' \/ Delegated(x)'
               /\ run'[x] = "queued" => Fanned(x)'
               /\ run'[x] \in {"dispatched", "running"} => agent'[x] \in DOMAIN Agent
               /\ x \in Team /\ run'[x] # "idle" => agent'[x] = Coordinator
    <3>1. CASE x \in ToSet(uses)
      <4>1. /\ x \in mine /\ Caller[x] = c /\ run'[x] \in {"ready", "queued"}
            /\ call'[c].st = "executing" /\ x \notin Team
        BY <1>1, <1>2, <1>3, <1>8, <3>1, ToolsAssumption
        DEF IInv, TypeOK, ToolsAssumption, mine
      <4>. QED
        BY <1>2, <1>10, <4>1
    <3>2. CASE x \in mine /\ x \notin ToSet(uses)
      <4>1. run'[x] = "idle"
        BY <1>7, <1>8, <3>2
      <4>. QED
        BY <4>1
    <3>3. CASE x \notin mine /\ x \notin ToSet(uses)
      <4>1. run'[x] = run[x]
        BY <1>8, <3>3
      <4>2. Caller[x] # NoCall => Caller[x] \in Call \ {c}
        BY <3>3, ToolsAssumption DEF ToolsAssumption, mine
      <4>3. Caller[x] # NoCall => call'[Caller[x]] = call[Caller[x]]
        BY <1>1, <4>2 DEF IInv, TypeOK
      <4>. QED
        BY <1>1, <1>10, <3>3, <4>1, <4>3 DEF IInv, ForestInv, Active
    <3>. QED
      BY <3>1, <3>2, <3>3
  <2>2. ASSUME NEW d \in Call, call'[d].st # "new"
        PROVE  run'[Owner[d]] \in {"running"} \cup Over /\ agent'[Owner[d]] \in DOMAIN Agent
    <3>1. /\ Owner[d] \in Run /\ run[Owner[d]] \in {"running"} \cup Over
          /\ agent[Owner[d]] \in DOMAIN Agent
      <4>1. CASE d = c
        BY <4>1, ToolsAssumption DEF ToolsAssumption, IInv, ForestInv, Active
      <4>2. CASE d # c
        <5>1. call[d].st # "new"
          BY <1>1, <2>2, <4>2 DEF IInv, TypeOK
        <5>. QED
          BY <5>1, ToolsAssumption DEF ToolsAssumption, IInv, ForestInv
      <4>. QED
        BY <4>1, <4>2
    <3>2. Owner[d] \notin ToSet(uses)
      BY <1>3, <1>7, <3>1 DEF Over
    <3>. QED
      BY <1>1, <1>8, <3>1, <3>2
  <2>. QED
    BY <2>1, <2>2 DEF ForestInv, Active
<1>. QED
  BY <1>9, <1>17, <1>18 DEF IInv

(* A delegation starts the one slot of its call, outside the semaphore.    *)
LEMMA DelegateKeeps ==
  ASSUME IInv, NEW c \in Call, NEW t \in Team, NEW d \in Delegate, NEW i \in Inputs,
         DelegateTo(c, t, d, i), Owner[c] = t, call[c].st = "new", run[Owner[c]] = "running"
  PROVE  IInv'
<1>. DEFINE x0 == Slots[c][1]
            uses == SubSeq(Slots[c], 1, 1)
            mine == {r \in Run : Caller[r] = c}
<1>0. DelegateTool[t] \in AnyTool /\ DelegateTool[t] # SpawnTool
  BY NamesAssumption DEF NamesAssumption, AnyTool
<1>1. CASE Record(c, "failed", DelegateTool[t], <<>>, NoAgent)
           /\ UNCHANGED <<chosen, registry, run, agent, permits, queue, rounds, history, seen>>
  <2>1. [st |-> "failed", tool |-> DelegateTool[t], uses |-> <<>>, target |-> NoAgent]
          \in CallRecord
    BY <1>0 DEF CallRecord, CallState
  <2>2. call' \in [Call -> CallRecord] /\ \A e \in Call \ {c} : call'[e] = call[e]
    BY <1>1, <2>1 DEF Record, IInv, TypeOK
  <2>. QED
    BY <1>1, <2>2, QuietKeeps DEF IInv, TypeOK
<1>2. CASE /\ rounds' = [rounds EXCEPT ![t] = @ + 1]
           /\ Record(c, "executing", DelegateTool[t], uses, d)
           /\ run' = [run EXCEPT ![x0] = "ready"]
           /\ UNCHANGED <<chosen, registry, agent, permits, queue, history, seen>>
  <2>1. /\ Slots[c] \in Seq(Run) /\ x0 \in mine /\ mine \subseteq Run /\ c # NoCall
        /\ uses \in Seq(Run) /\ x0 \notin Team
    BY ToolsAssumption DEF ToolsAssumption, ToSet
  <2>2. \A x \in mine : run[x] = "idle"
    BY <2>1 DEF IInv, ForestInv, mine
  <2>. HIDE DEF uses, x0
  <2>3. /\ call'[c] = [st |-> "executing", tool |-> DelegateTool[t], uses |-> uses, target |-> d]
        /\ call'[c] \in CallRecord
        /\ \A e \in Call \ {c} : call'[e] = call[e]
    BY <1>0, <1>2, <2>1 DEF Record, CallRecord, CallState, IInv, TypeOK
  <2>4. /\ run' \in [Run -> RunState] /\ run'[x0] = "ready"
        /\ \A x \in Run \ {x0} : run'[x] = run[x]
    BY <1>2, <2>1 DEF IInv, TypeOK, RunState
  <2>5. TypeOK'
    <3>1. call' \in [Call -> CallRecord]
      BY <1>2, <2>3 DEF Record, IInv, TypeOK
    <3>2. rounds' \in [Team -> Nat]
      BY <1>2 DEF IInv, TypeOK
    <3>. QED
      BY <1>2, <2>4, <3>1, <3>2 DEF IInv, TypeOK
  <2>6. /\ \A x \in mine : ~Fanned(x)' /\ Delegated(x)'
        /\ \A x \in Run \ mine : (Fanned(x)' <=> Fanned(x)) /\ (Delegated(x)' <=> Delegated(x))
    <3>1. \A x \in mine : Caller[x] = c
      OBVIOUS
    <3>2. \A x \in Run \ mine : Caller[x] = NoCall \/ Caller[x] \in Call \ {c}
      BY ToolsAssumption DEF ToolsAssumption
    <3>. HIDE DEF mine
    <3>. QED
      BY <1>0, <2>1, <2>3, <3>1, <3>2 DEF Fanned, Delegated
  <2>. HIDE DEF mine
  <2>7. PermitsExact'
    <3>1. Semaphore(run, permits, queue) /\ setting' = setting
      BY <1>2, SemaphoreNow DEF IInv, setting
    <3>. DEFINE H == {r \in Run : Fanned(r)' /\ run'[r] \in {"ready", "dispatched", "running"}}
    <3>2. H = HoldersIn(run)
      BY <2>1, <2>2, <2>4, <2>6 DEF HoldersIn
    <3>3. Cardinality(Holders') = Cardinality(HoldersIn(run))
      <4>1. Holders' = H
        BY DEF Holders, Active
      <4>. QED
        BY <3>2, <4>1, Zenon
    <3>4. {r \in Run : run'[r] = "queued"} = {r \in Run : run[r] = "queued"}
      BY <2>1, <2>2, <2>4
    <3>. QED
      BY <1>2, <2>5, <3>1, <3>3, <3>4 DEF Semaphore, PermitsExact, TypeOK
  <2>8. ForestInv'
    <3>1. ASSUME NEW x \in Run
          PROVE  /\ Caller[x] = NoCall => run'[x] \notin {"queued", "ready"}
                 /\ Caller[x] # NoCall /\ run'[x] # "idle" =>
                      /\ call'[Caller[x]].st \notin {"new", "refused"}
                      /\ Fanned(x)' \/ Delegated(x)'
                 /\ run'[x] = "queued" => Fanned(x)'
                 /\ run'[x] \in {"dispatched", "running"} => agent'[x] \in DOMAIN Agent
                 /\ x \in Team /\ run'[x] # "idle" => agent'[x] = Coordinator
      <4>1. CASE x = x0
        <5>1. Caller[x] = c /\ call'[c].st = "executing"
          BY <2>1, <2>3, <4>1 DEF mine
        <5>. QED
          BY <2>1, <2>4, <2>6, <4>1, <5>1
      <4>2. CASE x \in mine /\ x # x0
        <5>1. run'[x] = "idle"
          BY <2>1, <2>2, <2>4, <4>2
        <5>. QED
          BY <5>1
      <4>3. CASE x \notin mine /\ x # x0
        <5>1. run'[x] = run[x]
          BY <2>4, <4>3
        <5>2. Caller[x] # NoCall => call'[Caller[x]] = call[Caller[x]]
          BY <2>3, <4>3, ToolsAssumption DEF ToolsAssumption, mine
        <5>. QED
          BY <1>2, <2>6, <4>3, <5>1, <5>2 DEF IInv, ForestInv, Active
      <4>. QED
        BY <4>1, <4>2, <4>3
    <3>2. ASSUME NEW e \in Call, call'[e].st # "new"
          PROVE  run'[Owner[e]] \in {"running"} \cup Over /\ agent'[Owner[e]] \in DOMAIN Agent
      <4>1. /\ Owner[e] \in Run /\ run[Owner[e]] \in {"running"} \cup Over
            /\ agent[Owner[e]] \in DOMAIN Agent
        <5>1. CASE e = c
          BY <5>1, ToolsAssumption DEF ToolsAssumption, IInv, ForestInv, Active
        <5>2. CASE e # c
          BY <2>3, <3>2, <5>2, ToolsAssumption DEF ToolsAssumption, IInv, ForestInv
        <5>. QED
          BY <5>1, <5>2
      <4>2. Owner[e] # x0
        BY <2>1, <2>2, <4>1 DEF Over
      <4>. QED
        BY <1>2, <2>4, <4>1, <4>2
    <3>. QED
      BY <3>1, <3>2 DEF ForestInv, Active
  <2>. QED
    BY <2>5, <2>7, <2>8 DEF IInv
<1>. QED
  BY <1>1, <1>2 DEF DelegateTo

(* The kinds of steps that the system takes.                               *)
LEMMA NextCases ==
  ASSUME IInv, Next
  PROVE  \/ \E gone \in SUBSET Run : \E outcome : EndTogether(gone, outcome)
         \/ \E r \in Run : Begins(r)
         \/ \E c \in Call : /\ run[Owner[c]] = "running" /\ call[c].st = "new"
                           /\ \E n \in AnyTool : Refuse(c, n) \/ Lets(c, n)
         \/ \E c \in Call : Finish(c) \/ Raise(c)
         \/ \E n \in Removable : Unregister(n)
<1>1. ASSUME NEW r \in Run,
             \/ \E a \in Boss : StartRun(r, a)
             \/ StartTeam(r) \/ Dispatch(r)
      PROVE  Begins(r)
  BY <1>1 DEF Begins
<1>2. ASSUME NEW r \in Run, Build(r) PROVE Begins(r) \/ EndOf(r)
  BY <1>2 DEF Build, Begins, EndOf, Live, Active, Over
<1>3. ASSUME NEW r \in Run,
             DispatchFails(r) \/ Complete(r) \/ Fail(r) \/ TimeOut(r) \/ CancelRoot(r)
      PROVE  EndOf(r)
  BY <1>3 DEF DispatchFails, Complete, Fail, TimeOut, CancelRoot, EndOf, Live, Active, Over
<1>4. ASSUME NEW r \in Run, EndOf(r)
      PROVE  \E gone \in SUBSET Run : \E outcome : EndTogether(gone, outcome)
  BY <1>4, EndOfCases DEF IInv
<1>5. ASSUME NEW c \in Call, Execute(c)
      PROVE  /\ run[Owner[c]] = "running" /\ call[c].st = "new"
             /\ \E n \in AnyTool : Refuse(c, n) \/ Lets(c, n)
  BY <1>5, ExecuteCases
<1>. QED
  BY <1>1, <1>2, <1>3, <1>4, <1>5 DEF Next

(* The invariant, over all steps.                                          *)
LEMMA NextKeeps ==
  ASSUME IInv, [Next]_vars
  PROVE  IInv'
<1>1. CASE UNCHANGED vars
  <2>1. TypeOK'
    BY <1>1 DEF vars, IInv, TypeOK
  <2>2. ForestInv'
    BY <1>1 DEF vars, IInv, ForestInv, Fanned, Delegated, Active
  <2>3. PermitsExact'
    BY <1>1 DEF vars, IInv, PermitsExact, Holders, Fanned, Active, setting
  <2>. QED
    BY <2>1, <2>2, <2>3 DEF IInv
<1>2. ASSUME NEW gone \in SUBSET Run, NEW outcome, EndTogether(gone, outcome) PROVE IInv'
  BY <1>2, EndsKeep
<1>3. ASSUME NEW r \in Run, Begins(r) PROVE IInv'
  BY <1>3, BeginKeeps
<1>4. ASSUME NEW c \in Call, run[Owner[c]] = "running", call[c].st = "new",
             NEW n \in AnyTool, Refuse(c, n) \/ Lets(c, n)
      PROVE  IInv'
  BY <1>4, RecordKeeps, FanOutKeeps, DelegateKeeps DEF Lets
<1>5. ASSUME NEW c \in Call, Finish(c) \/ Raise(c) PROVE IInv'
  BY <1>5, FinishKeeps
<1>6. ASSUME NEW n \in Removable, Unregister(n) PROVE IInv'
  <2>1. UNCHANGED <<chosen, run, agent, call, permits, queue, rounds, history, seen>>
    BY <1>6 DEF Unregister
  <2>2. TypeOK'
    BY <2>1 DEF IInv, TypeOK
  <2>3. ForestInv'
    BY <2>1 DEF IInv, ForestInv, Fanned, Delegated, Active
  <2>4. PermitsExact'
    BY <2>1 DEF IInv, PermitsExact, Holders, Fanned, Active, setting
  <2>. QED
    BY <2>2, <2>3, <2>4 DEF IInv
<1>7. CASE Next
  BY <1>2, <1>3, <1>4, <1>5, <1>6, <1>7, NextCases
<1>. QED
  BY <1>1, <1>7

(* Nothing has begun: the semaphore is full, nobody waits.                 *)
LEMMA StartsRight == Init => IInv
<1>. SUFFICES ASSUME Init PROVE IInv
  OBVIOUS
<1>1. /\ chosen \in DOMAIN Settings
      /\ run = [r \in Run |-> "idle"] /\ agent = [r \in Run |-> NoAgent]
      /\ call = [c \in Call |-> NotMade] /\ permits = setting.width /\ queue = <<>>
      /\ rounds = [t \in Team |-> 0] /\ history = [t \in Team |-> [d \in Delegate |-> <<>>]]
      /\ seen = [r \in Run |-> <<>>]
  BY DEF Init
<1>2. permits \in Nat
  BY <1>1, ToolsAssumption DEF ToolsAssumption, setting
<1>3. NotMade \in CallRecord
  BY DEF NotMade, CallRecord, CallState, AnyTool
<1>4. TypeOK
  BY <1>1, <1>2, <1>3 DEF TypeOK, RunState
<1>5. ForestInv
  BY <1>1, ToolsAssumption DEF ForestInv, Active, NotMade, ToolsAssumption
<1>6. PermitsExact
  <2>1. HoldersIn(run) = {}
    BY <1>1 DEF HoldersIn
  <2>2. Cardinality(HoldersIn(run)) = 0
    BY <2>1, FS_EmptySet, Zenon
  <2>3. ToSet(queue) = {} /\ IsInjective(queue)
    BY <1>1 DEF ToSet, IsInjective
  <2>4. Semaphore(run, permits, queue)
    BY <1>1, <1>2, <2>2, <2>3 DEF Semaphore
  <2>. QED
    BY <1>4, <2>4, SemaphoreNow
<1>. QED
  BY <1>4, <1>5, <1>6 DEF IInv

(* In every reachable state the forest of runs and calls is well typed and *)
(* its pieces agree: who started a run, who made a call, and who holds a   *)
(* permit or waits for one.                                                *)
THEOREM ToolsInvariant == Spec => []IInv
<1>1. IInv /\ [Next]_vars => IInv'
  BY NextKeeps
<1>. QED
  BY StartsRight, <1>1, PTL DEF Spec

(* The semaphore of the fan-out tool is exact in every reachable state,    *)
(* whatever forest of runs and calls the models make and however runs end: *)
(* no permit is lost or made, none is idle while a child waits, and no     *)
(* child waits twice or unknown to the semaphore.                          *)
THEOREM PermitsCorrect == Spec => []PermitsExact
<1>1. IInv => PermitsExact
  BY DEF IInv
<1>. QED
  BY ToolsInvariant, <1>1, PTL
-----------------------------------------------------------------------------
(* Trust.                                                                  *)

(* A step keeps what TrustHolds says if calls only get tools they were     *)
(* granted, agents stay, and the registry follows the team runs.           *)
LEMMA TrustStays ==
  ASSUME IInv, TrustHolds,
         \A c \in Call :
           \/ call'[c].st \in {"new", "refused"}
           \/ Made(c) /\ call'[c].tool = call[c].tool
           \/ /\ call[c].st = "new" /\ run[Owner[c]] = "running"
              /\ call'[c].tool \in Granted(AgentOf(Owner[c]))
              /\ \A t \in Team : call'[c].tool = DelegateTool[t] => Owner[c] = t,
         \A r \in Run : run[r] \in {"running"} \cup Over => agent'[r] = agent[r],
         \A t \in Team : DelegateTool[t] \in registry' <=> run'[t] \in {"dispatched", "running"}
  PROVE  TrustHolds'
<1>1. ASSUME NEW c \in Call, call'[c].st \notin {"new", "refused"}
      PROVE  /\ call'[c].tool \in Granted(AgentOf(Owner[c])')
             /\ \A t \in Team : call'[c].tool = DelegateTool[t] => Owner[c] = t
  <2>1. Owner[c] \in Run /\ run[Owner[c]] \in {"running"} \cup Over
    BY <1>1, ToolsAssumption DEF IInv, ForestInv, Made, ToolsAssumption
  <2>2. AgentOf(Owner[c])' = AgentOf(Owner[c])
    BY <2>1 DEF AgentOf
  <2>3. /\ call'[c].tool \in Granted(AgentOf(Owner[c]))
        /\ \A t \in Team : call'[c].tool = DelegateTool[t] => Owner[c] = t
    BY <1>1 DEF TrustHolds, Made
  <2>. QED
    BY <2>2, <2>3
<1>. QED
  BY <1>1 DEF TrustHolds, Made, Active

(* Trust, over all steps.                                                  *)
LEMMA TrustKeeps ==
  ASSUME IInv, TrustHolds, [Next]_vars
  PROVE  TrustHolds'
<1>0. \A t \in Team : t \in Run /\ Caller[t] = NoCall /\ run[t] \notin {"queued", "ready"}
  BY ToolsAssumption DEF ToolsAssumption, IInv, ForestInv
<1>r. \A t \in Team : DelegateTool[t] \in registry <=> run[t] \in {"dispatched", "running"}
  BY DEF TrustHolds, Active
<1>n. \A t, u \in Team : DelegateTool[t] = DelegateTool[u] => t = u
  BY NamesAssumption DEF NamesAssumption
<1>1. CASE UNCHANGED vars
  <2>1. UNCHANGED <<registry, run, agent, call>>
    BY <1>1 DEF vars
  <2>. QED
    BY <2>1, <1>r, TrustStays DEF Made
<1>2. ASSUME NEW gone \in SUBSET Run, NEW outcome, EndTogether(gone, outcome) PROVE TrustHolds'
  <2>1. /\ CallsStand /\ agent' = agent
        /\ \A x \in gone : outcome[x] \in Over /\ run'[x] = outcome[x]
        /\ \A x \in Run \ gone :
             run'[x] = run[x] \/ (run[x] = "queued" /\ run'[x] = "ready")
        /\ registry' = registry \ {DelegateTool[x] : x \in gone \cap Team}
    <3>1. TypeOK /\ ForestInv /\ PermitsExact
      BY DEF IInv
    <3>2. Unwind(gone, outcome) /\ \A x \in gone : outcome[x] \in Over
      BY <1>2 DEF EndTogether
    <3>3. Unwound(gone, outcome)
      BY <3>1, <3>2, UnwindKeeps
    <3>. QED
      BY <1>2, <3>2, <3>3 DEF EndTogether, Unwound
  <2>2. ASSUME NEW t \in Team
        PROVE  DelegateTool[t] \in registry' <=> run'[t] \in {"dispatched", "running"}
    <3>1. CASE t \in gone
      BY <2>1, <3>1 DEF Over
    <3>2. CASE t \notin gone
      <4>1. run'[t] = run[t]
        BY <1>0, <2>1, <3>2
      <4>2. DelegateTool[t] \notin {DelegateTool[x] : x \in gone \cap Team}
        BY <1>n, <3>2
      <4>. QED
        BY <1>r, <2>1, <4>1, <4>2
    <3>. QED
      BY <3>1, <3>2
  <2>3. \A c \in Call : \/ call'[c].st \in {"new", "refused"}
                        \/ Made(c) /\ call'[c].tool = call[c].tool
    BY <2>1 DEF CallsStand, Made
  <2>. QED
    BY <2>1, <2>2, <2>3, TrustStays
<1>3. ASSUME NEW r \in Run, Begins(r) PROVE TrustHolds'
  <2>1. /\ call' = call /\ run[r] \in {"idle", "ready", "dispatched"}
        /\ run' \in [Run -> RunState] /\ run'[r] \in {"dispatched", "running"}
        /\ \A x \in Run \ {r} : run'[x] = run[x] /\ agent'[x] = agent[x]
        /\ IF r \in Team /\ run[r] = "idle"
           THEN registry' = registry \cup {DelegateTool[r]}
           ELSE registry' = registry
    BY <1>0, <1>3 DEF Begins, StartRun, StartTeam, Dispatch, IInv, TypeOK, RunState
  <2>2. \A t \in Team : DelegateTool[t] \in registry' <=> run'[t] \in {"dispatched", "running"}
    BY <1>0, <1>r, <1>n, <2>1
  <2>3. \A x \in Run : run[x] \in {"running"} \cup Over => agent'[x] = agent[x]
    BY <2>1 DEF Over
  <2>. QED
    BY <2>1, <2>2, <2>3, TrustStays DEF Made
<1>4. ASSUME NEW c \in Call, run[Owner[c]] = "running", call[c].st = "new",
             NEW n \in AnyTool, Refuse(c, n) \/ Lets(c, n)
      PROVE  TrustHolds'
  <2>1. /\ registry' = registry /\ agent' = agent
        /\ \A d \in Call \ {c} : call'[d] = call[d]
        /\ \/ call'[c].st = "refused"
           \/ /\ call'[c].tool \in Granted(AgentOf(Owner[c]))
              /\ \A t \in Team : call'[c].tool = DelegateTool[t] => Owner[c] = t
    BY <1>4 DEF Refuse, Lets, FanOut, DelegateTo, Invoke, Record, IInv, TypeOK
  <2>2. \A t \in Team : run'[t] = run[t]
    <3>1. ToSet(Slots[c]) = {r \in Run : Caller[r] = c} /\ c # NoCall
          /\ Slots[c] \in Seq(Run) /\ Len(Slots[c]) > 0
      BY ToolsAssumption DEF ToolsAssumption
    <3>2. CASE run' = run
      BY <3>2
    <3>3. ASSUME NEW k \in 0..Len(Slots[c]), FanOut(c, k) PROVE \A t \in Team : run'[t] = run[t]
      <4>1. \A x \in Run : x \notin ToSet(SubSeq(Slots[c], 1, k)) => run'[x] = run[x]
        BY <3>3 DEF FanOut
      <4>2. ToSet(SubSeq(Slots[c], 1, k)) \subseteq ToSet(Slots[c])
        BY <3>1 DEF ToSet
      <4>. QED
        BY <1>0, <3>1, <4>1, <4>2
    <3>4. ASSUME run' = [run EXCEPT ![Slots[c][1]] = "ready"]
          PROVE  \A t \in Team : run'[t] = run[t]
      <4>1. Slots[c][1] \in ToSet(Slots[c])
        BY <3>1 DEF ToSet
      <4>. QED
        BY <1>0, <3>1, <3>4, <4>1 DEF IInv, TypeOK
    <3>. QED
      BY <1>4, <3>2, <3>3, <3>4 DEF Refuse, Lets, DelegateTo, Invoke
  <2>3. \A d \in Call :
           \/ call'[d].st \in {"new", "refused"}
           \/ Made(d) /\ call'[d].tool = call[d].tool
           \/ /\ call[d].st = "new" /\ run[Owner[d]] = "running"
              /\ call'[d].tool \in Granted(AgentOf(Owner[d]))
              /\ \A t \in Team : call'[d].tool = DelegateTool[t] => Owner[d] = t
    BY <1>4, <2>1 DEF Made
  <2>. QED
    BY <1>r, <2>1, <2>2, <2>3, TrustStays
<1>5. ASSUME NEW c \in Call, Finish(c) \/ Raise(c) PROVE TrustHolds'
  <2>1. call[c].st = "executing" /\ UNCHANGED <<registry, run, agent>>
    BY <1>5 DEF Finish, Raise, Executing
  <2>2. PICK v : call' = [call EXCEPT ![c].st = v]
    BY <1>5 DEF Finish, Raise
  <2>3. call \in [Call -> CallRecord]
    BY DEF IInv, TypeOK
  <2>4. /\ \A d \in Call : call'[d].tool = call[d].tool
        /\ \A d \in Call \ {c} : call'[d] = call[d]
    BY <2>2, <2>3 DEF CallRecord
  <2>. QED
    BY <1>r, <2>1, <2>4, TrustStays DEF Made
<1>6. ASSUME NEW n \in Removable, Unregister(n) PROVE TrustHolds'
  <2>1. UNCHANGED <<run, agent, call>> /\ registry' = registry \ {n}
    BY <1>6 DEF Unregister
  <2>2. \A t \in Team : DelegateTool[t] # n
    BY NamesAssumption DEF NamesAssumption
  <2>. QED
    BY <1>r, <2>1, <2>2, TrustStays DEF Made
<1>7. CASE Next
  BY <1>2, <1>3, <1>4, <1>5, <1>6, <1>7, NextCases
<1>. QED
  BY <1>1, <1>7

(* Whatever an agent is made of and whatever its model asks for, a tool    *)
(* runs for it only if docs and definitions grant it that tool; only the   *)
(* team's own run reaches a delegate tool, and the tool is in the registry *)
(* exactly while that run goes on.                                         *)
THEOREM TrustCorrect == Spec => []TrustHolds
<1>1. Init => TrustHolds
  <2>. SUFFICES ASSUME Init PROVE TrustHolds
    OBVIOUS
  <2>1. \A c \in Call : ~Made(c)
    BY DEF Init, Made, NotMade
  <2>2. \A t \in Team : t \in Run /\ run[t] = "idle" /\ DelegateTool[t] \notin registry
    BY ToolsAssumption, NamesAssumption DEF Init, ToolsAssumption, NamesAssumption
  <2>. QED
    BY <2>1, <2>2 DEF TrustHolds, Active
<1>2. IInv /\ TrustHolds /\ [Next]_vars => TrustHolds'
  BY TrustKeeps
<1>. QED
  BY ToolsInvariant, <1>1, <1>2, PTL DEF Spec
-----------------------------------------------------------------------------
(* Delegations.                                                            *)

(* Two adjacent elements, and beginnings of a sequence that grows.         *)
LEMMA TwoOf ==
  ASSUME NEW Q, NEW s \in Seq(Q), NEW i \in Nat, NEW j \in Nat, j = i + 1,
         1 <= i, j <= Len(s)
  PROVE  SubSeq(s, i, j) = <<s[i], s[j]>>
<1>. DEFINE v == SubSeq(s, i, j)
            w == <<s[i], s[j]>>
<1>1. v \in Seq(Q) /\ Len(v) = 2 /\ v[1] = s[i] /\ v[2] = s[j]
  OBVIOUS
<1>2. w \in Seq(Q) /\ Len(w) = 2 /\ w[1] = s[i] /\ w[2] = s[j]
  OBVIOUS
<1>3. \A k \in 1..2 : v[k] = w[k]
  <2>1. \A k \in 1..2 : k = 1 \/ k = 2
    OBVIOUS
  <2>. HIDE DEF v, w
  <2>. QED
    BY <1>1, <1>2, <2>1
<1>. HIDE DEF v, w
<1>4. v \in [1..2 -> Q] /\ w \in [1..2 -> Q]
  BY <1>1, <1>2
<1>5. v = w
  BY <1>3, <1>4
<1>. QED
  BY <1>5 DEF v, w

(* What is a beginning stays one when the sequence grows.                  *)
LEMMA PrefixGrows ==
  ASSUME NEW Q, NEW s \in Seq(Q), NEW u \in Seq(Q), NEW v \in Seq(Q)
  PROVE  /\ IsPrefix(<<>>, s)
         /\ IsPrefix(s, s)
         /\ IsPrefix(u, s) => IsPrefix(u, s \o v)
<1>1. IsPrefix(<<>>, s)
  BY DEF IsPrefix
<1>2. IsPrefix(s, s)
  BY DEF IsPrefix
<1>3. ASSUME IsPrefix(u, s) PROVE IsPrefix(u, s \o v)
  <2>. DEFINE w == s \o v
              n == Len(u)
  <2>1. n \in Nat /\ n <= Len(s) /\ SubSeq(u, 1, n) = SubSeq(s, 1, n)
    BY <1>3 DEF IsPrefix
  <2>2. w \in Seq(Q) /\ Len(s) \in Nat /\ Len(w) >= Len(s) /\ \A i \in 1..Len(s) : w[i] = s[i]
    OBVIOUS
  <2>. HIDE DEF w, n
  <2>3. SubSeq(w, 1, n) = SubSeq(s, 1, n)
    <3>. DEFINE a == SubSeq(w, 1, n)
                b == SubSeq(s, 1, n)
    <3>1. a \in Seq(Q) /\ Len(a) = n /\ \A i \in 1..n : a[i] = w[i]
      BY <2>1, <2>2
    <3>2. b \in Seq(Q) /\ Len(b) = n /\ \A i \in 1..n : b[i] = s[i]
      BY <2>1, <2>2
    <3>3. \A i \in 1..n : a[i] = b[i]
      BY <2>1, <2>2, <3>1, <3>2
    <3>. HIDE DEF a, b
    <3>. QED
      BY <2>1, <3>1, <3>2, <3>3 DEF a, b
  <2>. QED
    BY <2>1, <2>2, <2>3 DEF IsPrefix, w, n
<1>. QED
  BY <1>1, <1>2, <1>3

(* A history is whole if each exchange stands in it once and complete, and *)
(* it records the calls in D.                                              *)
Whole(h) ==
  /\ IsInjective(h)
  /\ \A i \in DOMAIN h : i % 2 = 1 =>
       i < Len(h) /\ SubSeq(h, i, i + 1) = Exchange(h[i][2])

Records(h, D) == ToSet(h) = UNION {ToSet(Exchange(c)) : c \in D}

(* An exchange is a question and an answer, in this order.                 *)
LEMMA ExchangeIs ==
  ASSUME NEW c \in Call
  PROVE  /\ Exchange(c) \in Seq(Line) /\ Len(Exchange(c)) = 2
         /\ Exchange(c)[1] = <<"user", c>> /\ Exchange(c)[2] = <<"assistant", c>>
         /\ ToSet(Exchange(c)) = {<<"user", c>>, <<"assistant", c>>}
         /\ IsInjective(Exchange(c))
<1>1. /\ Exchange(c) \in Seq(Line) /\ Len(Exchange(c)) = 2
      /\ Exchange(c)[1] = <<"user", c>> /\ Exchange(c)[2] = <<"assistant", c>>
  BY DEF Exchange, Line
<1>2. DOMAIN Exchange(c) = {1, 2}
  BY <1>1
<1>. QED
  BY <1>1, <1>2 DEF ToSet, IsInjective

(* A whole history with one more exchange is whole, and records that too.  *)
LEMMA ExchangeAdded ==
  ASSUME NEW h \in Seq(Line), Whole(h), NEW D \in SUBSET Call, NEW e \in Call,
         Records(h, D), e \notin D
  PROVE  Whole(h \o Exchange(e)) /\ Records(h \o Exchange(e), D \cup {e})
<1>. DEFINE x == Exchange(e)
            w == h \o x
            n == Len(h)
<1>1. /\ x \in Seq(Line) /\ Len(x) = 2 /\ x[1] = <<"user", e>> /\ x[2] = <<"assistant", e>>
      /\ ToSet(x) = {<<"user", e>>, <<"assistant", e>>} /\ IsInjective(x)
  BY ExchangeIs
<1>2. ToSet(h) \cap ToSet(x) = {}
  <2>1. \A c \in D : ToSet(Exchange(c)) = {<<"user", c>>, <<"assistant", c>>}
    BY ExchangeIs
  <2>2. \A c \in D : c # e
    OBVIOUS
  <2>. HIDE DEF x
  <2>. QED
    BY <1>1, <2>1, <2>2 DEF Records
<1>. HIDE DEF x
<1>3. w \in Seq(Line) /\ ToSet(w) = ToSet(h) \cup ToSet(x) /\ IsInjective(w)
  BY <1>1, <1>2, Joined DEF Whole
<1>4. /\ n \in Nat /\ Len(w) = n + 2 /\ \A i \in 1..n : w[i] = h[i]
      /\ w[n + 1] = x[1] /\ w[n + 2] = x[2] /\ DOMAIN h = 1..n /\ DOMAIN w = 1..(n + 2)
  <2>1. n \in Nat /\ DOMAIN h = 1..n
    OBVIOUS
  <2>2. Len(w) = n + 2 /\ DOMAIN w = 1..(n + 2)
    <3>a. h \in Seq(Line) /\ x \in Seq(Line) /\ Len(x) = 2
      BY <1>1
    <3>b. Len(w) = n + Len(x)
      BY <3>a, Joined
    <3>1. Len(w) = n + 2
      BY <3>a, <3>b
    <3>. HIDE DEF w
    <3>. QED
      BY <1>3, <3>1
  <2>3. \A i \in 1..n : w[i] = h[i]
    OBVIOUS
  <2>4. w[n + 1] = x[1] /\ w[n + 2] = x[2]
    <3>1. n + 1 \in 1..(n + 2) /\ n + 2 \in 1..(n + 2) /\ ~(n + 1 <= n) /\ ~(n + 2 <= n)
      BY <2>1
    <3>. QED
      BY <1>1, <2>1, <3>1
  <2>. QED
    BY <2>1, <2>2, <2>3, <2>4
<1>5. n % 2 = 0
  <2>1. CASE n = 0
    BY <2>1
  <2>2. CASE n # 0
    <3>1. n \in DOMAIN h /\ ~(n < Len(h))
      BY <1>4, <2>2
    <3>2. n % 2 # 1
      BY <3>1 DEF Whole
    <3>. QED
      BY <1>4, <3>2
  <2>. QED
    BY <2>1, <2>2
<1>. HIDE DEF w
<1>6. ASSUME NEW i \in 1..(n + 2), i % 2 = 1
      PROVE  i < n + 2 /\ SubSeq(w, i, i + 1) = Exchange(w[i][2])
  <2>1. CASE i <= n
    <3>1. i \in DOMAIN h
      BY <1>4, <2>1
    <3>2. i < n /\ SubSeq(h, i, i + 1) = Exchange(h[i][2])
      BY <1>6, <3>1 DEF Whole
    <3>. DEFINE j == i + 1
    <3>a. i \in Nat /\ j \in Nat /\ 1 <= i /\ j <= Len(h) /\ j <= Len(w) /\ j = i + 1
      BY <1>4, <3>2
    <3>. HIDE DEF j
    <3>3. SubSeq(h, i, j) = <<h[i], h[j]>>
      BY <3>a, TwoOf
    <3>4. SubSeq(w, i, j) = <<w[i], w[j]>>
      BY <1>3, <3>a, TwoOf
    <3>5. w[i] = h[i] /\ w[j] = h[j]
      BY <1>4, <3>a
    <3>. QED
      BY <1>4, <3>2, <3>3, <3>4, <3>5 DEF j
  <2>2. CASE i > n
    <3>1. i = n + 1
      BY <1>4, <1>5, <1>6, <2>2
    <3>. DEFINE j == i + 1
    <3>a. i \in Nat /\ j \in Nat /\ 1 <= i /\ j <= Len(w) /\ j = n + 2 /\ j = i + 1
      BY <1>4, <3>1
    <3>. HIDE DEF j
    <3>2. SubSeq(w, i, j) = <<w[i], w[j]>>
      BY <1>3, <3>a, TwoOf
    <3>3. w[i] = <<"user", e>> /\ w[j] = <<"assistant", e>>
      BY <1>1, <1>4, <3>1, <3>a
    <3>4. w[i][2] = e
      BY <3>3
    <3>. QED
      BY <3>a, <1>4, <3>1, <3>2, <3>3, <3>4 DEF Exchange, j
  <2>. QED
    BY <1>4, <2>1, <2>2
<1>7. Whole(w)
  BY <1>3, <1>4, <1>6 DEF Whole
<1>8. Records(w, D \cup {e})
  <2>1. UNION {ToSet(Exchange(c)) : c \in D \cup {e}}
          = (UNION {ToSet(Exchange(c)) : c \in D}) \cup ToSet(x)
    BY DEF x
  <2>. QED
    BY <1>3, <2>1 DEF Records
<1>. QED
  BY <1>7, <1>8 DEF w, x

(* The delegations that a team run accepted, and those that came back.     *)
Accepted(t) == {c \in Call : Owner[c] = t /\ call[c].target \in Delegate}

Answered(t, d) == {c \in Call : /\ Owner[c] = t /\ call[c].target = d
                                /\ call[c].st = "returned"}

(* A call that has a target is an accepted delegation and starts its slot. *)
TargetsInv ==
  \A c \in Call :
    /\ call[c].target # NoAgent => Owner[c] \in Team /\ Made(c)
    /\ \A x \in ToSet(call[c].uses) : Caller[x] = c

(* The counter of rounds counts them all, and stops at the limit.          *)
RoundsInv ==
  \A t \in Team :
    /\ IsFiniteSet(Accepted(t)) /\ Cardinality(Accepted(t)) = rounds[t]
    /\ setting.rounds # NoLimit => rounds[t] <= setting.rounds

HistoryInv ==
  \A t \in Team, d \in Delegate :
    /\ Whole(history[t][d])
    /\ setting.retain => Records(history[t][d], Answered(t, d))

(* What a delegate was told is a beginning of its history; a run that has  *)
(* not begun was told nothing.                                             *)
SeenInv ==
  /\ \A x \in Run : run[x] = "idle" => seen[x] = <<>>
  /\ \A c \in Call : call[c].target \in Delegate =>
       \A x \in ToSet(call[c].uses) : IsPrefix(seen[x], history[Owner[c]][call[c].target])

DelegInv == TargetsInv /\ RoundsInv /\ HistoryInv /\ SeenInv

(* The invariant says what DelegationsHonest does.                         *)
LEMMA DelegImplies ==
  ASSUME IInv, DelegInv
  PROVE  DelegationsHonest
<1>0. NoAgent \notin Delegate
  BY AgentsAssumption DEF AgentsAssumption
<1>1. ASSUME NEW t \in Team, NEW d \in Delegate
      PROVE  /\ Delegations(t, d) = {c \in Call : Owner[c] = t /\ call[c].target = d}
             /\ {c \in Delegations(t, d) : call[c].st = "returned"} = Answered(t, d)
  BY <1>0 DEF Delegations, Answered, DelegInv, TargetsInv
<1>2. ASSUME NEW t \in Team, NEW d \in Delegate
      PROVE  LET h == history[t][d]
                 done == {c \in Delegations(t, d) : call[c].st = "returned"}
             IN  /\ setting.retain => ToSet(h) = UNION {ToSet(Exchange(c)) : c \in done}
                 /\ IsInjective(h)
                 /\ \A i \in DOMAIN h : i % 2 = 1 =>
                      /\ i < Len(h)
                      /\ SubSeq(h, i, i + 1) = Exchange(h[i][2])
                 /\ \A c \in Delegations(t, d) : \A x \in ToSet(call[c].uses) :
                      IsPrefix(seen[x], h)
  <2>1. Whole(history[t][d]) /\ (setting.retain => Records(history[t][d], Answered(t, d)))
    BY DEF DelegInv, HistoryInv
  <2>2. \A c \in Delegations(t, d) : \A x \in ToSet(call[c].uses) : IsPrefix(seen[x], history[t][d])
    BY <1>1 DEF DelegInv, SeenInv
  <2>. QED
    BY <1>1, <2>1, <2>2 DEF Whole, Records
<1>3. ASSUME NEW t \in Team, setting.rounds # NoLimit
      PROVE  Cardinality(UNION {Delegations(t, d) : d \in Delegate}) <= setting.rounds
  <2>1. UNION {Delegations(t, d) : d \in Delegate} = Accepted(t)
    BY <1>1 DEF Accepted
  <2>2. Cardinality(Accepted(t)) = rounds[t] /\ rounds[t] <= setting.rounds
    BY <1>3 DEF DelegInv, RoundsInv
  <2>3. Cardinality(UNION {Delegations(t, d) : d \in Delegate}) = Cardinality(Accepted(t))
    BY <2>1, Zenon
  <2>. QED
    BY <2>2, <2>3
<1>. QED
  BY <1>2, <1>3 DEF DelegationsHonest

(* A step that neither accepts a delegation, nor records one, nor tells    *)
(* one anything.                                                           *)
LEMMA DelegStays ==
  ASSUME IInv, DelegInv, UNCHANGED <<chosen, rounds, history, seen>>,
         \A x \in Run : run'[x] = "idle" => run[x] = "idle",
         \A c \in Call :
           \/ call'[c] = call[c]
           \/ /\ call'[c].target = call[c].target /\ call'[c].uses = call[c].uses
              /\ call[c].st = "executing"
              /\ \/ call'[c].st \in {"cancelled", "failed"}
                 \/ call'[c].st = "returned" /\ call[c].target = NoAgent
           \/ /\ call[c].st = "new" /\ call'[c].target = NoAgent
              /\ \A x \in ToSet(call'[c].uses) : Caller[x] = c
  PROVE  DelegInv'
<1>0. NoAgent \notin Delegate /\ setting' = setting
  BY AgentsAssumption DEF AgentsAssumption, setting
<1>1. \A c \in Call : call[c].st = "new" => call[c].target = NoAgent
  BY DEF DelegInv, TargetsInv, Made
<1>2. TargetsInv'
  BY DEF DelegInv, TargetsInv, Made
<1>3. ASSUME NEW t \in Team PROVE Accepted(t)' = Accepted(t)
  BY <1>0, <1>1 DEF Accepted
<1>4. ASSUME NEW t \in Team, NEW d \in Delegate PROVE Answered(t, d)' = Answered(t, d)
  <2>1. \A c \in Call : call'[c].target = d /\ call'[c].st = "returned"
                          <=> call[c].target = d /\ call[c].st = "returned"
    BY <1>0, <1>1
  <2>. QED
    BY <2>1 DEF Answered
<1>5. RoundsInv'
  <2>1. ASSUME NEW t \in Team
        PROVE  IsFiniteSet(Accepted(t)') /\ Cardinality(Accepted(t)') = Cardinality(Accepted(t))
    <3>1. IsFiniteSet(Accepted(t))
      BY DEF DelegInv, RoundsInv
    <3>. QED
      BY <1>3, <3>1, Zenon
  <2>. QED
    BY <1>0, <2>1 DEF DelegInv, RoundsInv
<1>6. HistoryInv'
  <2>1. ASSUME NEW t \in Team, NEW d \in Delegate
        PROVE  /\ Whole(history'[t][d])
               /\ setting'.retain => Records(history'[t][d], Answered(t, d)')
    BY <1>0, <1>4 DEF DelegInv, HistoryInv
  <2>. QED
    BY <2>1 DEF HistoryInv, Whole, Records, Exchange
<1>7. SeenInv'
  <2>1. \A c \in Call : call'[c].target \in Delegate =>
          call[c].target = call'[c].target /\ call[c].uses = call'[c].uses
    BY <1>0
  <2>. QED
    BY <2>1 DEF DelegInv, SeenInv
<1>. QED
  BY <1>2, <1>5, <1>6, <1>7 DEF DelegInv

(* A delegate is told the exchanges recorded so far.                       *)
LEMMA DelegDispatch ==
  ASSUME IInv, DelegInv, NEW r \in Run, Dispatch(r)
  PROVE  DelegInv'
<1>. DEFINE c == Caller[r]
            told == Prepared(Owner[c], call[c].target)
<1>1. /\ run[r] = "ready" /\ run' = [run EXCEPT ![r] = "dispatched"]
      /\ UNCHANGED <<chosen, call, rounds, history>>
      /\ seen' = IF Fanned(r) THEN seen ELSE [seen EXCEPT ![r] = told]
  BY DEF Dispatch
<1>2. \A x \in Run : run'[x] = "idle" => run[x] = "idle" /\ x # r
  BY <1>1 DEF IInv, TypeOK
<1>3. CASE seen' = seen
  BY <1>1, <1>2, <1>3, DelegStays
<1>4. CASE ~Fanned(r) /\ seen' = [seen EXCEPT ![r] = told]
  <2>1. /\ c \in Call /\ call[c].target \in Delegate /\ Owner[c] \in Team
        /\ told = <<>> \/ told = history[Owner[c]][call[c].target]
    BY <1>1, <1>4, ToolsAssumption
    DEF IInv, ForestInv, Delegated, ToolsAssumption, Prepared
  <2>2. seen'[r] = told /\ \A x \in Run \ {r} : seen'[x] = seen[x]
    BY <1>4 DEF IInv, TypeOK
  <2>3. IsPrefix(told, history[Owner[c]][call[c].target])
    <3>1. history[Owner[c]][call[c].target] \in Seq(Line)
      BY <2>1 DEF IInv, TypeOK
    <3>. HIDE DEF told
    <3>. QED
      BY <2>1, <3>1, PrefixGrows
  <2>. HIDE DEF told
  <2>4. SeenInv'
    <3>1. \A x \in Run : run'[x] = "idle" => seen'[x] = <<>>
      BY <1>2, <2>2 DEF DelegInv, SeenInv
    <3>2. ASSUME NEW e \in Call, call[e].target \in Delegate, NEW x \in ToSet(call[e].uses)
          PROVE  IsPrefix(seen'[x], history[Owner[e]][call[e].target])
      <4>1. Caller[x] = e /\ x \in Run
        BY DEF DelegInv, TargetsInv, IInv, TypeOK, CallRecord, ToSet
      <4>2. CASE x = r
        BY <2>2, <2>3, <4>1, <4>2
      <4>3. CASE x # r
        BY <2>2, <3>2, <4>1, <4>3 DEF DelegInv, SeenInv
      <4>. QED
        BY <4>2, <4>3
    <3>. QED
      BY <1>1, <3>1, <3>2 DEF SeenInv
  <2>5. TargetsInv' /\ RoundsInv' /\ HistoryInv'
    <3>1. UNCHANGED <<call, rounds, history, setting>>
      BY <1>1 DEF setting
    <3>2. TargetsInv'
      BY <3>1 DEF DelegInv, TargetsInv, Made
    <3>3. RoundsInv'
      BY <3>1 DEF DelegInv, RoundsInv, Accepted
    <3>4. HistoryInv'
      <4>1. \A t \in Team, d \in Delegate : Answered(t, d)' = Answered(t, d)
        BY <3>1 DEF Answered
      <4>. QED
        BY <3>1, <4>1 DEF DelegInv, HistoryInv, Whole, Records, Exchange
    <3>. QED
      BY <3>2, <3>3, <3>4
  <2>. QED
    BY <2>4, <2>5 DEF DelegInv
<1>. QED
  BY <1>1, <1>3, <1>4

(* An accepted delegation is counted, and nothing was told to its run yet. *)
LEMMA DelegAccepted ==
  ASSUME IInv, DelegInv, NEW c \in Call, NEW t \in Team, NEW d \in Delegate,
         NEW i \in Inputs, DelegateTo(c, t, d, i), Owner[c] = t, call[c].st = "new"
  PROVE  DelegInv'
<1>. DEFINE x0 == Slots[c][1]
            uses == SubSeq(Slots[c], 1, 1)
<1>0. NoAgent \notin Delegate /\ call[c].target = NoAgent
  BY AgentsAssumption DEF AgentsAssumption, DelegInv, TargetsInv, Made
<1>1. CASE Record(c, "failed", DelegateTool[t], <<>>, NoAgent)
           /\ UNCHANGED <<chosen, registry, run, agent, permits, queue, rounds, history, seen>>
  <2>1. call'[c].target = NoAgent /\ call'[c].uses = <<>> /\ \A e \in Call \ {c} : call'[e] = call[e]
    BY <1>1 DEF Record, IInv, TypeOK
  <2>. QED
    BY <1>1, <2>1, DelegStays DEF ToSet
<1>2. CASE /\ ~(setting.rounds # NoLimit /\ rounds[t] >= setting.rounds)
           /\ rounds' = [rounds EXCEPT ![t] = @ + 1]
           /\ Record(c, "executing", DelegateTool[t], uses, d)
           /\ run' = [run EXCEPT ![x0] = "ready"]
           /\ UNCHANGED <<chosen, registry, agent, permits, queue, history, seen>>
  <2>1. /\ Slots[c] \in Seq(Run) /\ x0 \in Run /\ Caller[x0] = c /\ c # NoCall
        /\ ToSet(uses) = {x0}
    <3>1. /\ Slots[c] \in Seq(Run) /\ Len(Slots[c]) > 0 /\ c # NoCall
          /\ ToSet(Slots[c]) = {r \in Run : Caller[r] = c}
      BY ToolsAssumption DEF ToolsAssumption
    <3>2. x0 \in ToSet(Slots[c])
      BY <3>1 DEF ToSet
    <3>3. DOMAIN uses = {1} /\ uses[1] = x0
      BY <3>1
    <3>. QED
      BY <3>1, <3>2, <3>3 DEF ToSet
  <2>2. run[x0] = "idle" /\ seen[x0] = <<>>
    BY <2>1 DEF IInv, ForestInv, DelegInv, SeenInv
  <2>. HIDE DEF uses, x0
  <2>3. /\ call'[c] = [st |-> "executing", tool |-> DelegateTool[t], uses |-> uses, target |-> d]
        /\ \A e \in Call \ {c} : call'[e] = call[e]
        /\ setting' = setting /\ UNCHANGED <<history, seen>>
        /\ \A x \in Run : run'[x] = "idle" => run[x] = "idle"
    BY <1>2 DEF Record, IInv, TypeOK, setting
  <2>4. TargetsInv'
    BY <2>1, <2>3 DEF DelegInv, TargetsInv, Made
  <2>5. RoundsInv'
    <3>1. Accepted(t)' = Accepted(t) \cup {c} /\ c \notin Accepted(t)
      BY <1>0, <2>3 DEF Accepted
    <3>2. \A u \in Team \ {t} : Accepted(u)' = Accepted(u)
      BY <1>0, <2>3 DEF Accepted
    <3>3. /\ IsFiniteSet(Accepted(t)) /\ Cardinality(Accepted(t)) = rounds[t] /\ rounds[t] \in Nat
          /\ setting.rounds # NoLimit => rounds[t] <= setting.rounds
      BY DEF DelegInv, RoundsInv, IInv, TypeOK
    <3>4. /\ IsFiniteSet(Accepted(t) \cup {c})
          /\ Cardinality(Accepted(t) \cup {c}) = rounds[t] + 1
      BY <3>1, <3>3, FS_AddElement
    <3>5. IsFiniteSet(Accepted(t)') /\ Cardinality(Accepted(t)') = Cardinality(Accepted(t) \cup {c})
      BY <3>1, <3>4, Zenon
    <3>6. setting.rounds # NoLimit => rounds[t] + 1 <= setting.rounds
      <4>1. setting.rounds \in Nat \cup {NoLimit}
        BY ToolsAssumption DEF ToolsAssumption, setting, IInv, TypeOK
      <4>. QED
        BY <1>2, <3>3, <4>1
    <3>7. rounds'[t] = rounds[t] + 1 /\ \A u \in Team \ {t} : rounds'[u] = rounds[u]
      BY <1>2 DEF IInv, TypeOK
    <3>8. ASSUME NEW u \in Team
          PROVE  /\ IsFiniteSet(Accepted(u)') /\ Cardinality(Accepted(u)') = rounds'[u]
                 /\ setting.rounds # NoLimit => rounds'[u] <= setting.rounds
      <4>1. CASE u = t
        BY <3>4, <3>5, <3>6, <3>7, <4>1
      <4>2. CASE u # t
        <5>1. /\ IsFiniteSet(Accepted(u)) /\ Cardinality(Accepted(u)) = rounds[u]
              /\ setting.rounds # NoLimit => rounds[u] <= setting.rounds
          BY DEF DelegInv, RoundsInv
        <5>2. IsFiniteSet(Accepted(u)') /\ Cardinality(Accepted(u)') = Cardinality(Accepted(u))
          BY <3>2, <4>2, <5>1, Zenon
        <5>. QED
          BY <3>7, <4>2, <5>1, <5>2
      <4>. QED
        BY <4>1, <4>2
    <3>. QED
      BY <2>3, <3>8 DEF RoundsInv
  <2>6. HistoryInv'
    <3>1. \A u \in Team, e \in Delegate : Answered(u, e)' = Answered(u, e)
      <4>1. \A a \in Call : call'[a].st = "returned" \/ call[a].st = "returned" =>
              call'[a] = call[a]
        BY <2>3
      <4>. QED
        BY <4>1 DEF Answered
    <3>. QED
      BY <2>3, <3>1 DEF DelegInv, HistoryInv, Whole, Records, Exchange
  <2>7. SeenInv'
    <3>1. history[t][d] \in Seq(Line)
      BY DEF IInv, TypeOK
    <3>2. IsPrefix(seen[x0], history[t][d])
      BY <2>2, <3>1, PrefixGrows
    <3>. QED
      BY <2>1, <2>3, <3>2 DEF DelegInv, SeenInv
  <2>. QED
    BY <2>4, <2>5, <2>6, <2>7 DEF DelegInv
<1>. QED
  BY <1>1, <1>2 DEF DelegateTo

(* What comes back good is recorded, whole and once.                       *)
LEMMA DelegFinish ==
  ASSUME IInv, DelegInv, NEW c \in Call, Finish(c)
  PROVE  DelegInv'
<1>. DEFINE t == Owner[c]
            d == call[c].target
<1>0. NoAgent \notin Delegate /\ setting' = setting
  BY AgentsAssumption DEF AgentsAssumption, Finish, setting
<1>1. /\ call[c].st = "executing"
      /\ UNCHANGED <<chosen, run, rounds, seen>>
      /\ \A e \in Call \ {c} : call'[e] = call[e]
      /\ call'[c].target = d /\ call'[c].uses = call[c].uses
      /\ \/ call'[c].st = "failed" /\ history' = history
         \/ call'[c].st = "returned" /\ d = NoAgent /\ history' = history
         \/ /\ call'[c].st = "returned" /\ d # NoAgent
            /\ history' = IF setting.retain
                          THEN [history EXCEPT ![t][d] = @ \o Exchange(c)] ELSE history
  BY DEF Finish, Executing, IInv, TypeOK, CallRecord
<1>2. CASE history' = history /\ (call'[c].st = "failed" \/ d = NoAgent)
  BY <1>1, <1>2, DelegStays
<1>3. CASE /\ call'[c].st = "returned" /\ d # NoAgent
           /\ history' = IF setting.retain
                         THEN [history EXCEPT ![t][d] = @ \o Exchange(c)] ELSE history
  <2>1. t \in Team /\ d \in Delegate
    BY <1>3 DEF DelegInv, TargetsInv, IInv, TypeOK, CallRecord
  <2>2. TargetsInv'
    BY <1>1 DEF DelegInv, TargetsInv, Made
  <2>3. RoundsInv'
    <3>1. \A u \in Team : Accepted(u)' = Accepted(u)
      BY <1>1 DEF Accepted
    <3>2. ASSUME NEW u \in Team
          PROVE  IsFiniteSet(Accepted(u)') /\ Cardinality(Accepted(u)') = Cardinality(Accepted(u))
      <4>1. IsFiniteSet(Accepted(u))
        BY DEF DelegInv, RoundsInv
      <4>. QED
        BY <3>1, <4>1, Zenon
    <3>. QED
      BY <1>0, <1>1, <3>2 DEF DelegInv, RoundsInv
  <2>4. ASSUME NEW u \in Team, NEW e \in Delegate
        PROVE  /\ u = t /\ e = d => /\ Answered(u, e)' = Answered(u, e) \cup {c}
                                   /\ c \notin Answered(u, e)
               /\ ~(u = t /\ e = d) => Answered(u, e)' = Answered(u, e)
    <3>1. \A a \in Call :
            (Owner[a] = u /\ call'[a].target = e /\ call'[a].st = "returned")
              <=> ((Owner[a] = u /\ call[a].target = e /\ call[a].st = "returned")
                   \/ (a = c /\ u = t /\ e = d))
      BY <1>1, <1>3
    <3>2. \A a \in Call : a \in Answered(u, e)' <=> (a \in Answered(u, e) \/ (a = c /\ u = t /\ e = d))
      BY <3>1 DEF Answered
    <3>3. Answered(u, e) \subseteq Call /\ Answered(u, e)' \subseteq Call
      BY DEF Answered
    <3>4. u = t /\ e = d => c \notin Answered(u, e)
      BY <1>1 DEF Answered
    <3>. HIDE DEF t, d
    <3>. QED
      BY <3>2, <3>3, <3>4
  <2>5. ASSUME NEW u \in Team, NEW e \in Delegate
        PROVE  /\ history[u][e] \in Seq(Line)
               /\ history'[u][e] = IF setting.retain /\ u = t /\ e = d
                                   THEN history[u][e] \o Exchange(c) ELSE history[u][e]
    BY <1>3, <2>1 DEF IInv, TypeOK
  <2>6. HistoryInv'
    <3>1. ASSUME NEW u \in Team, NEW e \in Delegate
          PROVE  /\ Whole(history'[u][e])
                 /\ setting.retain => Records(history'[u][e], Answered(u, e)')
      <4>1. /\ Whole(history[u][e])
            /\ setting.retain => Records(history[u][e], Answered(u, e))
        BY DEF DelegInv, HistoryInv
      <4>2. CASE setting.retain /\ u = t /\ e = d
        <5>1. Answered(u, e) \in SUBSET Call
          BY DEF Answered
        <5>2. /\ Whole(history[u][e] \o Exchange(c))
              /\ Records(history[u][e] \o Exchange(c), Answered(u, e) \cup {c})
          BY <2>4, <2>5, <4>1, <4>2, <5>1, ExchangeAdded
        <5>. QED
          BY <2>4, <2>5, <4>2, <5>2
      <4>3. CASE ~setting.retain
        BY <2>5, <4>1, <4>3
      <4>4. CASE ~(u = t /\ e = d)
        BY <2>4, <2>5, <4>1, <4>4
      <4>. QED
        BY <4>2, <4>3, <4>4
    <3>. QED
      BY <1>0, <3>1 DEF HistoryInv, Whole, Records, Exchange
  <2>7. SeenInv'
    <3>1. ASSUME NEW e \in Call, call'[e].target \in Delegate, NEW x \in ToSet(call'[e].uses)
          PROVE  IsPrefix(seen[x], history'[Owner[e]][call'[e].target])
      <4>1. /\ call'[e].target = call[e].target /\ call'[e].uses = call[e].uses
            /\ Owner[e] \in Team /\ x \in Run
        <5>1. call'[e].target = call[e].target /\ call'[e].uses = call[e].uses
          BY <1>1
        <5>2. Owner[e] \in Team
          BY <1>0, <3>1, <5>1 DEF DelegInv, TargetsInv
        <5>3. call[e].uses \in Seq(Run)
          BY DEF IInv, TypeOK, CallRecord
        <5>. QED
          BY <5>1, <5>2, <5>3 DEF ToSet
      <4>2. IsPrefix(seen[x], history[Owner[e]][call[e].target])
        BY <3>1, <4>1 DEF DelegInv, SeenInv
      <4>3. seen[x] \in Seq(Line) /\ Exchange(c) \in Seq(Line)
        BY <4>1, ExchangeIs DEF IInv, TypeOK
      <4>. QED
        BY <2>5, <3>1, <4>1, <4>2, <4>3, PrefixGrows
    <3>. QED
      BY <1>1, <3>1 DEF DelegInv, SeenInv
  <2>. QED
    BY <2>2, <2>3, <2>6, <2>7 DEF DelegInv
<1>. QED
  BY <1>1, <1>2, <1>3
(* Delegations, over all steps.                                            *)
LEMMA DelegKeeps ==
  ASSUME IInv, DelegInv, [Next]_vars
  PROVE  DelegInv'
<1>1. CASE UNCHANGED vars
  BY <1>1, DelegStays DEF vars
<1>2. ASSUME NEW gone \in SUBSET Run, NEW outcome, EndTogether(gone, outcome) PROVE DelegInv'
  <2>1. /\ CallsStand /\ UNCHANGED <<chosen, rounds, history, seen>>
        /\ Unwind(gone, outcome) /\ \A x \in gone : outcome[x] \in Over
    BY <1>2 DEF EndTogether
  <2>2. Unwound(gone, outcome)
    BY <2>1, UnwindKeeps DEF IInv
  <2>3. \A x \in Run : run'[x] = "idle" => run[x] = "idle"
    BY <2>1, <2>2 DEF Unwound, Over
  <2>4. ASSUME NEW c \in Call
        PROVE  \/ call'[c] = call[c]
               \/ /\ call'[c].target = call[c].target /\ call'[c].uses = call[c].uses
                  /\ call[c].st = "executing" /\ call'[c].st = "cancelled"
    <3>1. /\ call[c] \in CallRecord /\ call'[c] \in CallRecord
          /\ call'[c].tool = call[c].tool /\ call'[c].uses = call[c].uses
          /\ call'[c].target = call[c].target
          /\ \/ call'[c].st = call[c].st
             \/ call[c].st = "executing" /\ call'[c].st = "cancelled"
      BY <2>1 DEF CallsStand, IInv, TypeOK
    <3>. QED
      BY <3>1 DEF CallRecord
  <2>. QED
    BY <2>1, <2>3, <2>4, DelegStays
<1>3. ASSUME NEW r \in Run, Begins(r) PROVE DelegInv'
  <2>1. CASE Dispatch(r)
    BY <2>1, DelegDispatch
  <2>2. CASE ~Dispatch(r)
    <3>1. /\ UNCHANGED <<chosen, call, rounds, history, seen>>
          /\ \E st \in {"dispatched", "running"} : run' = [run EXCEPT ![r] = st]
      BY <1>3, <2>2 DEF Begins, StartRun, StartTeam
    <3>2. \A x \in Run : run'[x] = "idle" => run[x] = "idle"
      BY <3>1 DEF IInv, TypeOK
    <3>. QED
      BY <3>1, <3>2, DelegStays
  <2>. QED
    BY <2>1, <2>2
<1>4. ASSUME NEW c \in Call, run[Owner[c]] = "running", call[c].st = "new",
             NEW n \in AnyTool, Refuse(c, n) \/ Lets(c, n)
      PROVE  DelegInv'
  <2>1. CASE Refuse(c, n) \/ Invoke(c, n)
    <3>1. /\ UNCHANGED <<chosen, run, rounds, history, seen>>
          /\ call'[c].target = NoAgent /\ call'[c].uses = <<>>
          /\ \A e \in Call \ {c} : call'[e] = call[e]
      BY <2>1 DEF Refuse, Invoke, Record, IInv, TypeOK
    <3>. QED
      BY <1>4, <3>1, DelegStays DEF ToSet
  <2>2. ASSUME NEW k \in 0..Len(Slots[c]), FanOut(c, k) PROVE DelegInv'
    <3>1. /\ UNCHANGED <<chosen, rounds, history, seen>>
          /\ call'[c].target = NoAgent /\ call'[c].uses = SubSeq(Slots[c], 1, k)
          /\ \A e \in Call \ {c} : call'[e] = call[e]
          /\ \A x \in Run : run'[x] = "idle" => run[x] = "idle"
      BY <2>2 DEF FanOut, Record, IInv, TypeOK
    <3>2. \A x \in ToSet(SubSeq(Slots[c], 1, k)) : Caller[x] = c
      <4>1. Slots[c] \in Seq(Run) /\ ToSet(Slots[c]) = {r \in Run : Caller[r] = c}
        BY ToolsAssumption DEF ToolsAssumption
      <4>2. ToSet(SubSeq(Slots[c], 1, k)) \subseteq ToSet(Slots[c])
        BY <4>1 DEF ToSet
      <4>. QED
        BY <4>1, <4>2
    <3>. QED
      BY <1>4, <3>1, <3>2, DelegStays
  <2>3. ASSUME NEW t \in Team, NEW d \in Delegate, NEW i \in Inputs,
               n = DelegateTool[t], DelegateTo(c, t, d, i), Lets(c, n)
        PROVE  DelegInv'
    BY <1>4, <2>3, DelegAccepted DEF Lets
  <2>. QED
    BY <1>4, <2>1, <2>2, <2>3 DEF Lets
<1>5. ASSUME NEW c \in Call, Finish(c) \/ Raise(c) PROVE DelegInv'
  <2>1. CASE Finish(c)
    BY <2>1, DelegFinish
  <2>2. CASE Raise(c)
    <3>1. /\ UNCHANGED <<chosen, run, rounds, history, seen>> /\ call[c].st = "executing"
          /\ call'[c].target = call[c].target /\ call'[c].uses = call[c].uses
          /\ call'[c].st = "failed" /\ \A e \in Call \ {c} : call'[e] = call[e]
      BY <2>2 DEF Raise, Executing, IInv, TypeOK, CallRecord
    <3>. QED
      BY <3>1, DelegStays
  <2>. QED
    BY <1>5, <2>1, <2>2
<1>6. ASSUME NEW n \in Removable, Unregister(n) PROVE DelegInv'
  BY <1>6, DelegStays DEF Unregister
<1>7. CASE Next
  BY <1>2, <1>3, <1>4, <1>5, <1>6, <1>7, NextCases
<1>. QED
  BY <1>1, <1>7

(* Nobody has delegated anything.                                          *)
LEMMA DelegStarts == Init => DelegInv
<1>. SUFFICES ASSUME Init PROVE DelegInv
  OBVIOUS
<1>1. /\ \A c \in Call : call[c].st = "new" /\ call[c].target = NoAgent /\ call[c].uses = <<>>
      /\ \A x \in Run : seen[x] = <<>>
      /\ \A t \in Team : rounds[t] = 0 /\ \A d \in Delegate : history[t][d] = <<>>
  BY DEF Init, NotMade
<1>2. NoAgent \notin Delegate /\ chosen \in DOMAIN Settings
  BY AgentsAssumption DEF AgentsAssumption, Init
<1>3. TargetsInv
  BY <1>1 DEF TargetsInv, ToSet
<1>4. RoundsInv
  <2>1. \A t \in Team : Accepted(t) = {}
    BY <1>1, <1>2 DEF Accepted
  <2>2. \A t \in Team : IsFiniteSet(Accepted(t)) /\ Cardinality(Accepted(t)) = 0
    BY <2>1, FS_EmptySet, Zenon
  <2>3. setting.rounds # NoLimit => setting.rounds \in Nat
    BY <1>2, ToolsAssumption DEF ToolsAssumption, setting
  <2>. QED
    BY <1>1, <2>2, <2>3 DEF RoundsInv
<1>5. HistoryInv
  <2>1. \A t \in Team, d \in Delegate : Answered(t, d) = {}
    BY <1>1 DEF Answered
  <2>2. Whole(<<>>) /\ Records(<<>>, {})
    BY DEF Whole, Records, IsInjective, ToSet
  <2>. QED
    BY <1>1, <2>1, <2>2 DEF HistoryInv
<1>6. SeenInv
  BY <1>1, <1>2 DEF SeenInv
<1>. QED
  BY <1>3, <1>4, <1>5, <1>6 DEF DelegInv

(* A delegate's history holds every delegation of its team run that came   *)
(* back good, once and whole, and nothing else; it was dispatched with a   *)
(* beginning of that; and max_rounds bounds the delegations accepted -     *)
(* however many run at once, and whichever fail or are cancelled.          *)
THEOREM DelegationsCorrect == Spec => []DelegationsHonest
<1>1. IInv /\ DelegInv /\ [Next]_vars => DelegInv'
  BY DelegKeeps
<1>2. IInv /\ DelegInv => DelegationsHonest
  BY DelegImplies
<1>. QED
  BY ToolsInvariant, DelegStarts, <1>1, <1>2, PTL DEF Spec
=============================================================================
