----------------------------- MODULE EventProofs -----------------------------
(***************************************************************************)
(* The live feed of events is faithful for any number of emitters and      *)
(* consumers, with queues of any size, whatever the stores beside it do,   *)
(* and the stores keep what they promise, with caps of any size; the trees *)
(* they find of a run differ only by what they have dropped.               *)
(***************************************************************************)
EXTENDS EventHub, FiniteSetTheorems, TLAPS

-----------------------------------------------------------------------------
(* Types, and what an event is: a number, which is not that of a ping.     *)
TypeOK ==
  /\ setting \in Setting
  /\ at \in [Emitter -> Nat] /\ \A m \in Emitter : at[m] <= Len(Program(m))
  /\ rest \in [Emitter -> Seq(Subscriber)] /\ logging \in [Emitter -> BOOLEAN]
  /\ subs \in Seq(Subscriber)
  /\ queue \in [Subscriber -> Seq(Nat)] /\ got \in [Subscriber -> Seq(Nat)]
  /\ log \in Seq(Nat)
  /\ due \in [Subscriber -> SUBSET Nat] /\ full \in [Subscriber -> SUBSET Nat]

Had(s) == ToSet(got[s]) \cup ToSet(queue[s])

(* The log is a merge of what the emitters have emitted of their programs. *)
HistoryInv ==
  /\ \A m \in Emitter : \A i \in 1..at[m] : \E k \in DOMAIN log : log[k] = Program(m)[i]
  /\ \A k \in DOMAIN log : \E m \in Emitter : \E i \in 1..at[m] : log[k] = Program(m)[i]
  /\ \A j, k \in DOMAIN log : log[j] = log[k] => j = k
  /\ \A m \in Emitter : \A i, l \in 1..at[m] : \A j, k \in DOMAIN log :
       log[j] = Program(m)[i] /\ log[k] = Program(m)[l] /\ i < l => j < k

(* An emission under way still owes its event to those it has to be        *)
(* offered to, if they are still there.                                    *)
OfferInv ==
  \A m \in Emitter :
    /\ rest[m] # <<>> \/ logging[m] => at[m] > 0
    /\ IsInjective(rest[m])
    /\ \A s \in ToSet(rest[m]) : s \in ToSet(subs) => Current(m) \in due[s] \ Had(s)

(* Who may come before whom in what one consumer is given.                 *)
Order == {p \in Nat \X Nat : Precedes(p[1], p[2])}

Ordered(x, O) ==
  \A j, k \in DOMAIN x :
    j < k /\ x[j] # Ping /\ x[k] # Ping => <<x[j], x[k]>> \in O

Fed(s) ==
  /\ Had(s) \ {Ping} \subseteq due[s]
  /\ due[s] \ Had(s) \subseteq full[s] \cup cut \cup Coming(s)
  /\ Ordered(got[s] \o queue[s], Order)

FeedInv ==
  /\ IsInjective(subs)
  /\ \A s \in Subscriber :
       /\ s \notin ToSet(subs) => got[s] = <<>> /\ due[s] = {}
       /\ due[s] \subseteq ToSet(log)
       /\ s \in ToSet(subs) => Fed(s)

HubInv == TypeOK /\ HistoryInv /\ OfferInv /\ FeedInv

-----------------------------------------------------------------------------
(* Sequences.                                                              *)

(* Every non-empty set of natural numbers has a least member: what stands  *)
(* in for the library's induction, which takes an operator.                *)
LEMMA Least ==
  ASSUME NEW S \in SUBSET Nat, S # {}
  PROVE  \E n \in S : \A m \in S : n <= m
<1>. DEFINE Starts == {0..n : n \in S}
<1>1. IsWellFoundedOn(StrictSubsetOrdering(Nat), FiniteSubsetsOf(Nat))
  BY FS_StrictSubsetOrderingWellFounded
<1>2. ASSUME NEW n \in S PROVE 0..n \in FiniteSubsetsOf(Nat)
  BY FS_Interval DEF FiniteSubsetsOf
<1>3. Starts \subseteq FiniteSubsetsOf(Nat) /\ Starts # {}
  BY <1>2
<1>4. PICK x \in Starts : \A y \in Starts : <<y, x>> \notin StrictSubsetOrdering(Nat)
  <2>. HIDE DEF Starts
  <2>. QED
    BY <1>1, <1>3, WFMin
<1>5. PICK n \in S : x = 0..n
  BY <1>4
<1>6. ASSUME NEW m \in S, m < n PROVE FALSE
  <2>1. m \in Nat /\ n \in Nat /\ 0..m \in SUBSET Nat /\ 0..n \in SUBSET Nat
    OBVIOUS
  <2>2. 0..m \subseteq 0..n
    BY <1>6, <2>1
  <2>3. n \in 0..n /\ n \notin 0..m
    BY <1>6, <2>1
  <2>4. <<0..m, 0..n>> \in StrictSubsetOrdering(Nat)
    BY <2>1, <2>2, <2>3 DEF StrictSubsetOrdering
  <2>. QED
    BY <2>4, <1>4, <1>5
<1>. QED
  BY <1>6

LEMMA MinIs ==
  ASSUME NEW S \in SUBSET Nat, S # {}
  PROVE  Min(S) \in S /\ \A m \in S : Min(S) <= m
<1>1. \E n \in S : \A m \in S : n <= m
  BY Least
<1>. QED
  BY <1>1 DEF Min

LEMMA HeadTail ==
  ASSUME NEW S, NEW q \in Seq(S), q # <<>>
  PROVE  /\ Len(q) \in Nat /\ Len(q) >= 1 /\ Head(q) = q[1] /\ Head(q) \in S
         /\ Tail(q) \in Seq(S) /\ Len(Tail(q)) = Len(q) - 1
         /\ \A k \in 1..(Len(q) - 1) : Tail(q)[k] = q[k + 1]
         /\ ToSet(q) = {Head(q)} \cup ToSet(Tail(q))
<1>1. /\ Len(q) \in Nat /\ Len(q) >= 1 /\ Head(q) = q[1] /\ Head(q) \in S
      /\ Tail(q) \in Seq(S) /\ Len(Tail(q)) = Len(q) - 1
      /\ \A k \in 1..(Len(q) - 1) : Tail(q)[k] = q[k + 1]
  OBVIOUS
<1>2. DOMAIN q = 1..Len(q) /\ DOMAIN Tail(q) = 1..(Len(q) - 1)
  BY <1>1
<1>3. ASSUME NEW x \in ToSet(q) PROVE x = Head(q) \/ x \in ToSet(Tail(q))
  <2>1. PICK k \in 1..Len(q) : x = q[k]
    BY <1>2 DEF ToSet
  <2>2. CASE k = 1
    BY <1>1, <2>1, <2>2
  <2>3. CASE k # 1
    <3>1. k - 1 \in 1..(Len(q) - 1) /\ (k - 1) + 1 = k
      BY <1>1, <2>3
    <3>2. x = Tail(q)[k - 1]
      BY <1>1, <2>1, <3>1
    <3>. QED
      BY <1>2, <3>1, <3>2 DEF ToSet
  <2>. QED
    BY <2>2, <2>3
<1>4. ASSUME NEW x \in ToSet(Tail(q)) PROVE x \in ToSet(q)
  <2>1. PICK k \in 1..(Len(q) - 1) : x = Tail(q)[k]
    BY <1>2 DEF ToSet
  <2>2. k + 1 \in 1..Len(q) /\ x = q[k + 1]
    BY <1>1, <2>1
  <2>. QED
    BY <1>2, <2>2 DEF ToSet
<1>5. Head(q) \in ToSet(q)
  <2>1. 1 \in 1..Len(q)
    BY <1>1
  <2>. QED
    BY <1>1, <1>2, <2>1 DEF ToSet
<1>. QED
  BY <1>1, <1>3, <1>4, <1>5

LEMMA Appended ==
  ASSUME NEW S, NEW x \in Seq(S), NEW e \in S
  PROVE  /\ Append(x, e) \in Seq(S) /\ Len(Append(x, e)) = Len(x) + 1 /\ Len(x) \in Nat
         /\ DOMAIN x = 1..Len(x) /\ DOMAIN Append(x, e) = 1..(Len(x) + 1)
         /\ \A k \in 1..Len(x) : Append(x, e)[k] = x[k]
         /\ Append(x, e)[Len(x) + 1] = e
         /\ ToSet(Append(x, e)) = ToSet(x) \cup {e}
<1>1. /\ Append(x, e) \in Seq(S) /\ Len(Append(x, e)) = Len(x) + 1 /\ Len(x) \in Nat
      /\ \A k \in 1..Len(x) : Append(x, e)[k] = x[k]
      /\ Append(x, e)[Len(x) + 1] = e
  OBVIOUS
<1>2. DOMAIN x = 1..Len(x) /\ DOMAIN Append(x, e) = 1..(Len(x) + 1)
  BY <1>1
<1>3. ASSUME NEW y \in ToSet(Append(x, e)) PROVE y \in ToSet(x) \cup {e}
  <2>1. PICK k \in 1..(Len(x) + 1) : y = Append(x, e)[k]
    BY <1>2 DEF ToSet
  <2>2. CASE k = Len(x) + 1
    BY <1>1, <2>1, <2>2
  <2>3. CASE k # Len(x) + 1
    <3>1. k \in 1..Len(x)
      BY <1>1, <2>3
    <3>. QED
      BY <1>1, <1>2, <2>1, <3>1 DEF ToSet
  <2>. QED
    BY <2>2, <2>3
<1>4. ToSet(x) \subseteq ToSet(Append(x, e))
  <2>1. SUFFICES ASSUME NEW k \in 1..Len(x) PROVE x[k] \in ToSet(Append(x, e))
    BY <1>2 DEF ToSet
  <2>2. k \in 1..(Len(x) + 1) /\ Append(x, e)[k] = x[k]
    BY <1>1
  <2>. QED
    BY <1>2, <2>2 DEF ToSet
<1>5. e \in ToSet(Append(x, e))
  <2>1. Len(x) + 1 \in 1..(Len(x) + 1)
    BY <1>1
  <2>. QED
    BY <1>1, <1>2, <2>1 DEF ToSet
<1>. QED
  BY <1>1, <1>2, <1>3, <1>4, <1>5

LEMMA AppendedNumber ==
  ASSUME NEW x \in Seq(Nat), NEW e \in Nat
  PROVE  /\ Append(x, e) \in Seq(Nat) /\ Len(Append(x, e)) = Len(x) + 1 /\ Len(x) \in Nat
         /\ DOMAIN x = 1..Len(x) /\ DOMAIN Append(x, e) = 1..(Len(x) + 1)
         /\ \A k \in 1..Len(x) : Append(x, e)[k] = x[k]
         /\ Append(x, e)[Len(x) + 1] = e
         /\ ToSet(Append(x, e)) = ToSet(x) \cup {e}
<1>1. Append(x, e) \in Seq(Nat) /\ Len(Append(x, e)) = Len(x) + 1 /\ Len(x) \in Nat
  OBVIOUS
<1>2. DOMAIN x = 1..Len(x) /\ DOMAIN Append(x, e) = 1..(Len(x) + 1)
  BY <1>1
<1>3. (\A k \in 1..Len(x) : Append(x, e)[k] = x[k]) /\ Append(x, e)[Len(x) + 1] = e
  OBVIOUS
<1>4. ToSet(Append(x, e)) = ToSet(x) \cup {e}
  BY Appended
<1>. QED
  BY <1>1, <1>2, <1>3, <1>4

LEMMA Joined ==
  ASSUME NEW S, NEW u \in Seq(S), NEW v \in Seq(S)
  PROVE  /\ u \o v \in Seq(S) /\ Len(u \o v) = Len(u) + Len(v) /\ Len(u) \in Nat /\ Len(v) \in Nat
         /\ DOMAIN (u \o v) = 1..(Len(u) + Len(v))
         /\ \A k \in 1..Len(u) : (u \o v)[k] = u[k]
         /\ \A k \in 1..Len(v) : (u \o v)[Len(u) + k] = v[k]
OBVIOUS

(* list.remove: the first occurrence goes, and there is only one.          *)
LEMMA Removed ==
  ASSUME NEW S, NEW x \in Seq(S), IsInjective(x), NEW p \in DOMAIN x
  PROVE  /\ RemoveAt(x, p) \in Seq(S) /\ IsInjective(RemoveAt(x, p))
         /\ ToSet(RemoveAt(x, p)) = ToSet(x) \ {x[p]}
<1>. DEFINE e == x[p]
            u == SubSeq(x, 1, p - 1)
            v == SubSeq(x, p + 1, Len(x))
            y == u \o v
<1>1. Len(x) \in Nat /\ DOMAIN x = 1..Len(x)
  OBVIOUS
<1>4. p \in 1..Len(x) /\ x[p] = e
  BY <1>1
<1>5. RemoveAt(x, p) = y
  BY DEF RemoveAt
<1>6. u \in Seq(S) /\ Len(u) = p - 1 /\ \A k \in 1..(p - 1) : u[k] = x[k]
  BY <1>1, <1>4
<1>7. v \in Seq(S) /\ Len(v) = Len(x) - p /\ \A k \in 1..(Len(x) - p) : v[k] = x[p + k]
  BY <1>1, <1>4
<1>. HIDE DEF u, v, e
<1>8. /\ y \in Seq(S) /\ Len(y) = Len(x) - 1 /\ DOMAIN y = 1..(Len(x) - 1)
      /\ \A k \in 1..(p - 1) : y[k] = u[k]
      /\ \A k \in 1..(Len(x) - p) : y[(p - 1) + k] = v[k]
  <2>1. Len(u) + Len(v) = Len(x) - 1
    BY <1>1, <1>4, <1>6, <1>7
  <2>2. /\ y \in Seq(S) /\ Len(y) = Len(u) + Len(v) /\ DOMAIN y = 1..(Len(u) + Len(v))
        /\ \A k \in 1..Len(u) : y[k] = u[k]
        /\ \A k \in 1..Len(v) : y[Len(u) + k] = v[k]
    <3>1. u \in Seq(S) /\ v \in Seq(S)
      BY <1>6, <1>7
    <3>. QED
      BY <3>1, Joined
  <2>. HIDE DEF y
  <2>. QED
    BY <1>6, <1>7, <2>1, <2>2
<1>. HIDE DEF y
<1>9. ASSUME NEW k \in 1..(Len(x) - 1) PROVE y[k] = x[IF k < p THEN k ELSE k + 1]
  <2>1. CASE k < p
    <3>1. k \in 1..(p - 1)
      BY <1>4, <2>1
    <3>2. y[k] = x[k]
      BY <1>6, <1>8, <3>1
    <3>. QED
      BY <2>1, <3>2
  <2>2. CASE ~(k < p)
    <3>1. k - (p - 1) \in 1..(Len(x) - p) /\ k = (p - 1) + (k - (p - 1))
      BY <1>1, <1>4, <2>2
    <3>0. PICK d \in 1..(Len(x) - p) : k = (p - 1) + d
      BY <3>1
    <3>2. y[k] = v[d] /\ v[d] = x[p + d] /\ p + d = k + 1
      BY <1>4, <1>7, <1>8, <3>0
    <3>. QED
      BY <2>2, <3>2
  <2>. QED
    BY <2>1, <2>2
<1>10. IsInjective(y)
  <2>1. SUFFICES ASSUME NEW j \in 1..(Len(x) - 1), NEW k \in 1..(Len(x) - 1), y[j] = y[k]
                 PROVE  j = k
    BY <1>8 DEF IsInjective
  <2>. DEFINE up(i) == IF i < p THEN i ELSE i + 1
  <2>2. up(j) \in DOMAIN x /\ up(k) \in DOMAIN x /\ x[up(j)] = x[up(k)]
    BY <1>1, <1>9, <2>1
  <2>3. up(j) = up(k)
    <3>. HIDE DEF up
    <3>. QED
      BY <2>2 DEF IsInjective
  <2>. QED
    BY <1>4, <2>3
<1>11. ASSUME NEW k \in 1..(Len(x) - 1) PROVE y[k] \in ToSet(x) \ {e}
  <2>. DEFINE up == IF k < p THEN k ELSE k + 1
  <2>1. up \in DOMAIN x /\ p \in DOMAIN x /\ up # p /\ y[k] = x[up]
    BY <1>1, <1>4, <1>9
  <2>. HIDE DEF up
  <2>. QED
    BY <1>4, <2>1 DEF ToSet, IsInjective
<1>12. ASSUME NEW k \in 1..Len(x), x[k] # e PROVE x[k] \in ToSet(y)
  <2>1. k # p
    BY <1>4, <1>12
  <2>2. CASE k < p
    <3>1. k \in 1..(Len(x) - 1) /\ y[k] = x[k]
      BY <1>1, <1>4, <1>9, <2>2
    <3>. QED
      BY <1>8, <3>1 DEF ToSet
  <2>3. CASE k > p
    <3>1. k - 1 \in 1..(Len(x) - 1) /\ (k - 1) + 1 = k /\ ~(k - 1 < p)
      BY <1>1, <1>4, <2>3
    <3>2. y[k - 1] = x[k]
      BY <1>9, <3>1
    <3>. QED
      BY <1>8, <3>1, <3>2 DEF ToSet
  <2>. QED
    BY <1>4, <2>1, <2>2, <2>3
<1>13. ToSet(y) = ToSet(x) \ {e}
  <2>1. ToSet(y) \subseteq ToSet(x) \ {e}
    <3>1. \A z \in ToSet(y) : \E k \in 1..(Len(x) - 1) : z = y[k]
      BY <1>8 DEF ToSet
    <3>. QED
      BY <1>11, <3>1
  <2>2. ToSet(x) \ {e} \subseteq ToSet(y)
    <3>1. \A z \in ToSet(x) : \E k \in 1..Len(x) : z = x[k]
      BY <1>1 DEF ToSet
    <3>. QED
      BY <1>12, <3>1
  <2>. QED
    BY <2>1, <2>2
<1>. QED
  BY <1>5, <1>8, <1>10, <1>13 DEF e


LEMMA SameSequence ==
  ASSUME NEW S, NEW x \in Seq(S), NEW y \in Seq(S), Len(x) = Len(y),
         \A k \in 1..Len(x) : x[k] = y[k]
  PROVE  x = y
OBVIOUS

LEMMA JoinedSet ==
  ASSUME NEW S, NEW x \in Seq(S), NEW y \in Seq(S)
  PROVE  ToSet(x \o y) = ToSet(x) \cup ToSet(y)
<1>. DEFINE z == x \o y
<1>1. DOMAIN x = 1..Len(x) /\ DOMAIN y = 1..Len(y)
  OBVIOUS
<1>2. /\ DOMAIN z = 1..(Len(x) + Len(y)) /\ Len(x) \in Nat /\ Len(y) \in Nat
      /\ \A k \in 1..Len(x) : z[k] = x[k]
      /\ \A k \in 1..Len(y) : z[Len(x) + k] = y[k]
  BY Joined
<1>. HIDE DEF z
<1>3. ASSUME NEW k \in 1..(Len(x) + Len(y)) PROVE z[k] \in ToSet(x) \cup ToSet(y)
  <2>1. CASE k <= Len(x)
    <3>1. k \in 1..Len(x)
      BY <1>2, <2>1
    <3>. QED
      BY <1>1, <1>2, <3>1 DEF ToSet
  <2>2. CASE ~(k <= Len(x))
    <3>1. k - Len(x) \in 1..Len(y) /\ k = Len(x) + (k - Len(x))
      BY <1>2, <2>2
    <3>2. PICK d \in 1..Len(y) : k = Len(x) + d
      BY <3>1
    <3>. QED
      BY <1>1, <1>2, <3>2 DEF ToSet
  <2>. QED
    BY <2>1, <2>2
<1>4. ASSUME NEW k \in 1..Len(x) PROVE x[k] \in ToSet(z)
  <2>1. k \in 1..(Len(x) + Len(y))
    BY <1>2
  <2>. QED
    BY <1>2, <2>1 DEF ToSet
<1>5. ASSUME NEW k \in 1..Len(y) PROVE y[k] \in ToSet(z)
  <2>1. Len(x) + k \in 1..(Len(x) + Len(y))
    BY <1>2
  <2>. QED
    BY <1>2, <2>1 DEF ToSet
<1>6. ToSet(z) \subseteq ToSet(x) \cup ToSet(y)
  BY <1>2, <1>3 DEF ToSet
<1>7. ToSet(x) \subseteq ToSet(z)
  BY <1>1, <1>4 DEF ToSet
<1>8. ToSet(y) \subseteq ToSet(z)
  BY <1>1, <1>5 DEF ToSet
<1>. QED
  BY <1>6, <1>7, <1>8 DEF z

LEMMA Slice ==
  ASSUME NEW S, NEW x \in Seq(S), NEW a \in Nat \ {0}, NEW b \in Nat, b <= Len(x)
  PROVE  /\ SubSeq(x, a, b) \in Seq(S)
         /\ \A z : z \in ToSet(SubSeq(x, a, b)) <=> \E k \in a..b : z = x[k]
         /\ IsInjective(x) => IsInjective(SubSeq(x, a, b))
<1>. DEFINE y == SubSeq(x, a, b)
<1>1. CASE a > b
  <2>1. y = <<>>
    BY <1>1
  <2>2. y \in Seq(S) /\ DOMAIN y = {} /\ a..b = {}
    BY <1>1, <2>1
  <2>. HIDE DEF y
  <2>3. ToSet(y) = {} /\ IsInjective(y)
    BY <2>2 DEF ToSet, IsInjective
  <2>. QED
    BY <2>2, <2>3 DEF y
<1>2. CASE a <= b
  <2>1. y \in Seq(S) /\ Len(y) = b - a + 1 /\ \A d \in 1..(b - a + 1) : y[d] = x[a + d - 1]
    BY <1>2
  <2>2. DOMAIN y = 1..(b - a + 1) /\ DOMAIN x = 1..Len(x)
    BY <2>1
  <2>. HIDE DEF y
  <2>3. ASSUME NEW d \in DOMAIN y PROVE \E k \in a..b : y[d] = x[k]
    <3>1. a + d - 1 \in a..b /\ y[d] = x[a + d - 1]
      BY <1>2, <2>1, <2>2
    <3>. QED
      BY <3>1
  <2>4. ASSUME NEW k \in a..b PROVE \E d \in DOMAIN y : y[d] = x[k]
    <3>1. PICK d \in 1..(b - a + 1) : k = a + d - 1
      <4>1. k - a + 1 \in 1..(b - a + 1) /\ k = a + (k - a + 1) - 1
        BY <1>2
      <4>. QED
        BY <4>1
    <3>. QED
      BY <2>1, <2>2, <3>1
  <2>5. \A z : z \in ToSet(y) <=> \E k \in a..b : z = x[k]
    <3>1. \A z : z \in ToSet(y) <=> \E d \in DOMAIN y : z = y[d]
      BY DEF ToSet
    <3>. QED
      BY <2>3, <2>4, <3>1
  <2>6. IsInjective(x) => IsInjective(y)
    <3>1. SUFFICES ASSUME IsInjective(x), NEW c \in DOMAIN y, NEW d \in DOMAIN y, y[c] = y[d]
                   PROVE  c = d
      BY DEF IsInjective
    <3>2. /\ c \in 1..(b - a + 1) /\ d \in 1..(b - a + 1)
          /\ a + c - 1 \in 1..Len(x) /\ a + d - 1 \in 1..Len(x)
      BY <1>2, <2>2
    <3>3. x[a + c - 1] = x[a + d - 1]
      BY <2>1, <3>1, <3>2
    <3>4. a + c - 1 = a + d - 1
      BY <2>2, <3>1, <3>2, <3>3 DEF IsInjective
    <3>. QED
      BY <3>2, <3>4
  <2>. QED
    BY <2>1, <2>5, <2>6 DEF y
<1>. QED
  BY <1>1, <1>2

-----------------------------------------------------------------------------
(* Order is kept when a queue grows, when a ping is taken out of it, and   *)
(* when the log grows.                                                     *)
LEMMA OrderedMore ==
  ASSUME NEW x, NEW O, NEW O2, Ordered(x, O),
         \A p, q \in ToSet(x) \ {Ping} : <<p, q>> \in O => <<p, q>> \in O2
  PROVE  Ordered(x, O2)
BY DEF Ordered, ToSet

LEMMA OrderedAppend ==
  ASSUME NEW g \in Seq(Nat), NEW q \in Seq(Nat), NEW e \in Nat, NEW O, Ordered(g \o q, O),
         e = Ping \/ \A f \in (ToSet(g) \cup ToSet(q)) \ {Ping} : <<f, e>> \in O
  PROVE  Ordered(g \o Append(q, e), O)
<1>. DEFINE x == g \o q
            y == g \o Append(q, e)
            n == Len(g) + Len(q)
<1>1. /\ x \in Seq(Nat) /\ Len(x) = n /\ n \in Nat /\ DOMAIN x = 1..n
      /\ ToSet(x) = ToSet(g) \cup ToSet(q)
  BY Joined, JoinedSet
<1>2. DOMAIN y = 1..(n + 1) /\ y[n + 1] = e /\ \A k \in 1..n : y[k] = x[k]
  OBVIOUS
<1>. HIDE DEF x, y, n
<1>3. ASSUME NEW j \in 1..(n + 1), NEW k \in 1..(n + 1), j < k, y[j] # Ping, y[k] # Ping
      PROVE  <<y[j], y[k]>> \in O
  <2>0. j \in 1..n
    BY <1>1, <1>3
  <2>1. j \in 1..n /\ y[j] = x[j] /\ x[j] \in ToSet(x)
    BY <1>1, <1>2, <2>0 DEF ToSet
  <2>2. CASE k = n + 1
    BY <1>1, <1>2, <1>3, <2>1, <2>2
  <2>3. CASE k # n + 1
    <3>1. k \in 1..n /\ y[k] = x[k]
      BY <1>1, <1>2, <2>3
    <3>. QED
      BY <1>1, <1>3, <2>1, <3>1 DEF Ordered, x
  <2>. QED
    BY <2>2, <2>3
<1>. QED
  BY <1>2, <1>3 DEF Ordered, y

LEMMA TakenJoined ==
  ASSUME NEW g \in Seq(Nat), NEW q \in Seq(Nat), q # <<>>
  PROVE  Append(g, Head(q)) \o Tail(q) = g \o q
<1>. DEFINE h == Append(g, Head(q))
            t == Tail(q)
<1>1. /\ Len(q) \in Nat /\ Len(q) >= 1 /\ Head(q) = q[1] /\ Head(q) \in Nat
      /\ t \in Seq(Nat) /\ Len(t) = Len(q) - 1 /\ \A k \in 1..(Len(q) - 1) : t[k] = q[k + 1]
  BY HeadTail
<1>2. /\ h \in Seq(Nat) /\ Len(h) = Len(g) + 1 /\ Len(g) \in Nat
      /\ \A k \in 1..Len(g) : h[k] = g[k]
      /\ h[Len(g) + 1] = Head(q)
  BY <1>1, Appended
<1>. HIDE DEF h, t
<1>. DEFINE x == h \o t
            y == g \o q
<1>3. /\ x \in Seq(Nat) /\ Len(x) = Len(h) + Len(t)
      /\ \A k \in 1..Len(h) : x[k] = h[k]
      /\ \A k \in 1..Len(t) : x[Len(h) + k] = t[k]
  <2>. h \in Seq(Nat) /\ t \in Seq(Nat)
    BY <1>1, <1>2
  <2>1. x \in Seq(Nat) /\ Len(x) = Len(h) + Len(t)
    BY Joined
  <2>2. \A k \in 1..Len(h) : x[k] = h[k]
    BY Joined
  <2>3. \A k \in 1..Len(t) : x[Len(h) + k] = t[k]
    BY Joined
  <2>. QED
    BY <2>1, <2>2, <2>3
<1>4. /\ y \in Seq(Nat) /\ Len(y) = Len(g) + Len(q)
      /\ \A k \in 1..Len(g) : y[k] = g[k]
      /\ \A k \in 1..Len(q) : y[Len(g) + k] = q[k]
  <2>1. y \in Seq(Nat) /\ Len(y) = Len(g) + Len(q)
    BY Joined
  <2>2. \A k \in 1..Len(g) : y[k] = g[k]
    BY Joined
  <2>3. \A k \in 1..Len(q) : y[Len(g) + k] = q[k]
    BY Joined
  <2>. QED
    BY <2>1, <2>2, <2>3
<1>. HIDE DEF x, y
<1>5. ASSUME NEW k \in 1..Len(x) PROVE x[k] = y[k]
  <2>1. CASE k <= Len(g)
    <3>1. k \in 1..Len(g) /\ k \in 1..Len(h)
      BY <1>2, <2>1
    <3>. QED
      BY <1>2, <1>3, <1>4, <3>1
  <2>2. CASE k = Len(g) + 1
    <3>1. Len(g) + 1 \in 1..Len(h) /\ 1 \in 1..Len(q)
      BY <1>1, <1>2
    <3>. QED
      BY <1>1, <1>2, <1>3, <1>4, <2>2, <3>1
  <2>3. CASE k > Len(g) + 1
    <3>. DEFINE d == k - Len(h)
    <3>0. /\ Len(g) \in Nat /\ Len(t) \in Nat /\ Len(h) = Len(g) + 1
          /\ k \in Int /\ k <= Len(h) + Len(t)
      <4>1. Len(g) \in Nat /\ Len(t) \in Nat /\ Len(h) = Len(g) + 1
        BY <1>1, <1>2
      <4>2. Len(x) = Len(h) + Len(t) /\ k \in 1..Len(x)
        BY <1>3
      <4>. QED
        BY <4>1, <4>2
    <3>1. d \in 1..Len(t) /\ k = Len(h) + d
      BY <3>0, <2>3
    <3>. HIDE DEF d
    <3>2. x[k] = q[d + 1]
      BY <1>1, <1>3, <3>1
    <3>3. d + 1 \in 1..Len(q) /\ k = Len(g) + (d + 1)
      BY <1>1, <1>2, <3>1
    <3>4. y[Len(g) + (d + 1)] = q[d + 1]
      BY <1>4, <3>3
    <3>. QED
      BY <3>2, <3>3, <3>4
  <2>. QED
    BY <1>2, <1>3, <2>1, <2>2, <2>3
<1>6. Len(x) = Len(y)
  BY <1>1, <1>2, <1>3, <1>4
<1>7. x = y
  BY <1>3, <1>4, <1>5, <1>6, SameSequence
<1>. QED
  BY <1>7 DEF x, y, h, t

LEMMA OrderedPing ==
  ASSUME NEW g \in Seq(Nat), NEW q \in Seq(Nat), q # <<>>, NEW O, Ordered(g \o q, O)
  PROVE  Ordered(g \o Tail(q), O)
<1>. DEFINE t == Tail(q)
            x == g \o q
            y == g \o t
            n == Len(g) + Len(q)
            up(k) == IF k <= Len(g) THEN k ELSE k + 1
<1>1. /\ Len(q) \in Nat /\ Len(q) >= 1 /\ Len(g) \in Nat
      /\ t \in Seq(Nat) /\ Len(t) = Len(q) - 1 /\ \A k \in 1..(Len(q) - 1) : t[k] = q[k + 1]
  BY HeadTail
<1>. HIDE DEF t
<1>a. /\ DOMAIN x = 1..n /\ \A k \in 1..Len(g) : x[k] = g[k]
      /\ \A k \in 1..Len(q) : x[Len(g) + k] = q[k]
  BY Joined
<1>b. /\ DOMAIN y = 1..(Len(g) + Len(t)) /\ \A k \in 1..Len(g) : y[k] = g[k]
      /\ \A k \in 1..Len(t) : y[Len(g) + k] = t[k]
  BY <1>1, Joined
<1>. HIDE DEF x, y
<1>2. DOMAIN x = 1..n /\ DOMAIN y = 1..(n - 1) /\ n \in Nat
  BY <1>1, <1>a, <1>b
<1>3. ASSUME NEW k \in 1..(n - 1) PROVE up(k) \in 1..n /\ y[k] = x[up(k)]
  <2>1. CASE k <= Len(g)
    <3>1. k \in 1..Len(g)
      BY <2>1
    <3>. QED
      BY <1>1, <1>a, <1>b, <2>1, <3>1
  <2>2. CASE ~(k <= Len(g))
    <3>1. k - Len(g) \in 1..Len(t) /\ k = Len(g) + (k - Len(g))
      BY <1>1, <2>2
    <3>2. PICK d \in 1..Len(t) : k = Len(g) + d
      BY <3>1
    <3>3. y[k] = q[d + 1]
      BY <1>1, <1>b, <3>2
    <3>4. d + 1 \in 1..Len(q) /\ k + 1 = Len(g) + (d + 1)
      BY <1>1, <3>2
    <3>5. x[Len(g) + (d + 1)] = q[d + 1]
      BY <1>a, <3>4
    <3>. QED
      BY <1>1, <2>2, <3>3, <3>4, <3>5
  <2>. QED
    BY <2>1, <2>2
<1>. HIDE DEF x, y, n
<1>4. ASSUME NEW j \in 1..(n - 1), NEW k \in 1..(n - 1), j < k, y[j] # Ping, y[k] # Ping
      PROVE  <<y[j], y[k]>> \in O
  <2>1. up(j) < up(k)
    BY <1>1, <1>2, <1>4
  <2>2. up(j) \in 1..n /\ up(k) \in 1..n /\ y[j] = x[up(j)] /\ y[k] = x[up(k)]
    BY <1>3
  <2>3. Ordered(x, O)
    BY DEF x
  <2>. HIDE DEF up
  <2>. QED
    BY <1>2, <1>4, <2>1, <2>2, <2>3 DEF Ordered
<1>5. Ordered(y, O)
  BY <1>2, <1>4 DEF Ordered
<1>. QED
  BY <1>5 DEF y, t

-----------------------------------------------------------------------------
(* Programs, and the places of events in the log.                          *)
LEMMA ProgramFacts ==
  ASSUME TypeOK
  PROVE  /\ \A m \in Emitter : /\ Program(m) \in Seq(DOMAIN Event) /\ Len(Program(m)) \in Nat
                               /\ \A i \in 1..Len(Program(m)) : Program(m)[i] \in Nat \ {0}
         /\ \A m, n \in Emitter : \A i \in 1..Len(Program(m)), j \in 1..Len(Program(n)) :
              Program(m)[i] = Program(n)[j] => m = n /\ i = j
<1>1. /\ setting.program \in [Emitter -> Seq(DOMAIN Event)]
      /\ \A m, n \in Emitter :
           \A i \in DOMAIN setting.program[m], j \in DOMAIN setting.program[n] :
             setting.program[m][i] = setting.program[n][j] => m = n /\ i = j
  BY ProgramsAssumption DEF TypeOK
<1>2. DOMAIN Event \subseteq Nat \ {0}
  BY HubAssumption
<1>3. \A m \in Emitter :
        /\ setting.program[m] \in Seq(DOMAIN Event) /\ Len(setting.program[m]) \in Nat
        /\ DOMAIN setting.program[m] = 1..Len(setting.program[m])
        /\ \A i \in 1..Len(setting.program[m]) : setting.program[m][i] \in DOMAIN Event
  BY <1>1
<1>. QED
  BY <1>1, <1>2, <1>3 DEF Program

LEMMA OwnerIs ==
  ASSUME TypeOK, NEW m \in Emitter, NEW i \in 1..Len(Program(m))
  PROVE  Owner(Program(m)[i]) = m
<1>1. \A n \in Emitter : Program(m)[i] \in ToSet(Program(n)) <=> n = m
  <2>1. \A n \in Emitter : DOMAIN Program(n) = 1..Len(Program(n))
    BY ProgramFacts
  <2>. QED
    BY <2>1, ProgramFacts DEF ToSet
<1>. QED
  BY <1>1 DEF Owner

LEMMA PlaceIs ==
  ASSUME HistoryInv, NEW k \in DOMAIN log
  PROVE  Place(log[k]) = k
BY DEF HistoryInv, Place

(* What an emitter has emitted last comes after all it emitted before.     *)
LEMMA LatestLast ==
  ASSUME TypeOK, HistoryInv, NEW m \in Emitter, at[m] > 0,
         NEW f \in ToSet(log), f # Current(m)
  PROVE  Precedes(f, Current(m))
<1>. DEFINE e == Current(m)
            n == at[m]
<1>1. n \in 1..n /\ n \in 1..Len(Program(m)) /\ e = Program(m)[n]
  BY ProgramFacts DEF TypeOK, Current
<1>2. PICK k \in DOMAIN log : log[k] = e
  BY <1>1 DEF HistoryInv
<1>3. PICK j \in DOMAIN log : log[j] = f
  BY DEF ToSet
<1>4. PICK o \in Emitter : \E i \in 1..at[o] : f = Program(o)[i]
  BY <1>3 DEF HistoryInv
<1>5. PICK i \in 1..at[o] : f = Program(o)[i]
  BY <1>4
<1>6. i \in 1..Len(Program(o))
  BY <1>5, ProgramFacts DEF TypeOK
<1>7. Owner(f) = o /\ Owner(e) = m
  BY <1>1, <1>5, <1>6, OwnerIs
<1>8. Place(f) = j /\ Place(e) = k
  BY <1>2, <1>3, PlaceIs
<1>9. CASE o = m
  <2>1. i < n
    BY <1>1, <1>5, <1>9 DEF TypeOK
  <2>2. j < k
    BY <1>1, <1>2, <1>3, <1>5, <1>9, <2>1 DEF HistoryInv
  <2>. QED
    BY <1>8, <2>2 DEF Precedes
<1>10. CASE o # m
  BY <1>7, <1>10 DEF Precedes
<1>. QED
  BY <1>9, <1>10

LEMMA EventsAreNumbers ==
  ASSUME TypeOK, HistoryInv, NEW f \in ToSet(log)
  PROVE  f \in Nat \ {0}
<1>1. PICK j \in DOMAIN log : log[j] = f
  BY DEF ToSet
<1>2. PICK o \in Emitter : \E i \in 1..at[o] : f = Program(o)[i]
  BY <1>1 DEF HistoryInv
<1>3. PICK i \in 1..at[o] : f = Program(o)[i]
  BY <1>2
<1>4. i \in 1..Len(Program(o))
  BY <1>3, ProgramFacts DEF TypeOK
<1>. QED
  BY <1>3, <1>4, ProgramFacts

(* A new event goes to the end of the log.                                 *)
LEMMA LogGrows ==
  ASSUME TypeOK, HistoryInv, NEW m \in Emitter, at[m] < Len(Program(m)),
         NEW e, e = Program(m)[at[m] + 1],
         log' = Append(log, e), at' = [at EXCEPT ![m] = @ + 1], setting' = setting
  PROVE  /\ e \in Nat \ {0} /\ e \notin ToSet(log) /\ Current(m)' = e
         /\ \A n \in Emitter \ {m} : Current(n)' = Current(n)
         /\ \A n \in Emitter \ {m} : at[n] > 0 => Current(n) # e
         /\ log' \in Seq(Nat) /\ ToSet(log') = ToSet(log) \cup {e}
         /\ at' \in [Emitter -> Nat] /\ \A n \in Emitter : at'[n] <= Len(Program(n)')
         /\ HistoryInv'
         /\ \A f, h \in ToSet(log) : Precedes(f, h) => Precedes(f, h)'
         /\ \A f \in ToSet(log) : Precedes(f, e)'
<1>. DEFINE n1 == at[m] + 1
            N == Len(log)
<1>1. at[m] \in Nat /\ n1 \in 1..Len(Program(m)) /\ e \in Nat \ {0}
  BY ProgramFacts DEF TypeOK
<1>2. \A n \in Emitter : Program(n)' = Program(n)
  BY DEF Program
<1>3. at'[m] = n1 /\ \A n \in Emitter \ {m} : at'[n] = at[n]
  BY DEF TypeOK
<1>4. /\ log' \in Seq(Nat) /\ N \in Nat /\ DOMAIN log = 1..N /\ DOMAIN log' = 1..(N + 1)
      /\ \A k \in 1..N : log'[k] = log[k]
      /\ log'[N + 1] = e /\ ToSet(log') = ToSet(log) \cup {e}
  <2>1. PICK x \in Seq(Nat) : x = log
    BY DEF TypeOK
  <2>2. e \in Nat
    BY <1>1
  <2>3. /\ Append(x, e) \in Seq(Nat) /\ Len(x) \in Nat
        /\ DOMAIN x = 1..Len(x) /\ DOMAIN Append(x, e) = 1..(Len(x) + 1)
        /\ \A k \in 1..Len(x) : Append(x, e)[k] = x[k]
        /\ Append(x, e)[Len(x) + 1] = e
        /\ ToSet(Append(x, e)) = ToSet(x) \cup {e}
    BY <2>2, AppendedNumber
  <2>4. log' = Append(x, e)
    BY <2>1
  <2>. QED
    BY <2>1, <2>3, <2>4
<1>5. \A n \in Emitter : \A i \in 1..at[n] : i \in 1..Len(Program(n)) /\ Program(n)[i] # e
  <2>1. SUFFICES ASSUME NEW n \in Emitter, NEW i \in 1..at[n]
                 PROVE  i \in 1..Len(Program(n)) /\ Program(n)[i] # e
    OBVIOUS
  <2>2. at[n] \in Nat /\ at[n] <= Len(Program(n)) /\ Len(Program(n)) \in Nat
    BY ProgramFacts DEF TypeOK
  <2>3. i \in 1..Len(Program(n))
    BY <2>2
  <2>4. n = m => i # n1
    BY <1>1, <2>2
  <2>5. e = Program(m)[n1]
    OBVIOUS
  <2>. QED
    BY <1>1, <2>3, <2>4, <2>5, ProgramFacts
<1>6. e \notin ToSet(log)
  <2>1. \A k \in DOMAIN log : log[k] # e
    BY <1>5 DEF HistoryInv
  <2>. QED
    BY <2>1 DEF ToSet
<1>7. Current(m)' = e
  BY <1>1, <1>2, <1>3 DEF Current
<1>8. \A n \in Emitter \ {m} : Current(n)' = Current(n)
  BY <1>2, <1>3 DEF Current
<1>9. \A n \in Emitter \ {m} : at[n] > 0 => Current(n) # e
  <2>1. \A n \in Emitter : at[n] > 0 => at[n] \in 1..at[n] /\ Current(n) = Program(n)[at[n]]
    BY DEF Current, TypeOK
  <2>. QED
    BY <1>5, <2>1
<1>10. at' \in [Emitter -> Nat] /\ \A n \in Emitter : at'[n] <= Len(Program(n)')
  BY <1>1, <1>2, <1>3 DEF TypeOK
<1>11. HistoryInv'
  <2>1. ASSUME NEW n \in Emitter, NEW i \in 1..at'[n]
        PROVE  \E k \in DOMAIN log' : log'[k] = Program(n)[i]
    <3>1. CASE n = m /\ i = n1
      <4>1. N + 1 \in DOMAIN log'
        BY <1>4
      <4>. QED
        BY <1>4, <3>1, <4>1
    <3>2. CASE ~(n = m /\ i = n1)
      <4>1. i \in 1..at[n]
        BY <1>1, <1>3, <3>2
      <4>2. PICK k \in DOMAIN log : log[k] = Program(n)[i]
        BY <4>1 DEF HistoryInv
      <4>3. k \in DOMAIN log' /\ log'[k] = log[k]
        BY <1>4
      <4>. QED
        BY <4>2, <4>3
    <3>. QED
      BY <3>1, <3>2
  <2>2. ASSUME NEW k \in DOMAIN log'
        PROVE  \E n \in Emitter : \E i \in 1..at'[n] : log'[k] = Program(n)[i]
    <3>1. CASE k = N + 1
      <4>1. n1 \in 1..at'[m]
        BY <1>1, <1>3
      <4>. QED
        BY <1>4, <3>1, <4>1
    <3>2. CASE k # N + 1
      <4>1. k \in DOMAIN log /\ log'[k] = log[k]
        BY <1>4, <3>2
      <4>2. PICK n \in Emitter : \E i \in 1..at[n] : log[k] = Program(n)[i]
        BY <4>1 DEF HistoryInv
      <4>3. PICK i \in 1..at[n] : log[k] = Program(n)[i]
        BY <4>2
      <4>4. i \in 1..at'[n]
        BY <1>1, <1>3 DEF TypeOK
      <4>. QED
        BY <4>1, <4>3, <4>4
    <3>. QED
      BY <3>1, <3>2
  <2>3. ASSUME NEW j \in DOMAIN log', NEW k \in DOMAIN log', log'[j] = log'[k] PROVE j = k
    <3>1. \A i \in DOMAIN log : log[i] # e
      BY <1>6 DEF ToSet
    <3>2. \A i \in DOMAIN log' : i = N + 1 \/ (i \in DOMAIN log /\ log'[i] = log[i])
      BY <1>4
    <3>3. \A i, l \in DOMAIN log : log[i] = log[l] => i = l
      BY DEF HistoryInv
    <3>. QED
      BY <1>4, <2>3, <3>1, <3>2, <3>3
  <2>4. ASSUME NEW n \in Emitter, NEW i \in 1..at'[n], NEW l \in 1..at'[n],
               NEW j \in DOMAIN log', NEW k \in DOMAIN log',
               log'[j] = Program(n)[i], log'[k] = Program(n)[l], i < l
        PROVE  j < k
    <3>1. i \in 1..at[n]
      BY <1>1, <1>3, <2>4 DEF TypeOK
    <3>2. j \in DOMAIN log /\ log'[j] = log[j]
      <4>1. log'[j] # e
        BY <1>5, <2>4, <3>1
      <4>. QED
        BY <1>4, <4>1
    <3>3. CASE k = N + 1
      BY <1>4, <3>2, <3>3
    <3>4. CASE k # N + 1
      <4>1. k \in DOMAIN log /\ log'[k] = log[k]
        BY <1>4, <3>4
      <4>2. log[k] # e
        BY <1>6, <4>1 DEF ToSet
      <4>3. l \in 1..at[n]
        <5>1. ~(n = m /\ l = n1)
          BY <2>4, <4>1, <4>2
        <5>. QED
          BY <1>1, <1>3, <5>1
      <4>. QED
        <5>1. log[j] = Program(n)[i] /\ log[k] = Program(n)[l]
          BY <2>4, <3>2, <4>1
        <5>2. \A a \in 1..at[n], b \in 1..at[n] : \A c, d \in DOMAIN log :
                log[c] = Program(n)[a] /\ log[d] = Program(n)[b] /\ a < b => c < d
          BY DEF HistoryInv
        <5>. QED
          BY <2>4, <3>1, <3>2, <4>1, <4>3, <5>1, <5>2
    <3>. QED
      BY <3>3, <3>4
  <2>. QED
    <3>1. \A n \in Emitter : \A i \in 1..at'[n] : \E k \in DOMAIN log' : log'[k] = Program(n)'[i]
      BY <1>2, <2>1
    <3>2. \A k \in DOMAIN log' : \E n \in Emitter : \E i \in 1..at'[n] :
            log'[k] = Program(n)'[i]
      BY <1>2, <2>2
    <3>3. \A n \in Emitter : \A i, l \in 1..at'[n] : \A j, k \in DOMAIN log' :
            log'[j] = Program(n)'[i] /\ log'[k] = Program(n)'[l] /\ i < l => j < k
      BY <1>2, <2>4
    <3>. QED
      BY <2>3, <3>1, <3>2, <3>3 DEF HistoryInv
<1>12. \A f : Owner(f)' = Owner(f)
  BY DEF Owner, Program
<1>13. ASSUME NEW f \in ToSet(log) PROVE Place(f)' = Place(f) /\ Place(f) \in 1..N
  <2>1. PICK k \in DOMAIN log : log[k] = f
    BY DEF ToSet
  <2>2. k \in DOMAIN log' /\ log'[k] = f
    BY <1>4, <2>1
  <2>3. \A i, l \in DOMAIN log' : log'[i] = log'[l] => i = l
    BY <1>11 DEF HistoryInv
  <2>4. Place(f) = k
    BY <2>1, PlaceIs
  <2>5. Place(f)' = k
    BY <2>2, <2>3 DEF Place
  <2>. QED
    BY <1>4, <2>1, <2>4, <2>5
<1>14. \A f, h \in ToSet(log) : Precedes(f, h) => Precedes(f, h)'
  BY <1>12, <1>13 DEF Precedes
<1>15. Place(e)' = N + 1
  <2>1. \A i, l \in DOMAIN log' : log'[i] = log'[l] => i = l
    BY <1>11 DEF HistoryInv
  <2>2. N + 1 \in DOMAIN log' /\ log'[N + 1] = e
    BY <1>4
  <2>. QED
    BY <2>1, <2>2 DEF Place
<1>16. \A f \in ToSet(log) : Precedes(f, e)'
  BY <1>4, <1>6, <1>13, <1>15 DEF Precedes
<1>. QED
  BY <1>1, <1>4, <1>6, <1>7, <1>8, <1>9, <1>10, <1>11, <1>14, <1>16

-----------------------------------------------------------------------------
(* What one step of an emission does with the consumers it has to offer to.*)
LEMMA NothingIn == \A x : x = <<>> => ToSet(x) = {}
BY DEF ToSet

LEMMA ReachedIs ==
  ASSUME NEW todo \in Seq(Subscriber)
  PROVE  /\ Reached(todo) \in Nat /\ Reached(todo) <= Len(todo)
         /\ FullAt(todo) = {} => Reached(todo) = Len(todo)
         /\ FullAt(todo) # {} => Reached(todo) + 1 \in FullAt(todo)
<1>1. PICK N \in Nat : N = Len(todo)
  OBVIOUS
<1>2. FullAt(todo) \in SUBSET Nat /\ \A k \in FullAt(todo) : k \in 1..N
  BY <1>1 DEF FullAt
<1>3. CASE FullAt(todo) = {}
  BY <1>1, <1>3 DEF Reached
<1>4. CASE FullAt(todo) # {}
  <2>1. Min(FullAt(todo)) \in FullAt(todo)
    BY <1>2, <1>4, MinIs
  <2>2. PICK x \in 1..N : x = Min(FullAt(todo)) /\ x \in FullAt(todo)
    BY <1>2, <2>1
  <2>3. Reached(todo) = x - 1
    BY <1>4, <2>2 DEF Reached
  <2>4. (x - 1) + 1 = x /\ x - 1 \in Nat /\ x - 1 <= N
    BY <1>1
  <2>. QED
    BY <1>1, <1>4, <2>2, <2>3, <2>4
<1>. QED
  BY <1>3, <1>4

LEMMA OfferEffect ==
  ASSUME TypeOK, NEW m \in Emitter, NEW e \in Nat,
         NEW todo \in Seq(Subscriber), IsInjective(todo), Offer(m, e, todo)
  PROVE  /\ rest' \in [Emitter -> Seq(Subscriber)] /\ logging' \in [Emitter -> BOOLEAN]
         /\ queue' \in [Subscriber -> Seq(Nat)] /\ full' \in [Subscriber -> SUBSET Nat]
         /\ \A n \in Emitter \ {m} : rest'[n] = rest[n] /\ logging'[n] = logging[n]
         /\ IsInjective(rest'[m]) /\ ToSet(rest'[m]) \subseteq ToSet(todo)
         /\ \A s \in Subscriber : full[s] \subseteq full'[s]
         /\ \A s \in Subscriber : s \notin ToSet(todo) => queue'[s] = queue[s]
         /\ \A s \in ToSet(todo) :
              \/ queue'[s] = Append(queue[s], e) /\ s \notin ToSet(rest'[m])
              \/ queue'[s] = queue[s]
                 /\ (s \in ToSet(rest'[m]) \/ (s \in ToSet(subs) => e \in full'[s]))
<1>a. PICK N \in Nat : N = Len(todo)
  OBVIOUS
<1>b. PICK r \in Nat : r = Reached(todo)
  BY ReachedIs
<1>c. PICK F : F = FullAt(todo)
  OBVIOUS
<1>. DEFINE before == SubSeq(todo, 1, r)
            after == SubSeq(todo, r + 2, N)
<1>1. N \in Nat /\ DOMAIN todo = 1..N /\ \A k \in 1..N : todo[k] \in Subscriber
  BY <1>a
<1>2. r \in Nat /\ r <= N /\ Len(todo) = N
  BY <1>a, <1>b, ReachedIs
<1>d. (F = {} => r = N) /\ (F # {} => r + 1 \in F)
  BY <1>a, <1>b, <1>c, ReachedIs
<1>3. /\ queue' = [s \in Subscriber |-> IF s \in ToSet(before) THEN Append(queue[s], e)
                                        ELSE queue[s]]
      /\ rest' = [rest EXCEPT ![m] = after]
      /\ logging' = [logging EXCEPT ![m] = F # {}]
      /\ full' = [s \in Subscriber |-> IF s \in Overflowed(todo) \cap ToSet(subs)
                                       THEN full[s] \cup {e} ELSE full[s]]
  BY <1>a, <1>b, <1>c DEF Offer, Put, AfterFull
<1>4. F # {} => todo[r + 1] \in Overflowed(todo)
  BY <1>b, <1>c, <1>d DEF Overflowed
<1>5. ToSet(before) \subseteq ToSet(todo) /\ \A k \in 1..r : todo[k] \in ToSet(before)
  <2>1. \A z : z \in ToSet(before) <=> \E k \in 1..r : z = todo[k]
    BY <1>2, Slice
  <2>2. \A k \in 1..r : k \in 1..N
    BY <1>2
  <2>. HIDE DEF before
  <2>. QED
    BY <1>1, <2>1, <2>2 DEF ToSet
<1>6. /\ after \in Seq(Subscriber) /\ IsInjective(after)
      /\ \A z : z \in ToSet(after) <=> \E k \in (r + 2)..N : z = todo[k]
  <2>1. r + 2 \in Nat \ {0} /\ N \in Nat /\ N <= Len(todo)
    BY <1>2
  <2>. QED
    BY <2>1, Slice
<1>. HIDE DEF before, after
<1>7. rest' \in [Emitter -> Seq(Subscriber)] /\ rest'[m] = after
  BY <1>3, <1>6 DEF TypeOK
<1>8. logging' \in [Emitter -> BOOLEAN]
  <2>1. (F # {}) \in BOOLEAN
    OBVIOUS
  <2>. QED
    BY <1>3, <2>1 DEF TypeOK
<1>9. queue' \in [Subscriber -> Seq(Nat)]
  <2>1. \A s \in Subscriber : queue[s] \in Seq(Nat) /\ Append(queue[s], e) \in Seq(Nat)
    BY AppendedNumber DEF TypeOK
  <2>. QED
    BY <1>3, <2>1
<1>10. full' \in [Subscriber -> SUBSET Nat] /\ \A s \in Subscriber : full[s] \subseteq full'[s]
  BY <1>3 DEF TypeOK
<1>11. \A n \in Emitter \ {m} : rest'[n] = rest[n] /\ logging'[n] = logging[n]
  BY <1>3 DEF TypeOK
<1>12. ToSet(after) \subseteq ToSet(todo)
  <2>1. \A k \in (r + 2)..N : k \in 1..N
    BY <1>1, <1>2
  <2>. QED
    BY <1>1, <1>6, <2>1 DEF ToSet
<1>13. \A s \in Subscriber : s \notin ToSet(todo) => queue'[s] = queue[s]
  BY <1>3, <1>5
<1>14. ASSUME NEW s \in ToSet(todo)
       PROVE  \/ queue'[s] = Append(queue[s], e) /\ s \notin ToSet(rest'[m])
              \/ queue'[s] = queue[s]
                 /\ (s \in ToSet(rest'[m]) \/ (s \in ToSet(subs) => e \in full'[s]))
  <2>1. PICK k \in 1..N : s = todo[k]
    BY <1>1 DEF ToSet
  <2>2. s \in Subscriber
    BY <1>1, <2>1
  <2>3. \A j \in 1..N : s = todo[j] => j = k
    BY <1>1, <2>1 DEF IsInjective
  <2>4. CASE k <= r
    <3>1. k \in 1..r
      BY <1>1, <2>4
    <3>2. s \in ToSet(before)
      BY <1>5, <2>1, <3>1
    <3>3. s \notin ToSet(after)
      <4>1. \A j \in (r + 2)..N : j \in 1..N /\ j # k
        BY <1>1, <1>2, <2>4
      <4>. QED
        BY <1>6, <2>3, <4>1
    <3>. QED
      BY <1>3, <1>7, <2>2, <3>2, <3>3
  <2>5. CASE k > r
    <3>1. s \notin ToSet(before)
      <4>1. \A z : z \in ToSet(before) <=> \E j \in 1..r : z = todo[j]
        BY <1>2, Slice DEF before
      <4>2. \A j \in 1..r : j \in 1..N /\ j # k
        BY <1>1, <1>2, <2>5
      <4>. QED
        BY <2>3, <4>1, <4>2
    <3>2. queue'[s] = queue[s]
      BY <1>3, <2>2, <3>1
    <3>3. CASE k = r + 1
      <4>1. F # {}
        BY <1>1, <1>2, <1>d, <3>3
      <4>2. s \in ToSet(subs) => e \in full'[s]
        BY <1>3, <1>4, <2>1, <2>2, <3>3, <4>1
      <4>. QED
        BY <3>2, <4>2
    <3>4. CASE k # r + 1
      <4>1. k \in (r + 2)..N
        BY <1>1, <1>2, <2>5, <3>4
      <4>. QED
        BY <1>6, <1>7, <2>1, <3>2, <4>1
    <3>. QED
      BY <3>3, <3>4
  <2>. QED
    BY <1>1, <1>2, <2>4, <2>5
<1>. QED
  BY <1>6, <1>7, <1>8, <1>9, <1>10, <1>11, <1>12, <1>13, <1>14

(* The queue of one consumer is in order, at most once each, and what it   *)
(* misses is accounted for, after a step of any emission.                  *)
LEMMA Offered ==
  ASSUME TypeOK, OfferInv, \A s \in ToSet(subs) : Fed(s),
         NEW m \in Emitter, NEW e \in Nat \ {0},
         NEW todo \in Seq(Subscriber), IsInjective(todo), Offer(m, e, todo),
         subs' = subs, got' = got, cut' = cut,
         due' \in [Subscriber -> SUBSET Nat],
         Current(m)' = e, at'[m] > 0,
         \A n \in Emitter \ {m} : at'[n] = at[n] /\ Current(n)' = Current(n),
         \A n \in Emitter \ {m} : at[n] > 0 => Current(n) # e,
         ToSet(rest[m]) \subseteq ToSet(todo), rest[m] # <<>> => Current(m) = e,
         \A s \in ToSet(subs) :
           /\ due[s] \subseteq due'[s] /\ due'[s] \subseteq due[s] \cup {e}
           /\ s \notin ToSet(todo) => due'[s] = due[s]
           /\ s \in ToSet(todo) => e \in due'[s] \ Had(s),
         \A s \in ToSet(subs) : \A f, h \in Had(s) \ {Ping} :
           <<f, h>> \in Order => <<f, h>> \in Order',
         \A s \in ToSet(subs) : s \in ToSet(todo) =>
           \A f \in Had(s) \ {Ping} : <<f, e>> \in Order'
  PROVE  OfferInv' /\ \A s \in ToSet(subs) : Fed(s)'
<1>. DEFINE R == rest'
            O2 == Order'
            D == due'
            Q == queue'
            L == full'
            C2(s) == Coming(s)'
<1>1. /\ R \in [Emitter -> Seq(Subscriber)] /\ Q \in [Subscriber -> Seq(Nat)]
      /\ \A n \in Emitter \ {m} : R[n] = rest[n] /\ logging'[n] = logging[n]
      /\ IsInjective(R[m]) /\ ToSet(R[m]) \subseteq ToSet(todo)
      /\ \A s \in Subscriber : full[s] \subseteq L[s]
      /\ \A s \in Subscriber : s \notin ToSet(todo) => Q[s] = queue[s]
      /\ \A s \in ToSet(todo) :
           \/ Q[s] = Append(queue[s], e) /\ s \notin ToSet(R[m])
           \/ Q[s] = queue[s] /\ (s \in ToSet(R[m]) \/ (s \in ToSet(subs) => e \in L[s]))
  BY OfferEffect
<1>2. ToSet(subs) \subseteq Subscriber
  <2>1. \A k \in DOMAIN subs : subs[k] \in Subscriber
    BY DEF TypeOK
  <2>. QED
    BY <2>1 DEF ToSet
<1>3. ASSUME NEW s \in ToSet(subs)
      PROVE  /\ Had(s) \subseteq Had(s)' /\ Had(s)' \subseteq Had(s) \cup {e}
             /\ s \notin ToSet(todo) => Had(s)' = Had(s)
             /\ s \in ToSet(R[m]) => Had(s)' = Had(s)
             /\ s \in ToSet(todo) => e \in Had(s)' \/ s \in ToSet(R[m]) \/ e \in L[s]
             /\ Ordered(got[s] \o Q[s], O2)
  <2>1. s \in Subscriber /\ got[s] \in Seq(Nat) /\ queue[s] \in Seq(Nat)
    BY <1>2 DEF TypeOK
  <2>2. Had(s)' = ToSet(got[s]) \cup ToSet(Q[s])
    BY DEF Had
  <2>3. Ordered(got[s] \o queue[s], O2)
    <3>1. Ordered(got[s] \o queue[s], Order)
      BY DEF Fed
    <3>2. ToSet(got[s] \o queue[s]) = Had(s)
      BY <2>1, JoinedSet DEF Had
    <3>3. \A f, h \in Had(s) \ {Ping} : <<f, h>> \in Order => <<f, h>> \in O2
      OBVIOUS
    <3>. HIDE DEF O2
    <3>. QED
      BY <3>1, <3>2, <3>3, OrderedMore
  <2>4. CASE Q[s] = queue[s]
    <3>1. Had(s)' = Had(s)
      BY <2>2, <2>4 DEF Had
    <3>2. s \in ToSet(todo) => s \in ToSet(R[m]) \/ e \in L[s] \/ Q[s] = Append(queue[s], e)
      BY <1>1
    <3>3. Q[s] # Append(queue[s], e)
      <4>1. Len(Append(queue[s], e)) = Len(queue[s]) + 1 /\ Len(queue[s]) \in Nat
        BY <2>1, AppendedNumber
      <4>. QED
        BY <2>4, <4>1
    <3>. QED
      BY <2>3, <2>4, <3>1, <3>2, <3>3
  <2>5. CASE s \in ToSet(todo) /\ Q[s] = Append(queue[s], e) /\ s \notin ToSet(R[m])
    <3>1. ToSet(Q[s]) = ToSet(queue[s]) \cup {e}
      <4>1. PICK q \in Seq(Nat) : q = queue[s]
        BY <2>1
      <4>2. e \in Nat
        OBVIOUS
      <4>3. ToSet(Append(q, e)) = ToSet(q) \cup {e}
        BY <4>2, AppendedNumber
      <4>. QED
        BY <2>5, <4>1, <4>3
    <3>2. Had(s)' = Had(s) \cup {e}
      BY <2>2, <3>1 DEF Had
    <3>3. \A f \in (ToSet(got[s]) \cup ToSet(queue[s])) \ {Ping} : <<f, e>> \in O2
      BY <2>5 DEF Had
    <3>4. Ordered(got[s] \o Append(queue[s], e), O2)
      <4>. HIDE DEF O2
      <4>. QED
        BY <2>1, <2>3, <3>3, OrderedAppend
    <3>. QED
      BY <2>5, <3>2, <3>4
  <2>. QED
    BY <1>1, <2>1, <2>4, <2>5
<1>4. ASSUME NEW n \in Emitter, NEW s \in ToSet(R[n]), s \in ToSet(subs)
      PROVE  Current(n)' \in D[s] \ Had(s)'
  <2>1. CASE n = m
    <3>1. s \in ToSet(todo) /\ Had(s)' = Had(s)
      BY <1>1, <1>3, <1>4, <2>1
    <3>. QED
      BY <1>4, <2>1, <3>1
  <2>2. CASE n # m
    <3>1. s \in ToSet(rest[n])
      BY <1>1, <2>2
    <3>2. at[n] > 0
      BY <3>1, NothingIn DEF OfferInv
    <3>3. Current(n) \in due[s] \ Had(s) /\ Current(n) # e /\ Current(n)' = Current(n)
      BY <1>4, <2>2, <3>1, <3>2 DEF OfferInv
    <3>. QED
      BY <1>3, <1>4, <3>3
  <2>. QED
    BY <2>1, <2>2
<1>5. OfferInv'
  <2>1. ASSUME NEW n \in Emitter
        PROVE  (R[n] # <<>> \/ logging'[n] => at'[n] > 0) /\ IsInjective(R[n])
    BY <1>1 DEF OfferInv
  <2>. QED
    BY <1>4, <2>1 DEF OfferInv
<1>6. ASSUME NEW s \in ToSet(subs) PROVE Fed(s)'
  <2>0. s \in Subscriber
    BY <1>2
  <2>1. Had(s)' \ {Ping} \subseteq D[s]
    <3>1. Had(s) \ {Ping} \subseteq due[s]
      BY DEF Fed
    <3>2. s \in ToSet(todo) => e \in D[s]
      OBVIOUS
    <3>. QED
      BY <1>3, <3>1, <3>2
  <2>2. D[s] \ Had(s)' \subseteq L[s] \cup cut \cup C2(s)
    <3>1. SUFFICES ASSUME NEW f \in D[s], f \notin Had(s)', f \notin L[s], f \notin cut
                   PROVE  f \in C2(s)
      OBVIOUS
    <3>2. \A n \in Emitter : s \in ToSet(R[n]) => Current(n)' \in C2(s)
      BY DEF Coming
    <3>3. CASE f = e /\ s \in ToSet(todo)
      BY <1>3, <3>1, <3>2, <3>3
    <3>4. CASE ~(f = e /\ s \in ToSet(todo))
      <4>1. f \in due[s] /\ f \notin Had(s) /\ f \notin full[s]
        BY <1>1, <1>3, <2>0, <3>1, <3>4
      <4>2. f \in Coming(s)
        BY <3>1, <4>1 DEF Fed
      <4>3. PICK n \in Emitter : s \in ToSet(rest[n]) /\ f = Current(n)
        BY <4>2 DEF Coming
      <4>4. n # m
        BY <3>4, <4>3, NothingIn
      <4>. QED
        BY <1>1, <3>2, <4>3, <4>4
    <3>. QED
      BY <3>3, <3>4
  <2>3. Ordered(got[s] \o Q[s], O2)
    BY <1>3
  <2>. QED
    BY <2>1, <2>2, <2>3 DEF Fed
<1>. QED
  BY <1>5, <1>6

-----------------------------------------------------------------------------
(* What the steps have in common.                                          *)
LEMMA SubscriberSet ==
  ASSUME TypeOK
  PROVE  ToSet(subs) \subseteq Subscriber
<1>1. \A k \in DOMAIN subs : subs[k] \in Subscriber
  BY DEF TypeOK
<1>. QED
  BY <1>1 DEF ToSet

(* What a consumer has been given has been emitted.                        *)
LEMMA GivenWasEmitted ==
  ASSUME TypeOK, HistoryInv, FeedInv, NEW s \in ToSet(subs)
  PROVE  /\ Had(s) \ {Ping} \subseteq ToSet(log) /\ due[s] \subseteq ToSet(log)
         /\ \A f \in due[s] : f \in Nat \ {0}
<1>1. s \in Subscriber
  BY SubscriberSet
<1>2. due[s] \subseteq ToSet(log) /\ Had(s) \ {Ping} \subseteq due[s]
  BY <1>1 DEF FeedInv, Fed
<1>. QED
  BY <1>2, EventsAreNumbers

LEMMA SameHistory ==
  ASSUME HistoryInv, setting' = setting, at' = at, log' = log
  PROVE  /\ HistoryInv' /\ Order' = Order
         /\ \A n \in Emitter : Program(n)' = Program(n) /\ Current(n)' = Current(n)
<1>1. \A n \in Emitter : Program(n)' = Program(n)
  BY DEF Program
<1>2. \A n \in Emitter : Current(n)' = Current(n)
  BY <1>1 DEF Current
<1>3. HistoryInv'
  BY <1>1 DEF HistoryInv
<1>4. \A f : Owner(f)' = Owner(f) /\ Place(f)' = Place(f)
  BY DEF Owner, Place, Program
<1>5. \A f, h : Precedes(f, h)' <=> Precedes(f, h)
  BY <1>4 DEF Precedes
<1>6. Order' = Order
  BY <1>5 DEF Order
<1>. QED
  BY <1>1, <1>2, <1>3, <1>6

LEMMA SameFed ==
  ASSUME NEW s, Fed(s), Order' = Order,
         got'[s] = got[s], queue'[s] = queue[s], due'[s] = due[s], full'[s] = full[s],
         cut \subseteq cut', Coming(s) \subseteq cut' \cup Coming(s)'
  PROVE  Fed(s)'
<1>1. Had(s)' = Had(s)
  BY DEF Had
<1>2. Had(s)' \ {Ping} \subseteq due'[s]
  BY <1>1 DEF Fed
<1>3. due'[s] \ Had(s)' \subseteq full'[s] \cup cut' \cup Coming(s)'
  BY <1>1 DEF Fed
<1>4. Ordered(got'[s] \o queue'[s], Order')
  BY DEF Fed
<1>. QED
  BY <1>2, <1>3, <1>4 DEF Fed

LEMMA SameComing ==
  ASSUME rest' = rest, \A n \in Emitter : Current(n)' = Current(n)
  PROVE  \A s : Coming(s)' = Coming(s)
BY DEF Coming

LEMMA InOrder ==
  /\ \A f, h \in Nat : <<f, h>> \in Order <=> Precedes(f, h)
  /\ \A f, h \in Nat : <<f, h>> \in Order' <=> Precedes(f, h)'
BY DEF Order

-----------------------------------------------------------------------------
(* The emissions.                                                          *)
LEMMA EmitKeeps ==
  ASSUME HubInv, NEW m \in Emitter, Emit(m)
  PROVE  HubInv'
<1>. USE DEF HubInv
<1>1. PICK e : e = Program(m)[at[m] + 1]
  OBVIOUS
<1>2. PICK todo : todo = IF "sse" \in sinks THEN subs ELSE <<>>
  OBVIOUS
<1>3. /\ at[m] < Len(Program(m)) /\ Offer(m, e, todo) /\ log' = Append(log, e)
      /\ due' = [s \in Subscriber |-> IF s \in ToSet(todo) THEN due[s] \cup {e} ELSE due[s]]
      /\ at' = [at EXCEPT ![m] = @ + 1]
      /\ setting' = setting /\ subs' = subs /\ got' = got /\ cut' = cut
  BY <1>1, <1>2 DEF Emit, clock
<1>4. rest[m] = <<>>
  BY DEF Emit, Open
<1>5. /\ todo \in Seq(Subscriber) /\ IsInjective(todo) /\ ToSet(todo) \subseteq ToSet(subs)
  <2>1. CASE "sse" \in sinks
    BY <1>2, <2>1 DEF TypeOK, FeedInv
  <2>2. CASE "sse" \notin sinks
    <3>1. todo = <<>> /\ DOMAIN todo = {}
      BY <1>2, <2>2
    <3>. QED
      BY <3>1 DEF IsInjective, ToSet
  <2>. QED
    BY <2>1, <2>2
<1>6. /\ e \in Nat \ {0} /\ e \notin ToSet(log) /\ Current(m)' = e
      /\ \A n \in Emitter \ {m} : Current(n)' = Current(n)
      /\ \A n \in Emitter \ {m} : at[n] > 0 => Current(n) # e
      /\ log' \in Seq(Nat) /\ ToSet(log') = ToSet(log) \cup {e}
      /\ at' \in [Emitter -> Nat] /\ \A n \in Emitter : at'[n] <= Len(Program(n)')
      /\ HistoryInv'
      /\ \A f, h \in ToSet(log) : Precedes(f, h) => Precedes(f, h)'
      /\ \A f \in ToSet(log) : Precedes(f, e)'
  BY <1>1, <1>3, LogGrows
<1>7. /\ at'[m] > 0 /\ \A n \in Emitter \ {m} : at'[n] = at[n]
  BY <1>3 DEF TypeOK
<1>8. due' \in [Subscriber -> SUBSET Nat]
  BY <1>3, <1>6 DEF TypeOK
<1>9. \A s \in ToSet(subs) :
        /\ due[s] \subseteq due'[s] /\ due'[s] \subseteq due[s] \cup {e}
        /\ s \notin ToSet(todo) => due'[s] = due[s]
        /\ s \in ToSet(todo) => e \in due'[s] \ Had(s)
  <2>1. ASSUME NEW s \in ToSet(subs) PROVE s \in Subscriber /\ e \notin Had(s)
    BY <1>6, SubscriberSet, GivenWasEmitted DEF Ping
  <2>. QED
    BY <1>3, <2>1
<1>10. \A s \in ToSet(subs) : \A f, h \in Had(s) \ {Ping} :
         <<f, h>> \in Order => <<f, h>> \in Order'
  <2>1. SUFFICES ASSUME NEW s \in ToSet(subs), NEW f \in Had(s) \ {Ping},
                        NEW h \in Had(s) \ {Ping}, <<f, h>> \in Order
                 PROVE  <<f, h>> \in Order'
    OBVIOUS
  <2>2. f \in ToSet(log) /\ h \in ToSet(log) /\ f \in Nat /\ h \in Nat
    BY GivenWasEmitted, EventsAreNumbers
  <2>. QED
    BY <1>6, <2>1, <2>2, InOrder
<1>11. \A s \in ToSet(subs) : s \in ToSet(todo) =>
         \A f \in Had(s) \ {Ping} : <<f, e>> \in Order'
  <2>1. SUFFICES ASSUME NEW s \in ToSet(subs), NEW f \in Had(s) \ {Ping}
                 PROVE  <<f, e>> \in Order'
    OBVIOUS
  <2>2. f \in ToSet(log) /\ f \in Nat
    BY GivenWasEmitted, EventsAreNumbers
  <2>. QED
    BY <1>6, <2>2, InOrder
<1>12. \A s \in ToSet(subs) : Fed(s)
  BY SubscriberSet DEF FeedInv
<1>13. ToSet(rest[m]) \subseteq ToSet(todo)
  BY <1>4, NothingIn
<1>14. OfferInv' /\ \A s \in ToSet(subs) : Fed(s)'
  BY <1>3, <1>4, <1>5, <1>6, <1>7, <1>8, <1>9, <1>10, <1>11, <1>12, <1>13, Offered
<1>15. TypeOK'
  <2>1. /\ rest' \in [Emitter -> Seq(Subscriber)] /\ logging' \in [Emitter -> BOOLEAN]
        /\ queue' \in [Subscriber -> Seq(Nat)] /\ full' \in [Subscriber -> SUBSET Nat]
    <3>1. e \in Nat
      BY <1>6
    <3>. QED
      BY <1>3, <1>5, <3>1, OfferEffect
  <2>. QED
    BY <1>3, <1>6, <1>8, <2>1 DEF TypeOK
<1>16. FeedInv'
  <2>1. ASSUME NEW s \in Subscriber, s \notin ToSet(subs) PROVE due'[s] = {} /\ got'[s] = <<>>
    BY <1>3, <1>5, <2>1 DEF FeedInv
  <2>2. ASSUME NEW s \in Subscriber PROVE due'[s] \subseteq ToSet(log')
    BY <1>3, <1>6 DEF FeedInv
  <2>3. IsInjective(subs)
    BY DEF FeedInv
  <2>. QED
    BY <1>3, <1>14, <2>1, <2>2, <2>3 DEF FeedInv
<1>. QED
  BY <1>6, <1>14, <1>15, <1>16

LEMMA LoggedKeeps ==
  ASSUME HubInv, NEW m \in Emitter, Logged(m)
  PROVE  HubInv'
<1>. USE DEF HubInv
<1>1. PICK e : e = Current(m)
  OBVIOUS
<1>2. PICK todo : todo = rest[m]
  OBVIOUS
<1>3. /\ logging[m] /\ Offer(m, e, todo) /\ setting' = setting /\ at' = at /\ log' = log
      /\ subs' = subs /\ got' = got /\ due' = due /\ cut' = cut
  BY <1>1, <1>2 DEF Logged, clock
<1>4. todo \in Seq(Subscriber) /\ IsInjective(todo) /\ at[m] > 0
  BY <1>2, <1>3 DEF TypeOK, OfferInv
<1>5. /\ HistoryInv' /\ Order' = Order
      /\ \A n \in Emitter : Program(n)' = Program(n) /\ Current(n)' = Current(n)
  BY <1>3, SameHistory
<1>6. \A n \in Emitter : at[n] > 0 => /\ at[n] \in 1..Len(Program(n))
                                      /\ Current(n) = Program(n)[at[n]]
  BY ProgramFacts DEF TypeOK, Current
<1>7. e \in Nat \ {0} /\ \A n \in Emitter \ {m} : at[n] > 0 => Current(n) # e
  BY <1>1, <1>4, <1>6, ProgramFacts
<1>8. \A s \in ToSet(subs) : s \in ToSet(todo) => e \in due[s] \ Had(s)
  BY <1>1, <1>2 DEF OfferInv
<1>9. \A s \in ToSet(subs) : s \in ToSet(todo) =>
        \A f \in Had(s) \ {Ping} : <<f, e>> \in Order
  <2>1. SUFFICES ASSUME NEW s \in ToSet(subs), s \in ToSet(todo), NEW f \in Had(s) \ {Ping}
                 PROVE  <<f, e>> \in Order
    OBVIOUS
  <2>2. f \in ToSet(log) /\ f \in Nat /\ f # e
    BY <1>8, <2>1, GivenWasEmitted, EventsAreNumbers
  <2>3. Precedes(f, e)
    BY <1>1, <1>4, <2>2, LatestLast
  <2>. QED
    BY <1>7, <2>2, <2>3, InOrder
<1>10. \A s \in ToSet(subs) : Fed(s)
  BY SubscriberSet DEF FeedInv
<1>11. due' \in [Subscriber -> SUBSET Nat]
  BY <1>3 DEF TypeOK
<1>12. Current(m)' = e /\ at'[m] > 0
  BY <1>1, <1>3, <1>4, <1>5
<1>13. \A n \in Emitter \ {m} : at'[n] = at[n] /\ Current(n)' = Current(n)
  BY <1>3, <1>5
<1>14. \A s \in ToSet(subs) :
         /\ due[s] \subseteq due'[s] /\ due'[s] \subseteq due[s] \cup {e}
         /\ s \notin ToSet(todo) => due'[s] = due[s]
         /\ s \in ToSet(todo) => e \in due'[s] \ Had(s)
  BY <1>3, <1>8
<1>15. ToSet(rest[m]) \subseteq ToSet(todo) /\ (rest[m] # <<>> => Current(m) = e)
  BY <1>1, <1>2
<1>16. /\ \A s \in ToSet(subs) : \A f, h \in Had(s) \ {Ping} :
            <<f, h>> \in Order => <<f, h>> \in Order'
       /\ \A s \in ToSet(subs) : s \in ToSet(todo) =>
            \A f \in Had(s) \ {Ping} : <<f, e>> \in Order'
  BY <1>5, <1>9
<1>17. OfferInv' /\ \A s \in ToSet(subs) : Fed(s)'
  BY <1>3, <1>4, <1>7, <1>10, <1>11, <1>12, <1>13, <1>14, <1>15, <1>16, Offered
<1>18. TypeOK'
  <2>1. /\ rest' \in [Emitter -> Seq(Subscriber)] /\ logging' \in [Emitter -> BOOLEAN]
        /\ queue' \in [Subscriber -> Seq(Nat)] /\ full' \in [Subscriber -> SUBSET Nat]
    <3>1. e \in Nat
      BY <1>7
    <3>. QED
      BY <1>3, <1>4, <3>1, OfferEffect
  <2>. QED
    BY <1>3, <1>5, <2>1 DEF TypeOK
<1>19. FeedInv'
  BY <1>3, <1>17 DEF FeedInv
<1>. QED
  BY <1>5, <1>17, <1>18, <1>19

LEMMA CancelKeeps ==
  ASSUME HubInv, NEW m \in Emitter, Cancel(m)
  PROVE  HubInv'
<1>. USE DEF HubInv
<1>1. /\ rest' = [rest EXCEPT ![m] = <<>>] /\ logging' = [logging EXCEPT ![m] = FALSE]
      /\ cut' = cut \cup {Current(m)}
      /\ setting' = setting /\ at' = at /\ subs' = subs /\ queue' = queue /\ got' = got
      /\ log' = log /\ due' = due /\ full' = full
  BY DEF Cancel, clock, feed
<1>2. /\ HistoryInv' /\ Order' = Order
      /\ \A n \in Emitter : Program(n)' = Program(n) /\ Current(n)' = Current(n)
  BY <1>1, SameHistory
<1>3. /\ rest'[m] = <<>> /\ logging'[m] = FALSE
      /\ \A n \in Emitter \ {m} : rest'[n] = rest[n] /\ logging'[n] = logging[n]
      /\ rest' \in [Emitter -> Seq(Subscriber)] /\ logging' \in [Emitter -> BOOLEAN]
  <2>1. <<>> \in Seq(Subscriber)
    OBVIOUS
  <2>. QED
    BY <1>1, <2>1 DEF TypeOK
<1>4. TypeOK'
  BY <1>1, <1>2, <1>3 DEF TypeOK
<1>5. \A s : Had(s)' = Had(s)
  BY <1>1 DEF Had
<1>6. OfferInv'
  <2>1. ASSUME NEW n \in Emitter
        PROVE  /\ rest'[n] # <<>> \/ logging'[n] => at'[n] > 0
               /\ IsInjective(rest'[n])
               /\ \A s \in ToSet(rest'[n]) : s \in ToSet(subs) =>
                    Current(n)' \in due[s] \ Had(s)'
    <3>1. CASE n = m
      <4>1. IsInjective(<<>>)
        <5>1. DOMAIN <<>> = {}
          OBVIOUS
        <5>. QED
          BY <5>1 DEF IsInjective
      <4>2. ToSet(rest'[n]) = {}
        BY <1>3, <3>1, NothingIn
      <4>. QED
        BY <1>3, <3>1, <4>1, <4>2
    <3>2. CASE n # m
      BY <1>1, <1>2, <1>3, <1>5, <3>2 DEF OfferInv
    <3>. QED
      BY <3>1, <3>2
  <2>. QED
    BY <1>1, <2>1 DEF OfferInv
<1>7. ASSUME NEW s \in ToSet(subs), Fed(s) PROVE Fed(s)'
  <2>1. Coming(s) \subseteq cut' \cup Coming(s)'
    <3>1. SUFFICES ASSUME NEW n \in Emitter, s \in ToSet(rest[n])
                   PROVE  Current(n) \in cut' \cup Coming(s)'
      BY DEF Coming
    <3>2. CASE n = m
      BY <1>1, <3>2
    <3>3. CASE n # m
      BY <1>2, <1>3, <3>1, <3>3 DEF Coming
    <3>. QED
      BY <3>2, <3>3
  <2>2. /\ got'[s] = got[s] /\ queue'[s] = queue[s] /\ due'[s] = due[s] /\ full'[s] = full[s]
        /\ cut \subseteq cut'
    BY <1>1
  <2>. QED
    BY <1>2, <1>7, <2>1, <2>2, SameFed
<1>8. FeedInv'
  BY <1>1, <1>7 DEF FeedInv
<1>. QED
  BY <1>2, <1>4, <1>6, <1>8

-----------------------------------------------------------------------------
(* The consumers.                                                          *)
LEMMA SubscribeKeeps ==
  ASSUME HubInv, NEW t \in Subscriber, Subscribe(t)
  PROVE  HubInv'
<1>. USE DEF HubInv
<1>1. /\ t \notin ToSet(subs) /\ queue[t] = <<>> /\ \A m \in Emitter : t \notin ToSet(rest[m])
      /\ subs' = Append(subs, t)
      /\ setting' = setting /\ at' = at /\ rest' = rest /\ logging' = logging
      /\ queue' = queue /\ got' = got
      /\ log' = log /\ due' = due /\ full' = full /\ cut' = cut
  BY DEF Subscribe, clock, emits, past
<1>2. /\ HistoryInv' /\ Order' = Order
      /\ \A n \in Emitter : Program(n)' = Program(n) /\ Current(n)' = Current(n)
  BY <1>1, SameHistory
<1>3. \A s : Coming(s)' = Coming(s)
  BY <1>1, <1>2, SameComing
<1>4. /\ Len(subs) \in Nat /\ DOMAIN subs = 1..Len(subs) /\ subs' \in Seq(Subscriber)
      /\ DOMAIN subs' = 1..(Len(subs) + 1)
      /\ \A k \in 1..Len(subs) : subs'[k] = subs[k]
      /\ subs'[Len(subs) + 1] = t /\ ToSet(subs') = ToSet(subs) \cup {t}
  BY <1>1, Appended DEF TypeOK
<1>5. TypeOK'
  BY <1>1, <1>2, <1>4 DEF TypeOK
<1>6. \A s : Had(s)' = Had(s)
  BY <1>1 DEF Had
<1>7. OfferInv'
  <2>1. ASSUME NEW n \in Emitter, NEW s \in ToSet(rest[n]), s \in ToSet(subs')
        PROVE  Current(n)' \in due[s] \ Had(s)'
    <3>1. s \in ToSet(subs)
      BY <1>1, <1>4, <2>1
    <3>. QED
      BY <1>2, <1>6, <3>1 DEF OfferInv
  <2>. QED
    BY <1>1, <2>1 DEF OfferInv
<1>8. IsInjective(subs')
  <2>1. SUFFICES ASSUME NEW j \in 1..(Len(subs) + 1), NEW k \in 1..(Len(subs) + 1),
                        subs'[j] = subs'[k]
                 PROVE  j = k
    BY <1>4 DEF IsInjective
  <2>2. \A i \in 1..(Len(subs) + 1) :
          i = Len(subs) + 1 \/ (i \in DOMAIN subs /\ subs'[i] = subs[i] /\ subs[i] # t)
    <3>1. \A i \in DOMAIN subs : subs[i] # t
      BY <1>1 DEF ToSet
    <3>. QED
      BY <1>4, <3>1
  <2>3. \A i, l \in DOMAIN subs : subs[i] = subs[l] => i = l
    BY DEF FeedInv, IsInjective
  <2>. QED
    BY <1>4, <2>1, <2>2, <2>3
<1>9. Fed(t)'
  <2>1. got[t] = <<>> /\ due[t] = {}
    BY <1>1 DEF FeedInv
  <2>2. ToSet(got[t]) = {} /\ ToSet(queue[t]) = {}
    BY <1>1, <2>1, NothingIn
  <2>3. Had(t)' = {}
    BY <1>1, <2>2 DEF Had
  <2>4. DOMAIN (got[t] \o queue[t]) = {}
    BY <1>1, <2>1
  <2>5. Ordered(got'[t] \o queue'[t], Order')
    BY <1>1, <2>4 DEF Ordered
  <2>. QED
    BY <1>1, <2>1, <2>3, <2>5 DEF Fed
<1>10. ASSUME NEW s \in ToSet(subs), Fed(s) PROVE Fed(s)'
  BY <1>1, <1>2, <1>3, <1>10, SameFed
<1>11. FeedInv'
  <2>1. ASSUME NEW s \in Subscriber PROVE s \in ToSet(subs') => Fed(s)'
    BY <1>4, <1>9, <1>10 DEF FeedInv
  <2>. QED
    BY <1>1, <1>4, <1>8, <2>1 DEF FeedInv
<1>. QED
  BY <1>2, <1>5, <1>7, <1>11

LEMMA UnsubscribeKeeps ==
  ASSUME HubInv, NEW t \in Subscriber, Unsubscribe(t)
  PROVE  HubInv'
<1>. USE DEF HubInv
<1>1. /\ \E k \in DOMAIN subs : subs[k] = t /\ subs' = RemoveAt(subs, k)
      /\ got' = [got EXCEPT ![t] = <<>>]
      /\ due' = [due EXCEPT ![t] = {}] /\ full' = [full EXCEPT ![t] = {}]
      /\ setting' = setting /\ at' = at /\ rest' = rest /\ logging' = logging
      /\ queue' = queue /\ log' = log /\ cut' = cut
  BY DEF Unsubscribe, clock, emits
<1>2. /\ HistoryInv' /\ Order' = Order
      /\ \A n \in Emitter : Program(n)' = Program(n) /\ Current(n)' = Current(n)
  BY <1>1, SameHistory
<1>3. \A s : Coming(s)' = Coming(s)
  BY <1>1, <1>2, SameComing
<1>4. subs' \in Seq(Subscriber) /\ IsInjective(subs') /\ ToSet(subs') = ToSet(subs) \ {t}
  <2>1. PICK k \in DOMAIN subs : subs[k] = t /\ subs' = RemoveAt(subs, k)
    BY <1>1
  <2>2. subs \in Seq(Subscriber) /\ IsInjective(subs)
    BY DEF TypeOK, FeedInv
  <2>. QED
    BY <2>1, <2>2, Removed
<1>5. /\ got'[t] = <<>> /\ due'[t] = {}
      /\ \A s \in Subscriber \ {t} :
           got'[s] = got[s] /\ due'[s] = due[s] /\ full'[s] = full[s] /\ queue'[s] = queue[s]
      /\ got' \in [Subscriber -> Seq(Nat)]
      /\ due' \in [Subscriber -> SUBSET Nat] /\ full' \in [Subscriber -> SUBSET Nat]
  <2>1. <<>> \in Seq(Nat)
    OBVIOUS
  <2>. QED
    BY <1>1, <2>1 DEF TypeOK
<1>6. TypeOK'
  BY <1>1, <1>2, <1>4, <1>5 DEF TypeOK
<1>7. ASSUME NEW s \in ToSet(subs')
      PROVE  /\ s \in ToSet(subs) /\ s \in Subscriber \ {t} /\ Had(s)' = Had(s)
             /\ due'[s] = due[s]
  <2>1. s \in ToSet(subs) /\ s \in Subscriber \ {t}
    BY <1>4, SubscriberSet
  <2>. QED
    BY <1>5, <2>1 DEF Had
<1>8. OfferInv'
  <2>1. ASSUME NEW n \in Emitter, NEW s \in ToSet(rest[n]), s \in ToSet(subs')
        PROVE  Current(n)' \in due'[s] \ Had(s)'
    BY <1>2, <1>7, <2>1 DEF OfferInv
  <2>. QED
    BY <1>1, <2>1 DEF OfferInv
<1>9. ASSUME NEW s \in ToSet(subs') PROVE Fed(s)'
  <2>1. s \in Subscriber \ {t} /\ Fed(s)
    BY <1>7 DEF FeedInv
  <2>2. got'[s] = got[s] /\ due'[s] = due[s] /\ full'[s] = full[s] /\ queue'[s] = queue[s]
    BY <1>5, <2>1
  <2>3. cut \subseteq cut' /\ Coming(s) \subseteq cut' \cup Coming(s)'
    BY <1>1, <1>3
  <2>. QED
    BY <1>2, <2>1, <2>2, <2>3, SameFed
<1>10. FeedInv'
  <2>1. ASSUME NEW s \in Subscriber, s \notin ToSet(subs')
        PROVE  got'[s] = <<>> /\ due'[s] = {}
    BY <1>4, <1>5, <2>1 DEF FeedInv
  <2>2. ASSUME NEW s \in Subscriber PROVE due'[s] \subseteq ToSet(log')
    BY <1>1, <1>5 DEF FeedInv
  <2>. QED
    BY <1>4, <1>9, <2>1, <2>2 DEF FeedInv
<1>. QED
  BY <1>2, <1>6, <1>8, <1>10

(* A consumer takes the next of its queue: what it has had stays.          *)
LEMMA TakeKeeps ==
  ASSUME HubInv, NEW t \in Subscriber, Take(t)
  PROVE  HubInv'
<1>. USE DEF HubInv
<1>1. /\ t \in ToSet(subs) /\ queue[t] # <<>>
      /\ queue' = [queue EXCEPT ![t] = Tail(@)]
      /\ got' = IF Head(queue[t]) = Ping THEN got
                ELSE [got EXCEPT ![t] = Append(@, Head(queue[t]))]
      /\ setting' = setting /\ at' = at /\ rest' = rest /\ logging' = logging
      /\ subs' = subs /\ log' = log /\ due' = due /\ full' = full /\ cut' = cut
  BY DEF Take, clock, emits, past
<1>2. /\ HistoryInv' /\ Order' = Order
      /\ \A n \in Emitter : Program(n)' = Program(n) /\ Current(n)' = Current(n)
  BY <1>1, SameHistory
<1>3. \A s : Coming(s)' = Coming(s)
  BY <1>1, <1>2, SameComing
<1>4. PICK q \in Seq(Nat) : q = queue[t]
  BY DEF TypeOK
<1>5. PICK g \in Seq(Nat) : g = got[t]
  BY DEF TypeOK
<1>6. q # <<>> /\ Head(q) \in Nat /\ Tail(q) \in Seq(Nat) /\ ToSet(q) = {Head(q)} \cup ToSet(Tail(q))
  BY <1>1, <1>4, HeadTail
<1>7. /\ queue' \in [Subscriber -> Seq(Nat)] /\ queue'[t] = Tail(q)
      /\ \A s \in Subscriber \ {t} : queue'[s] = queue[s]
  BY <1>1, <1>4, <1>6 DEF TypeOK
<1>8. PICK g2 : g2 = IF Head(q) = Ping THEN g ELSE Append(g, Head(q))
  OBVIOUS
<1>9. g2 \in Seq(Nat)
  BY <1>6, <1>8, AppendedNumber
<1>10. /\ got' \in [Subscriber -> Seq(Nat)] /\ got'[t] = g2
       /\ \A s \in Subscriber \ {t} : got'[s] = got[s]
  BY <1>1, <1>4, <1>5, <1>8, <1>9 DEF TypeOK
<1>11. TypeOK'
  BY <1>1, <1>2, <1>7, <1>10 DEF TypeOK
<1>12. Had(t)' \subseteq Had(t) /\ Had(t) \ {Ping} \subseteq Had(t)'
  <2>1. Had(t) = ToSet(g) \cup {Head(q)} \cup ToSet(Tail(q))
    BY <1>4, <1>5, <1>6 DEF Had
  <2>2. Had(t)' = ToSet(g2) \cup ToSet(Tail(q))
    BY <1>7, <1>10 DEF Had
  <2>3. CASE Head(q) = Ping
    BY <1>8, <2>1, <2>2, <2>3
  <2>4. CASE Head(q) # Ping
    <3>1. ToSet(g2) = ToSet(g) \cup {Head(q)}
      BY <1>6, <1>8, <2>4, AppendedNumber
    <3>. QED
      BY <2>1, <2>2, <3>1
  <2>. QED
    BY <2>3, <2>4
<1>13. \A s \in Subscriber \ {t} : Had(s)' = Had(s)
  BY <1>7, <1>10 DEF Had
<1>14. \A s \in Subscriber : Had(s)' \subseteq Had(s)
  BY <1>12, <1>13
<1>15. OfferInv'
  <2>1. ASSUME NEW n \in Emitter, NEW s \in ToSet(rest[n]), s \in ToSet(subs)
        PROVE  Current(n)' \in due[s] \ Had(s)'
    <3>1. s \in Subscriber
      BY <2>1, SubscriberSet
    <3>. QED
      BY <1>2, <1>14, <2>1, <3>1 DEF OfferInv
  <2>. QED
    BY <1>1, <2>1 DEF OfferInv
<1>16. Fed(t)'
  <2>1. Fed(t) /\ Ping \notin due[t]
    BY <1>1, GivenWasEmitted DEF FeedInv, Ping
  <2>2. Had(t)' \ {Ping} \subseteq due'[t]
    BY <1>1, <1>12, <2>1 DEF Fed
  <2>3. due'[t] \ Had(t)' \subseteq full'[t] \cup cut' \cup Coming(t)'
    BY <1>1, <1>3, <1>12, <2>1 DEF Fed
  <2>4. Ordered(g \o q, Order)
    BY <1>4, <1>5, <2>1 DEF Fed
  <2>5. Ordered(g2 \o Tail(q), Order)
    <3>1. CASE Head(q) = Ping
      BY <1>6, <1>8, <2>4, <3>1, OrderedPing
    <3>2. CASE Head(q) # Ping
      BY <1>6, <1>8, <2>4, <3>2, TakenJoined
    <3>. QED
      BY <3>1, <3>2
  <2>6. Ordered(got'[t] \o queue'[t], Order')
    BY <1>2, <1>7, <1>10, <2>5
  <2>. QED
    BY <2>2, <2>3, <2>6 DEF Fed
<1>17. ASSUME NEW s \in Subscriber \ {t}, Fed(s) PROVE Fed(s)'
  BY <1>1, <1>2, <1>3, <1>7, <1>10, <1>17, SameFed
<1>18. FeedInv'
  <2>1. ASSUME NEW s \in Subscriber
        PROVE  /\ s \notin ToSet(subs) => got'[s] = <<>> /\ due[s] = {}
               /\ s \in ToSet(subs) => Fed(s)'
    BY <1>1, <1>10, <1>16, <1>17 DEF FeedInv
  <2>. QED
    BY <1>1, <2>1 DEF FeedInv
<1>. QED
  BY <1>2, <1>11, <1>15, <1>18

(* A ping goes to the end of a queue and stands for no event.              *)
LEMMA HeartbeatKeeps ==
  ASSUME HubInv, NEW t \in Subscriber, Heartbeat(t)
  PROVE  HubInv'
<1>. USE DEF HubInv
<1>1. /\ t \in ToSet(subs) /\ queue' = [queue EXCEPT ![t] = Append(@, Ping)]
      /\ setting' = setting /\ at' = at /\ rest' = rest /\ logging' = logging
      /\ subs' = subs /\ got' = got /\ log' = log /\ due' = due /\ full' = full /\ cut' = cut
  BY DEF Heartbeat, clock, emits, past
<1>2. /\ HistoryInv' /\ Order' = Order
      /\ \A n \in Emitter : Program(n)' = Program(n) /\ Current(n)' = Current(n)
  BY <1>1, SameHistory
<1>3. \A s : Coming(s)' = Coming(s)
  BY <1>1, <1>2, SameComing
<1>4. PICK q \in Seq(Nat) : q = queue[t]
  BY DEF TypeOK
<1>5. PICK g \in Seq(Nat) : g = got[t]
  BY DEF TypeOK
<1>6. Ping \in Nat /\ Append(q, Ping) \in Seq(Nat) /\ ToSet(Append(q, Ping)) = ToSet(q) \cup {Ping}
  <2>1. Ping \in Nat
    BY DEF Ping
  <2>. QED
    BY <2>1, AppendedNumber
<1>7. /\ queue' \in [Subscriber -> Seq(Nat)] /\ queue'[t] = Append(q, Ping)
      /\ \A s \in Subscriber \ {t} : queue'[s] = queue[s]
  BY <1>1, <1>4, <1>6 DEF TypeOK
<1>8. TypeOK'
  BY <1>1, <1>2, <1>7 DEF TypeOK
<1>9. \A s \in Subscriber : Had(s)' \subseteq Had(s) \cup {Ping} /\ Had(s) \subseteq Had(s)'
  <2>1. Had(t)' = Had(t) \cup {Ping}
    BY <1>1, <1>4, <1>6, <1>7 DEF Had
  <2>2. \A s \in Subscriber \ {t} : Had(s)' = Had(s)
    BY <1>1, <1>7 DEF Had
  <2>. QED
    BY <2>1, <2>2
<1>10. OfferInv'
  <2>1. ASSUME NEW n \in Emitter, NEW s \in ToSet(rest[n]), s \in ToSet(subs)
        PROVE  Current(n)' \in due[s] \ Had(s)'
    <3>1. s \in Subscriber /\ Ping \notin due[s]
      BY <2>1, SubscriberSet, GivenWasEmitted DEF Ping
    <3>. QED
      BY <1>2, <1>9, <2>1, <3>1 DEF OfferInv
  <2>. QED
    BY <1>1, <2>1 DEF OfferInv
<1>11. Fed(t)'
  <2>1. Fed(t) /\ t \in Subscriber
    BY <1>1 DEF FeedInv
  <2>2. Had(t)' \ {Ping} \subseteq due'[t]
    BY <1>1, <1>9, <2>1 DEF Fed
  <2>3. due'[t] \ Had(t)' \subseteq full'[t] \cup cut' \cup Coming(t)'
    BY <1>1, <1>3, <1>9, <2>1 DEF Fed
  <2>4. Ordered(g \o q, Order)
    BY <1>4, <1>5, <2>1 DEF Fed
  <2>5. Ordered(g \o Append(q, Ping), Order)
    BY <1>6, <2>4, OrderedAppend
  <2>6. Ordered(got'[t] \o queue'[t], Order')
    BY <1>1, <1>2, <1>5, <1>7, <2>5
  <2>. QED
    BY <2>2, <2>3, <2>6 DEF Fed
<1>12. ASSUME NEW s \in Subscriber \ {t}, Fed(s) PROVE Fed(s)'
  BY <1>1, <1>2, <1>3, <1>7, <1>12, SameFed
<1>13. FeedInv'
  <2>1. ASSUME NEW s \in Subscriber PROVE s \in ToSet(subs) => Fed(s)'
    BY <1>11, <1>12 DEF FeedInv
  <2>. QED
    BY <1>1, <2>1 DEF FeedInv
<1>. QED
  BY <1>2, <1>8, <1>10, <1>13

-----------------------------------------------------------------------------
(* The stores, the clock and the prune leave the feed alone.               *)
Fixed == <<setting, at, rest, logging, subs, queue, got, log, due, full, cut>>

LEMMA QuietKeeps ==
  ASSUME HubInv, UNCHANGED Fixed
  PROVE  HubInv'
<1>. USE DEF HubInv
<1>1. /\ setting' = setting /\ at' = at /\ rest' = rest /\ logging' = logging
      /\ subs' = subs /\ queue' = queue /\ got' = got
      /\ log' = log /\ due' = due /\ full' = full /\ cut' = cut
  BY DEF Fixed
<1>2. /\ HistoryInv' /\ Order' = Order
      /\ \A n \in Emitter : Program(n)' = Program(n) /\ Current(n)' = Current(n)
  BY <1>1, SameHistory
<1>3. \A s : Coming(s)' = Coming(s) /\ Had(s)' = Had(s)
  BY <1>1, <1>2, SameComing DEF Had
<1>4. TypeOK'
  BY <1>1, <1>2 DEF TypeOK
<1>5. OfferInv'
  BY <1>1, <1>2, <1>3 DEF OfferInv
<1>6. ASSUME NEW s, Fed(s) PROVE Fed(s)'
  BY <1>1, <1>2, <1>3, <1>6, SameFed
<1>7. FeedInv'
  BY <1>1, <1>6 DEF FeedInv
<1>. QED
  BY <1>2, <1>4, <1>5, <1>7

-----------------------------------------------------------------------------
LEMMA HubStarts == Init => HubInv
<1>. SUFFICES ASSUME Init PROVE HubInv
  OBVIOUS
<1>1. /\ setting \in Setting /\ at = [m \in Emitter |-> 0]
      /\ rest = [m \in Emitter |-> <<>>] /\ logging = [m \in Emitter |-> FALSE]
      /\ subs = <<>> /\ queue = [s \in Subscriber |-> <<>>] /\ got = [s \in Subscriber |-> <<>>]
      /\ log = <<>>
      /\ due = [s \in Subscriber |-> {}] /\ full = [s \in Subscriber |-> {}]
  BY DEF Init
<1>2. ASSUME NEW S PROVE <<>> \in Seq(S)
  OBVIOUS
<1>3. DOMAIN <<>> = {} /\ ToSet(<<>>) = {} /\ IsInjective(<<>>)
  <2>1. DOMAIN <<>> = {}
    OBVIOUS
  <2>. QED
    BY <2>1 DEF ToSet, IsInjective
<1>4. \A m \in Emitter : Len(Program(m)) \in Nat
  <2>1. \A m \in Emitter : setting.program[m] \in Seq(DOMAIN Event)
    BY <1>1, ProgramsAssumption
  <2>. QED
    BY <2>1 DEF Program
<1>5. TypeOK
  <2>1. rest \in [Emitter -> Seq(Subscriber)] /\ subs \in Seq(Subscriber) /\ log \in Seq(Nat)
    BY <1>1, <1>2
  <2>2. queue \in [Subscriber -> Seq(Nat)] /\ got \in [Subscriber -> Seq(Nat)]
    BY <1>1, <1>2
  <2>3. due \in [Subscriber -> SUBSET Nat] /\ full \in [Subscriber -> SUBSET Nat]
    BY <1>1
  <2>4. /\ logging \in [Emitter -> BOOLEAN] /\ at \in [Emitter -> Nat]
        /\ \A m \in Emitter : at[m] <= Len(Program(m))
    BY <1>1, <1>4
  <2>. QED
    BY <1>1, <2>1, <2>2, <2>3, <2>4 DEF TypeOK
<1>6. HistoryInv
  BY <1>1, <1>3 DEF HistoryInv
<1>7. OfferInv
  BY <1>1, <1>3 DEF OfferInv
<1>8. FeedInv
  BY <1>1, <1>3 DEF FeedInv
<1>. QED
  BY <1>5, <1>6, <1>7, <1>8 DEF HubInv

LEMMA HubSteps == HubInv /\ [Next]_vars => HubInv'
<1>. SUFFICES ASSUME HubInv, [Next]_vars PROVE HubInv'
  OBVIOUS
<1>1. ASSUME NEW m \in Emitter, Emit(m) PROVE HubInv'
  BY <1>1, EmitKeeps
<1>2. ASSUME NEW m \in Emitter, Logged(m) PROVE HubInv'
  BY <1>2, LoggedKeeps
<1>3. ASSUME NEW m \in Emitter, Begin(m) \/ Inserted(m) PROVE HubInv'
  <2>1. UNCHANGED Fixed
    BY <1>3 DEF Begin, Inserted, Fixed, clock, feed, past
  <2>. QED
    BY <2>1, QuietKeeps
<1>4. ASSUME NEW m \in Emitter, Cancel(m) PROVE HubInv'
  BY <1>4, CancelKeeps
<1>5. ASSUME NEW e \in strays, StrayInserted(e) PROVE HubInv'
  <2>1. UNCHANGED Fixed
    BY <1>5 DEF StrayInserted, Fixed, clock, emits, feed
  <2>. QED
    BY <2>1, QuietKeeps
<1>6. CASE AskPrune \/ PruneExpired \/ PruneExcess
  <2>1. UNCHANGED Fixed
    BY <1>6 DEF AskPrune, PruneExpired, PruneExcess, Fixed, clock, emits, feed, past
  <2>. QED
    BY <2>1, QuietKeeps
<1>7. ASSUME NEW s \in Subscriber, Subscribe(s) PROVE HubInv'
  BY <1>7, SubscribeKeeps
<1>8. ASSUME NEW s \in Subscriber, Take(s) PROVE HubInv'
  BY <1>8, TakeKeeps
<1>9. ASSUME NEW s \in Subscriber, Heartbeat(s) PROVE HubInv'
  BY <1>9, HeartbeatKeeps
<1>10. ASSUME NEW s \in Subscriber, Unsubscribe(s) PROVE HubInv'
  BY <1>10, UnsubscribeKeeps
<1>11. CASE Tick \/ UNCHANGED vars
  <2>1. UNCHANGED Fixed
    BY <1>11 DEF Tick, vars, Fixed, clock, emits, feed, past
  <2>. QED
    BY <2>1, QuietKeeps
<1>. QED
  BY <1>1, <1>2, <1>3, <1>4, <1>5, <1>6, <1>7, <1>8, <1>9, <1>10, <1>11 DEF Next

(* The live feed is faithful for any number of emitters and consumers and  *)
(* queues of any size: what a consumer is given is in the order each       *)
(* emitter emitted it, nothing twice, and it misses only what its own      *)
(* queue had no room for or a cancelled emission had not yet offered.      *)
(* sse.py:60-77.                                                           *)
THEOREM HubCorrect == Spec => []HubFaithful
<1>1. HubInv => HubFaithful
  <2>1. SUFFICES ASSUME HubInv, NEW s \in ToSet(subs)
                 PROVE  LET seen == got[s] \o queue[s]
                        IN  /\ \A j, k \in DOMAIN seen :
                                 j < k /\ Ping \notin {seen[j], seen[k]}
                                   => Precedes(seen[j], seen[k])
                            /\ ToSet(seen) \ {Ping} \subseteq due[s]
                            /\ due[s] \ ToSet(seen) \subseteq full[s] \cup cut \cup Coming(s)
    BY DEF HubFaithful
  <2>. DEFINE seen == got[s] \o queue[s]
  <2>2. Fed(s)
    BY <2>1, SubscriberSet DEF HubInv, FeedInv
  <2>3. got[s] \in Seq(Nat) /\ queue[s] \in Seq(Nat)
    BY <2>1, SubscriberSet DEF HubInv, TypeOK
  <2>4. ToSet(seen) = Had(s)
    BY <2>3, JoinedSet DEF Had
  <2>a. seen \in Seq(Nat)
    BY <2>3, Joined
  <2>. HIDE DEF seen
  <2>5. \A k \in DOMAIN seen : seen[k] \in Nat
    BY <2>a
  <2>6. ASSUME NEW j \in DOMAIN seen, NEW k \in DOMAIN seen, j < k,
               Ping \notin {seen[j], seen[k]}
        PROVE  Precedes(seen[j], seen[k])
    <3>1. <<seen[j], seen[k]>> \in Order
      BY <2>2, <2>6 DEF Fed, Ordered, seen
    <3>. QED
      BY <2>5, <3>1, InOrder
  <2>7. ToSet(seen) \ {Ping} \subseteq due[s]
    BY <2>2, <2>4 DEF Fed
  <2>8. due[s] \ ToSet(seen) \subseteq full[s] \cup cut \cup Coming(s)
    BY <2>2, <2>4 DEF Fed
  <2>. QED
    BY <2>6, <2>7, <2>8 DEF seen
<1>. QED
  BY <1>1, HubStarts, HubSteps, PTL DEF Spec

-----------------------------------------------------------------------------
(* The stores.  What memory holds is the end of the log; what is in front  *)
(* of it has expired or is followed by enough.                             *)
EndOf(s, l, time) ==
  \E d \in Nat :
    /\ Len(l) = d + Len(s)
    /\ \A k \in 1..Len(s) : s[k] = l[d + k]
    /\ \A j \in 1..d : Expired(l[j], time, Ttl) \/ Len(l) - j >= MemCap

MemInv ==
  /\ now \in Int /\ mem \in Seq(Nat)
  /\ "memory" \in sinks => EndOf(mem, log, now)

(* An event that is not in the table is on its way there, or was given up; *)
(* what a thread still inserts is of an emission that was cancelled.       *)
InsertInv ==
  /\ inserting \in [Emitter -> {"no", "waiting", "thread"}]
  /\ stored \subseteq ToSet(log) /\ strays \subseteq ToSet(log) /\ strays \subseteq cut
  /\ strays \cap stored = {}
  /\ \A m \in Emitter : inserting[m] # "no" =>
       at[m] > 0 /\ Current(m) \notin stored \cup strays
  /\ "sqlite" \in sinks => \A e \in ToSet(log) \ stored :
       e \in cut \/ \E m \in Emitter : Current(m) = e /\ inserting[m] # "no"

Outlived(e, S) == Cardinality({i \in S \ {e} : At(i) >= At(e)}) >= RowCap

RowsInv ==
  /\ rows \in Seq(Nat) /\ excess \in Int /\ excess >= -1
  /\ ToSet(rows) \subseteq stored /\ IsInjective(rows)
  /\ \A e \in stored \ ToSet(rows) : Expired(e, now, Ttl) \/ Outlived(e, stored)
  /\ excess > 0 => Len(rows) >= RowCap + excess

StoreInv == HubInv /\ MemInv /\ InsertInv /\ RowsInv

-----------------------------------------------------------------------------
(* Sets and sequences.                                                     *)
LEMMA CountedSet ==
  ASSUME NEW S, NEW s \in Seq(S)
  PROVE  /\ IsFiniteSet(ToSet(s)) /\ Cardinality(ToSet(s)) \in Nat
         /\ IsInjective(s) => Cardinality(ToSet(s)) = Len(s)
<1>. DEFINE D == 1..Len(s)
            T == ToSet(s)
<1>1. Len(s) \in Nat /\ DOMAIN s = D
  OBVIOUS
<1>2. IsFiniteSet(D) /\ Cardinality(D) = Len(s)
  BY <1>1, FS_Interval
<1>3. s \in [D -> T] /\ \A x \in T : \E k \in D : s[k] = x
  <2>1. s = [k \in D |-> s[k]]
    BY <1>1
  <2>. QED
    BY <1>1, <2>1 DEF ToSet
<1>4. s \in Surjection(D, T)
  <2>. HIDE DEF D, T
  <2>. QED
    BY <1>3 DEF Surjection
<1>5. IsFiniteSet(T) /\ (Cardinality(T) = Cardinality(D) <=> s \in Injection(D, T))
  BY <1>2, <1>4, FS_Surjection
<1>6. IsInjective(s) => s \in Injection(D, T)
  <2>. HIDE DEF D, T
  <2>. QED
    BY <1>1, <1>3 DEF Injection, IsInjective
<1>7. Cardinality(T) \in Nat
  BY <1>5, FS_CardinalityType
<1>. QED
  BY <1>2, <1>5, <1>6, <1>7

(* The k-th position of a set of positions is there, and every one is.     *)
LEMMA RankedIsThere ==
  ASSUME NEW P \in SUBSET Nat, IsFiniteSet(P)
  PROVE  /\ \A k \in 1..Cardinality(P) :
              /\ Ranked(P, k) \in P
              /\ Cardinality({j \in P : j <= Ranked(P, k)}) = k
         /\ \A i \in P : \E k \in 1..Cardinality(P) : Ranked(P, k) = i
<1>. DEFINE N == Cardinality(P)
            Upto(i) == {j \in P : j <= i}
            rank == [i \in P |-> Cardinality(Upto(i))]
<1>0. N \in Nat
  BY FS_CardinalityType
<1>1. ASSUME NEW i \in P
      PROVE  IsFiniteSet(Upto(i)) /\ i \in Upto(i) /\ rank[i] \in 1..N
  <2>0. Upto(i) \in SUBSET P /\ i \in Upto(i)
    OBVIOUS
  <2>1. IsFiniteSet(Upto(i)) /\ Cardinality(Upto(i)) <= N
    BY <2>0, FS_Subset
  <2>2. Cardinality(Upto(i)) \in Nat /\ Cardinality(Upto(i)) # 0
    BY <2>0, <2>1, FS_CardinalityType, FS_EmptySet
  <2>3. rank[i] = Cardinality(Upto(i))
    OBVIOUS
  <2>. HIDE DEF rank, Upto
  <2>. QED
    BY <1>0, <2>0, <2>1, <2>2, <2>3
<1>2. ASSUME NEW i \in P, NEW j \in P, i < j PROVE rank[i] # rank[j]
  <2>1. ASSUME NEW x \in Upto(i) PROVE x \in Upto(j)
    <3>1. x \in Nat /\ i \in Nat /\ j \in Nat /\ x \in P /\ x <= i
      OBVIOUS
    <3>. QED
      BY <1>2, <3>1
  <2>2. j \notin Upto(i) /\ j \in Upto(j)
    <3>1. i \in Nat /\ j \in Nat
      OBVIOUS
    <3>. QED
      BY <1>2, <3>1
  <2>3. Upto(i) \subseteq Upto(j) /\ Upto(i) # Upto(j)
    <3>. HIDE DEF Upto
    <3>. QED
      BY <2>1, <2>2
  <2>4. Cardinality(Upto(i)) # Cardinality(Upto(j))
    BY <1>1, <2>3, FS_Subset
  <2>. QED
    BY <2>4
<1>3. ASSUME NEW i \in P, NEW j \in P, rank[i] = rank[j] PROVE i = j
  <2>1. i \in Nat /\ j \in Nat
    OBVIOUS
  <2>2. ~(i < j) /\ ~(j < i)
    BY <1>2, <1>3
  <2>. QED
    BY <2>1, <2>2
<1>4. rank \in Injection(P, 1..N)
  <2>1. rank \in [P -> 1..N]
    BY <1>1
  <2>. HIDE DEF rank
  <2>. QED
    BY <1>3, <2>1 DEF Injection, IsInjective
<1>5. rank \in Surjection(P, 1..N)
  <2>1. IsFiniteSet(1..N) /\ Cardinality(1..N) = N
    BY <1>0, FS_Interval
  <2>. QED
    BY <1>4, <2>1, FS_Injection
<1>6. ASSUME NEW k \in 1..N PROVE Ranked(P, k) \in P /\ rank[Ranked(P, k)] = k
  <2>1. PICK p \in P : rank[p] = k
    BY <1>5 DEF Surjection
  <2>2. \E i \in P : Cardinality({j \in P : j <= i}) = k
    BY <2>1
  <2>. QED
    BY <2>2 DEF Ranked
<1>7. ASSUME NEW i \in P PROVE \E k \in 1..N : Ranked(P, k) = i
  <2>1. rank[i] \in 1..N
    BY <1>1
  <2>. HIDE DEF rank
  <2>. QED
    BY <2>1, <1>3, <1>6
<1>. QED
  BY <1>6, <1>7

(* What is deleted is gone, and the rest is there as often as before.      *)
LEMMA WithoutFacts ==
  ASSUME NEW Q, NEW s \in Seq(Q), NEW gone
  PROVE  /\ Without(s, gone) \in Seq(Q)
         /\ ToSet(Without(s, gone)) = ToSet(s) \ gone
         /\ IsInjective(s) => IsInjective(Without(s, gone))
<1>. DEFINE P == Staying(s, gone)
            w == Without(s, gone)
            N == Cardinality(P)
<1>1. P \in SUBSET Nat /\ IsFiniteSet(P) /\ N \in Nat
  <2>1. P \in SUBSET (1..Len(s)) /\ IsFiniteSet(1..Len(s)) /\ Len(s) \in Nat
    BY FS_Interval DEF Staying
  <2>. QED
    BY <2>1, FS_Subset, FS_CardinalityType
<1>2. \A i \in P : i \in DOMAIN s /\ s[i] \in Q /\ s[i] \notin gone
  BY DEF Staying
<1>3. w = [k \in 1..N |-> s[Ranked(P, k)]]
  BY DEF Without
<1>4. /\ \A k \in 1..N : Ranked(P, k) \in P /\ Cardinality({j \in P : j <= Ranked(P, k)}) = k
      /\ \A i \in P : \E k \in 1..N : Ranked(P, k) = i
  <2>. HIDE DEF P
  <2>. QED
    BY <1>1, RankedIsThere
<1>5. ASSUME NEW i \in DOMAIN s, s[i] \notin gone PROVE i \in P
  BY <1>5 DEF Staying
<1>. HIDE DEF P, w, N
<1>6. w \in Seq(Q) /\ DOMAIN w = 1..N
  <2>1. w \in [1..N -> Q]
    BY <1>2, <1>3, <1>4
  <2>. QED
    BY <1>1, <2>1
<1>7. ToSet(w) = ToSet(s) \ gone
  <2>1. ASSUME NEW x \in ToSet(w) PROVE x \in ToSet(s) \ gone
    <3>1. PICK k \in 1..N : x = w[k]
      BY <1>6 DEF ToSet
    <3>. QED
      BY <3>1, <1>2, <1>3, <1>4 DEF ToSet
  <2>2. ASSUME NEW x \in ToSet(s) \ gone PROVE x \in ToSet(w)
    <3>1. PICK i \in DOMAIN s : x = s[i]
      BY DEF ToSet
    <3>2. PICK k \in 1..N : Ranked(P, k) = i
      BY <3>1, <2>2, <1>4, <1>5
    <3>3. x = w[k]
      BY <3>1, <3>2, <1>3
    <3>. QED
      BY <3>3, <1>6 DEF ToSet
  <2>. QED
    BY <2>1, <2>2
<1>8. ASSUME IsInjective(s), NEW k \in 1..N, NEW l \in 1..N, w[k] = w[l] PROVE k = l
  <2>1. Ranked(P, k) = Ranked(P, l)
    BY <1>2, <1>3, <1>4, <1>8 DEF IsInjective
  <2>. QED
    BY <1>4, <2>1
<1>9. IsInjective(s) => IsInjective(w)
  BY <1>6, <1>8 DEF IsInjective
<1>. QED
  BY <1>6, <1>7, <1>9 DEF w

(* _prune_ttl: only expired events leave, from the head.                   *)
LEMMA Dropped ==
  ASSUME NEW s \in Seq(Nat), NEW t, NEW r, r = DropHead(s, t, Ttl)
  PROVE  /\ r \in Seq(Nat)
         /\ \E d \in Nat : /\ Len(s) = d + Len(r)
                           /\ \A k \in 1..Len(r) : r[k] = s[d + k]
                           /\ \A j \in 1..d : Expired(s[j], t, Ttl)
<1>1. PICK n \in Nat : n = Len(s)
  OBVIOUS
<1>2. DOMAIN s = 1..n
  BY <1>1
<1>a. {k \in 1..n : ~Expired(s[k], t, Ttl)} \in SUBSET Nat
  OBVIOUS
<1>3. PICK F \in SUBSET Nat : F = {k \in 1..n : ~Expired(s[k], t, Ttl)}
  BY <1>a
<1>4. r = IF F = {} THEN <<>> ELSE SubSeq(s, Min(F), Len(s))
  BY <1>2, <1>3 DEF DropHead
<1>5. CASE F = {}
  <2>1. r = <<>> /\ Len(r) = 0
    BY <1>4, <1>5
  <2>2. \A j \in 1..n : Expired(s[j], t, Ttl)
    BY <1>3, <1>5
  <2>3. n = n + Len(r)
    BY <1>1, <2>1
  <2>4. \A k \in 1..Len(r) : r[k] = s[n + k]
    BY <2>1
  <2>. QED
    BY <1>1, <2>1, <2>2, <2>3, <2>4
<1>6. CASE F # {}
  <2>1. PICK a \in F : a = Min(F) /\ \A k \in F : a <= k
    <3>1. Min(F) \in F /\ \A k \in F : Min(F) <= k
      BY <1>6, MinIs
    <3>. QED
      BY <3>1
  <2>2. a \in 1..n
    BY <1>3, <2>1
  <2>3. r = SubSeq(s, a, n)
    BY <1>1, <1>4, <1>6, <2>1
  <2>4. /\ r \in Seq(Nat) /\ Len(r) = n - a + 1
        /\ \A k \in 1..(n - a + 1) : r[k] = s[a + k - 1]
    BY <1>1, <2>2, <2>3
  <2>5. PICK d \in Nat : d + 1 = a
    BY <2>2
  <2>6. \A j \in 1..d : Expired(s[j], t, Ttl)
    <3>1. \A j \in 1..d : j \in 1..n /\ j < a
      BY <1>1, <2>2, <2>5
    <3>2. \A j \in F : ~(j < a)
      BY <2>1, <2>2, <1>3
    <3>. QED
      BY <1>3, <3>1, <3>2
  <2>7. n = d + Len(r)
    BY <1>1, <2>2, <2>4, <2>5
  <2>8. \A k \in 1..Len(r) : r[k] = s[d + k]
    <3>1. \A k \in 1..Len(r) : k \in 1..(n - a + 1) /\ a + k - 1 = d + k
      BY <1>1, <2>2, <2>4, <2>5
    <3>. QED
      BY <2>4, <3>1
  <2>. QED
    BY <1>1, <2>4, <2>6, <2>7, <2>8
<1>. QED
  BY <1>5, <1>6

(* What the deque's limit and the prune leave of what it held.             *)
LEMMA AppendKeepsEnd ==
  ASSUME NEW s \in Seq(Nat), NEW e \in Nat, NEW t,
         NEW r, r = MemoryAppend(s, e, MemCap, t, Ttl), NEW b, b = Append(s, e)
  PROVE  r \in Seq(Nat) /\ EndOf(r, b, t)
<1>1. /\ b \in Seq(Nat) /\ Len(b) = Len(s) + 1 /\ Len(s) \in Nat
      /\ \A k \in 1..Len(s) : b[k] = s[k]
      /\ b[Len(s) + 1] = e
  BY AppendedNumber
<1>2. CASE Len(s) < MemCap
  <2>1. r = DropHead(b, t, Ttl)
    BY <1>2 DEF MemoryAppend
  <2>2. r \in Seq(Nat) /\ \E d \in Nat : /\ Len(b) = d + Len(r)
                                         /\ \A k \in 1..Len(r) : r[k] = b[d + k]
                                         /\ \A j \in 1..d : Expired(b[j], t, Ttl)
    BY <1>1, <2>1, Dropped
  <2>3. PICK d \in Nat : /\ Len(b) = d + Len(r)
                         /\ \A k \in 1..Len(r) : r[k] = b[d + k]
                         /\ \A j \in 1..d : Expired(b[j], t, Ttl)
    BY <2>2
  <2>. QED
    BY <2>2, <2>3 DEF EndOf
<1>3. CASE ~(Len(s) < MemCap)
  <2>3. Len(s) >= MemCap /\ MemCap \in Nat \ {0} /\ s # <<>>
    <3>1. Len(s) >= MemCap /\ MemCap \in Nat \ {0}
      BY <1>1, <1>3, HubAssumption
    <3>2. Len(s) # 0
      BY <1>1, <3>1
    <3>. QED
      BY <3>1, <3>2
  <2>4. /\ Tail(s) \in Seq(Nat) /\ Len(Tail(s)) = Len(s) - 1
        /\ \A k \in 1..(Len(s) - 1) : Tail(s)[k] = s[k + 1]
    BY <2>3, HeadTail
  <2>5. PICK u \in Seq(Nat) : u = Tail(s)
    BY <2>4
  <2>1. PICK q \in Seq(Nat) : q = Append(u, e)
    BY AppendedNumber
  <2>2. r = DropHead(q, t, Ttl)
    BY <1>3, <2>1, <2>5 DEF MemoryAppend
  <2>6. /\ Len(q) = Len(u) + 1 /\ Len(u) \in Nat
        /\ \A k \in 1..Len(u) : q[k] = u[k]
        /\ q[Len(u) + 1] = e
    BY <2>1, <2>5, AppendedNumber
  <2>7. Len(q) = Len(s) /\ Len(u) = Len(s) - 1
    BY <1>1, <2>4, <2>5, <2>6
  <2>8. ASSUME NEW k \in 1..Len(q) PROVE q[k] = b[k + 1]
    <3>1. CASE k = Len(q)
      <4>1. k = Len(u) + 1 /\ k + 1 = Len(s) + 1
        BY <1>1, <2>7, <3>1
      <4>. QED
        BY <1>1, <2>6, <4>1
    <3>2. CASE k # Len(q)
      <4>1. k \in 1..Len(u) /\ k \in 1..(Len(s) - 1) /\ k + 1 \in 1..Len(s)
        BY <1>1, <2>7, <3>2
      <4>2. q[k] = s[k + 1]
        BY <2>4, <2>5, <2>6, <4>1
      <4>. QED
        BY <1>1, <4>1, <4>2
    <3>. QED
      BY <3>1, <3>2
  <2>9. r \in Seq(Nat) /\ \E d \in Nat : /\ Len(q) = d + Len(r)
                                         /\ \A k \in 1..Len(r) : r[k] = q[d + k]
                                         /\ \A j \in 1..d : Expired(q[j], t, Ttl)
    BY <2>2, Dropped
  <2>10. PICK d \in Nat : /\ Len(q) = d + Len(r)
                          /\ \A k \in 1..Len(r) : r[k] = q[d + k]
                          /\ \A j \in 1..d : Expired(q[j], t, Ttl)
    BY <2>9
  <2>11. Len(r) \in Nat
    BY <2>9
  <2>12. d + 1 \in Nat /\ Len(b) = (d + 1) + Len(r)
    BY <1>1, <2>7, <2>10, <2>11
  <2>13. ASSUME NEW k \in 1..Len(r) PROVE r[k] = b[(d + 1) + k]
    <3>1. d + k \in 1..Len(q) /\ (d + k) + 1 = (d + 1) + k
      BY <2>10, <2>11
    <3>. QED
      BY <2>8, <2>10, <3>1
  <2>14. ASSUME NEW j \in 1..(d + 1)
         PROVE  Expired(b[j], t, Ttl) \/ Len(b) - j >= MemCap
    <3>1. CASE j = 1
      BY <1>1, <2>3, <3>1
    <3>2. CASE j # 1
      <4>1. PICK i \in 1..d : i + 1 = j
        <5>1. j - 1 \in 1..d /\ (j - 1) + 1 = j
          BY <3>2
        <5>. QED
          BY <5>1
      <4>2. i \in 1..Len(q)
        BY <2>10, <2>11
      <4>. QED
        BY <2>8, <2>10, <4>1, <4>2
    <3>. QED
      BY <3>1, <3>2
  <2>15. EndOf(r, b, t)
    BY <2>12, <2>13, <2>14 DEF EndOf
  <2>. QED
    BY <2>9, <2>15
<1>. QED
  BY <1>2, <1>3

LEMMA EndGrows ==
  ASSUME NEW s \in Seq(Nat), NEW l \in Seq(Nat), NEW e \in Nat, NEW t, EndOf(s, l, t)
  PROVE  LET r == MemoryAppend(s, e, MemCap, t, Ttl)
         IN  r \in Seq(Nat) /\ EndOf(r, Append(l, e), t)
<1>1. PICK r : r = MemoryAppend(s, e, MemCap, t, Ttl)
  OBVIOUS
<1>2. PICK b \in Seq(Nat) : b = Append(s, e)
  BY AppendedNumber
<1>3. PICK l2 \in Seq(Nat) : l2 = Append(l, e)
  BY AppendedNumber
<1>4. PICK a \in Nat : /\ Len(l) = a + Len(s)
                       /\ \A k \in 1..Len(s) : s[k] = l[a + k]
                       /\ \A j \in 1..a : Expired(l[j], t, Ttl) \/ Len(l) - j >= MemCap
  BY DEF EndOf
<1>5. r \in Seq(Nat) /\ EndOf(r, b, t)
  BY <1>1, <1>2, AppendKeepsEnd
<1>6. PICK d \in Nat : /\ Len(b) = d + Len(r)
                       /\ \A k \in 1..Len(r) : r[k] = b[d + k]
                       /\ \A j \in 1..d : Expired(b[j], t, Ttl) \/ Len(b) - j >= MemCap
  BY <1>5 DEF EndOf
<1>7. /\ Len(b) = Len(s) + 1 /\ Len(s) \in Nat
      /\ \A k \in 1..Len(s) : b[k] = s[k]
      /\ b[Len(s) + 1] = e
  BY <1>2, AppendedNumber
<1>8. /\ Len(l2) = Len(l) + 1 /\ Len(l) \in Nat
      /\ \A k \in 1..Len(l) : l2[k] = l[k]
      /\ l2[Len(l) + 1] = e
  BY <1>3, AppendedNumber
<1>9. ASSUME NEW k \in 1..(Len(s) + 1) PROVE b[k] = l2[a + k]
  <2>1. CASE k = Len(s) + 1
    <3>1. a + k = Len(l) + 1
      BY <1>4, <1>7, <2>1
    <3>. QED
      BY <1>7, <1>8, <2>1, <3>1
  <2>2. CASE k # Len(s) + 1
    <3>1. k \in 1..Len(s) /\ a + k \in 1..Len(l)
      BY <1>4, <1>7, <2>2
    <3>. QED
      BY <1>4, <1>7, <1>8, <3>1
  <2>. QED
    BY <2>1, <2>2
<1>10. Len(r) \in Nat
  BY <1>5
<1>11. MemCap \in Nat
  BY HubAssumption
<1>12. a + d \in Nat /\ Len(l2) = (a + d) + Len(r)
  <2>1. Len(l2) = Len(l) + 1 /\ Len(l) = a + Len(s) /\ Len(s) \in Nat
    BY <1>4, <1>7, <1>8
  <2>2. Len(s) + 1 = d + Len(r)
    BY <1>6, <1>7
  <2>3. PICK x \in Nat : x = Len(r)
    BY <1>10
  <2>4. PICK y \in Nat : y = Len(s)
    BY <2>1
  <2>a. y + 1 = d + x
    BY <2>2, <2>3, <2>4
  <2>b. a + (y + 1) = a + (d + x)
    BY <2>a
  <2>5. a + d \in Nat /\ a + y + 1 = (a + d) + x
    BY <2>b
  <2>6. Len(l2) = a + y + 1
    BY <2>1, <2>4
  <2>. QED
    BY <2>3, <2>5, <2>6
<1>13. ASSUME NEW k \in 1..Len(r) PROVE r[k] = l2[(a + d) + k]
  <2>1. d + k \in 1..(Len(s) + 1) /\ a + (d + k) = (a + d) + k
    BY <1>6, <1>7, <1>10
  <2>. QED
    BY <1>6, <1>9, <2>1
<1>14. ASSUME NEW j \in 1..(a + d)
       PROVE  Expired(l2[j], t, Ttl) \/ Len(l2) - j >= MemCap
  <2>1. CASE j <= a
    <3>1. j \in 1..a /\ j \in 1..Len(l)
      BY <1>4, <1>7, <2>1
    <3>2. Len(l) - j >= MemCap => Len(l2) - j >= MemCap
      BY <1>8, <1>11
    <3>. QED
      BY <1>4, <1>8, <3>1, <3>2
  <2>2. CASE ~(j <= a)
    <3>1. PICK i \in 1..d : a + i = j
      <4>1. j - a \in 1..d /\ a + (j - a) = j
        BY <2>2
      <4>. QED
        BY <4>1
    <3>2. i \in 1..(Len(s) + 1)
      BY <1>6, <1>7, <1>10
    <3>3. b[i] = l2[j]
      BY <1>9, <3>1, <3>2
    <3>4. Len(l2) - j = Len(b) - i
      <4>1. Len(l2) = a + Len(b) /\ Len(b) \in Nat /\ Len(l2) \in Nat
        BY <1>4, <1>7, <1>8
      <4>2. i \in Nat /\ j = a + i
        BY <3>1
      <4>. QED
        BY <4>1, <4>2
    <3>. QED
      BY <1>6, <3>3, <3>4
  <2>. QED
    BY <2>1, <2>2
<1>15. EndOf(r, l2, t)
  BY <1>12, <1>13, <1>14 DEF EndOf
<1>. QED
  BY <1>1, <1>3, <1>5, <1>15

(* An event that enough others outlived stays so when more are stored.     *)
LEMMA OutlivedMore ==
  ASSUME NEW e, NEW S, NEW T, S \subseteq T, IsFiniteSet(T), Outlived(e, S)
  PROVE  Outlived(e, T)
<1>. DEFINE A == {i \in S \ {e} : At(i) >= At(e)}
            B == {i \in T \ {e} : At(i) >= At(e)}
<1>1. A \subseteq B /\ B \subseteq T
  OBVIOUS
<1>2. IsFiniteSet(B)
  BY <1>1, FS_Subset
<1>3. IsFiniteSet(A) /\ Cardinality(A) <= Cardinality(B)
  BY <1>1, <1>2, FS_Subset
<1>4. Cardinality(A) \in Nat /\ Cardinality(B) \in Nat
  BY <1>2, <1>3, FS_CardinalityType
<1>5. Cardinality(A) >= RowCap
  BY DEF Outlived
<1>6. Cardinality(B) >= RowCap
  <2>. HIDE DEF A, B
  <2>. QED
    BY <1>3, <1>4, <1>5, HubAssumption
<1>. QED
  BY <1>6 DEF Outlived

(* The oldest beyond the cap: those that stay are as many as the cap and   *)
(* at least as new.                                                        *)
LEMMA OldestOutlived ==
  ASSUME NEW R, IsFiniteSet(R), NEW n \in Nat, NEW S, R \subseteq S, IsFiniteSet(S),
         Cardinality(R) >= RowCap + n, NEW gone \in Oldest(R, n),
         NEW e \in gone, \A i \in R : At(i) \in Int
  PROVE  Outlived(e, S)
<1>. DEFINE K == R \ gone
            A == {i \in S \ {e} : At(i) >= At(e)}
<1>1. gone \subseteq R /\ Cardinality(gone) = n /\ \A i \in gone, j \in R \ gone : At(i) <= At(j)
  BY DEF Oldest, kSubset
<1>2. IsFiniteSet(K) /\ Cardinality(K) = Cardinality(R) - Cardinality(R \cap gone)
  BY FS_Difference
<1>3. R \cap gone = gone
  BY <1>1
<1>4. Cardinality(R) \in Nat /\ Cardinality(K) \in Nat
  BY <1>2, FS_CardinalityType
<1>5. Cardinality(K) >= RowCap
  <2>. HIDE DEF K
  <2>. QED
    BY <1>1, <1>2, <1>3, <1>4, HubAssumption
<1>6. K \subseteq A
  BY <1>1
<1>7. IsFiniteSet(A)
  <2>1. A \subseteq S
    OBVIOUS
  <2>. QED
    BY <2>1, FS_Subset
<1>8. Cardinality(K) <= Cardinality(A) /\ Cardinality(A) \in Nat
  BY <1>6, <1>7, FS_Subset, FS_CardinalityType
<1>9. Cardinality(A) >= RowCap
  <2>. HIDE DEF A, K
  <2>. QED
    BY <1>4, <1>5, <1>8, HubAssumption
<1>. QED
  BY <1>9 DEF Outlived

-----------------------------------------------------------------------------
(* What each step does to memory.                                          *)
LEMMA LogTimes ==
  ASSUME TypeOK, HistoryInv, NEW f \in ToSet(log)
  PROVE  At(f) \in Int
<1>1. PICK j \in DOMAIN log : log[j] = f
  BY DEF ToSet
<1>2. PICK o \in Emitter : \E i \in 1..at[o] : f = Program(o)[i]
  BY <1>1 DEF HistoryInv
<1>3. PICK i \in 1..at[o] : f = Program(o)[i]
  BY <1>2
<1>4. i \in 1..Len(Program(o)) /\ Program(o) \in Seq(DOMAIN Event)
  BY <1>3, ProgramFacts DEF TypeOK
<1>5. f \in DOMAIN Event
  BY <1>3, <1>4
<1>. QED
  BY <1>5, HubAssumption

LEMMA LaterExpired ==
  ASSUME NEW f, At(f) \in Int, NEW t \in Int, Expired(f, t, Ttl)
  PROVE  Expired(f, t + 1, Ttl)
<1>1. PICK a \in Int : a = At(f)
  OBVIOUS
<1>2. a < t - Ttl
  BY <1>1 DEF Expired
<1>3. Ttl \in Int
  BY HubAssumption
<1>4. a < (t + 1) - Ttl
  BY <1>2, <1>3
<1>. QED
  BY <1>1, <1>4 DEF Expired

LEMMA MemQuiet ==
  ASSUME MemInv, UNCHANGED <<now, mem, log, setting>>
  PROVE  MemInv'
<1>1. now' = now /\ mem' = mem /\ log' = log /\ sinks' = sinks
  BY DEF sinks
<1>. QED
  BY <1>1 DEF MemInv, EndOf

LEMMA MemEmit ==
  ASSUME HubInv, MemInv, NEW m \in Emitter, Emit(m)
  PROVE  MemInv'
<1>1. PICK e : e = Program(m)[at[m] + 1]
  OBVIOUS
<1>2. /\ at[m] < Len(Program(m)) /\ log' = Append(log, e) /\ ToMemory(e)
      /\ setting' = setting /\ now' = now
  BY <1>1 DEF Emit, clock
<1>3. e \in Nat
  <2>1. TypeOK
    BY DEF HubInv
  <2>2. at[m] \in Nat /\ at[m] + 1 \in 1..Len(Program(m))
    BY <1>2, <2>1, ProgramFacts DEF TypeOK
  <2>. QED
    BY <1>1, <2>1, <2>2, ProgramFacts
<1>4. sinks' = sinks
  BY <1>2 DEF sinks
<1>5. PICK l \in Seq(Nat) : l = log
  BY DEF HubInv, TypeOK
<1>6. CASE "memory" \in sinks
  <2>1. PICK s \in Seq(Nat) : s = mem
    BY DEF MemInv
  <2>2. PICK t \in Int : t = now
    BY DEF MemInv
  <2>3. mem' = MemoryAppend(s, e, MemCap, t, Ttl)
    BY <1>2, <1>6, <2>1, <2>2 DEF ToMemory
  <2>4. EndOf(s, l, t)
    BY <1>5, <1>6, <2>1, <2>2 DEF MemInv
  <2>5. /\ MemoryAppend(s, e, MemCap, t, Ttl) \in Seq(Nat)
        /\ EndOf(MemoryAppend(s, e, MemCap, t, Ttl), Append(l, e), t)
    BY <1>3, <2>4, EndGrows
  <2>6. mem' \in Seq(Nat) /\ EndOf(mem', log', now')
    BY <1>2, <1>5, <2>2, <2>3, <2>5
  <2>7. now' \in Int
    BY <1>2, <2>2
  <2>. QED
    BY <2>6, <2>7 DEF MemInv, EndOf
<1>7. CASE "memory" \notin sinks
  <2>1. mem' = mem
    BY <1>2, <1>7 DEF ToMemory, memory
  <2>. QED
    BY <1>2, <1>4, <1>7, <2>1 DEF MemInv
<1>. QED
  BY <1>6, <1>7

LEMMA MemTick ==
  ASSUME HubInv, MemInv, Tick
  PROVE  MemInv'
<1>1. now' = now + 1 /\ setting' = setting /\ mem' = mem /\ log' = log
  BY DEF Tick, memory, past
<1>2. sinks' = sinks
  BY <1>1 DEF sinks
<1>3. PICK t \in Int : t = now
  BY DEF MemInv
<1>4. t + 1 \in Int /\ now' = t + 1
  BY <1>1, <1>3
<1>5. PICK l \in Seq(Nat) : l = log
  BY DEF HubInv, TypeOK
<1>6. PICK s \in Seq(Nat) : s = mem
  BY DEF MemInv
<1>7. \A j \in 1..Len(l) : At(l[j]) \in Int
  <2>1. \A j \in 1..Len(l) : l[j] \in ToSet(log)
    BY <1>5 DEF ToSet
  <2>. QED
    BY <2>1, LogTimes DEF HubInv
<1>8. ASSUME EndOf(s, l, t) PROVE EndOf(s, l, t + 1)
  <2>1. PICK d \in Nat : /\ Len(l) = d + Len(s)
                         /\ \A k \in 1..Len(s) : s[k] = l[d + k]
                         /\ \A j \in 1..d : Expired(l[j], t, Ttl) \/ Len(l) - j >= MemCap
    BY <1>8 DEF EndOf
  <2>2. ASSUME NEW j \in 1..d
        PROVE  Expired(l[j], t + 1, Ttl) \/ Len(l) - j >= MemCap
    <3>1. j \in 1..Len(l)
      BY <2>1
    <3>. QED
      BY <1>7, <2>1, <3>1, LaterExpired
  <2>. QED
    BY <2>1, <2>2 DEF EndOf
<1>9. "memory" \in sinks' => EndOf(s, l, t + 1)
  BY <1>2, <1>3, <1>5, <1>6, <1>8 DEF MemInv
<1>10. mem' = s /\ log' = l /\ now' = t + 1
  BY <1>1, <1>3, <1>5, <1>6
<1>11. "memory" \in sinks' => EndOf(mem', log', now')
  BY <1>9, <1>10
<1>. QED
  BY <1>4, <1>6, <1>10, <1>11 DEF MemInv, EndOf

LEMMA MemSteps ==
  ASSUME HubInv, MemInv, [Next]_vars
  PROVE  MemInv'
<1>1. ASSUME NEW m \in Emitter, Emit(m) PROVE MemInv'
  BY <1>1, MemEmit
<1>2. CASE Tick
  BY <1>2, MemTick
<1>3. ASSUME UNCHANGED <<now, mem, log, setting>> PROVE MemInv'
  BY <1>3, MemQuiet
<1>4. ASSUME NEW m \in Emitter, Logged(m) \/ Begin(m) \/ Inserted(m) \/ Cancel(m)
      PROVE  UNCHANGED <<now, mem, log, setting>>
  BY <1>4 DEF Logged, Begin, Inserted, Cancel, clock, memory, past
<1>5. ASSUME NEW e \in strays, StrayInserted(e) PROVE UNCHANGED <<now, mem, log, setting>>
  BY <1>5 DEF StrayInserted, clock, memory
<1>6. CASE AskPrune \/ PruneExpired \/ PruneExcess
  <2>1. UNCHANGED <<now, mem, log, setting>>
    BY <1>6 DEF AskPrune, PruneExpired, PruneExcess, clock, memory, past
  <2>. QED
    BY <1>3, <2>1
<1>7. ASSUME NEW s \in Subscriber, Subscribe(s) \/ Take(s) \/ Heartbeat(s) \/ Unsubscribe(s)
      PROVE  UNCHANGED <<now, mem, log, setting>>
  BY <1>7 DEF Subscribe, Take, Heartbeat, Unsubscribe, clock, memory, past
<1>8. CASE UNCHANGED vars
  <2>1. UNCHANGED <<now, mem, log, setting>>
    BY <1>8 DEF vars, clock, memory, past
  <2>. QED
    BY <1>3, <2>1
<1>. QED
  BY <1>1, <1>2, <1>3, <1>4, <1>5, <1>6, <1>7, <1>8 DEF Next

-----------------------------------------------------------------------------
(* What each step does to the inserts.                                     *)
LEMMA CurrentFacts ==
  ASSUME TypeOK, HistoryInv, NEW m \in Emitter, at[m] > 0
  PROVE  /\ Current(m) \in ToSet(log)
         /\ \A n \in Emitter : at[n] > 0 /\ n # m => Current(n) # Current(m)
<1>1. \A n \in Emitter : at[n] > 0 =>
        at[n] \in 1..at[n] /\ at[n] \in 1..Len(Program(n)) /\ Current(n) = Program(n)[at[n]]
  BY ProgramFacts DEF TypeOK, Current
<1>2. Current(m) \in ToSet(log)
  BY <1>1 DEF HistoryInv, ToSet
<1>. QED
  BY <1>1, <1>2, ProgramFacts

LEMMA InsertQuiet ==
  ASSUME InsertInv, inserting' \in [Emitter -> {"no", "waiting", "thread"}],
         \A n \in Emitter : inserting'[n] = "no" <=> inserting[n] = "no",
         UNCHANGED <<setting, at, log, stored, strays, cut>>
  PROVE  InsertInv'
<1>1. /\ at' = at /\ log' = log /\ stored' = stored /\ strays' = strays /\ cut' = cut
      /\ sinks' = sinks /\ \A n \in Emitter : Current(n)' = Current(n)
  BY DEF sinks, Current, Program
<1>. QED
  BY <1>1 DEF InsertInv

LEMMA InsertEmit ==
  ASSUME HubInv, InsertInv, NEW m \in Emitter, Emit(m)
  PROVE  InsertInv'
<1>1. PICK e : e = Program(m)[at[m] + 1]
  OBVIOUS
<1>2. /\ at[m] < Len(Program(m)) /\ log' = Append(log, e) /\ at' = [at EXCEPT ![m] = @ + 1]
      /\ setting' = setting /\ strays' = strays /\ cut' = cut /\ stored' = stored
  BY <1>1 DEF Emit, clock
<1>3. inserting[m] = "no"
  BY DEF Emit, Open
<1>4. sinks' = sinks
  BY <1>2 DEF sinks
<1>5. /\ e \notin ToSet(log) /\ Current(m)' = e
      /\ \A n \in Emitter \ {m} : Current(n)' = Current(n)
      /\ ToSet(log') = ToSet(log) \cup {e}
  BY <1>1, <1>2, LogGrows DEF HubInv
<1>6. at'[m] > 0 /\ \A n \in Emitter \ {m} : at'[n] = at[n]
  BY <1>2 DEF HubInv, TypeOK
<1>7. /\ inserting' \in [Emitter -> {"no", "waiting", "thread"}]
      /\ \A n \in Emitter \ {m} : inserting'[n] = inserting[n]
      /\ "sqlite" \in sinks => inserting'[m] = "waiting"
  <2>1. /\ "sqlite" \in sinks => inserting' = [inserting EXCEPT ![m] = "waiting"]
        /\ "sqlite" \notin sinks => inserting' = inserting
    BY DEF Emit
  <2>. QED
    BY <2>1 DEF InsertInv
<1>8. ASSUME NEW n \in Emitter, inserting'[n] # "no"
      PROVE  at'[n] > 0 /\ Current(n)' \notin stored \cup strays
  <2>1. CASE n = m
    BY <1>5, <1>6, <2>1 DEF InsertInv
  <2>2. CASE n # m
    BY <1>5, <1>6, <1>7, <1>8, <2>2 DEF InsertInv
  <2>. QED
    BY <2>1, <2>2
<1>9. ASSUME "sqlite" \in sinks, NEW f \in ToSet(log') \ stored
      PROVE  f \in cut \/ \E n \in Emitter : Current(n)' = f /\ inserting'[n] # "no"
  <2>1. CASE f = e
    BY <1>5, <1>7, <1>9, <2>1
  <2>2. CASE f # e
    <3>1. f \in ToSet(log) \ stored
      BY <1>5, <1>9, <2>2
    <3>2. f \in cut \/ \E n \in Emitter : Current(n) = f /\ inserting[n] # "no"
      BY <1>9, <3>1 DEF InsertInv
    <3>. QED
      BY <1>3, <1>5, <1>7, <3>2
  <2>. QED
    BY <2>1, <2>2
<1>. QED
  BY <1>2, <1>4, <1>5, <1>7, <1>8, <1>9 DEF InsertInv

LEMMA InsertDone ==
  ASSUME HubInv, InsertInv, NEW m \in Emitter, Inserted(m)
  PROVE  InsertInv' /\ Current(m) \in ToSet(log) \ stored
<1>1. /\ inserting[m] # "no" /\ inserting' = [inserting EXCEPT ![m] = "no"]
      /\ stored' = stored \cup {Current(m)}
      /\ setting' = setting /\ at' = at /\ log' = log /\ strays' = strays /\ cut' = cut
  BY DEF Inserted, clock
<1>2. sinks' = sinks /\ \A n \in Emitter : Current(n)' = Current(n)
  BY <1>1 DEF sinks, Current, Program
<1>3. PICK c : c = Current(m)
  OBVIOUS
<1>4. at[m] > 0 /\ c \notin stored \cup strays
  BY <1>1, <1>3 DEF InsertInv
<1>5. c \in ToSet(log) /\ \A n \in Emitter : at[n] > 0 /\ n # m => Current(n) # c
  BY <1>3, <1>4, CurrentFacts DEF HubInv
<1>6. /\ inserting' \in [Emitter -> {"no", "waiting", "thread"}] /\ inserting'[m] = "no"
      /\ \A n \in Emitter \ {m} : inserting'[n] = inserting[n]
  BY <1>1 DEF InsertInv
<1>7. ASSUME NEW n \in Emitter, inserting'[n] # "no"
      PROVE  at[n] > 0 /\ Current(n) \notin (stored \cup {c}) \cup strays
  BY <1>5, <1>6, <1>7 DEF InsertInv
<1>8. ASSUME "sqlite" \in sinks, NEW f \in ToSet(log) \ (stored \cup {c})
      PROVE  f \in cut \/ \E n \in Emitter : Current(n) = f /\ inserting'[n] # "no"
  <2>1. f \in cut \/ \E n \in Emitter : Current(n) = f /\ inserting[n] # "no"
    BY <1>8 DEF InsertInv
  <2>. QED
    BY <1>3, <1>6, <1>8, <2>1
<1>9. stored \cup {c} \subseteq ToSet(log) /\ strays \cap (stored \cup {c}) = {}
  BY <1>4, <1>5 DEF InsertInv
<1>10. InsertInv'
  BY <1>1, <1>2, <1>3, <1>6, <1>7, <1>8, <1>9 DEF InsertInv
<1>. QED
  BY <1>3, <1>4, <1>5, <1>10

LEMMA InsertCancelled ==
  ASSUME HubInv, InsertInv, NEW m \in Emitter, Cancel(m)
  PROVE  InsertInv'
<1>1. PICK c : c = Current(m)
  OBVIOUS
<1>2. /\ inserting' = [inserting EXCEPT ![m] = "no"]
      /\ strays' = IF inserting[m] = "thread" THEN strays \cup {c} ELSE strays
      /\ cut' = cut \cup {c}
      /\ setting' = setting /\ at' = at /\ log' = log /\ stored' = stored
  BY <1>1 DEF Cancel, clock
<1>3. sinks' = sinks /\ \A n \in Emitter : Current(n)' = Current(n)
  BY <1>2 DEF sinks, Current, Program
<1>4. /\ inserting' \in [Emitter -> {"no", "waiting", "thread"}] /\ inserting'[m] = "no"
      /\ \A n \in Emitter \ {m} : inserting'[n] = inserting[n]
  BY <1>2 DEF InsertInv
<1>5. /\ strays \subseteq strays' /\ strays' \subseteq strays \cup {c}
      /\ c \in strays' =>
           c \in ToSet(log) /\ c \notin stored
           /\ \A n \in Emitter : at[n] > 0 /\ n # m => Current(n) # c
  <2>1. CASE inserting[m] = "thread"
    <3>1. at[m] > 0 /\ c \notin stored
      BY <1>1, <2>1 DEF InsertInv
    <3>. QED
      BY <1>1, <1>2, <2>1, <3>1, CurrentFacts DEF HubInv
  <2>2. CASE inserting[m] # "thread"
    <3>1. strays' = strays
      BY <1>2, <2>2
    <3>2. c \in strays => at[m] > 0
      <4>1. c \in strays => c \in ToSet(log)
        BY DEF InsertInv
      <4>2. at[m] \in Nat
        BY DEF HubInv, TypeOK
      <4>3. at[m] = 0 => c = NoEvent
        BY <1>1 DEF Current
      <4>4. c \in ToSet(log) => c # NoEvent
        BY EventsAreNumbers DEF HubInv, NoEvent
      <4>. QED
        BY <4>1, <4>2, <4>3, <4>4
    <3>3. c \in strays =>
            c \in ToSet(log) /\ c \notin stored
            /\ \A n \in Emitter : at[n] > 0 /\ n # m => Current(n) # c
      BY <1>1, <3>2, CurrentFacts DEF InsertInv, HubInv
    <3>. QED
      BY <3>1, <3>3
  <2>. QED
    BY <2>1, <2>2
<1>6. ASSUME NEW n \in Emitter, inserting'[n] # "no"
      PROVE  at[n] > 0 /\ Current(n) \notin stored \cup strays'
  BY <1>4, <1>5, <1>6 DEF InsertInv
<1>7. ASSUME "sqlite" \in sinks, NEW f \in ToSet(log) \ stored
      PROVE  f \in cut' \/ \E n \in Emitter : Current(n) = f /\ inserting'[n] # "no"
  <2>1. f \in cut \/ \E n \in Emitter : Current(n) = f /\ inserting[n] # "no"
    BY <1>7 DEF InsertInv
  <2>. QED
    BY <1>1, <1>2, <1>4, <2>1
<1>8. /\ strays' \subseteq ToSet(log) /\ strays' \subseteq cut' /\ strays' \cap stored = {}
      /\ stored \subseteq ToSet(log)
  BY <1>2, <1>5 DEF InsertInv
<1>. QED
  BY <1>2, <1>3, <1>4, <1>6, <1>7, <1>8 DEF InsertInv

LEMMA InsertStray ==
  ASSUME HubInv, InsertInv, NEW e \in strays, StrayInserted(e)
  PROVE  InsertInv' /\ e \in ToSet(log) \ stored
<1>1. /\ strays' = strays \ {e} /\ stored' = stored \cup {e} /\ inserting' = inserting
      /\ setting' = setting /\ at' = at /\ log' = log /\ cut' = cut
  BY DEF StrayInserted, clock, emits
<1>2. sinks' = sinks /\ \A n \in Emitter : Current(n)' = Current(n)
  BY <1>1 DEF sinks, Current, Program
<1>. QED
  BY <1>1, <1>2 DEF InsertInv

LEMMA InsertSteps ==
  ASSUME HubInv, InsertInv, [Next]_vars
  PROVE  InsertInv'
<1>1. ASSUME UNCHANGED <<setting, at, log, stored, strays, cut, inserting>> PROVE InsertInv'
  <2>1. inserting' = inserting /\ UNCHANGED <<setting, at, log, stored, strays, cut>>
    BY <1>1
  <2>2. inserting' \in [Emitter -> {"no", "waiting", "thread"}]
    BY <2>1 DEF InsertInv
  <2>3. \A n \in Emitter : inserting'[n] = "no" <=> inserting[n] = "no"
    BY <2>1
  <2>. QED
    BY <2>1, <2>2, <2>3, InsertQuiet
<1>2. ASSUME NEW m \in Emitter, Emit(m) PROVE InsertInv'
  BY <1>2, InsertEmit
<1>3. ASSUME NEW m \in Emitter, Logged(m)
      PROVE  UNCHANGED <<setting, at, log, stored, strays, cut, inserting>>
  BY <1>3 DEF Logged, clock, sqlite
<1>4. ASSUME NEW m \in Emitter, Begin(m) PROVE InsertInv'
  <2>1. /\ inserting[m] = "waiting" /\ inserting' = [inserting EXCEPT ![m] = "thread"]
        /\ UNCHANGED <<setting, at, log, stored, strays, cut>>
    BY <1>4 DEF Begin, clock, sqlite, past
  <2>2. /\ inserting' \in [Emitter -> {"no", "waiting", "thread"}]
        /\ \A n \in Emitter : inserting'[n] = "no" <=> inserting[n] = "no"
    BY <2>1 DEF InsertInv
  <2>. QED
    BY <2>1, <2>2, InsertQuiet
<1>5. ASSUME NEW m \in Emitter, Inserted(m) PROVE InsertInv'
  BY <1>5, InsertDone
<1>6. ASSUME NEW m \in Emitter, Cancel(m) PROVE InsertInv'
  BY <1>6, InsertCancelled
<1>7. ASSUME NEW e \in strays, StrayInserted(e) PROVE InsertInv'
  BY <1>7, InsertStray
<1>8. CASE AskPrune \/ PruneExpired \/ PruneExcess
  <2>1. UNCHANGED <<setting, at, log, stored, strays, cut, inserting>>
    BY <1>8 DEF AskPrune, PruneExpired, PruneExcess, clock, emits, past
  <2>. QED
    BY <1>1, <2>1
<1>9. ASSUME NEW s \in Subscriber, Subscribe(s) \/ Take(s) \/ Heartbeat(s) \/ Unsubscribe(s)
      PROVE  UNCHANGED <<setting, at, log, stored, strays, cut, inserting>>
  BY <1>9 DEF Subscribe, Take, Heartbeat, Unsubscribe, clock, emits, sqlite, past
<1>10. CASE Tick \/ UNCHANGED vars
  <2>1. UNCHANGED <<setting, at, log, stored, strays, cut, inserting>>
    BY <1>10 DEF Tick, vars, clock, emits, sqlite, past
  <2>. QED
    BY <1>1, <2>1
<1>. QED
  BY <1>1, <1>2, <1>3, <1>4, <1>5, <1>6, <1>7, <1>8, <1>9, <1>10 DEF Next

-----------------------------------------------------------------------------
(* What each step does to the table.                                       *)
LEMMA RowsQuiet ==
  ASSUME RowsInv, UNCHANGED <<rows, stored, excess, now>>
  PROVE  RowsInv'
<1>1. rows' = rows /\ stored' = stored /\ excess' = excess /\ now' = now
  OBVIOUS
<1>. QED
  BY <1>1 DEF RowsInv

LEMMA StoredFacts ==
  ASSUME HubInv, InsertInv, NEW f \in stored
  PROVE  f \in Nat /\ At(f) \in Int /\ IsFiniteSet(stored)
<1>1. f \in ToSet(log) /\ stored \subseteq ToSet(log)
  BY DEF InsertInv
<1>2. log \in Seq(Nat)
  BY DEF HubInv, TypeOK
<1>3. IsFiniteSet(ToSet(log))
  BY <1>2, CountedSet
<1>. QED
  BY <1>1, <1>3, FS_Subset, EventsAreNumbers, LogTimes DEF HubInv

LEMMA RowsGrow ==
  ASSUME HubInv, InsertInv, RowsInv, NEW f \in ToSet(log) \ stored,
         rows' = Append(rows, f), stored' = stored \cup {f},
         excess' = excess, now' = now
  PROVE  RowsInv'
<1>1. PICK r \in Seq(Nat) : r = rows
  BY DEF RowsInv
<1>2. f \in Nat /\ IsFiniteSet(stored')
  <2>1. f \in Nat
    BY EventsAreNumbers DEF HubInv
  <2>2. IsFiniteSet(ToSet(log))
    BY CountedSet DEF HubInv, TypeOK
  <2>3. stored' \subseteq ToSet(log)
    BY DEF InsertInv
  <2>. QED
    BY <2>1, <2>2, <2>3, FS_Subset
<1>3. PICK q : q = Append(r, f)
  OBVIOUS
<1>4. /\ q \in Seq(Nat) /\ Len(q) = Len(r) + 1 /\ Len(r) \in Nat
      /\ DOMAIN r = 1..Len(r) /\ DOMAIN q = 1..(Len(r) + 1)
      /\ \A k \in 1..Len(r) : q[k] = r[k]
      /\ q[Len(r) + 1] = f
      /\ ToSet(q) = ToSet(r) \cup {f}
  BY <1>2, <1>3, AppendedNumber
<1>5. rows' = q
  BY <1>1, <1>3
<1>6. ToSet(r) \subseteq stored /\ IsInjective(r)
  BY <1>1 DEF RowsInv
<1>7. ToSet(q) \subseteq stored'
  BY <1>4, <1>6
<1>8. IsInjective(q)
  <2>1. \A k \in DOMAIN r : r[k] # f
    BY <1>6 DEF ToSet
  <2>2. \A k \in DOMAIN q : k = Len(r) + 1 \/ (k \in DOMAIN r /\ q[k] = r[k])
    BY <1>4
  <2>. QED
    BY <1>4, <1>6, <2>1, <2>2 DEF IsInjective
<1>9. ASSUME NEW e \in stored' \ ToSet(q)
      PROVE  Expired(e, now', Ttl) \/ Outlived(e, stored')
  <2>1. e \in stored \ ToSet(r)
    BY <1>4, <1>9
  <2>2. Expired(e, now, Ttl) \/ Outlived(e, stored)
    BY <1>1, <2>1 DEF RowsInv
  <2>3. Outlived(e, stored) => Outlived(e, stored')
    <3>1. stored \subseteq stored'
      OBVIOUS
    <3>. QED
      BY <1>2, <3>1, OutlivedMore
  <2>. QED
    BY <2>2, <2>3
<1>10. excess' > 0 => Len(q) >= RowCap + excess'
  <2>1. PICK x \in Int : x = excess
    BY DEF RowsInv
  <2>2. PICK n \in Nat : n = Len(r)
    BY <1>4
  <2>3. x > 0 => n >= RowCap + x
    BY <1>1, <2>1, <2>2 DEF RowsInv
  <2>4. RowCap \in Nat
    BY HubAssumption
  <2>5. x > 0 => n + 1 >= RowCap + x
    BY <2>3, <2>4
  <2>. QED
    BY <1>4, <2>1, <2>2, <2>5
<1>11. excess' \in Int /\ excess' >= -1
  BY DEF RowsInv
<1>. QED
  BY <1>4, <1>5, <1>7, <1>8, <1>9, <1>10, <1>11 DEF RowsInv

LEMMA RowsTick ==
  ASSUME HubInv, MemInv, InsertInv, RowsInv, Tick
  PROVE  RowsInv'
<1>1. now' = now + 1 /\ rows' = rows /\ stored' = stored /\ excess' = excess
  BY DEF Tick, sqlite, past
<1>2. ASSUME NEW e \in stored, Expired(e, now, Ttl) PROVE Expired(e, now', Ttl)
  <2>1. At(e) \in Int /\ now \in Int
    BY StoredFacts DEF MemInv
  <2>. QED
    BY <1>1, <1>2, <2>1, LaterExpired
<1>3. ASSUME NEW e \in stored \ ToSet(rows)
      PROVE  Expired(e, now', Ttl) \/ Outlived(e, stored)
  BY <1>2 DEF RowsInv
<1>. QED
  BY <1>1, <1>3 DEF RowsInv

LEMMA RowsExpired ==
  ASSUME RowsInv, PruneExpired
  PROVE  RowsInv'
<1>1. /\ rows' = Fresh(rows, now, Ttl)
      /\ excess' = IF Len(rows') > RowCap THEN Len(rows') - RowCap ELSE 0
      /\ now' = now /\ stored' = stored
  BY DEF PruneExpired, clock, past
<1>2. PICK r \in Seq(Nat) : r = rows
  BY DEF RowsInv
<1>3. PICK gone : gone = {i \in ToSet(r) : Expired(i, now, Ttl)}
  OBVIOUS
<1>4. PICK q : q = Without(r, gone)
  OBVIOUS
<1>5. q \in Seq(Nat) /\ ToSet(q) = ToSet(r) \ gone /\ (IsInjective(r) => IsInjective(q))
  BY <1>4, WithoutFacts
<1>6. rows' = q
  BY <1>1, <1>2, <1>3, <1>4 DEF Fresh
<1>7. IsInjective(r) /\ ToSet(r) \subseteq stored
  BY <1>2 DEF RowsInv
<1>8. ASSUME NEW e \in stored \ ToSet(q)
      PROVE  Expired(e, now, Ttl) \/ Outlived(e, stored)
  <2>1. e \in gone \/ e \in stored \ ToSet(r)
    BY <1>5
  <2>. QED
    BY <1>2, <1>3, <2>1 DEF RowsInv
<1>9. excess' \in Int /\ excess' >= -1 /\ (excess' > 0 => Len(q) >= RowCap + excess')
  <2>1. PICK n \in Nat : n = Len(q)
    BY <1>5
  <2>2. excess' = IF n > RowCap THEN n - RowCap ELSE 0
    BY <1>1, <1>6, <2>1
  <2>3. RowCap \in Nat
    BY HubAssumption
  <2>4. excess' \in Int /\ excess' >= -1 /\ (excess' > 0 => n >= RowCap + excess')
    BY <2>2, <2>3
  <2>. QED
    BY <2>1, <2>4
<1>. QED
  BY <1>1, <1>5, <1>6, <1>7, <1>8, <1>9 DEF RowsInv

LEMMA RowsExcess ==
  ASSUME HubInv, InsertInv, RowsInv, PruneExcess
  PROVE  RowsInv'
<1>1. PICK gone \in Oldest(ToSet(rows), excess) : rows' = Without(rows, gone)
  BY DEF PruneExcess
<1>2. excess # -1 /\ excess' = -1 /\ now' = now /\ stored' = stored
  BY DEF PruneExcess, clock, past
<1>3. PICK r \in Seq(Nat) : r = rows
  BY DEF RowsInv
<1>4. PICK q : q = Without(r, gone)
  OBVIOUS
<1>5. q \in Seq(Nat) /\ ToSet(q) = ToSet(r) \ gone /\ (IsInjective(r) => IsInjective(q))
  BY <1>4, WithoutFacts
<1>6. rows' = q
  BY <1>1, <1>3, <1>4
<1>7. IsInjective(r) /\ ToSet(r) \subseteq stored
  BY <1>3 DEF RowsInv
<1>8. PICK n \in Nat : n = excess
  <2>1. excess \in Int /\ excess >= -1
    BY DEF RowsInv
  <2>. QED
    BY <1>2, <2>1
<1>9. PICK R : R = ToSet(r)
  OBVIOUS
<1>10. IsFiniteSet(R) /\ Cardinality(R) = Len(r)
  BY <1>7, <1>9, CountedSet
<1>11. ASSUME NEW e \in gone PROVE Outlived(e, stored)
  <2>1. gone \in Oldest(R, n)
    BY <1>1, <1>3, <1>8, <1>9
  <2>2. gone \subseteq R /\ Cardinality(gone) = n
    BY <2>1 DEF Oldest, kSubset
  <2>3. n # 0
    <3>1. IsFiniteSet(gone) /\ gone # {}
      BY <1>10, <1>11, <2>2, FS_Subset
    <3>. QED
      BY <2>2, <3>1, FS_EmptySet
  <2>4. Len(r) >= RowCap + n
    <3>1. n > 0
      BY <2>3
    <3>. QED
      BY <1>3, <1>8, <3>1 DEF RowsInv
  <2>5. R \subseteq stored /\ e \in stored /\ e \in gone
    BY <1>7, <1>9, <1>11, <2>2
  <2>6. IsFiniteSet(stored) /\ \A i \in R : At(i) \in Int
    BY <2>5, StoredFacts
  <2>7. Cardinality(R) >= RowCap + n
    BY <1>10, <2>4
  <2>. QED
    BY <1>10, <2>1, <2>5, <2>6, <2>7, OldestOutlived
<1>12. ASSUME NEW e \in stored \ ToSet(q)
       PROVE  Expired(e, now, Ttl) \/ Outlived(e, stored)
  <2>1. e \in gone \/ e \in stored \ ToSet(r)
    BY <1>5
  <2>. QED
    BY <1>3, <1>11, <2>1 DEF RowsInv
<1>13. excess' \in Int /\ excess' >= -1 /\ ~(excess' > 0)
  BY <1>2
<1>. QED
  BY <1>2, <1>5, <1>6, <1>7, <1>12, <1>13 DEF RowsInv

LEMMA RowsSteps ==
  ASSUME HubInv, MemInv, InsertInv, RowsInv, [Next]_vars
  PROVE  RowsInv'
<1>1. ASSUME NEW m \in Emitter, Emit(m) \/ Logged(m) \/ Begin(m) \/ Cancel(m)
      PROVE  UNCHANGED <<rows, stored, excess, now>>
  BY <1>1 DEF Emit, Logged, Begin, Cancel, clock, sqlite, past
<1>2. ASSUME NEW m \in Emitter, Inserted(m) PROVE RowsInv'
  <2>1. /\ rows' = Append(rows, Current(m)) /\ stored' = stored \cup {Current(m)}
        /\ excess' = excess /\ now' = now
    BY <1>2 DEF Inserted, clock
  <2>2. PICK f : f = Current(m)
    OBVIOUS
  <2>3. f \in ToSet(log) \ stored
    BY <1>2, <2>2, InsertDone
  <2>4. rows' = Append(rows, f) /\ stored' = stored \cup {f}
    BY <2>1, <2>2
  <2>. QED
    BY <2>1, <2>3, <2>4, RowsGrow
<1>3. ASSUME NEW e \in strays, StrayInserted(e) PROVE RowsInv'
  <2>1. /\ rows' = Append(rows, e) /\ stored' = stored \cup {e}
        /\ excess' = excess /\ now' = now
    BY <1>3 DEF StrayInserted, clock
  <2>2. e \in ToSet(log) \ stored
    BY <1>3, InsertStray
  <2>. QED
    BY <2>1, <2>2, RowsGrow
<1>4. CASE AskPrune
  <2>1. UNCHANGED <<rows, stored, excess, now>>
    BY <1>4 DEF AskPrune, clock, past
  <2>. QED
    BY <2>1, RowsQuiet
<1>5. CASE PruneExpired
  BY <1>5, RowsExpired
<1>6. CASE PruneExcess
  BY <1>6, RowsExcess
<1>7. ASSUME NEW s \in Subscriber, Subscribe(s) \/ Take(s) \/ Heartbeat(s) \/ Unsubscribe(s)
      PROVE  UNCHANGED <<rows, stored, excess, now>>
  BY <1>7 DEF Subscribe, Take, Heartbeat, Unsubscribe, clock, sqlite, past
<1>8. CASE Tick
  BY <1>8, RowsTick
<1>9. CASE UNCHANGED vars
  <2>1. UNCHANGED <<rows, stored, excess, now>>
    BY <1>9 DEF vars, clock, sqlite, past
  <2>. QED
    BY <2>1, RowsQuiet
<1>. QED
  BY <1>1, <1>2, <1>3, <1>4, <1>5, <1>6, <1>7, <1>8, <1>9, RowsQuiet DEF Next

-----------------------------------------------------------------------------
LEMMA StoresStart == Init => StoreInv
<1>. SUFFICES ASSUME Init PROVE StoreInv
  OBVIOUS
<1>1. /\ setting \in Setting /\ now = setting.start /\ mem = <<>> /\ log = <<>>
      /\ inserting = [m \in Emitter |-> "no"]
      /\ rows = <<>> /\ strays = {} /\ excess = -1 /\ stored = {}
  BY DEF Init
<1>2. <<>> \in Seq(Nat) /\ Len(<<>>) = 0 /\ DOMAIN <<>> = {}
  OBVIOUS
<1>3. ToSet(<<>>) = {} /\ IsInjective(<<>>)
  BY <1>2 DEF ToSet, IsInjective
<1>4. now \in Int
  BY <1>1, ProgramsAssumption
<1>5. EndOf(<<>>, <<>>, now)
  BY <1>2 DEF EndOf
<1>6. MemInv
  BY <1>1, <1>2, <1>4, <1>5 DEF MemInv
<1>7. InsertInv
  BY <1>1, <1>3 DEF InsertInv
<1>8. RowsInv
  BY <1>1, <1>2, <1>3 DEF RowsInv
<1>. QED
  BY <1>6, <1>7, <1>8, HubStarts DEF StoreInv

LEMMA StoresStep == StoreInv /\ [Next]_vars => StoreInv'
<1>. SUFFICES ASSUME HubInv, MemInv, InsertInv, RowsInv, [Next]_vars
              PROVE  HubInv' /\ MemInv' /\ InsertInv' /\ RowsInv'
  BY DEF StoreInv
<1>. QED
  BY HubSteps, MemSteps, InsertSteps, RowsSteps

(* Both stores keep what they promise whatever the emitters do, whichever  *)
(* emission is cancelled while its insert runs and however inserts fall    *)
(* between the two deletes of a prune: what memory lacks has expired or    *)
(* has MemCap later events, what the table lacks was never inserted, has   *)
(* expired or has RowCap others at least as new; no row is there twice.    *)
(* memory.py:123-131, sqlite.py:155-170 and 228-254.                       *)
THEOREM RetentionCorrect == Spec => []RetentionExact
<1>1. ASSUME StoreInv PROVE RetentionExact
  <2>. USE <1>1 DEF StoreInv
  <2>1. ASSUME "memory" \in sinks, NEW e \in ToSet(log) \ ToSet(mem)
        PROVE  Expired(e, now, Ttl) \/ Len(log) - Place(e) >= MemCap
    <3>1. PICK l \in Seq(Nat) : l = log
      BY DEF HubInv, TypeOK
    <3>2. PICK s \in Seq(Nat) : s = mem
      BY DEF MemInv
    <3>3. PICK j \in 1..Len(l) : l[j] = e
      BY <2>1, <3>1 DEF ToSet
    <3>4. Place(e) = j
      BY <3>1, <3>3, PlaceIs DEF HubInv
    <3>5. EndOf(s, l, now)
      BY <2>1, <3>1, <3>2 DEF MemInv
    <3>6. PICK d \in Nat : /\ Len(l) = d + Len(s)
                           /\ \A k \in 1..Len(s) : s[k] = l[d + k]
                           /\ \A i \in 1..d : Expired(l[i], now, Ttl) \/ Len(l) - i >= MemCap
      BY <3>5 DEF EndOf
    <3>7. j <= d
      <4>1. SUFFICES ASSUME j > d PROVE FALSE
        OBVIOUS
      <4>2. PICK k \in 1..Len(s) : d + k = j
        <5>1. j - d \in 1..Len(s) /\ d + (j - d) = j
          BY <3>6, <4>1
        <5>. QED
          BY <5>1
      <4>3. s[k] = e
        BY <3>3, <3>6, <4>2
      <4>4. e \in ToSet(s)
        BY <4>3 DEF ToSet
      <4>. QED
        BY <2>1, <3>2, <4>4
    <3>8. j \in 1..d
      BY <3>7
    <3>9. Expired(e, now, Ttl) \/ Len(l) - j >= MemCap
      BY <3>3, <3>6, <3>8
    <3>. QED
      BY <3>1, <3>4, <3>9
  <2>2. ASSUME "sqlite" \in sinks, NEW e \in ToSet(log) \ stored
        PROVE  e \in cut \/ \E m \in Emitter : Current(m) = e /\ inserting[m] # "no"
    BY <2>2 DEF InsertInv
  <2>3. ASSUME NEW e \in stored \ ToSet(rows)
        PROVE  \/ Expired(e, now, Ttl)
               \/ Cardinality({i \in stored \ {e} : At(i) >= At(e)}) >= RowCap
    BY <2>3 DEF RowsInv, Outlived
  <2>4. IsInjective(rows)
    BY DEF RowsInv
  <2>. QED
    BY <2>1, <2>2, <2>3, <2>4 DEF RetentionExact
<1>. QED
  BY <1>1, StoresStart, StoresStep, PTL DEF Spec

-----------------------------------------------------------------------------
(* The tree of a run.  Below walks as many rounds as there are links; what *)
(* it finds is the least set with the root that no link leaves.            *)
Further(L, S) == S \cup {c[2] : c \in {d \in L : d[1] \in S}}

Walk(g, m, L, root) == g = [n \in 0..m |-> IF n = 0 THEN {root} ELSE Further(L, g[n - 1])]

NoWayOut(L, S) == \A c \in L : c[1] \in S => c[2] \in S

LEMMA WalkExists ==
  ASSUME NEW L, NEW root, NEW N \in Nat
  PROVE  \E g : Walk(g, N, L, root)
<1>. DEFINE Bad == {m \in Nat : ~ \E g : Walk(g, m, L, root)}
<1>. SUFFICES ASSUME Bad # {} PROVE FALSE
  OBVIOUS
<1>1. PICK m \in Bad : \A k \in Bad : m <= k
  <2>1. Bad \in SUBSET Nat
    OBVIOUS
  <2>. HIDE DEF Bad
  <2>. QED
    BY <2>1, Least
<1>2. m \in Nat /\ ~ \E g : Walk(g, m, L, root)
  OBVIOUS
<1>3. CASE m = 0
  <2>. DEFINE g == [n \in 0..0 |-> {root}]
  <2>1. Walk(g, 0, L, root)
    BY 0..0 = {0} DEF Walk
  <2>. QED
    BY <2>1, <1>2, <1>3
<1>4. CASE m # 0
  <2>1. m - 1 \in Nat /\ m - 1 \notin Bad
    <3>1. m - 1 \in Nat /\ ~(m <= m - 1)
      BY <1>2, <1>4
    <3>. HIDE DEF Bad
    <3>. QED
      BY <1>1, <3>1
  <2>2. PICK g : Walk(g, m - 1, L, root)
    BY <2>1
  <2>. DEFINE h == [n \in 0..m |-> IF n = m THEN Further(L, g[m - 1]) ELSE g[n]]
  <2>3. ASSUME NEW n \in 0..m
        PROVE  h[n] = IF n = 0 THEN {root} ELSE Further(L, h[n - 1])
    <3>1. CASE n = m
      <4>1. h[n] = Further(L, g[m - 1]) /\ h[m - 1] = g[m - 1]
        BY <1>2, <1>4, <3>1
      <4>. QED
        BY <4>1, <3>1, <1>4
    <3>2. CASE n # m
      <4>1. n \in 0..(m - 1) /\ h[n] = g[n]
        BY <1>2, <3>2
      <4>2. g[n] = IF n = 0 THEN {root} ELSE Further(L, g[n - 1])
        BY <4>1, <2>2 DEF Walk
      <4>3. n # 0 => h[n - 1] = g[n - 1]
        BY <1>2, <4>1
      <4>. QED
        BY <4>1, <4>2, <4>3
    <3>. QED
      BY <3>1, <3>2
  <2>4. h = [n \in 0..m |-> h[n]]
    OBVIOUS
  <2>5. Walk(h, m, L, root)
    <3>. HIDE DEF h
    <3>. QED
      BY <2>3, <2>4 DEF Walk
  <2>. QED
    BY <2>5, <1>2
<1>. QED
  BY <1>3, <1>4

LEMMA BelowIsWalked ==
  ASSUME NEW L, NEW root, Cardinality(L) \in Nat
  PROVE  \E g : Walk(g, Cardinality(L), L, root) /\ Below(L, root) = g[Cardinality(L)]
<1>. DEFINE Reach == CHOOSE g : Walk(g, Cardinality(L), L, root)
<1>1. Walk(Reach, Cardinality(L), L, root)
  <2>1. \E g : Walk(g, Cardinality(L), L, root)
    BY WalkExists
  <2>. QED
    BY <2>1
<1>2. Below(L, root) = Reach[Cardinality(L)]
  BY DEF Below, Walk, Further
<1>. QED
  BY <1>1, <1>2

LEMMA WalkRounds ==
  ASSUME NEW L, NEW root, NEW N \in Nat, NEW g, Walk(g, N, L, root)
  PROVE  /\ g[0] = {root}
         /\ \A n \in 1..N : g[n] = Further(L, g[n - 1])
<1>0. 0 \in 0..N
  OBVIOUS
<1>1. g = [n \in 0..N |-> IF n = 0 THEN {root} ELSE Further(L, g[n - 1])]
  BY Zenon DEF Walk
<1>2. g[0] = {root}
  BY <1>0, <1>1
<1>3. ASSUME NEW n \in 1..N
      PROVE  g[n] = Further(L, g[n - 1])
  <2>1. n \in 0..N /\ n # 0
    OBVIOUS
  <2>. QED
    BY <1>1, <2>1
<1>. QED
  BY <1>2, <1>3

(* Nothing is found that is not linked to the root.                        *)
LEMMA BelowIsLeast ==
  ASSUME NEW L, NEW root, Cardinality(L) \in Nat,
         NEW S, root \in S, NoWayOut(L, S)
  PROVE  Below(L, root) \subseteq S
<1>. DEFINE N == Cardinality(L)
<1>1. PICK g : Walk(g, N, L, root) /\ Below(L, root) = g[N]
  BY BelowIsWalked
<1>2. g[0] = {root} /\ \A n \in 1..N : g[n] = Further(L, g[n - 1])
  BY <1>1, WalkRounds
<1>. DEFINE Wrong == {n \in 0..N : ~(g[n] \subseteq S)}
<1>3. Wrong = {}
  <2>. SUFFICES ASSUME Wrong # {} PROVE FALSE
    OBVIOUS
  <2>1. PICK m \in Wrong : \A k \in Wrong : m <= k
    <3>1. Wrong \in SUBSET Nat
      OBVIOUS
    <3>. HIDE DEF Wrong
    <3>. QED
      BY <3>1, Least
  <2>2. m \in 0..N /\ ~(g[m] \subseteq S)
    OBVIOUS
  <2>3. m # 0
    BY <1>2, <2>2
  <2>4. m \in 1..N /\ m - 1 \in 0..N /\ g[m - 1] \subseteq S
    BY <2>1, <2>2, <2>3
  <2>5. Further(L, g[m - 1]) \subseteq S
    BY <2>4 DEF Further, NoWayOut
  <2>. QED
    BY <1>2, <2>2, <2>4, <2>5
<1>. QED
  BY <1>1, <1>3

(* A round that is not the last has a link to go on with, which no later   *)
(* round uses; there are not more rounds than links.                       *)
LEMMA BelowIsClosed ==
  ASSUME NEW L, NEW root, IsFiniteSet(L)
  PROVE  root \in Below(L, root) /\ NoWayOut(L, Below(L, root))
<1>. DEFINE Used(S) == {c \in L : c[2] \in S}
<1>0. PICK N \in Nat : N = Cardinality(L)
  BY FS_CardinalityType
<1>1. PICK g : Walk(g, N, L, root) /\ Below(L, root) = g[N]
  BY <1>0, BelowIsWalked
<1>2. g[0] = {root} /\ \A n \in 1..N : g[n] = Further(L, g[n - 1])
  BY <1>0, <1>1, WalkRounds
<1>3. \A S : IsFiniteSet(Used(S)) /\ Cardinality(Used(S)) \in Nat /\ Cardinality(Used(S)) <= N
  <2>. SUFFICES ASSUME NEW S
                PROVE  IsFiniteSet(Used(S)) /\ Cardinality(Used(S)) \in Nat
                       /\ Cardinality(Used(S)) <= N
    OBVIOUS
  <2>1. Used(S) \in SUBSET L
    OBVIOUS
  <2>. HIDE DEF Used
  <2>2. IsFiniteSet(Used(S)) /\ Cardinality(Used(S)) <= Cardinality(L)
    BY <2>1, FS_Subset
  <2>. QED
    BY <1>0, <2>2, FS_CardinalityType
<1>4. ASSUME NEW S, NEW T, S \subseteq T, NEW c \in L, c[2] \in T \ S
      PROVE  Cardinality(Used(S)) < Cardinality(Used(T))
  <2>1. Used(S) \in SUBSET Used(T) /\ Used(S) # Used(T)
    BY <1>4
  <2>. HIDE DEF Used
  <2>2. IsFiniteSet(Used(T)) /\ Cardinality(Used(T)) \in Nat /\ Cardinality(Used(S)) \in Nat
    BY <1>3
  <2>3. Cardinality(Used(S)) <= Cardinality(Used(T)) /\ Cardinality(Used(T)) # Cardinality(Used(S))
    BY <2>1, <2>2, FS_Subset
  <2>. QED
    BY <2>2, <2>3
<1>. DEFINE Late == {n \in 0..N : ~(root \in g[n] /\ (NoWayOut(L, g[n]) \/ n <= Cardinality(Used(g[n]))))}
<1>5. Late = {}
  <2>. SUFFICES ASSUME Late # {} PROVE FALSE
    OBVIOUS
  <2>1. PICK m \in Late : \A k \in Late : m <= k
    <3>1. Late \in SUBSET Nat
      BY <1>0
    <3>. HIDE DEF Late
    <3>. QED
      BY <3>1, Least
  <2>2. m \in 0..N /\ ~(root \in g[m] /\ (NoWayOut(L, g[m]) \/ m <= Cardinality(Used(g[m]))))
    OBVIOUS
  <2>3. m # 0
    <3>1. 0 <= Cardinality(Used(g[0]))
      <4>. HIDE DEF Used
      <4>. QED
        BY <1>3
    <3>. HIDE DEF Used
    <3>. QED
      BY <1>2, <2>2, <3>1
  <2>4. m \in 1..N /\ m - 1 \in 0..N /\ m - 1 \notin Late
    <3>1. m \in 1..N /\ m - 1 \in 0..N /\ ~(m <= m - 1)
      BY <1>0, <2>2, <2>3
    <3>. HIDE DEF Late
    <3>. QED
      BY <2>1, <3>1
  <2>5. PICK S : S = g[m - 1]
    OBVIOUS
  <2>6. g[m] = Further(L, S) /\ S \subseteq Further(L, S)
    BY <1>2, <2>4, <2>5 DEF Further
  <2>7. root \in S /\ (NoWayOut(L, S) \/ m - 1 <= Cardinality(Used(S)))
    BY <2>4, <2>5
  <2>8. CASE NoWayOut(L, S)
    <3>1. Further(L, S) = S
      BY <2>8 DEF Further, NoWayOut
    <3>. QED
      BY <2>2, <2>6, <2>7, <2>8, <3>1
  <2>9. CASE ~NoWayOut(L, S)
    <3>1. PICK c \in L : c[1] \in S /\ c[2] \notin S
      BY <2>9 DEF NoWayOut
    <3>2. c[2] \in Further(L, S) \ S
      BY <3>1 DEF Further
    <3>3. Cardinality(Used(S)) < Cardinality(Used(g[m]))
      <4>. HIDE DEF Used
      <4>. QED
        BY <1>4, <2>6, <3>2
    <3>4. m <= Cardinality(Used(g[m]))
      <4>1. m - 1 <= Cardinality(Used(S))
        BY <2>7, <2>9
      <4>2. Cardinality(Used(S)) \in Nat /\ Cardinality(Used(g[m])) \in Nat
        BY <1>3
      <4>. HIDE DEF Used
      <4>. QED
        BY <2>4, <3>3, <4>1, <4>2
    <3>5. root \in g[m]
      BY <2>6, <2>7
    <3>. QED
      BY <2>2, <3>4, <3>5
  <2>. QED
    BY <2>8, <2>9
<1>6. root \in g[N] /\ (NoWayOut(L, g[N]) \/ N <= Cardinality(Used(g[N])))
  <2>1. N \in 0..N /\ N \notin Late
    BY <1>0, <1>5
  <2>. QED
    BY <2>1
<1>7. NoWayOut(L, g[N])
  <2>. SUFFICES ASSUME ~NoWayOut(L, g[N]) PROVE FALSE
    OBVIOUS
  <2>1. PICK c \in L : c[2] \notin g[N]
    BY DEF NoWayOut
  <2>2. Used(g[N]) \in SUBSET L /\ c \notin Used(g[N])
    BY <2>1
  <2>3. N <= Cardinality(Used(g[N]))
    BY <1>6
  <2>. HIDE DEF Used
  <2>4. Cardinality(Used(g[N])) \in Nat /\ Cardinality(Used(g[N])) <= N
    BY <1>3
  <2>5. Cardinality(L) = Cardinality(Used(g[N]))
    BY <1>0, <2>3, <2>4
  <2>6. Used(g[N]) = L
    BY <2>2, <2>5, FS_Subset
  <2>. QED
    BY <2>1, <2>2, <2>6
<1>. QED
  BY <1>1, <1>6, <1>7

(* The walk of a tree (memory.py:79-90, and the recursive query of         *)
(* sqlite.py:180-194) visits what is linked to the root and nothing else:  *)
(* the least set with the root that no link leaves.                        *)
THEOREM BelowCorrect ==
  ASSUME NEW L, NEW root, IsFiniteSet(L)
  PROVE  /\ root \in Below(L, root)
         /\ NoWayOut(L, Below(L, root))
         /\ \A S : root \in S /\ NoWayOut(L, S) => Below(L, root) \subseteq S
<1>1. Cardinality(L) \in Nat
  BY FS_CardinalityType
<1>. QED
  BY <1>1, BelowIsClosed, BelowIsLeast

(* Who has more links finds no less.                                       *)
LEMMA BelowGrows ==
  ASSUME NEW K, NEW L, NEW root, IsFiniteSet(L), K \subseteq L
  PROVE  Below(K, root) \subseteq Below(L, root)
<1>1. IsFiniteSet(K) /\ Cardinality(K) \in Nat
  BY FS_Subset, FS_CardinalityType
<1>2. root \in Below(L, root) /\ NoWayOut(L, Below(L, root))
  BY BelowCorrect
<1>3. NoWayOut(K, Below(L, root))
  BY <1>2 DEF NoWayOut
<1>. QED
  BY <1>1, <1>2, <1>3, BelowCorrect

(* The links of events.                                                    *)
LEMMA LinksFinite ==
  ASSUME NEW E, IsFiniteSet(E)
  PROVE  IsFiniteSet(Links(E))
<1>. DEFINE D == {j \in E : ~TopLevel(j)}
            f == [i \in D |-> <<ParentOf(i), TraceOf(i)>>]
<1>1. IsFiniteSet(D)
  <2>1. D \in SUBSET E
    OBVIOUS
  <2>. QED
    BY <2>1, FS_Subset
<1>2. Links(E) = {<<ParentOf(i), TraceOf(i)>> : i \in D}
  BY DEF Links
<1>. HIDE DEF D
<1>3. f \in [D -> Links(E)] /\ \A x \in Links(E) : \E i \in D : f[i] = x
  BY <1>2
<1>4. f \in Surjection(D, Links(E))
  <2>. HIDE DEF f
  <2>. QED
    BY <1>3 DEF Surjection
<1>. QED
  BY <1>1, <1>4, FS_Surjection

LEMMA LinksGrow ==
  ASSUME NEW E, NEW F
  PROVE  /\ E \subseteq F => Links(E) \subseteq Links(F)
         /\ Links(E \cup F) = Links(E) \cup Links(F)
BY DEF Links

(* Memory has the links of all events ever emitted.                        *)
TreeInv == "memory" \in sinks => children = Links(ToSet(log))

LEMMA TreeStep == StoreInv /\ TreeInv /\ [Next]_vars => TreeInv'
<1>. SUFFICES ASSUME StoreInv, TreeInv, [Next]_vars
              PROVE  TreeInv'
  OBVIOUS
<1>1. ASSUME NEW m \in Emitter, Emit(m) PROVE TreeInv'
  <2>1. PICK e : e = Program(m)[at[m] + 1]
    OBVIOUS
  <2>2. /\ log' = Append(log, e) /\ ToMemory(e) /\ setting' = setting
        /\ at[m] < Len(Program(m)) /\ at' = [at EXCEPT ![m] = @ + 1]
    BY <1>1, <2>1 DEF Emit, clock
  <2>3. TypeOK /\ HistoryInv
    BY DEF StoreInv, HubInv
  <2>4. ToSet(log') = ToSet(log) \cup {e}
    BY <2>1, <2>2, <2>3, LogGrows
  <2>5. sinks' = sinks
    BY <2>2 DEF sinks
  <2>6. CASE "memory" \in sinks
    <3>1. children' = Links(ToSet(log)) \cup Links({e})
      BY <2>2, <2>6 DEF ToMemory, TreeInv
    <3>2. Links(ToSet(log')) = Links(ToSet(log)) \cup Links({e})
      BY <2>4, LinksGrow
    <3>. QED
      BY <3>1, <3>2 DEF TreeInv
  <2>. QED
    BY <2>5, <2>6 DEF TreeInv
<1>2. ASSUME UNCHANGED <<children, log, setting>> PROVE TreeInv'
  BY <1>2 DEF TreeInv, sinks
<1>3. ASSUME NEW m \in Emitter, Logged(m) \/ Begin(m) \/ Inserted(m) \/ Cancel(m)
      PROVE  UNCHANGED <<children, log, setting>>
  BY <1>3 DEF Logged, Begin, Inserted, Cancel, clock, memory, past
<1>4. ASSUME NEW e \in strays, StrayInserted(e) PROVE UNCHANGED <<children, log, setting>>
  BY <1>4 DEF StrayInserted, clock, memory
<1>5. ASSUME AskPrune \/ PruneExpired \/ PruneExcess PROVE UNCHANGED <<children, log, setting>>
  BY <1>5 DEF AskPrune, PruneExpired, PruneExcess, clock, memory, past
<1>6. ASSUME NEW s \in Subscriber, Subscribe(s) \/ Take(s) \/ Heartbeat(s) \/ Unsubscribe(s)
      PROVE  UNCHANGED <<children, log, setting>>
  BY <1>6 DEF Subscribe, Take, Heartbeat, Unsubscribe, clock, memory, past
<1>7. ASSUME Tick \/ UNCHANGED vars PROVE UNCHANGED <<children, log, setting>>
  BY <1>7 DEF Tick, vars, clock, memory, past
<1>. QED
  BY <1>1, <1>2, <1>3, <1>4, <1>5, <1>6, <1>7 DEF Next

(* Whatever the stores have dropped, the tree of a run in memory has all   *)
(* the events that the table finds and memory still holds, and no others   *)
(* if the table is complete: links are never forgotten, and a walk of as   *)
(* many rounds as there are links ends in the same set for each of them.   *)
(* memory.py:78-93, sqlite.py:180-194.                                     *)
THEOREM TreesCorrect == Spec => []TreesAgree
<1>1. ASSUME StoreInv, TreeInv PROVE TreesAgree
  <2>1. ASSUME "memory" \in sinks, NEW t
        PROVE  /\ Family(ToSet(rows), Links(ToSet(rows)), t) \cap ToSet(mem)
                    \subseteq Family(ToSet(mem), children, t)
               /\ ToSet(rows) = ToSet(log) =>
                    Family(ToSet(mem), children, t)
                      \subseteq Family(ToSet(rows), Links(ToSet(rows)), t)
    <3>1. children = Links(ToSet(log))
      BY <1>1, <2>1 DEF TreeInv
    <3>2. IsFiniteSet(ToSet(log))
      <4>1. log \in Seq(Nat)
        BY <1>1 DEF StoreInv, HubInv, TypeOK
      <4>. QED
        BY <4>1, CountedSet
    <3>3. ToSet(rows) \subseteq ToSet(log)
      BY <1>1 DEF StoreInv, InsertInv, RowsInv
    <3>4. Below(Links(ToSet(rows)), t) \subseteq Below(children, t)
      <4>1. Links(ToSet(rows)) \subseteq children
        BY <3>1, <3>3, LinksGrow
      <4>2. IsFiniteSet(children)
        BY <3>1, <3>2, LinksFinite
      <4>. QED
        BY <4>1, <4>2, BelowGrows
    <3>5. ToSet(mem) \subseteq ToSet(log)
      <4>1. PICK s \in Seq(Nat), l \in Seq(Nat) : s = mem /\ l = log
        BY <1>1 DEF StoreInv, HubInv, TypeOK, MemInv
      <4>2. PICK d \in Nat : Len(l) = d + Len(s) /\ \A k \in 1..Len(s) : s[k] = l[d + k]
        BY <1>1, <2>1, <4>1 DEF StoreInv, MemInv, EndOf
      <4>3. \A k \in 1..Len(s) : d + k \in 1..Len(l)
        BY <4>1, <4>2
      <4>4. ASSUME NEW x \in ToSet(s) PROVE x \in ToSet(l)
        <5>1. PICK k \in 1..Len(s) : x = s[k]
          BY <4>1 DEF ToSet
        <5>2. x = l[d + k] /\ d + k \in DOMAIN l
          BY <4>1, <4>2, <4>3, <5>1
        <5>. QED
          BY <5>2 DEF ToSet
      <4>. QED
        BY <4>1, <4>4
    <3>. QED
      BY <3>1, <3>4, <3>5 DEF Family
  <2>. QED
    BY <2>1 DEF TreesAgree
<1>2. Init => TreeInv
  <2>1. ToSet(<<>>) = {} /\ Links({}) = {}
    BY DEF ToSet, Links
  <2>. QED
    BY <2>1 DEF Init, TreeInv
<1>. QED
  BY <1>1, <1>2, StoresStart, StoresStep, TreeStep, PTL DEF Spec

-----------------------------------------------------------------------------
(* Percentiles (compute_tools), for durations in ascending order.          *)
Up(low, part) == part > 50 \/ (part = 50 /\ low % 2 = 1)

Rounded(x) == x \div 100 + IF Up(x \div 100, x % 100) THEN 1 ELSE 0

LEMMA Hundreds ==
  ASSUME NEW x \in Nat
  PROVE  \E low \in Nat, part \in 0..99 :
           x \div 100 = low /\ x % 100 = part /\ x = 100 * low + part
OBVIOUS

LEMMA RoundedCases ==
  ASSUME NEW x \in Nat
  PROVE  \E low \in Nat, part \in 0..99 :
           /\ x \div 100 = low /\ x % 100 = part /\ x = 100 * low + part
           /\ \/ Up(low, part) /\ part >= 50 /\ Rounded(x) = low + 1
              \/ ~Up(low, part) /\ part <= 50 /\ Rounded(x) = low
<1>1. PICK low \in Nat, part \in 0..99 :
        x \div 100 = low /\ x % 100 = part /\ x = 100 * low + part
  BY Hundreds
<1>2. Rounded(x) = low + IF Up(low, part) THEN 1 ELSE 0
  BY <1>1, Zenon DEF Rounded
<1>3. CASE Up(low, part)
  <2>1. part >= 50
    <3>1. part > 50 \/ part = 50
      BY <1>3, Zenon DEF Up
    <3>. QED
      BY <3>1
  <2>2. Rounded(x) = low + 1
    BY <1>2, <1>3, Zenon
  <2>. QED
    BY <1>1, <1>3, <2>1, <2>2, Zenon
<1>4. CASE ~Up(low, part)
  <2>1. part <= 50
    <3>1. ~(part > 50)
      BY <1>4, Zenon DEF Up
    <3>. QED
      BY <3>1
  <2>2. Rounded(x) = low
    <3>1. Rounded(x) = low + 0
      BY <1>2, <1>4, Zenon
    <3>. QED
      BY <3>1
  <2>. QED
    BY <1>1, <1>4, <2>1, <2>2, Zenon
<1>. QED
  BY <1>3, <1>4, Zenon

LEMMA RoundedIsNear ==
  ASSUME NEW x \in Nat
  PROVE  /\ Rounded(x) \in Nat
         /\ -50 <= 100 * Rounded(x) - x /\ 100 * Rounded(x) - x <= 50
<1>1. PICK low \in Nat, part \in 0..99 :
        /\ x = 100 * low + part
        /\ (part >= 50 /\ Rounded(x) = low + 1) \/ (part <= 50 /\ Rounded(x) = low)
  BY RoundedCases, Zenon
<1>. QED
  BY <1>1

LEMMA RoundedGrows ==
  ASSUME NEW x \in Nat, NEW y \in Nat, x <= y
  PROVE  Rounded(x) <= Rounded(y)
<1>1. PICK low \in Nat, part \in 0..99 :
        /\ x \div 100 = low /\ x % 100 = part /\ x = 100 * low + part
        /\ \/ Up(low, part) /\ part >= 50 /\ Rounded(x) = low + 1
           \/ ~Up(low, part) /\ part <= 50 /\ Rounded(x) = low
  BY RoundedCases, Zenon
<1>2. PICK high \in Nat, over \in 0..99 :
        /\ y \div 100 = high /\ y % 100 = over /\ y = 100 * high + over
        /\ \/ Up(high, over) /\ over >= 50 /\ Rounded(y) = high + 1
           \/ ~Up(high, over) /\ over <= 50 /\ Rounded(y) = high
  BY RoundedCases, Zenon
<1>3. low <= high
  BY <1>1, <1>2
<1>4. CASE low < high
  BY <1>1, <1>2, <1>4
<1>5. CASE low = high
  <2>1. part <= over
    BY <1>1, <1>2, <1>5
  <2>2. Up(low, part) => Up(high, over)
    <3>1. CASE part = over
      BY <1>5, <3>1, Zenon DEF Up
    <3>2. CASE part < over
      <4>1. over > 50 \/ ~(part > 50 \/ part = 50)
        BY <3>2
      <4>. QED
        BY <4>1, Zenon DEF Up
    <3>. QED
      BY <2>1, <3>1, <3>2
  <2>3. \/ Rounded(x) = low + 1 /\ Rounded(y) = high + 1
        \/ Rounded(x) = low /\ (Rounded(y) = high + 1 \/ Rounded(y) = high)
    BY <1>1, <1>2, <2>2, Zenon
  <2>. QED
    BY <1>5, <2>3
<1>. QED
  BY <1>3, <1>4, <1>5

LEMMA RankIs ==
  ASSUME NEW n \in Nat, n >= 1, NEW p \in 0..100
  PROVE  /\ Rank(p, n) = Rounded(p * (n - 1))
         /\ p * (n - 1) \in Nat /\ p * (n - 1) <= 100 * (n - 1)
         /\ Rank(p, n) \in 0..(n - 1)
<1>1. PICK m \in Nat : m = n - 1
  OBVIOUS
<1>2. p * m \in Nat /\ p * m <= 100 * m
  <2>1. PICK r \in Nat : p + r = 100
    <3>1. 100 - p \in Nat /\ p + (100 - p) = 100
      OBVIOUS
    <3>. QED
      BY <3>1
  <2>2. p * m \in Nat /\ r * m \in Nat /\ p * m + r * m = (p + r) * m
    BY <2>1
  <2>. QED
    BY <2>1, <2>2
<1>3. Rank(p, n) = Rounded(p * (n - 1))
  BY Zenon DEF Rank, Rounded, Up
<1>4. PICK x \in Nat : x = p * m /\ x <= 100 * m
  BY <1>2
<1>5. Rounded(x) \in 0..m
  <2>1. PICK k \in Nat : k = Rounded(x) /\ 100 * k - x <= 50
    BY RoundedIsNear
  <2>2. k <= m
    BY <1>4, <2>1
  <2>. QED
    BY <2>1, <2>2
<1>. QED
  BY <1>1, <1>2, <1>3, <1>4, <1>5

(* A percentile is a duration that occurred, a higher percentile is not    *)
(* less, the ends are the least and the greatest, and its rank is the      *)
(* nearest one: half a place off at most, with halves rounded to even as   *)
(* Python's round() does (tools.py, _percentile).                          *)
THEOREM PercentilesCorrect ==
  ASSUME NEW s \in Seq(Int), s # <<>>,
         \A j, k \in DOMAIN s : j <= k => s[j] <= s[k],
         NEW p \in 0..100, NEW q \in 0..100, p <= q
  PROVE  /\ Rank(p, Len(s)) + 1 \in DOMAIN s
         /\ Percentile(s, p) = s[Rank(p, Len(s)) + 1]
         /\ -50 <= 100 * Rank(p, Len(s)) - p * (Len(s) - 1)
         /\ 100 * Rank(p, Len(s)) - p * (Len(s) - 1) <= 50
         /\ Percentile(s, p) <= Percentile(s, q)
         /\ Percentile(s, 0) = s[1] /\ Percentile(s, 100) = s[Len(s)]
<1>1. PICK n \in Nat : n = Len(s) /\ n >= 1 /\ DOMAIN s = 1..n
  OBVIOUS
<1>2. \A r \in 0..100 : /\ Rank(r, n) \in 0..(n - 1) /\ Rank(r, n) + 1 \in DOMAIN s
                        /\ Percentile(s, r) = s[Rank(r, n) + 1]
  <2>1. \A r \in 0..100 : Rank(r, n) \in 0..(n - 1)
    BY <1>1, RankIs
  <2>2. \A r \in 0..100 : Rank(r, n) + 1 \in DOMAIN s
    <3>. SUFFICES ASSUME NEW r \in 0..100 PROVE Rank(r, n) + 1 \in DOMAIN s
      OBVIOUS
    <3>1. PICK k \in 0..(n - 1) : k = Rank(r, n)
      BY <2>1
    <3>2. k + 1 \in 1..n
      BY <1>1
    <3>. QED
      BY <1>1, <3>1, <3>2, Zenon
  <2>3. \A r \in 0..100 : Percentile(s, r) = s[Rank(r, n) + 1]
    BY <1>1, Zenon DEF Percentile
  <2>. QED
    BY <2>1, <2>2, <2>3
<1>3. -50 <= 100 * Rank(p, n) - p * (n - 1) /\ 100 * Rank(p, n) - p * (n - 1) <= 50
  <2>1. PICK x \in Nat : x = p * (n - 1) /\ Rank(p, n) = Rounded(x)
    BY <1>1, RankIs
  <2>2. -50 <= 100 * Rounded(x) - x /\ 100 * Rounded(x) - x <= 50
    BY RoundedIsNear
  <2>. QED
    BY <2>1, <2>2, Zenon
<1>4. Rank(p, n) <= Rank(q, n)
  <2>1. PICK m \in Nat, d \in Nat : m = n - 1 /\ q = p + d
    <3>1. n - 1 \in Nat /\ q - p \in Nat /\ q = p + (q - p)
      BY <1>1
    <3>. QED
      BY <3>1
  <2>2. d * m \in Nat /\ (p + d) * m = p * m + d * m /\ p * m \in Nat
    BY <2>1
  <2>3. p * m <= q * m /\ q * m \in Nat
    BY <2>1, <2>2
  <2>4. Rank(p, n) = Rounded(p * m) /\ Rank(q, n) = Rounded(q * m)
    BY <1>1, <2>1, RankIs
  <2>. QED
    BY <2>2, <2>3, <2>4, RoundedGrows
<1>5. s[Rank(p, n) + 1] <= s[Rank(q, n) + 1]
  <2>1. PICK j \in 0..(n - 1), k \in 0..(n - 1) : j = Rank(p, n) /\ k = Rank(q, n)
    BY <1>2, Zenon
  <2>2. j + 1 \in DOMAIN s /\ k + 1 \in DOMAIN s /\ j + 1 <= k + 1
    <3>1. j <= k
      BY <1>4, <2>1, Zenon
    <3>. QED
      BY <1>1, <3>1
  <2>3. s[j + 1] <= s[k + 1]
    BY <2>2, Zenon
  <2>. QED
    BY <2>1, <2>3, Zenon
<1>6. Rank(0, n) = 0 /\ Rank(100, n) = n - 1
  <2>1. PICK m \in Nat : m = n - 1
    BY <1>1
  <2>2. Rank(0, n) = Rounded(0 * m) /\ Rank(100, n) = Rounded(100 * m)
    BY <1>1, <2>1, RankIs
  <2>3. PICK x \in Nat, y \in Nat : x = 0 * m /\ y = 100 * m /\ x = 0
    BY <2>1
  <2>4. Rounded(x) = 0
    BY <2>3, RoundedIsNear
  <2>5. Rounded(y) = m
    <3>1. PICK k \in Nat : k = Rounded(y) /\ -50 <= 100 * k - y /\ 100 * k - y <= 50
      BY RoundedIsNear
    <3>2. k = m
      BY <2>3, <3>1
    <3>. QED
      BY <3>1, <3>2
  <2>. QED
    BY <2>1, <2>2, <2>3, <2>4, <2>5
<1>. QED
  <2>1. Percentile(s, 0) = s[1] /\ Percentile(s, 100) = s[n]
    <3>1. /\ Percentile(s, 0) = s[Rank(0, n) + 1]
          /\ Percentile(s, 100) = s[Rank(100, n) + 1]
      BY <1>2
    <3>2. 0 + 1 = 1 /\ n - 1 + 1 = n
      BY <1>1
    <3>. QED
      BY <1>6, <3>1, <3>2, Zenon
  <2>2. Percentile(s, p) <= Percentile(s, q)
    BY <1>2, <1>5
  <2>. QED
    BY <1>1, <1>2, <1>3, <2>1, <2>2
=============================================================================
