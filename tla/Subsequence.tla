------------------------------ MODULE Subsequence ------------------------------
(***************************************************************************)
(* What a deque or a list is after some of its elements have left it.  The *)
(* result is written by positions instead of SelectSeq, whose definition   *)
(* the proof system does not know.                                         *)
(***************************************************************************)
EXTENDS Integers, FiniteSets, Sequences

(* The positions of s whose elements are not in gone, and the k-th of them.*)
Staying(s, gone) == {i \in DOMAIN s : s[i] \notin gone}

Ranked(P, k) == CHOOSE i \in P : Cardinality({j \in P : j <= i}) = k

Without(s, gone) ==
  LET P == Staying(s, gone) IN [k \in 1..Cardinality(P) |-> s[Ranked(P, k)]]
=============================================================================
