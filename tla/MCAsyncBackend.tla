----------------------------- MODULE MCAsyncBackend -----------------------------
EXTENDS AsyncBackend, TLC
CONSTANTS r1, r2, g1
Mixed == r1 :> 1 @@ r2 :> 1 @@ g1 :> 4
Pair == g1 :> 2

(* Calls share nothing in the backend: one of them at a time.              *)
OneCall == Cardinality({c \in Call : call[c] # "new"}) <= 1
=============================================================================
