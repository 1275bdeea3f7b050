------------------------- MODULE MCDistributedDispatch -------------------------
EXTENDS DistributedDispatch, TLC
CONSTANTS h1, g1, c1, c2, w1, w2
OneHandle == h1 :> {0}
PairBatch == g1 :> {0, 1}
=============================================================================
