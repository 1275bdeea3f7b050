---------------------------- MODULE MCSpawnAdmission ----------------------------
EXTENDS SpawnAdmission, TLC
CONSTANTS c1, c2, c3, c4, a1, a2, a3, pub, wrk
CallSymmetry == Permutations(Call)
Symmetry == Permutations(Call) \cup Permutations(Agent)
=============================================================================
