--------------------------- MODULE MCRefreshRotation ---------------------------
EXTENDS RefreshRotation, TLC
RequestSymmetry == Permutations(Requests)
=============================================================================
