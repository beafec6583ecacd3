---------------------------- MODULE MCRegistration ----------------------------
EXTENDS Registration, TLC
RequestSymmetry == Permutations(Requests)
=============================================================================
