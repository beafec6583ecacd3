-------------------------- MODULE MCThrottleReturns --------------------------
EXTENDS ThrottleReturns, TLC
CallerSymmetry == Permutations(Callers)
=============================================================================
