-------------------------- MODULE MCThrottleRequests --------------------------
EXTENDS ThrottleRequests, TLC
CallerSymmetry == Permutations(Callers)
=============================================================================
