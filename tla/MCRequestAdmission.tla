-------------------------- MODULE MCRequestAdmission --------------------------
EXTENDS RequestAdmission, TLC
CallerSymmetry == Permutations(Callers)
AdmissionSymmetry == Permutations(Callers) \cup Permutations(Instances)
=============================================================================
