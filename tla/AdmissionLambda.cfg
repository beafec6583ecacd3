SPECIFICATION AdmissionSpec
CONSTANTS
  Keys = {k1, k2}
  Window = 2
  Limit = 1
  Ceiling = 1
  Horizon = 3
  None = None
  Callers = {c1, c2}
  Instances = {i1, i2}
  FastInstances = {}
  Skew = 0
  MaxAttempts = 2
  Deadline = 1
  CollectionLag = 1
  MaxTime = 3
  MaxAdrift = 1
  MaxCounted = 1
  FallbackFactor = 2
  MaxEntries = 1
  OneAtATime = TRUE
  MaxLocal = 3
CHECK_DEADLOCK FALSE
SYMMETRY AdmissionSymmetry
INVARIANTS
  AdmissionTypeOK
  LocalCeilingHolds
  TroubleAloneNeverRefuses
