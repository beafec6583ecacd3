SPECIFICATION ReturnsSpec
CONSTANTS
  Keys = {k1}
  Window = 3
  Limit = 2
  Ceiling = 3
  Horizon = 11
  None = None
  Callers = {c1, c2}
  Instances = {i1, i2}
  FastInstances = {i2}
  Skew = 1
  MaxAttempts = 3
  Deadline = 1
  CollectionLag = 1
  MaxTime = 10
  MaxAdrift = 0
  MaxCounted = 9
CHECK_DEADLOCK FALSE
SYMMETRY CallerSymmetry
PROPERTIES
  IdleIsForgiven
  RetryAfterIsHonest
