SPECIFICATION FairSpec
CONSTANTS
  Keys = {k1}
  Window = 1
  Limit = 1
  Ceiling = 1
  Horizon = 3
  None = None
  Callers = {c1, c2}
  Instances = {i1, i2}
  FastInstances = {i2}
  Skew = 2
  MaxAttempts = 3
  Deadline = 1
  CollectionLag = 1
  MaxTime = 1
  MaxAdrift = 0
  MaxCounted = 2
CHECK_DEADLOCK FALSE
PROPERTY EveryRequestIsDecided
