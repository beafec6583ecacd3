SPECIFICATION ReturnsSpec
CONSTANTS
  Keys = {k1}
  Window = 4
  Limit = 2
  Ceiling = 4
  Horizon = 12
  None = None
  Callers = {c1, c2}
  Instances = {i1}
  FastInstances = {}
  Skew = 0
  MaxAttempts = 3
  Deadline = 0
  CollectionLag = 1
  MaxTime = 12
  MaxAdrift = 0
  MaxCounted = 9
CHECK_DEADLOCK FALSE
SYMMETRY CallerSymmetry
PROPERTY RecoversWithinOneWindow
