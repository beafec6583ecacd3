SPECIFICATION Spec
CONSTANTS
  Keys = {k1}
  Window = 3
  Limit = 2
  Ceiling = 4
  Horizon = 8
  None = None
  Callers = {c1, c2}
  Instances = {i1, i2}
  FastInstances = {i2}
  Skew = 1
  MaxAttempts = 3
  Deadline = 1
  CollectionLag = 1
  MaxTime = 7
  MaxAdrift = 1
  MaxCounted = 9
CHECK_DEADLOCK FALSE
SYMMETRY CallerSymmetry
INVARIANTS
  TypeOK
  CountsAreExact
  ServedWithinLimit
  BoundaryBurstBelowTwice
  BudgetSuffices
PROPERTIES WindowNeverGoesBack ImplementsLedger
