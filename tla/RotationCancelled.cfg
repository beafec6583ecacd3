SPECIFICATION Spec
CONSTANTS
  Accounts = {a1}
  MaxTokens = 3
  CollectionLag = 1
  None = None
  Requests = {r1, r2}
  RefreshTtl = 2
  SessionCeiling = 3
  MaxAttempts = 3
  RequestLife = 1
  ConflictCancels = TRUE
  MaxTime = 1
  MaxGeneration = 2
CHECK_DEADLOCK FALSE
SYMMETRY RequestSymmetry
PROPERTY RefusalIsFinal
