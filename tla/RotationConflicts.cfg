SPECIFICATION FairSpec
CONSTANTS
  Accounts = {a1, a2}
  MaxTokens = 3
  CollectionLag = 1
  None = None
  Requests = {r1, r2}
  RefreshTtl = 1
  SessionCeiling = 3
  MaxAttempts = 3
  RequestLife = 1
  ConflictCancels = TRUE
  MaxTime = 1
  MaxGeneration = 2
CHECK_DEADLOCK FALSE
INVARIANT StrangersLearnNothing
PROPERTIES
  RevokedOnlyOnProof
  EveryRequestEnds
