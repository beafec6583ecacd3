SPECIFICATION Spec
CONSTANTS
  Accounts = {a1}
  MaxTokens = 4
  CollectionLag = 1
  None = None
  Requests = {r1, r2}
  RefreshTtl = 1
  SessionCeiling = 2
  MaxAttempts = 3
  RequestLife = 1
  ConflictCancels = TRUE
  MaxTime = 2
  MaxGeneration = 2
CHECK_DEADLOCK FALSE
SYMMETRY RequestSymmetry
INVARIANTS
  InductiveInv
  OneTipPerSignIn
  RenewalsStayUnderCeiling
  NoPhantomToken
PROPERTIES
  ReuseKillsAccount
  OnlyConflictsTurnAway
  ImplementsSessions
  RevokedOnProofOrAfterSession
