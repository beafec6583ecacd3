SPECIFICATION FairSpec
CONSTANTS
  Addresses = {a1}
  LowerOnly = {}
  Passwords = {p1, p2}
  Requests = {r1, r2}
  MaxAccounts = 3
  MaxAttempts = 3
  ConflictCancels = TRUE
  None = None
CHECK_DEADLOCK FALSE
INVARIANTS TypeOK OneAccountPerAddress LocksMatchAccounts TakenIsTrue RegisteredMaySignIn
PROPERTIES EveryRequestIsAnswered ImplementsRegistry
