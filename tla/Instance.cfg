SPECIFICATION Spec
CONSTANTS
  Invalid = Invalid
  Prefixes = {1, 2}
  Hosts = {1, 2}
  Blank = Blank
  Missing = Missing
  Environments <- MCEnvironments
  Instances = {i1, i2}
  Routes = {"health", "jwks", "login", "me"}
  Keys = {k1, k2}
  InitialKey = k1
  Peers <- MCPeers
  Headers <- MCHeaders
  Account = Account
  Outages = TRUE
  Unread = Unread
  Failed = Failed
  None = None
CHECK_DEADLOCK FALSE
SYMMETRY InstanceSymmetry
INVARIANTS TypeOK PoliciesAreSound CountedOnce NoPoisonedContainer
PROPERTY KeysAreReadLazily
