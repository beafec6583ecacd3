SPECIFICATION Spec
CONSTANTS
  ProductIds = {1, 2, 3, 4}
  Malformed = {4}
  Setups = {s1, s2}
  Seeders = {d1, d2}
  SeedCount = 2
  Walks = {w1}
  RawLimits <- MCRawLimits
  Chunk = 2
  NoCursor = NoCursor
  Garbled = Garbled
INVARIANTS TypeOK WalkIsExact SetupIsSafeToRepeat
PROPERTY WalksEnd
