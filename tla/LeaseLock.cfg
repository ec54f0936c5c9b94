SPECIFICATION FairSpec
CONSTANTS
  NoClient = NoClient
  Keys = {k1, k2}
  MemoryKeys = {k2}
  Clients = {c1, c2, c3}
  Leases <- MCLeases
INVARIANTS
  TrustIsBacked
  MutualExclusion
PROPERTIES
  CrashedHolderLosesLock
