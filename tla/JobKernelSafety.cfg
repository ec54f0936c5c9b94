SPECIFICATION Spec
CONSTANTS
  j1 = j1
  j2 = j2
  r1 = r1
  r2 = r2
  lockKey = lockKey
  concKey = concKey
  NoJob = NoJob
  NoWorker = NoWorker
  NoKey = NoKey
  Jobs = {j1, j2}
  Workers = {w1, w2}
  Operators = {o1}
  Runs = {r1, r2}
  RunOf <- MCRunOf
  Locks = {lockKey}
  LockOf <- MCLockOf
  ConcKeys = {concKey}
  ConcKeyOf <- MCConcKeyOf
  ConcLimit <- MCConcLimit
  RateLimited = {j1}
  Strategy <- SafetyStrategy
  MaxAttempts <- SafetyAttempts
  Malformed = {}
  PoolSize = 2
  GlobalMax = 2
  DatabaseFaults = TRUE
  MaxCrashes = 1
INVARIANTS
  HeldByOne
  LockExclusion
  DeadLetterBudget
PROPERTIES
  DeadLetterExit
  ImplementsOwnership
