SPECIFICATION FairSpec
CONSTANTS
  j1 = j1
  j2 = j2
  r1 = r1
  r2 = r2
  lockKey = lockKey
  concKey = concKey
  NoJob = NoJob
  NoWorker = NoWorker
  NoKey = NoKey
  Jobs = {j1, j2}
  Workers = {w1, w2}
  Operators = {o1}
  Runs = {r1, r2}
  RunOf <- MCRunOf
  Locks = {lockKey}
  LockOf <- MCLockOf
  ConcKeys = {concKey}
  ConcKeyOf <- MCNoKeys
  ConcLimit <- MCConcLimit
  RateLimited = {}
  Strategy <- LiveStrategy
  MaxAttempts <- LiveAttempts
  Malformed = {j2}
  PoolSize = 2
  GlobalMax = 2
  DatabaseFaults = FALSE
  MaxCrashes = 1
PROPERTIES
  SucceededIsFinal
  ClaimedIsSettled
