SPECIFICATION FairBreakerSpec
CONSTANTS
  Workers = {w1, w2, w3}
  Threshold = 2
INVARIANTS
  OpensOnEvidence
PROPERTIES
  NeverBlocksForEver
  ClosesAfterRecovery
