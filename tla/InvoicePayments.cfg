SPECIFICATION FairSpec
CONSTANTS
  Subscriptions = {u1}
  Senders = {s1, s2}
  MaxAttempts = 2
  MaxEvents = 1
  MaxDeaths = 1
  Total = 2
  Amounts = {1, 2}
  Payers = {p1, p2}
  Checkers = {k1}
  MaxByHand = 1
  MaxLost = 1
INVARIANTS VerdictIsEarned PaidIsCovered
PROPERTY DeliveryEnds
CHECK_DEADLOCK FALSE
