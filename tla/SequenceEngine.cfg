SPECIFICATION FairSpec
CONSTANTS
  Enrollments = {e1}
  NumSteps = 2
  Validated = {2}
  Crons = {c1, c2}
  Validators = {v1}
  MaxMessages = 3
  MaxCrashes = 1
INVARIANTS AdvanceIsBacked OneMailAfterOptOut
PROPERTY OptOutSettles
CHECK_DEADLOCK FALSE
