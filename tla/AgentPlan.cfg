SPECIFICATION FairSpec
CONSTANTS
  NumSteps = 3
  DependsOn <- MCDependsOn
  MaxAttempts = 2
  MaxIterations = 6
  MaxDrives = 2
  MaxRuns = 2
  MaxTouches = 1
INVARIANTS TypeOK DeliveredFirst VerdictIsTrue
PROPERTY PlanEnds
CHECK_DEADLOCK FALSE
