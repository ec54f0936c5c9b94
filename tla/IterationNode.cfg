SPECIFICATION FairSpec
CONSTANTS
  Kinds = {"loop", "map"}
  NumItems = 3
  Limit = 2
  MaxGenerations = 7
  Actors = {p1, p2}
  MaxTasks = 2
  MaxUpsets = 1
  NodeList <- BodyList
  Edges <- BodyEdges
  TypeOf <- MCTypeOf
  ModeOf <- MCAll
  PolicyOf <- BodyPolicies
  BranchesOf <- MCBranches
INVARIANTS TypeOK WithinLimit VerdictIsBacked
PROPERTY IterationEnds
CHECK_DEADLOCK FALSE
