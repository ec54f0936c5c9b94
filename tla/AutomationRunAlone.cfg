SPECIFICATION FairSpec
CONSTANTS
  NoTask = NoTask
  Actors = {p1}
  NodeList <- FullList
  Edges <- FullEdges
  TypeOf <- MCTypeOf
  ModeOf <- MCAll
  PolicyOf <- FullPolicies
  BranchesOf <- MCBranches
  Setters = {"a1", "a3"}
  Faulty = {}
  MayCancel = FALSE
  MaxTasks = 2
  MaxCrashes = 0
INVARIANTS OneTaskPerNode SuccessIsComplete
PROPERTY RunEnds
