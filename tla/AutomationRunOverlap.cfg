SPECIFICATION Spec
CONSTANTS
  NoTask = NoTask
  Actors = {p1, p2}
  NodeList <- ShortcutList
  Edges <- ShortcutEdges
  TypeOf <- MCTypeOf
  ModeOf <- MCAll
  PolicyOf <- MCStop
  BranchesOf <- MCBranches
  Setters = {"a1"}
  Faulty = {"a2"}
  MayCancel = TRUE
  MaxTasks = 2
  MaxCrashes = 1
INVARIANTS AfterItsNeeds SuccessHasEvidence
CHECK_DEADLOCK FALSE
SYMMETRY MCActorSymmetry
