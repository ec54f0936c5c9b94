SPECIFICATION FairSpec
CONSTANTS
  Executors = {p1}
  NodeList <- MCNodeList
  Bodies = {"b"}
  Edges <- MCEdges
  TypeOf <- MCTypeOf
  PolicyOf <- MCPolicyOf
  RetriesOf <- MCRetriesOf
  Compensable = {"a1", "a2"}
  MayCancel = TRUE
  MaxCrashes = 1
INVARIANTS TypeOK SuccessFollowsGraph FailureIsUndone
PROPERTIES NeverReplayed StartsAfterSources RunEnds
CHECK_DEADLOCK FALSE
