SPECIFICATION DeliverySpec
CONSTANT Pipelines <- MCPipelines
INVARIANTS
  BranchesAccounted
PROPERTIES
  EveryMessageSettles
  StopTerminates
CHECK_DEADLOCK FALSE
