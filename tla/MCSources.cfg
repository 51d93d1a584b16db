SPECIFICATION Spec
CONSTANTS
  FileSetups <- MCFileSetups
  StreamSetups <- MCStreamSetups
  Inodes = {1, 2}
  TailLines = 2
  MaxItems = 4
  Policies <- MCPolicies
  PluginItems = 2
  MaxFaults = 2
  Cap = 2
INVARIANTS
  FilePositions
  
  StreamPositions
  NothingSkipped
  SupervisionSound
PROPERTIES
  ForgottenWasRead
  SourceReturns
CHECK_DEADLOCK FALSE
