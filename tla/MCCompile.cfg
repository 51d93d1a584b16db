INIT Init
NEXT Next
CONSTANTS
  Documents <- MCDocuments
  Environments <- MCEnvironments
  Triggers <- MCTriggers
  Manifests <- MCManifests
  Watermarks <- MCWatermarks
  DefaultRetries = 3
  DefaultBuffer = 128
  Configs <- MCConfigs
INVARIANTS
  
  
  DiagnosticsExact
  BuildSound
CHECK_DEADLOCK FALSE
