SPECIFICATION Spec
CONSTANTS
  Setups <- SafetySetups
  MaxTime = 5
  MaxRuns = 3
INVARIANTS
  OverlapHolds
  RecoveryOwnsItsRuns
  NoOrphan
  StopPersists
  TickOnce
CHECK_DEADLOCK FALSE
