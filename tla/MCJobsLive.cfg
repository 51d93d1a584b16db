SPECIFICATION FairSpec
CONSTANTS
  Setups <- LiveSetups
  MaxTime = 2
  MaxRuns = 2
PROPERTIES
  RunsFinish
  StopEnds
CHECK_DEADLOCK FALSE
