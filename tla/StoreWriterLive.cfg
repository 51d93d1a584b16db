SPECIFICATION FairSpec
CONSTANTS
  Sources = {s1}
  MaxRows = 2
  MaxReqs = 2
  MaxVal = 1
  MaxOpens = 2
  RunsPerOpen = 2
PROPERTIES
  EveryCallReturns
CHECK_DEADLOCK FALSE
