SPECIFICATION FairSpec
CONSTANTS
  Sources = {s1}
  MaxSeq = 2
  Injectors = {i1}
  Workers = {w1}
  Runner = run
  Abandoner = abandon
  HighWatermark = 1
  SpoolRetention = 1
  PageSize = 1
  MaxFan = 1
  MaxBranches = 1
  MaxRuns = 2
  EarlyInject = FALSE
  WriteFaults = FALSE
PROPERTIES
  EveryRowCommits
  ReplayFinishes
CHECK_DEADLOCK FALSE
