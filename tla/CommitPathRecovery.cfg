SPECIFICATION Spec
CONSTANTS
  Sources = {s1}
  MaxSeq = 3
  Injectors = {}
  Workers = {w1}
  Runner = run
  Abandoner = abandon
  HighWatermark = 2
  SpoolRetention = 1
  PageSize = 1
  MaxFan = 1
  MaxBranches = 1
  MaxRuns = 3
  EarlyInject = FALSE
  WriteFaults = FALSE
INVARIANTS
  NothingForgotten
CHECK_DEADLOCK FALSE
