SPECIFICATION Spec
CONSTANTS
  Sources = {s1}
  MaxSeq = 2
  Injectors = {i1}
  Workers = {w1}
  Runner = run
  Abandoner = abandon
  HighWatermark = 2
  SpoolRetention = 1
  PageSize = 1
  MaxFan = 2
  MaxBranches = 2
  MaxRuns = 2
  EarlyInject = TRUE
  WriteFaults = FALSE
INVARIANTS
  NoLoss
CHECK_DEADLOCK FALSE
