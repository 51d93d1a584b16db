SPECIFICATION Spec
CONSTANTS
  Sources = {s1, s2}
  MaxSeq = 2
  Injectors = {i1}
  Workers = {w1, w2}
  Runner = run
  Abandoner = abandon
  HighWatermark = 2
  SpoolRetention = 1
  PageSize = 1
  MaxFan = 2
  MaxBranches = 2
  MaxRuns = 2
  EarlyInject = FALSE
  WriteFaults = TRUE
INVARIANTS
  TypeOK
  NoLoss
  Accounted
  
  SourceStateCovered
PROPERTIES
  ImplementsDurableLog
CHECK_DEADLOCK FALSE
