SPECIFICATION Spec
CONSTANTS
  Callers = {c1, c2}
  Versions = {1, 2}
  JobVersions = {2}
  MaxCalls = 3
  Operations = {"Deploy", "Reload", "Drain", "Pause", "Resume", "Stop"}
  Second = 2
  Horizon = 16
  Window = 5
  Every = 0
  Engines = {e1, e2}
  HighWatermark = 2
  MaxRows = 3
  MaxRuns = 3
  Branches = {b1, b2}
  Filters <- MCFilters
  MaxLetters = 4
  MaxInjected = 3
  MaxReplays = 2
INVARIANTS
  
  
  CatchupSound
  PoolAccounted
  LetterKept
PROPERTY CallsReturn
CHECK_DEADLOCK FALSE
