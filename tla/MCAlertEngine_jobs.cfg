SPECIFICATION FairSpec
CONSTANTS
  r1 = r1
  r2 = r2
  Frequency = 2
  MinInterval = 1
  MaxAttempts = 2
  RefreshEvery = 4
  MaxRules = 2
  QueueSize = 1
  Faults = {"panic"}
  Shutdown = TRUE
  FirstTick = 1
  LastTick = 7
  Jobs = 1
  Runs = {r1, r2}
CHECK_DEADLOCK FALSE
INVARIANTS
  NoOverlap
  HandledOnce
PROPERTIES
  EvaluationsEnd
  StopsWhenAsked
