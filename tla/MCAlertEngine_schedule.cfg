SPECIFICATION Spec
CONSTANTS
  r1 = r1
  r2 = r2
  Frequency = 4
  MinInterval = 2
  MaxAttempts = 1
  RefreshEvery = 4
  MaxRules = 4
  QueueSize = 2
  Faults = {"fetch", "panic"}
  Shutdown = FALSE
  FirstTick = 2
  LastTick = 20
  Jobs = 2
  Runs = {r1, r2}
SYMMETRY Symmetry
CHECK_DEADLOCK FALSE
INVARIANTS
  EvaluatedEachInterval
