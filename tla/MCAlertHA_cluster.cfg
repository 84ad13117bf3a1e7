SPECIFICATION Spec
CONSTANTS
  s1 = s1
  s2 = s2
  Servers = {s1, s2}
  SlowReader = FALSE
  Faults = {}
  Users = {}
  Outcomes = {"firing", "ok"}
  For = 0
  NoDataState = "no_data"
  ErrorState = "alerting"
  SendReminder = FALSE
  Frequency = 2
  DisableResolve = FALSE
  PendingWindow = 1
  LastTime = 1
  MaxChanges = 1
  MaxClaims = 2
SYMMETRY Symmetry
INVARIANTS
  NoDuplicates
