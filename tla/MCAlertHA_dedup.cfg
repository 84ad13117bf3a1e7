SPECIFICATION Spec
CONSTANTS
  s1 = s1
  s2 = s2
  Servers = {s1, s2}
  SlowReader = FALSE
  Faults = {"crash", "save", "complete"}
  Users = {"pause", "delete"}
  Outcomes = {"firing"}
  For = 0
  NoDataState = "no_data"
  ErrorState = "alerting"
  SendReminder = FALSE
  Frequency = 2
  DisableResolve = FALSE
  PendingWindow = 1
  LastTime = 1
  MaxChanges = 1
  MaxClaims = 2
SYMMETRY Symmetry
INVARIANTS
  OneNotificationPerChange
  LastChangeClaims
  GivenUpOnlyIfClaimed
PROPERTIES
  ImplementsDedup
