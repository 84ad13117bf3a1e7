SPECIFICATION FairSpec
CONSTANTS
  s1 = s1
  Servers = {s1}
  SlowReader = TRUE
  Faults = {"notify"}
  Users = {}
  Outcomes = {"error", "firing", "ok", "no_data"}
  For = 1
  NoDataState = "no_data"
  ErrorState = "keep_state"
  SendReminder = TRUE
  Frequency = 2
  DisableResolve = FALSE
  PendingWindow = 1
  LastTime = 5
  MaxChanges = 2
  MaxClaims = 4
INVARIANTS
  LastChangeNotified
  RemindersSpaced
PROPERTIES
  ChangesAnnounced
