SPECIFICATION Spec
CONSTANTS
  r1 = r1
  r2 = r2
  Requests = {r1, r2}
  Kinds = {"page", "logout"}
  Faults = {"cancel", "lookup", "delete", "rotate"}
  Restores = TRUE
  RotationInterval = 3
  UrgentRotateTime = 2
  RotateGuard = 1
  MaxInactive = 6
  MaxLifetime = 8
  MaxDuration = 1
  LastTime = 9
  MaxTokens = 3
SYMMETRY Symmetry
CHECK_DEADLOCK FALSE
INVARIANTS
  StaysLoggedIn
  ActiveIsRemembered
PROPERTIES
  SessionsEndForGood
