SPECIFICATION FairSpec
CONSTANTS
  Bodies <- Both
  Errors = {"locked", "busy", "other"}
  MaxRetry = 5
  Crashes = TRUE
  Restarts = 1
CHECK_DEADLOCK FALSE
INVARIANTS
  PlainAllOrNothing
  SuccessIsComplete
  EventsMatchCommits
PROPERTIES
  CallReturns
