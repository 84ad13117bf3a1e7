SPECIFICATION Spec
CONSTANTS
  Vars = {"dc", "host", "disk"}
  DependsOn <- MCDependsOn
  Refresh <- MCRefresh
  Values = {0, 1}
  None = 2
  Options <- MCOptions
  MaxChanges = 2
  MaxJobs = 4
  MaxFailures = 1
  UrlVars = {"host"}
INVARIANT OptionsAreCurrent
INVARIANT PanelsAreCurrent
PROPERTY Opens
PROPERTY ChangesEnd
