SPECIFICATION LayoutSpec
CONSTANTS
  Dashboards <- MCDashboards
  Columns = 2
  MaxPerRow = 2
  MaxOptions = 2
  MaxSize = 2
  MaxEdits = 2
  MaxPanels = 24
VIEW Nameless
CONSTRAINT Bound
INVARIANT UniqueIds
INVARIANT PanelsKeepTheirRow
INVARIANT CollapseIsUndone
PROPERTY RepeatsFollow
