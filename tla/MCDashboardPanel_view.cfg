SPECIFICATION Spec
CONSTANTS
  A = A
  B = B
  Intervals = {"10s"}
  MaxAsked = 3
  Sources = {A, B}
  Faults = {"source", "variable"}
SYMMETRY Symmetry
CONSTRAINT Bound
INVARIANTS
  OneTimer
  AutoRefreshComesBack
  NoRefreshLost
  ShowsLastRun
  NewestWins
