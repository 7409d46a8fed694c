CONSTANTS
  Clients = {c1, c2, c3}
  Views = {1, 2}
  Columns = {11, 12, 13, 14, 15}
  DesiredColumns = 2
  None = None
  Misc = 1
  MaxBatch = 2
  Features = {"copy", "shade", "decorate", "hints", "bar"}
SPECIFICATION Spec
CONSTRAINT Small
SYMMETRY ClientSymmetry
VIEW ViewOfWM
INVARIANTS
  ScreenIsUpToDate
  FocusFollowsSelection
  RecentFrameIsOpen
