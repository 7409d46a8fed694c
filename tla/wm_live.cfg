CONSTANTS
  Clients = {c1, c2}
  Views = {1, 2}
  Columns = {11, 12, 13}
  DesiredColumns = 2
  None = None
  Misc = 1
  MaxBatch = 1
  Features = {"shade"}
SPECIFICATION FairSpec
VIEW ViewOfWM
PROPERTIES SelectedFrameBecomesRecent RecentFrameGetsInput
