CONSTANTS
  Clients = {c1, c2}
  Views = {1, 2}
  Columns = {11, 12, 13, 14, 15}
  DesiredColumns = 2
  None = None
  Misc = 1
  MaxBatch = 1
  Features = {"copy","mark"}
SPECIFICATION Spec
SYMMETRY ClientSymmetry
VIEW ViewOfWM
INVARIANTS
  FlushShowsTree
  
  TreeIsConsistent
  SelectionIsTotal
  NothingIsEmpty
  ActivityListsAgree
  EveryClientIsReachable
PROPERTIES
  LosingColumnFallsBack
  OtherViewsKeepSelection
  ImplementsTags
