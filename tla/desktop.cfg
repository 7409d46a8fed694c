CONSTANTS
  NoText = NoText
  Lost = Lost
  Icons = {i1, i2}
  Bounds = {"bottom", "lower"}
  MaxEvents = 2
  ErcFiles <- ErcTexts
  GnusFiles <- GnusTexts
  Networks = {n1}
  Charges = {}
  Clients = {c1, c2}
  Views = {1, 2, 3, 4}
  Columns = {11, 12, 13, 14, 15, 16, 17, 18}
  DesiredColumns = 2
  None = None
  Misc = 1
  Original <- OriginalOf
  FullscreenNames <- FullscreenOf
  Parts = {"icons", "files", "tags", "fullscreen", "restart"}
  MaxBatch = 1
  MaxAge = 1
SPECIFICATION DesktopSpec
VIEW ViewOfDesktop
SYMMETRY Symmetry
INVARIANTS
  BarScreenIsUpToDate
  TrayAndIconsAgree
  AppletsShowTheirFiles
  BarIsInOrder
  SessionIsConsistent
  BarShowsViews
  ToggleTwiceIsNothing
  BackAndForth
PROPERTIES
  ClosingReturns
  
