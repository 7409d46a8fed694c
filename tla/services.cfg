CONSTANTS
  NoText = NoText
  Lost = Lost
  Icons = {}
  Bounds = {}
  MaxEvents = 0
  ErcFiles = {}
  GnusFiles = {}
  Networks = {n1, n2}
  Charges = {c1, c2}
  Levels = {low, high}
  Refresh = Refresh
  Threads <- AllThreads
  Actions <- AllActions
  PipeSize = 2
  BufferSize = 1
  MaxQueue = 2

SPECIFICATION ServicesSpec

INVARIANTS
  NothingForgotten
  VolumeIsCurrentOnBar
PROPERTIES
  ImplementsPostQueue
  VolumeIsShown
  PolledTextsAreShown
