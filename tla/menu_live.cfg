CONSTANTS
  None = None
  Lost = Lost
  Entries <- ThreeEntries
  Initial <- Nothing
  Modes <- OnlyByThread
  Chars = {"a"}
  MenuKeys = {"a", "complete", "abort"}
  RootKeys = {"open", "prefix"}
  MaxText = 2
  MaxQueue = 1
  MaxQueued = 1
  StateIds = {s1, s2}
  Exposed = {}
  GrabMayFail = FALSE
SPECIFICATION FairSpec
PROPERTIES
  QueuedCompletionsArePerformed
