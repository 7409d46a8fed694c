CONSTANTS
  None = None
  Lost = Lost
  Entries <- ThreeEntries
  Initial <- Nothing
  Modes <- OnlyPlain
  Chars = {"a"}
  MenuKeys = {"a", "enter"}
  RootKeys = {"open", "prefix", "other"}
  MaxText = 1
  MaxQueue = 2
  MaxQueued = 1
  StateIds = {s1, s2}
  Exposed = {}
  GrabMayFail = FALSE
SPECIFICATION Spec
INVARIANTS
  PendingIsGrabbed
