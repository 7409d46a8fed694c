CONSTANTS
  None = None
  Lost = Lost
  Entries <- ThreeEntries
  Initial <- Nothing
  Modes <- AllModes
  Chars = {"a"}
  MenuKeys = {"a", "backspace", "delete", "kill", "home", "end", "forward", "backward", "mark", "complete", "enter", "abort"}
  RootKeys = {"open", "prefix", "other"}
  MaxText = 2
  MaxQueue = 1
  MaxQueued = 2
  StateIds = {s1, s2, s3}
  Exposed = {"completions"}
  GrabMayFail = TRUE
  Users = {"edits", "begins sequences", "waits for threads"}
SPECIFICATION UserSpec
INVARIANTS
  MenuTypeOK
  CompletionsAreCurrent
  MenuScreenIsUpToDate
  KeyboardIsGivenBack
