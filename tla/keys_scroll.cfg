CONSTANTS
  None = None
  AnyModifier = AnyModifier
  Modifiers = {"mod2", "mod3", "mod4"}
  Lock = "lock"
  Setups <- ScrollLock
  States <- AllStates
SPECIFICATION Spec
INVARIANTS
  GrabIgnoresLocks
