CONSTANTS
  None = None
  AnyModifier = AnyModifier
  Modifiers = {"mod2", "mod3", "mod4"}
  Lock = "lock"
  Setups <- ChordsOrChanges
  States <- AllStates
SPECIFICATION Spec
INVARIANTS
  KeysTypeOK
  EveryBindingAnswers
  GrabsAreBindings
  GrabIgnoresLocks
PROPERTIES
  ActionsAreTyped
