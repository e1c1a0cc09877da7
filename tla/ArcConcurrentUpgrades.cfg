SPECIFICATION Spec
CONSTANTS
  Handle = {h1, h2, h3}
  TOP = 8
  MaxUpgrades = 2
  UniqueOps <- NoOps
  DynWeak = FALSE
INVARIANT ArcsPointToLiveValue
CHECK_DEADLOCK FALSE
