SPECIFICATION Spec
CONSTANTS
  Handle = {h1, h2, h3}
  TOP = 8
  MaxUpgrades = 1
  UniqueOps <- GetMutOnly
  DynWeak = FALSE
INVARIANT ExclusiveIsAlone
CHECK_DEADLOCK FALSE
