SPECIFICATION Spec
CONSTANTS
  Handle = {h1, h2, h3, h4, h5}
  TOP = 8
  MaxUpgrades = 1
  UniqueOps <- MutOps
  DynWeak = TRUE
INVARIANTS ArcsPointToLiveValue MemoryOutlivesHandles IInv
PROPERTIES LastArcDestroysValue UpgradeTerminates ValueGoesOnce
CHECK_DEADLOCK FALSE
