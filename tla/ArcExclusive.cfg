SPECIFICATION Spec
CONSTANTS
  Handle = {h1, h2, h3, h4, h5}
  TOP = 8
  MaxUpgrades = 0
  UniqueOps <- AllUniqueOps
  DynWeak = FALSE
INVARIANTS ExclusiveIsAlone NothingLeaks
PROPERTY ImplementsSharedOwnership
CHECK_DEADLOCK FALSE
