SPECIFICATION BuffersSpec
CONSTANTS
  Item = {x1, x2, x3, x4}
  Uninit = Uninit
  FirstCapacity = 2
  MaxCapacity = 6
  SpillCapacity = 3
  BoxEmpty = FALSE
  PushDangling = FALSE
  Element <- Elements
  Base <- Bases
  NoBlock = NoBlock
SYMMETRY Symmetry
INVARIANTS LiveSlotsAreItems OwnedOnce NoBlockIsLost SlotsAreGranted
PROPERTY ImplementsOwnedSequence
CHECK_DEADLOCK FALSE
