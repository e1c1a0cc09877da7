SPECIFICATION BoundedSpec
CONSTANTS
  Thread = {t1, t2}
  Slot = {x, y}
  Addr = {a1, a2}
  Null = Null
  Overlap = TRUE
  MaxStrong = 4
SYMMETRY Symmetry
INVARIANTS LoadedArcsAreLive
CHECK_DEADLOCK FALSE
