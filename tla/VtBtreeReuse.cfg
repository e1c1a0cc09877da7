SPECIFICATION FitSpec
CONSTANTS
  Thread = {t1, t2}
  Content = {c1, c2, c3}
  Addr = {1, 2, 3, 4}
  Ref = {1, 2, 3, 4, 5}
  Slot <- MCSlot
  Null = Null
  Overlap = FALSE
  Reuse = TRUE
SYMMETRY Symmetry
INVARIANT NeverPanics
