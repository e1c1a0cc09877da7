SPECIFICATION FitSpec
CONSTANTS
  Thread = {t1, t2}
  Content = {c1, c2}
  Addr = {1, 2, 3, 4, 5, 6}
  Ref = {1, 2, 3, 4}
  Slot <- MCSlot
  Null = Null
  Overlap = FALSE
INVARIANTS ReturnedPointersStayValid SlicesHaveOneOwner LeaksAreLostRaces CellInv LoadedArcsAreLive
PROPERTIES InsertReturns ImplementsInterner ImplementsAtomicArc
