SPECIFICATION Spec
CONSTANTS
  Thread = {t1, t2}
  First = {2, 4, 6, 8, 10, 12}
  Later = {1, 3}
  Replaced = {3}
  Key = {1, 2, 3, 4, 6, 8, 10, 12}
  Addr = {1, 2, 3, 4, 5, 6, 7, 8, 9, 10, 11, 12, 13, 14}
  Value = {v, w}
  Old = v
  Null = Null
  SPLIT_LIMIT = 3
SYMMETRY Symmetry
VIEW Shape
ACTION_CONSTRAINT Ordered
INVARIANTS CountsOwners ChangesItsOwn IsBTree
PROPERTIES ImplementsOwnMaps
