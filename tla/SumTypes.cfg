SPECIFICATION Spec
CONSTANTS
  Types <- MCTypes
  Depth <- MCDepth
INVARIANTS ReadsBack NichesStayFree StaysInside YieldsOnce
CHECK_DEADLOCK FALSE
