SPECIFICATION CyclicFairSpec
CONSTANTS
  Cyclics = {a, b}
  Lock = {}
  cy_level <- Level
  Size = 1
  MaxSize = 2
  Sizes = {1, 2}
  MaxPend = 2
  Wrap = 4
  NoCyclic = NoCyclic
INVARIANTS
  CyclicsRight
  RemovedIsOver
PROPERTIES
  EventuallyHandled
CHECK_DEADLOCK FALSE
