SPECIFICATION FairSpec
CONSTANTS
  Clients = {c1, c2}
  Executors = {e1, e2}
  Entries = {x1, x2}
  Classes = {A, B}
  Null = Null
INVARIANTS
  Inv
  EveryCallbackCalled
PROPERTIES
  WaitsEnd
