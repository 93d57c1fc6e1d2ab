SPECIFICATION Spec
CONSTANTS
  Structs = {s1, s2}
  Ids = {i1, i2}
  c1 = c1
  f1 = f1
  f2 = f2
  e1 = e1
  e2 = e2
  Clients <- MCClients
  Executors <- MCExecutors
  curthread <- MCcurthread
  Null = Null
  Deltas = {0, 2}
  MaxDelta = 2
  Buckets = 2
  TimeMod = 8
  MaxLag = 1
  Checkpoints = TRUE
SYMMETRY Symmetric
INVARIANTS
  Inv
  NothingSkipped
  DispatchSucceedsOrNeedless
PROPERTIES
  KeepsPromise
