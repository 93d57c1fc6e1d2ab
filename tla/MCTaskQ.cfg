SPECIFICATION Spec
CONSTANTS
  Workers = {w1, w2, w3}
  Clients = {c1}
  Owner = Owner
  NoThread = NoThread
  MinAlloc = 1
  MaxAlloc = 1
  KmFlags = {"KM_SLEEP", "KM_NOSLEEP"}
  Checkpoints = TRUE
  MaxTasks = 3
SYMMETRY Symmetry
INVARIANTS
  Inv
  WorkConserving
  StoppedWhileSuspended
PROPERTIES
  WaitReturnsAfterTasks
