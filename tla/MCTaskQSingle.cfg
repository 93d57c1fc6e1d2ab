SPECIFICATION FairSpec
CONSTANTS
  Workers = {w1}
  Clients = {c1}
  Owner = Owner
  NoThread = NoThread
  MinAlloc = 1
  MaxAlloc = 1
  KmFlags = {"KM_SLEEP", "KM_NOSLEEP"}
  Checkpoints = TRUE
  MaxTasks = 3
INVARIANTS
  InOrderIfSingle
PROPERTIES
  TaskExecuted
  DestroyTerminates
