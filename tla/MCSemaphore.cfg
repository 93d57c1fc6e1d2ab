SPECIFICATION FairSpec
CONSTANTS
  Threads = {t1, t2, t3}
  Lwps = {t1, t2}
  Prios = {1, 2}
  MaxCount = 2
  Panics = TRUE
INVARIANTS
  Inv
PROPERTIES
  KeepsPromise
  SignalEndsSleep
CHECK_DEADLOCK FALSE
