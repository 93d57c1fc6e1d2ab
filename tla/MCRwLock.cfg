SPECIFICATION FairSpec
CONSTANTS
  Threads = {t1, t2, t3}
  NoThread = NoThread
  Priorities = {1, 2}
INVARIANTS
  IInv
  BlockedForCause
PROPERTIES
  ImplementsRwSpec
  NoStarvation
