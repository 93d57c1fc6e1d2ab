SPECIFICATION MutexFairSpec
CONSTANTS
  Threads = {t1, t2, t3}
  NoThread = NoThread
  cpu_list = {c1, c2}
INVARIANTS
  IInv
  NoMissedWakeup
PROPERTIES
  SleeperWoken
