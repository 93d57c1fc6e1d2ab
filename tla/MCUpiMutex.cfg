SPECIFICATION UpiSpec
CONSTANTS
  Lwps = {t1, t2, t3}
  Upimutexes = {1, 2}
  Signals = {t2}
  Faults = {t2}
  Deaths = {t1, t2}
  Suser = {t3}
  Ordered = FALSE
  maxnestupimx = 1
  None = None
  High = {t3}
  t_pri <- Priority
INVARIANTS
  UpiConsistent
  KernelAndUserAgree
  OwnerDeathSeen
