SPECIFICATION Spec
CONSTANTS
  Waiters = {t1, t2}
  Lwps = {t1, t2}
  Setters = {s1}
  Cv = Cv
  Null = Null
  Kinds = {"wait", "wait_sig", "timedwait", "timedwait_sig", "wait_stop"}
  ScBlock = TRUE
  CV_MAX_WAITERS = 2
  MaxWait = 1
  Prios = {1, 2}
SYMMETRY Symmetric
INVARIANTS
  Inv
  NoLostWakeup
  TimeoutNotMissed
