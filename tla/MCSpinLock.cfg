SPECIFICATION Spec
CONSTANTS
  CPUs = {c1, c2}
  Intr <- Interrupts
  Interrupted = c1
  LOCK_LEVEL = 2
  Mutexes = {1, 2}
  m_minspl <- Minspl
  DispLocks = {d1, d2}
  Null = Null
SYMMETRY Symmetry
INVARIANTS
  Inv
  NoSelfDeadlock
  ThreadLockRight
