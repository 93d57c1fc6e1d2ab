SPECIFICATION TurnstileSpec
CONSTANTS
  a = a  b = b  c = c  d = d
  o1 = o1  o2 = o2  o3 = o3
  cpu1 = cpu1  cpu2 = cpu2
  KThreads = {a, b, c, d}
  Objects = {o1, o2, o3}
  Handoff = {o1}
  Chain <- CrossChain
  RunLock <- Dispatchers
  Pri <- Mixed
  Script <- CrossScript
  Null = Null
INVARIANTS
  TurnstilesRight
  LocksHeldToWill
  NoInversion
