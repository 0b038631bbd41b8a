CONSTANTS
  t1 = t1
  t2 = t2
  s1 = s1
  s2 = s2
  Tasks = {t1, t2}
  Idempotent = {t1}
  Closers = {s1, s2}
  MaxConns = 1
  PausedCap = 1
  MaxRetries = 1
  Protocols = {"h1"}
  Pausing = {}
  MaxDials = 1
SPECIFICATION FairSpec
CHECK_DEADLOCK FALSE
PROPERTIES ShutdownReturns AcquireReturns
