CONSTANTS
  t1 = t1
  t2 = t2
  s1 = s1
  s2 = s2
  Tasks = {t1, t2}
  Idempotent = {t1}
  Closers = {s1}
  MaxConns = 1
  PausedCap = 1
  MaxRetries = 1
  Protocols = {"h1", "h2"}
  Pausing = {t1}
  MaxDials = 2
SPECIFICATION Spec
CHECK_DEADLOCK FALSE
INVARIANTS TypeOK LeasesBalance ConnCap AttemptsBounded DialLockInUse DriversJoined
PROPERTY NeverReplayed
