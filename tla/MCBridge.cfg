CONSTANTS
  w1 = w1
  w2 = w2
  c1 = c1
  c2 = c2
  net = net
  Workers = {w1, w2}
  Callers = {c1}
  Net = net
  Capacity = 1
  Slice = 1
  MaxEvents = 2
  Verdicts = {"continue", "pause", "cancel"}
  Ops = {"resume", "cancel", "close"}
SPECIFICATION Spec
SYMMETRY Perms
CHECK_DEADLOCK FALSE
INVARIANTS TypeOK OneOwner QueueBounded SlicesNeverStick
PROPERTY ImplementsContract
