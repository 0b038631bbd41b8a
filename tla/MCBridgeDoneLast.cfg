CONSTANTS
  w1 = w1
  w2 = w2
  c1 = c1
  c2 = c2
  net = net
  Workers = {w1, w2}
  Callers = {c1}
  Net = net
  Capacity = 1
  Slice = 1
  MaxEvents = 2
  Verdicts = {"continue"}
  Ops = {}
SPECIFICATION Spec
CHECK_DEADLOCK FALSE
PROPERTY DoneIsLast
