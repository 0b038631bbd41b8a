CONSTANTS
  s1 = s1
  s2 = s2
  s3 = s3
  w1 = w1
  Senders = {s1}
  Closer = closer
  Freer = freer
  Workers = {w1}
  MaxInflight = 2
  MaxBytes = 2
  Cost <- Bytes
SPECIFICATION FairSpec
CHECK_DEADLOCK FALSE
PROPERTY FreeReturns
