CONSTANTS
  Sizes <- MCSizes
  AskedTimeouts = {0}
  DefaultTimeout = 1
  HeadLimit = 1
  MaxRequests = 2
SPECIFICATION Spec
INVARIANT ConnectBounded
CHECK_DEADLOCK FALSE
