CONSTANTS
  Sizes <- MCSizes
  AskedTimeouts = {0}
  DefaultTimeout = 1
  HeadLimit = 1
  MaxRequests = 2
SPECIFICATION FairSpec
INVARIANTS TypeOK OwnPrefixOnly NoDowngrade Routed FormFitsReader TrustAsAsked IdleAsAsked PhasesBounded
PROPERTIES ConnectEnds
CHECK_DEADLOCK FALSE
