SPECIFICATION FairSpec
CONSTANTS
  Readers = {"local", "remote", "named"}
  CardIds = {k1, k2}
  Addresses = {k1, k2, k3}
  None = None
INVARIANTS
  EmmReachesOnlyItsAddressee
PROPERTIES
  CallReturns
  RecoversFromReset
