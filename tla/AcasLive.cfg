SPECIFICATION FairSpec
CONSTANTS
  Callers = {feeder, tuner}
  Feeders = {feeder}
  Worker = worker
  Ecms = {e1, e2}
  Emms = {m1}
  CardIds = {k1}
  AddressOf <- MCAddressOfOne
  None = None
  MaxGeneration = 1
  MaxPendingEcms = 2
  MaxPendingEmms = 1
  MaxRecentEmms = 1
PROPERTIES
  DecryptReturns
  DestructorJoins
  ImplementsKeyService
