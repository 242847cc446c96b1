SPECIFICATION MCSpec
CONSTANTS
  e1 = e1
  k1 = k1
  Callers = {caller1, caller2}
  Feeders = {caller1, caller2}
  Worker = worker
  Ecms = {e1, e2, e3}
  Emms = {m1, m2, m3}
  CardIds = {k1, k2}
  AddressOf <- MCAddressOf
  None = None
  MaxGeneration = 2
  MaxPendingEcms = 3
  MaxPendingEmms = 2
  MaxRecentEmms = 2
SYMMETRY Symmetry
INVARIANTS
  TypeOK
  KeyOfThisChannel
  ReturnedKeyOfCallersChannel
  KeyOfNewestEcm
  RejectedEcmNotRetried
  EachEmmOnce
PROPERTIES
  ParitySwitchUsesNewestEcm
  CancelledTaskNeverSent
