SPECIFICATION FairSpec
CONSTANTS
  Readers = {"local", "remote"}
  CardIds = {k1}
  Addresses = {}
  None = None
PROPERTIES
  RetriedEcmSucceeds
