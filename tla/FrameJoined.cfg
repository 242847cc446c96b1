SPECIFICATION Spec
CONSTANTS
  Fates = {"intact", "undecryptable"}
  TimeKnown = {TRUE}
  None = None
  MaxUnits = 2
  MaxMpus = 3
  MaxParts = 3
  SeqModulus = 3
CHECK_DEADLOCK FALSE
INVARIANTS
  WholeUnits
