SPECIFICATION Spec
CONSTANTS
  Fates = {"intact"}
  Sound = {TRUE, FALSE}
  None = None
  MaxMessages = 3
  MaxParts = 2
  SeqModulus = 3
CHECK_DEADLOCK FALSE
INVARIANTS
  ArrivedMessageProcessed
