SPECIFICATION Spec
CONSTANTS
  Checked = {"text", "documents", "drawings", "packets", "splices", "tables"}
  Pages <- MCPages
  Messages <- MCMessages
  None = None
  Invalid = Invalid
CHECK_DEADLOCK FALSE
INVARIANTS
  ShownAsWritten
  CaptionsAsWritten
  PatternIsOutline
  PacketsAreRead
  SplicedContinues
  TablesAreRead
