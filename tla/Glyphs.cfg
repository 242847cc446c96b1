SPECIFICATION Spec
CONSTANTS
  Checked = {"text"}
  Pages <- MCKanaPages
  Messages <- MCMessages
  None = None
  Invalid = Invalid
CHECK_DEADLOCK FALSE
INVARIANTS
  ShownAsWritten
