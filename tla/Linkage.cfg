SPECIFICATION Spec
CONSTANTS
  Checked = {"tables"}
  Pages <- MCPages
  Messages <- MCLinkage
  None = None
  Invalid = Invalid
CHECK_DEADLOCK FALSE
INVARIANTS
  TablesAreRead
