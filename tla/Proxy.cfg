SPECIFICATION FairSpec
CONSTANTS
  Kinds = {"GetAttrib"}
  WrongKinds = {"Connect"}
  Faults = {"network", "silent", "length", "opcode", "cut", "twice"}
  None = None
  Unset = Unset
  Failed = Failed
  Done = Done
  MaxCalls = 3
  MaxFaults = 2
CHECK_DEADLOCK FALSE
INVARIANTS
  ConnectionIsServed
PROPERTIES
  ImplementsRemoteCalls
  RecoversWithinOneCall
