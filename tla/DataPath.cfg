SPECIFICATION Spec
CONSTANTS
  Packages = {p1, p2}
  PacketIds = {a1, a2}
  Types = {"hev1"}
  OtherType = "other"
  Tags = {0, 1}
  MaxAssets = 2
  FirstPid = 0
  PcrPid = 1
  FallbackPid = 2
  EndPid = 4
  NullPid = 9
  Shared = Shared
  AppTypes = {"hev1"}
  ProgramTags = {0}
  ProgramAssets = 1
  FirstPmtPid = 6
  LastPmtPid = 7
  AppDataOffset = 2
  InputSize = 7
  MaxPacket = 2
  ChunkSize = 3
  BufferSize = 2
  stream = stream
  control = control
  worker = worker
  None = None
SYMMETRY Symmetry
CHECK_DEADLOCK FALSE
INVARIANTS
  TypeOK
  RightKey
  ArrivedIsPassedOn
  StreamsAreListedAssets
  RightTime
  EachCaptionInTime
  DamageIsReported
  ExitZeroMeansWhole
  PmtsAreCurrent
PROPERTIES
  ImplementsChannel
  StreamsAreStable
  AnnouncedIsTimed
  AtMostOneIntervalBehind
