SPECIFICATION MCSpec
CONSTANTS
  Controls = {c1, c2}
  Saver = c1
  Media = {a, b, d}
  a = a
  b = b
  c = c
  d = d
  e = e
  MapOf <- MCMapOf
  None = None
  MinGap = 1
  MaxSessions = 2
  MaxPackets = 2
  MaxChannels = 2
CHECK_DEADLOCK FALSE
INVARIANTS
  OneWriterPerFile
  NothingLostOrStale
  RecordingsAreWhole
