SPECIFICATION FairSpec
CONSTANTS
  Line <- TwoLines
  Op <- Tags
  None = None
  BEATS = 2
  EVICTIONS = 1
  CHANNEL = 1
  Kinds <- NoKinds
  D34 = 1
  D45 = 1
PROPERTIES
  ReadsAwaitResponse
