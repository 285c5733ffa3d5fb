SPECIFICATION FairSpec
CONSTANTS
  Line <- OneLine
  Op <- Tags
  None = None
  BEATS = 2
  EVICTIONS = 1
  CHANNEL = 1
  Kinds <- Kind
  D34 = 1
  D45 = 1
INVARIANTS
  BuffersInStep
  EvictionsLand
PROPERTIES
  NoReadIntoBurst
  ImplementsDevice
  RequestsAnswered
