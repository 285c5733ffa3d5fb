SPECIFICATION FairSpec
CONSTANTS
  Trace <- Program
  BTB_SETS = 1
  BTB_WAYS = 2
  RAS_DEPTH = 1
  HISTLEN = 3
  HISTBITS = 2
  INDEX_BITS = 1
  Steady <- Settled
INVARIANTS
  TypeOK
  OneEntryPerWord
  HistoryIsOutcomes
  TrainsPredictedCounter
PROPERTIES
  EvictsOnlyWhenFull
  EventuallyLearned
