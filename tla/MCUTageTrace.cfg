SPECIFICATION Spec
CONSTANTS
  Records <- AnyWay
  After <- AnyOrder
  BTB_SETS = 1
  BTB_WAYS = 2
  RAS_DEPTH = 1
  HIST_LENS <- Lens
  TAG_WIDTHS <- Widths
  INDEX_BITS = 1
INVARIANTS
  HistoryIsOutcomes
  ProviderFoundIfZeroDropped
