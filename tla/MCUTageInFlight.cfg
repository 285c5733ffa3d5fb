SPECIFICATION FairSpec
CONSTANTS
  BTB_SETS = 1
  BTB_WAYS = 2
  RAS_DEPTH = 0
  HIST_LENS <- Lens
  TAG_WIDTHS <- Widths
  INDEX_BITS = 1
  IN_FLIGHT = 2
  Codes <- TwoPrograms
  Patterns <- TakenTwice
  PowerUp <- Garbage
INVARIANTS
  HistoryFollowsPath
  OneEntryPerWord
  NothingRefused
  HitsAreControl
  AllocatesWhenWrong
PROPERTIES
  ForgetsAtFence
  FetchResumes
