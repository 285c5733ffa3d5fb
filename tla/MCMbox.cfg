SPECIFICATION MboxFairSpec
CONSTANTS
  XLEN = 4
  DIVSTAGES = 2
  MULSTAGES_IN = 1
  MULSTAGES_OUT = 1
  isb_s3s4_depth = 3
  ARITH_TRAP = TRUE
  None = None
  Programs <- EveryProgram
INVARIANTS
  ResultsAreSpecified
  NoResultWhenFull
  TrapsDelivered
PROPERTIES
  ResultsCome
