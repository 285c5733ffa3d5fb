SPECIFICATION MboxFairSpec
CONSTANTS
  XLEN = 4
  DIVSTAGES = 2
  MULSTAGES_IN = 2
  MULSTAGES_OUT = 2
  isb_s3s4_depth = 3
  ARITH_TRAP = TRUE
  None = None
  Programs <- Mixtures
INVARIANTS
  TrapsDelivered
