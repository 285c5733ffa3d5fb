SPECIFICATION FairSpec
CONSTANTS
  Reg <- TwoRegs
  Val <- Values
  Instructions <- OnTwoRegs
  DEPTH34 = 2
  DEPTH45 = 1
  RENAME_IDS = 3
  WAW_STALLS = FALSE
INVARIANTS
  OperandsAreLatest
  LocksAreHeld
  IdsAreUnique
PROPERTIES
  StallsEnd
