SPECIFICATION Spec
CONSTANTS
  Reg <- OneReg
  Val <- Values
  Instructions <- OnOneReg
  DEPTH34 = 2
  DEPTH45 = 2
  RENAME_IDS = 4
  WAW_STALLS = TRUE
INVARIANTS
  OperandsAreLatest
