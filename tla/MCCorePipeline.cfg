SPECIFICATION LiveSpec
CONSTANTS
  PC <- MCPC
  ResetPC = 0
  TVec = 9
  NoPC = NoPC
  Kind <- LoopKind
  Fall <- LoopFall
  Targets <- LoopTargets
  Guess <- LoopGuess
  D01 = 1
  D12 = 2
  D34 = 2
  D45 = 1
INVARIANTS
  TypeOK
  CommitsInOrder
  ExecutesInOrder
  NextPCIsSuccessor
  SerialisesSystemOps
  FenceNotOverwritten
PROPERTIES
  ImplementsISA
  AlwaysProgress
