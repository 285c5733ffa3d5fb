SPECIFICATION Spec
CONSTANTS
  HALVES = 6
  Long <- MCLong
  Start <- MCStart
  Targets <- MCTargets
  Jumps <- MCJumps
  D01 = 2
INVARIANTS
  HitIsOwn
  FaultsReported
PROPERTIES
  ImplementsStream
