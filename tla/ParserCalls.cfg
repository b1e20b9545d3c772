SPECIFICATION Spec
CONSTANTS
  Sources <- MCSources
  Literals <- MCLiterals
  UsizeMax = 99
  MaxU64 = 9
INVARIANTS
  TypeOK
  InStep
  CallsInv
  NothingLost
  CountErrorsAreTrue
  PositionsAreTrue
PROPERTY
  PeekForetells
CHECK_DEADLOCK FALSE
