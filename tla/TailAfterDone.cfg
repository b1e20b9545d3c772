SPECIFICATION Spec
CONSTANTS
  Sources <- MCSources
  Literals <- MCLiterals
  UsizeMax = 99
  MaxU64 = 9
PROPERTY
  TailIsUnprocessed
CHECK_DEADLOCK FALSE
