SPECIFICATION Spec
CONSTANTS
  Sources <- MCSources
  Literals <- MCLiterals
  UsizeMax = 99
  MaxU64 = 9
INVARIANT
  IndexPanicsBeforeFirst
CHECK_DEADLOCK FALSE
