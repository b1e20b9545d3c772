SPECIFICATION Spec
CONSTANTS
  Segments <- MCSegments
  Limits = {0, 1, 2}
  MaxPushes = 4
  UsizeMax = 5
  MaxU64 = 9
INVARIANTS
  TypeOK
  ReadsBack
  DoneIsExact
  WithinCeiling
  FramingInv
PROPERTY
  ImplementsQueue
CHECK_DEADLOCK FALSE
