SPECIFICATION Spec
CONSTANTS
  Decls <- MCDecls
  Queues <- MCQueues
  FieldValues <- MCFieldValues
  Segments <- MCSegments
  Take <- MCTake
INVARIANTS
  TypeOK
  RejectsExactlyDefects
  CompilesWhenTypesFit
  WireIsDeclared
  RoundTrip
  DecodeInvertsEncode
  CountIsExact
CHECK_DEADLOCK FALSE
