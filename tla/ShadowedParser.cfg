SPECIFICATION Spec
CONSTANTS
  Decls <- MCDecls
  Queues <- MCQueues
  FieldValues <- MCFieldValues
  Segments <- MCSegments
  Take <- MCTake
INVARIANT NamedFieldsCompile
CHECK_DEADLOCK FALSE
