SPECIFICATION FairSpec
CONSTANTS
  Strings <- MCStrings
  Coded <- MCCoded
  CharSets <- ByteSets
INVARIANTS
  TypeOK
  RoundTrip
  EscapedIsOneSegment
  EscapeNeverPanics
  AsciiCharsAreSafe
  UnescapeMeetsReference
  LoopInv
PROPERTY
  Termination
CHECK_DEADLOCK FALSE
