SPECIFICATION Spec
CONSTANTS
  Strings <- MCStrings
  Coded <- MCCoded
  CharSets <- ByteSets
INVARIANT
  EscapeSpecifiedNeverPanics
CHECK_DEADLOCK FALSE
