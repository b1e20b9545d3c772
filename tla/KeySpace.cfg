SPECIFICATION Spec
CONSTANTS
  AllKeys <- MCKeys
  Levels = {0, 2}
  MaxNesting = 2
INVARIANTS
  TypeOK
  ListsExactlyBelow
  NestedLevelsAddUp
