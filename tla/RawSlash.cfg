SPECIFICATION Spec
CONSTANTS
  Types <- MCTypes
  Catalog <- SlashCatalog
  Foreign <- MCForeign
  UsizeMax = 20
  MaxU64 = 99
  MaxU32 = 50
INVARIANT
  RawSlashIsRejected
CHECK_DEADLOCK FALSE
