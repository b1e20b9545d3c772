SPECIFICATION Spec
CONSTANTS
  Types <- EmbeddedTypes
  Catalog <- EmbeddedCatalog
  Foreign <- MCForeign
  UsizeMax = 20
  MaxU64 = 99
  MaxU32 = 50
INVARIANT
  SegmentCountIsExact
CHECK_DEADLOCK FALSE
