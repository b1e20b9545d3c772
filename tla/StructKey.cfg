SPECIFICATION Spec
CONSTANTS
  Types <- MCTypes
  Catalog <- MCCatalog
  Foreign <- MCForeign
  UsizeMax = 20
  MaxU64 = 99
  MaxU32 = 50
INVARIANTS
  TypeOK
  RoundTrip
  EncodeMeetsReference
  DecodeMeetsReference
  ErrorPointsAtSegment
  SegmentCountIsExact
CHECK_DEADLOCK FALSE
