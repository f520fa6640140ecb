SPECIFICATION SetupSpec
CONSTANTS
  RegionSizes = {2, 4}
  ChunkSizes = {1, 2, 4, 8}
  RegionAlignments = {1, 4}
  Splits = {1, 2, 4}
  MaxRegions = 3
  HandleSize = 2
  RegionsBase = 8
  HandlesBase = 32
  NullValue = NullValue
  PageSize = 2
  HandleAlignment = 1
  LinkSize = 1
  AllocatorBase = 2
  AllocatorSize = 3
  LinksBase = 64
INVARIANTS
  TypeOK
  ComesHome
  MemoryApart
  EachHandleOnce
  NothingLeaks
CHECK_DEADLOCK FALSE
