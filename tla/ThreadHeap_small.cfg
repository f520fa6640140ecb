SPECIFICATION Spec
CONSTANTS
  Chunks = {c1, c2, c3}
  LargeChunks = {c3}
  NoChunk = NoChunk
  MemorySize <- MCMemorySize
  RegionSizes <- MCRegionSizes
  Sizes = {1, 2, 3}
  MinAlignmentLog2 = 0
  MaxAlignmentLog2 = 1
  CutoffConfig = 1
  NumSplitsLog2 = 1
  MinStepLog2 = 1
  MaxStepLog2 = 2
  MaxCachedRegion = 1
  RetireUnaligned = FALSE
  RetireLimit = 3
  StorageLimit = 12
SYMMETRY Symmetry
INVARIANTS
  TypeOK
  ChunkOnce
  FiledByRoom
  TotalsCount
  BytesAccounted
PROPERTIES
  ImplementsByteHeap
