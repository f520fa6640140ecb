SPECIFICATION Spec
CONSTANTS
  Chunks = {c1, c2}
  LargeChunks = {}
  NoChunk = NoChunk
  MemorySize <- MCMemorySize
  RegionSizes <- MCRegionSizes
  Sizes = {1, 2}
  MinAlignmentLog2 = 0
  MaxAlignmentLog2 = 1
  CutoffConfig = 1
  NumSplitsLog2 = 1
  MinStepLog2 = 1
  MaxStepLog2 = 2
  MaxCachedRegion = 1
  RetireUnaligned = TRUE
  RetireLimit = 4
  StorageLimit = 12
SYMMETRY Symmetry
INVARIANTS
  ReclaimedIsAligned
