SPECIFICATION Spec
CONSTANTS
  Chunks = {c1, c2}
  LargeChunks = {c1, c2}
  NoChunk = NoChunk
  MemorySize <- MCMemorySize
  RegionSizes <- MCRegionSizes
  Sizes = {1, 3, 5}
  MinAlignmentLog2 = 0
  MaxAlignmentLog2 = 1
  CutoffConfig = 1
  NumSplitsLog2 = 1
  MinStepLog2 = 1
  MaxStepLog2 = 2
  MaxCachedRegion = 2
  RetireUnaligned = FALSE
  RetireLimit = 6
  StorageLimit = 16
SYMMETRY Symmetry
INVARIANTS
  FiledByRoom
  RequestFits
  NothingMissed
  StorageCovers
  ClassesMeet
