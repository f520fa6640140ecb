SPECIFICATION RoundsSpec
CONSTANTS
  NumHandles = 3
  NumSplits = 2
  Threads = {t1, t2}
  NullLink = NullLink
  Rounds = 1
  Attempts = 2
  VersionLimit = 7
SYMMETRY Symmetry
INVARIANTS
  TypeOK
  EachChunkOnce
  FreeListIntact
  StackSettles
PROPERTIES
  ImplementsStore
  AloneFinds
  AloneAdvances
