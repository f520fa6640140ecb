SPECIFICATION RoundsSpec
CONSTANTS
  NumHandles = 2
  NumSplits = 2
  Threads = {t1, t2}
  NullLink = NullLink
  Rounds = 1
  Attempts <- NoLimit
  VersionLimit = 5
SYMMETRY Symmetry
PROPERTIES
  NullIsGenuine
