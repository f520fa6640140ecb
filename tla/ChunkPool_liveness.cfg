SPECIFICATION FairSpec
CONSTANTS
  NumHandles = 3
  NumSplits = 2
  Threads = {t1, t2}
  NullLink = NullLink
  Rounds = 2
  Attempts = 1
  VersionLimit = 6
PROPERTIES
  EveryCallReturns
