SPECIFICATION FairSpec
CONSTANTS
  Arenas = {a1}
  Threads = {t1}
  Capacity = 1
  Null = Null
  InitialRetired = TRUE
  CanPostpone = FALSE
PROPERTIES
  EventuallyReclaimed
