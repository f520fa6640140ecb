SPECIFICATION FairSpec
CONSTANTS
  Arenas = {a1, a2}
  Threads = {t1, t2}
  Capacity = 2
  Null = Null
  InitialRetired = FALSE
  CanPostpone = FALSE
PROPERTIES
  EventuallyReclaimed
  DeadTlaLeaves
