SPECIFICATION Spec
CONSTANTS
  Arenas = {a1, a2, a3}
  Threads = {t1, t2}
  Capacity = 2
  Null = Null
  InitialRetired = FALSE
  CanPostpone = TRUE
SYMMETRY Symmetry
INVARIANTS
  TypeOK
  RetiredIsQueued
  QueuedOnce
  ListsIntact
  BlocksAccounted
  NoUseAfterRelease
  ChecksHold
PROPERTIES
  ImplementsContract
