SPECIFICATION FairSpec
CONSTANTS
  Tlas = {a1, a2, a3, a4}
  Threads = {t1, t2}
  Null = Null
INVARIANTS
  TypeOK
  EachTlaOnce
  ListsIntact
  SkipsLeadToTail
PROPERTIES
  ImplementsGraveyard
  LockFree
