SPECIFICATION DiggingSpec
CONSTANTS
  Tlas = {a1, a2}
  Threads = {t1}
  Null = Null
PROPERTIES
  NoneForgotten
