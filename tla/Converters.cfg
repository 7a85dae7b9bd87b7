\* Three threads, four converters, and a pool for one.
SPECIFICATION PoolSpec
CONSTANTS
  Threads = {t1, t2, t3}
  Converters = {c1, c2, c3, c4}
  NoConverter = NoConverter
  MAX_POOL_SIZE = 1
INVARIANTS
  ListWhole
  NoMoreThanThreads
PROPERTIES
  ImplementsPool
