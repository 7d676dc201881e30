SPECIFICATION CacheSpec
CONSTANTS
  Workers = {w1, w2}
  Keys = {k1, k2}
  Items = {1, 2, 3}
  Menus <- MCMenus
  TTLs <- MCTTLs
  FlushDelays = {0}
  Word = 3
  UpdateInterval = 0
  AllocTries = 2
  BumpMax = 1
  RefcountLimit = 10
  MaxTime = 3
  NULL = NULL
SYMMETRY Symmetry
INVARIANTS RefcountExact ReaderStable CasWithinOne
PROPERTY ImplementsKv
