CONSTANTS
  Classes = {1, 2}
  Pages = {1, 2, 3}
  PerSlab = 2
  MemLimit = 2
  Keys = {k1, k2}
  Workers = {w1, w2}
  Sizes = {1, 2}
  Sources = {0}
  Warm <- TwoInPool
  MaxLoops = 1
  MaxOps = 2
  MaxMoves = 1
  Mover = Mover
  NULL = NULL
SPECIFICATION Spec
INVARIANT PageClear
CHECK_DEADLOCK FALSE
