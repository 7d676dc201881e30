CONSTANTS
  Classes = {1, 2}
  Pages = {1, 2, 3}
  PerSlab = 2
  MemLimit = 2
  Keys = {k1, k2}
  Workers = {w1, w2}
  Sizes = {1}
  Sources = {1}
  Warm <- TwoPages
  MaxLoops = 1
  MaxOps = 3
  MaxMoves = 1
  Mover = Mover
  NULL = NULL
SPECIFICATION Spec
INVARIANTS ChunkOnce PageClear ReaderIntact
PROPERTY MoveEnds
CHECK_DEADLOCK FALSE
