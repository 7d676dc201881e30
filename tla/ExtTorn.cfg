SPECIFICATION Spec
CONSTANTS
  Pages = {1, 2}
  FreeBucket <- AllDefault
  MaxWbufs = 2
  WbufCount = 2
  IoThreads = {0}
  Keys = {k1, k2}
  Getters = {g1}
  Tries = 1
  Configs <- TornConfigs
  NULL = NULL
INVARIANT OwnData
CHECK_DEADLOCK FALSE
