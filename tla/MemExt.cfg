SPECIFICATION Spec
CONSTANTS
  Pages = {1, 2}
  FreeBucket <- AllDefault
  MaxWbufs = 2
  WbufCount = 2
  IoThreads = {0}
  Keys = {k1, k2}
  Getters = {g1}
  Tries = 1
  Configs <- MCConfigs
  NULL = NULL
INVARIANTS ReadIntact HeaderPoints CountCovers
PROPERTY RoomReturns
CHECK_DEADLOCK FALSE
