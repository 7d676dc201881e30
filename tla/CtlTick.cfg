CONSTANTS
  Master = Master
  Clients = {c1}
  Threads = {t1}
  Warmup = 1
  Duration = 1
  MaxTime = 2
  MaxOps = 1
  TimerHits = TRUE
  MayCrash = FALSE
SPECIFICATION Spec
INVARIANT OnlyConnectionsFail
SYMMETRY Symmetry
CHECK_DEADLOCK FALSE
