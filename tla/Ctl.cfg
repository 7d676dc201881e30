CONSTANTS
  Master = Master
  Clients = {c1, c2}
  Threads = {t1}
  Warmup = 1
  Duration = 1
  MaxTime = 3
  MaxOps = 1
  TimerHits = TRUE
  MayCrash = TRUE
SPECIFICATION FairSpec
INVARIANT LoadAfterAllConnected
INVARIANT AggregateIsSum
PROPERTY Completes
CHECK_DEADLOCK FALSE
