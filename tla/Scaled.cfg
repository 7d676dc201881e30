CONSTANTS
  Threads = {0, 1}
  Pipes = {0, 1, 2}
  nevent = 2
  ExitFrees = TRUE
  MaxCnt = 1
SPECIFICATION FairSpec
INVARIANT LoadKept
PROPERTY Exits
CHECK_DEADLOCK FALSE
