CONSTANTS
  NULL = NULL
  Conns = {c1}
  Gaps = {1, 2}
  MaxSegs = 2
  Adversity = {"http", "sendfail", "stepback"}
  MaxTime = 4
SPECIFICATION FairSpec
INVARIANT DepthIsOutstanding
INVARIANT WakeupPending
PROPERTY DueIsSent
CHECK_DEADLOCK FALSE
