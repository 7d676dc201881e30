CONSTANTS
  NULL = NULL
  Conns = {c1}
  Gaps = {0, 1, 2}
  MaxSegs = 2
  Adversity = {"http"}
  MaxTime = 3
SPECIFICATION Spec
INVARIANT NoExtraResponse
CHECK_DEADLOCK FALSE
