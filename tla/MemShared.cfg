CONSTANTS
  N = 2
  Conns = {c1, c2}
  Configs <- SharedConfigs
  ReqsPerEvent = 1
  NULL = NULL
SPECIFICATION Spec
INVARIANT OneDriver
CHECK_DEADLOCK FALSE
