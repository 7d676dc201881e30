CONSTANTS
  N = 2
  Conns = {c1, c2}
  Configs <- MCConfigs
  ReqsPerEvent = 1
  NULL = NULL
SPECIFICATION Spec
INVARIANTS PauseSafe DriverAlone InSync
PROPERTIES Served PauseReturns
CHECK_DEADLOCK FALSE
