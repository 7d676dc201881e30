CONSTANTS
  NULL = NULL
  Loopers = {t1, t2}
  Callers = {}
  Events = {e1, e2}
  PersistEvents = {e1}
  TimerEvents = {}
  NEVENT = 2
  HandlerOps = {"del", "readd", "addother"}
  MaxData = 2
  MaxCalls = 0
SPECIFICATION Spec
INVARIANT ExclusiveOwner
INVARIANT ActiveHasOwner
INVARIANT NoAssertFails
INVARIANT WaitsUntangled
SYMMETRY Symmetry
CHECK_DEADLOCK FALSE
