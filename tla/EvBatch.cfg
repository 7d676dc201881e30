CONSTANTS
  NULL = NULL
  Loopers = {t1, t2}
  Callers = {}
  Events = {e1, e2}
  PersistEvents = {e1, e2}
  TimerEvents = {}
  NEVENT = 2
  HandlerOps = {"delother"}
  MaxData = 1
  MaxCalls = 0
SPECIFICATION Spec
INVARIANT RunsQueuedOnly
SYMMETRY Symmetry
CHECK_DEADLOCK FALSE
