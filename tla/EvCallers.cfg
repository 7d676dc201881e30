CONSTANTS
  NULL = NULL
  Loopers = {t1, t2}
  Callers = {c1}
  Events = {e1}
  PersistEvents = {e1}
  TimerEvents = {e1}
  NEVENT = 1
  HandlerOps = {"del", "readd"}
  MaxData = 2
  MaxCalls = 2
SPECIFICATION FairSpec
INVARIANT NoStrandedKnote
PROPERTY ImplementsLease
PROPERTY ReadyHandled
PROPERTY DelReturns
CHECK_DEADLOCK FALSE
