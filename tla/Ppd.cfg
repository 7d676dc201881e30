CONSTANTS
  Workers = {0, 1}
  Fds = {f1, f2}
  Mode = 0
  Kinds = {"good", "bad"}
  NEVENT = 2
  SockoptMayFail = TRUE
  ClientsClose = TRUE
  MaxAccepts = 2
SPECIFICATION FairSpec
INVARIANT OneWorker
INVARIANT HintAlive
PROPERTY Answered
CHECK_DEADLOCK FALSE
