CONSTANTS
  Workers = {0, 1}
  Fds = {f1}
  Mode = 0
  Kinds = {"good", "bad"}
  NEVENT = 2
  SockoptMayFail = FALSE
  ClientsClose = TRUE
  MaxAccepts = 1
SPECIFICATION FairSpec
PROPERTY ErrorEndsConnection
CHECK_DEADLOCK FALSE
