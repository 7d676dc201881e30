SPECIFICATION Spec
CONSTANTS
  a1 = a1
  a2 = a2
  m = m
  NULL = NULL
  Agents <- MCAgents
  Master = m
  Configs <- MCConfigs
  MaxThreads = 2
  Depth = 2
  Records = 2
  LoaderChunk = 1
  MaxRounds = 2
INVARIANTS InStep StartTogether Aligned
PROPERTY Finishes
CHECK_DEADLOCK FALSE
