SPECIFICATION Spec
CONSTANTS
  a1 = a1
  a2 = a2
  m = m
  NULL = NULL
  Agents <- MCAgents
  Master = m
  Configs <- Threadless
  MaxThreads = 2
  Depth = 2
  Records = 2
  LoaderChunk = 1
  MaxRounds = 2
INVARIANT InStep
CHECK_DEADLOCK FALSE
