CONSTANTS
  NumWorkers = 2
  NumClients = 1
  QueueCap = 2
  MaxWork = 4
  HonoursCtx = TRUE
SPECIFICATION FairSpec
INVARIANTS
  WaitCoversAllWork
  NoCircularWait
PROPERTIES
  ImplementsRun
  RunTerminates
