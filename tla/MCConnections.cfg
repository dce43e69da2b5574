CONSTANTS
  NumWorkers = 1
  NumClients = 2
  QueueCap = 2
  MaxWork = 3
  HonoursCtx = TRUE
SPECIFICATION Spec
INVARIANT ConnectionsEstablished
