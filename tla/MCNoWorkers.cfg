CONSTANTS
  NumWorkers = 0
  NumClients = 1
  QueueCap = 2
  MaxWork = 3
  HonoursCtx = TRUE
SPECIFICATION Spec
INVARIANT GroupSizePositive
