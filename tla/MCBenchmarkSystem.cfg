CONSTANTS
  NumWorkers = 1
  NumClients = 1
  QueueCap = 1
  MaxWork = 2
  HonoursCtx = TRUE
  Durations = {1}
  BucketWidth = 2
  HasReporter = TRUE
  NoWork = NoWork
  U64 = 16
SPECIFICATION SysFairSpec
INVARIANTS
  ResultReadyBeforeUse
  FinalReport
  ReportedOnce
PROPERTY RunTerminatesAnyway
