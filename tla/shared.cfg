CONSTANTS
  c1 = c1
  c2 = c2
  Worker = worker
  Callers <- TwoCallers
  MaxEvents = 2
  FlushSize = 2
  MaxQueueSize = 2
  MaxSplitSends = 3
  Timer = FALSE
  Durable = TRUE
  DiskMayFail = FALSE
  Responses = {"2xx", "400", "fail"}
  Calls = {"add", "flush", "shutdown"}
SPECIFICATION SpecThreads
INVARIANT OneDelivery
PROPERTIES FlushDrains CallsReturn
