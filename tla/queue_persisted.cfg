CONSTANTS
  c1 = c1
  c2 = c2
  Worker = worker
  Callers <- OneCaller
  MaxEvents = 3
  FlushSize = 1
  MaxQueueSize = 3
  MaxSplitSends = 2
  Timer = FALSE
  Durable = TRUE
  DiskMayFail = FALSE
  Responses = {"2xx"}
  Calls = {"add", "shutdown_by"}
SPECIFICATION Spec
PROPERTY ShutdownPersistsQueue
