CONSTANTS
  c1 = c1
  c2 = c2
  Worker = worker
  Callers <- OneCaller
  MaxEvents = 2
  FlushSize = 2
  MaxQueueSize = 2
  MaxSplitSends = 3
  Timer = FALSE
  Durable = FALSE
  DiskMayFail = FALSE
  Responses = {"2xx", "400", "fail"}
  Calls = {"add", "shutdown"}
SPECIFICATION Spec
INVARIANT SurvivorsKeepOrder
