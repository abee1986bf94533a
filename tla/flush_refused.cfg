CONSTANTS
  c1 = c1
  c2 = c2
  Worker = worker
  Callers <- OneCaller
  MaxEvents = 2
  FlushSize = 1
  MaxQueueSize = 2
  MaxSplitSends = 2
  Timer = FALSE
  Durable = FALSE
  DiskMayFail = FALSE
  Responses = {"2xx", "4xx"}
  Calls = {"add", "flush"}
SPECIFICATION Spec
PROPERTY FlushDelivers
