CONSTANTS
  c1 = c1
  c2 = c2
  Worker = worker
  Callers <- OneCaller
  MaxEvents = 5
  FlushSize = 2
  MaxQueueSize = 2
  MaxSplitSends = 2
  Timer = TRUE
  Durable = TRUE
  DiskMayFail = FALSE
  Responses = {"2xx", "4xx", "fail"}
  Calls = {"add", "shutdown"}
SPECIFICATION SpecService
INVARIANTS SentInOrder QueueBounded
PROPERTY EventsLeaveMemory
