CONSTANTS
  c1 = c1
  c2 = c2
  Worker = worker
  Callers <- OneCaller
  MaxEvents = 3
  FlushSize = 2
  MaxQueueSize = 2
  MaxSplitSends = 2
  Timer = FALSE
  Durable = TRUE
  DiskMayFail = TRUE
  Responses = {"2xx", "400", "fail"}
  Calls = {"add", "flush_by", "shutdown", "shutdown_by"}
SPECIFICATION SpecForkShutdown
INVARIANTS TypeOK Conservation WriteAhead InflightExact NothingStranded
PROPERTIES KeepsLedger ParentKeepsItsEvents BoundedShutdownReturns
