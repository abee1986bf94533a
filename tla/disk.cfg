CONSTANTS
  t1 = t1
  t2 = t2
  b1 = b1
  b2 = b2
  b3 = b3
  Batch <- ThreeBatches
  EventCount <- OneEventEach
  MaxPendingEvents = 2
  Times <- UpTo20
  DiskMayFail = TRUE
  DirectorySync = TRUE
  PowerMayFail = TRUE
  Threads <- TwoThreads
  MaxRetries = 0
  RequestTimeout = 2
  BackoffBase = 1
  MaxBackoff = 2
  MaxRetryAfter = 2
  RetryAfters = {}
  Timeouts = {2}
  MaxTime = 0
  Calls = {"send", "recover", "persist"}
SPECIFICATION Spec
SYMMETRY Symmetry
INVARIANTS LogKeepsPromises LogLoads MemoryMatchesFile
PROPERTIES NeverResent HonestOutcome
CHECK_DEADLOCK FALSE
