CONSTANTS
  t1 = t1
  t2 = t2
  b1 = b1
  b2 = b2
  b3 = b3
  Batch <- TwoBatches
  EventCount <- OneEventEach
  MaxPendingEvents = 2
  Times <- UpTo20
  DiskMayFail = FALSE
  DirectorySync = TRUE
  PowerMayFail = FALSE
  Threads <- TwoThreads
  MaxRetries = 1
  RequestTimeout = 2
  BackoffBase = 1
  MaxBackoff = 2
  MaxRetryAfter = 2
  RetryAfters = {3}
  Timeouts = {2}
  MaxTime = 4
  Calls = {"send", "recover_by", "persist"}
SPECIFICATION Spec
SYMMETRY Symmetry
INVARIANTS TypeOK WireFollowsLog DeadlineKept
PROPERTIES RetryAfterHonoured KeepsLog
CHECK_DEADLOCK FALSE
