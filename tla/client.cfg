CONSTANTS
  main = main
  other = other
  Main = main
  Handler = Handler
  Threads <- TwoThreads
  Calls <- AllCalls
  MaxEvents = 2
  Durable = TRUE
  DiskMayFail = TRUE
SPECIFICATION FairSpec
CHECK_DEADLOCK FALSE
INVARIANTS TypeOK InflightExact InlineConservation OneSender PendingBracket Awaited
PROPERTIES KeepsCustody ReturnsHonest BoundedCallsReturn
