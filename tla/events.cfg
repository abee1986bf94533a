CONSTANTS
  t1 = t1
  t2 = t2
  u1 = u1
  u2 = u2
  None = None
  Threads <- TwoThreads
  Users <- TwoUsers
  Inputs <- GoodAndBad
  Payloads <- AllPayloads
  Events <- AllEvents
  Configs <- AllConfigs
  Timeout = 1
  MaxTime = 2
  MaxCalls = 4
  MaxFactId = 2
  MaxFraction = 1
  MaxPrecision = 2
  MaxProperties = 2
  MaxKey = 2
  MaxValue = 2
  MaxSize = 12
  Overhead = 2
  MinEpoch = 2
  MaxAge = 2
  Today = 5
SPECIFICATION Spec
SYMMETRY Symmetry
INVARIANTS ForgottenUserStaysForgotten RulesExact
PROPERTY SessionRotation
CHECK_DEADLOCK FALSE
