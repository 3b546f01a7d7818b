SPECIFICATION EndpointsSpec
CONSTANTS
  UnsafePatterns = {4}
  NotTokens = {2}
  MaxPatterns = 3
  MaxProtocols = 2
  ServerConfigs <- MCServerConfigs
  Configs <- MCClientConfigs
  ReadLimits <- MCReadLimits
  MaxPayload = 4
  MaxFragments = 3
  MaxMessages = 2
  Sessions = {"s1", "s2"}
  MaxConnections = 1
  NumObservers = 2
  AllowInsecure = TRUE
  Authenticates = TRUE
  Closers = {"c1", "c2", "c3"}
  Verdicts = {"nil", "peerStatus"}
  Stalls = TRUE
  Finishers = 2
INVARIANTS Idempotent OriginsExact ZeroIsDefault
INVARIANTS HeaderBudget HeadersOrderFree SecureTransport
INVARIANTS WritableIsReadable ReadSlack
INVARIANTS TypeOK SlotsExact ActiveExact OpenHoldsSlot FinishersNested
INVARIANTS ClientTypeOK CleanupComplete ResultTruthful
CHECK_DEADLOCK FALSE
