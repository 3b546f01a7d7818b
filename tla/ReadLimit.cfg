SPECIFICATION MCSpec
CONSTANTS
  UnsafePatterns = {4}
  NotTokens = {2}
  MaxPatterns = 3
  MaxProtocols = 2
  ServerConfigs <- MCPlainServer
  Configs <- MCPlainClient
  ReadLimits <- MCReadLimits
  MaxPayload = 4
  MaxFragments = 3
  MaxMessages = 2
INVARIANT ReadBounded
CHECK_DEADLOCK FALSE
