SPECIFICATION Spec
CONSTANTS
  Sessions = {"s1"}
  MaxConnections = 1
  NumObservers = 1
  AllowInsecure = FALSE
  Authenticates = FALSE
INVARIANT FailedMeansFailure
CHECK_DEADLOCK FALSE
