SPECIFICATION CooperativeSpec
CONSTANTS
  Closers = {"c1"}
  Writers = {"w1"}
  Pingers = {}
  Client = TRUE
  Compressed = TRUE
  PeerSends = {"close"}
  PeerStatus = {"GoingAway"}
  PeerFaults = {"stall"}
  Cancellable = {"w1"}
  Codes = {"NormalClosure"}
  MaxFrames = 0
  Stalls = FALSE
INVARIANTS NothingAfterClose LocksHaveHolders
PROPERTIES CloseReturns CancelledCallReturns
CHECK_DEADLOCK FALSE
