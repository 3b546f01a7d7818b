SPECIFICATION FairSpec
CONSTANTS
  Closers = {"c1"}
  Writers = {}
  Pingers = {}
  Client = TRUE
  Compressed = FALSE
  PeerSends = {"data"}
  PeerStatus = {"GoingAway"}
  PeerFaults = {}
  Cancellable = {"c1"}
  Codes = {"NormalClosure"}
  MaxFrames = 1
  Stalls = TRUE
PROPERTY CancelledCloseReturns
CHECK_DEADLOCK FALSE
