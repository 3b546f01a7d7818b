SPECIFICATION CooperativeSpec
CONSTANTS
  Closers = {"c1"}
  Writers = {}
  Pingers = {}
  Client = FALSE
  Compressed = FALSE
  PeerSends = {"data", "bad", "ping"}
  PeerStatus = {"GoingAway"}
  PeerFaults = {"gone", "stall"}
  Cancellable = {"reader"}
  Codes = {"NormalClosure"}
  MaxFrames = 1
  Stalls = FALSE
PROPERTIES CloseReturns CancelledCallReturns
CHECK_DEADLOCK FALSE
