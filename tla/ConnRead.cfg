SPECIFICATION Spec
CONSTANTS
  Closers = {"c1"}
  Writers = {}
  Pingers = {"g1"}
  Client = TRUE
  Compressed = FALSE
  PeerSends = {"data", "big", "close"}
  PeerStatus = {"GoingAway"}
  PeerFaults = {}
  Cancellable = {"g1"}
  Codes = {"NormalClosure"}
  MaxFrames = 2
  Stalls = FALSE
INVARIANT NoTornMessage
CHECK_DEADLOCK FALSE
