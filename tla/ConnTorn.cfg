SPECIFICATION Spec
CONSTANTS
  Closers = {"c1"}
  Writers = {}
  Pingers = {}
  Client = TRUE
  Compressed = FALSE
  PeerSends = {"data", "ping"}
  PeerStatus = {"GoingAway"}
  PeerFaults = {}
  Cancellable = {}
  Codes = {"NormalClosure"}
  MaxFrames = 2
  Stalls = FALSE
INVARIANT NoTornMessage
CHECK_DEADLOCK FALSE
