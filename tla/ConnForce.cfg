SPECIFICATION Spec
CONSTANTS
  Closers = {"c1", "c2"}
  Writers = {}
  Pingers = {}
  Client = TRUE
  Compressed = FALSE
  PeerSends = {"data"}
  PeerStatus = {"GoingAway"}
  PeerFaults = {}
  Cancellable = {"c2"}
  Codes = {"NormalClosure"}
  MaxFrames = 1
  Stalls = TRUE
INVARIANT ReturnedMeansClosed
CHECK_DEADLOCK FALSE
