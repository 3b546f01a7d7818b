SPECIFICATION Spec
CONSTANTS
  Closers = {"c1", "c2"}
  Writers = {}
  Pingers = {}
  Client = FALSE
  Compressed = FALSE
  PeerSends = {"data", "ping", "close"}
  PeerStatus = {"GoingAway"}
  PeerFaults = {}
  Cancellable = {"c1", "reader"}
  Codes = {"NormalClosure", "MessageTooBig"}
  MaxFrames = 1
  Stalls = TRUE
INVARIANTS TypeOK StreamOwned WaitedMeansClosed SameVerdict PeerErrorTruthful
PROPERTY ImplementsContract
CHECK_DEADLOCK FALSE
