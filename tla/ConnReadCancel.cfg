SPECIFICATION CooperativeSpec
CONSTANTS
  Closers = {}
  Writers = {}
  Pingers = {}
  Client = TRUE
  Compressed = FALSE
  PeerSends = {"data"}
  PeerStatus = {"GoingAway"}
  PeerFaults = {}
  Cancellable = {"reader"}
  Codes = {}
  MaxFrames = 1
  Stalls = FALSE
PROPERTY ReadCancelCloses
CHECK_DEADLOCK FALSE
