SPECIFICATION FairSpec
CONSTANTS
  Streams <- MCStreams
  Deliveries <- MCDeliveries
  HeaderLimit = 5
  BodyLen = 2

CHECK_DEADLOCK FALSE
INVARIANTS Framed Conserved AsSent HeadsRead
PROPERTIES CompleteFrozen Decided
