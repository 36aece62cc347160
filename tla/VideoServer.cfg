SPECIFICATION BothSpec
CONSTANTS
  Senders = {w1}
  QueueSize = 2
  MaxRun = 4
  MaxIdrs = 2
  Capacity = 2
  MaxClient = 4
  MaxStreamer = 3
INVARIANTS
  TypesOK
  BrokenIsReported
  QueueInOrder
  ClientIsHeard
  StreamerOrder
PROPERTIES
  PictureHeals
  RequestEnds
\* dropped transports and answered requests stop
CHECK_DEADLOCK FALSE
