SPECIFICATION FairSpec
CONSTANTS
  Streams <- MCStreams
  NoStream = NoStream
  Transports = {"webrtc"}
  Delays <- MCDelays
  Settle = 1
  Check = 3
  Window = 12
  HastyRetry = TRUE
INVARIANTS
  OneStream
\* the page may be left
CHECK_DEADLOCK FALSE
