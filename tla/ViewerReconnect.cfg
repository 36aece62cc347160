SPECIFICATION FairSpec
CONSTANTS
  Streams <- MCStreams
  NoStream = NoStream
  Transports = {"auto", "webrtc", "websocket"}
  Delays <- MCDelays
  Settle = 1
  Check = 3
  Window = 12
  HastyRetry = FALSE
INVARIANTS
  TypeOK
  OneStream
  QuietBehindDialog
PROPERTIES
  RecoveredIsKept
  OutageSettles
\* the page may be left
CHECK_DEADLOCK FALSE
