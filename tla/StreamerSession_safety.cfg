SPECIFICATION Spec
CONSTANTS
  WebRtc = {rtc}
  WebSocket = {ws}
  Starts = {s1, s2}
  Timeout = 1
  Slack = 1
  None = None
INVARIANTS
  TypeOK
  OwnerAccounted
  StopIsFinal
PROPERTIES
  NewTransportGetsGrace
\* the process exits, and a client may ask for nothing
CHECK_DEADLOCK FALSE
