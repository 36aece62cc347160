SPECIFICATION Spec
CONSTANTS
  WebRtc = {}
  WebSocket = {ws}
  Starts = {s1, s2}
  Timeout = 1
  Slack = 1
  None = None
INVARIANTS
  RestartWaitsForClose
\* the process exits, and a client may ask for nothing
CHECK_DEADLOCK FALSE
