SPECIFICATION FairSpec
CONSTANTS
  WebRtc = {rtc}
  WebSocket = {ws}
  Starts = {s1}
  Timeout = 1
  Slack = 1
  None = None
PROPERTIES
  FallbackSurvives
\* the process exits, and a client may ask for nothing
CHECK_DEADLOCK FALSE
