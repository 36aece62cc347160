SPECIFICATION BothSpec
CONSTANTS
  Handles = {h1, h2, h3}
  NoHandle = NoHandle
  Timers = {t1, t2, t3}
  Timeout = 2
  Slack = 2
INVARIANTS
  TypesOK
  ConnectionIsSafe
  PendingIsCovered
PROPERTIES
  DropCompletes
  ImplementsSlot
  NoEarlyStop
  RequestActedOn
\* every attempt may end up refused or closed, and the model has no more of them
CHECK_DEADLOCK FALSE
