SPECIFICATION Spec
CONSTANTS
  Exits = {e1, e2}
  MaxAsks = 6
  FallbackAfter = 4
  DialogAfter = 6
  CheckEvery = 2
  Off = Off
  MaxSince = 11
INVARIANT StuckAsks
\* a page that was left stops
CHECK_DEADLOCK FALSE
