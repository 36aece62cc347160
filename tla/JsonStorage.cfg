SPECIFICATION FairSpec
CONSTANTS
  Users = {u1, u2}
  Hosts = {host}
  NoUser = NoUser
  Requests = {r1}
  MaxVersion = 2
INVARIANT
  FileKeepsUp
PROPERTIES
  FileNeverGoesBack
  EventuallySaved
\* a server whose file was torn by a crash does not start again
CHECK_DEADLOCK FALSE
