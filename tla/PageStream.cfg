SPECIFICATION Spec
CONSTANTS
  CheckAfter = 5
  PoorAfter = 3
  LostAfter = 15
  Never = Never
  MaxTime = 17
  SignallingTracks = {a, v}
  MaxCandidates = 1
  MaxMessages = 3
  InboundMaxPictures = 3
  Backlog = 2
  MaxUnits = 6
  Codecs = {H264, AV1}
  H264 = H264
  Browsers <- SomeBrowsers
  WorkerMaxPictures = 4
  TargetLatency = 12
  MaxLatency = 25
  Duration = 2
  Unset = Unset
  Slack = 3
  MaxTransports = 2
  MaxToggles = 5
  MaxPlayers = 3
  ElementTracks = {t1, t2}
  Generated = Generated
  NoTrack = NoTrack
  LastDelay = 6
  MaxTroubles = 3
  Lines = 5
  Users = {u1, u2}
  Initial = {u1}
  Nobody = Nobody
INVARIANTS
  TypesOK
  SetUpSound
  PicturesInOrder
  PlayersFit
  PortalIsRight
PROPERTIES
  EverythingIsUsed
\* a stream that was destroyed and a page that was left stop
CHECK_DEADLOCK FALSE
