SPECIFICATION Spec
CONSTANTS
  Keys = {k1, k2}
  MaxPackets = 5
  Fingers = {f1, f2, f3}
  NoFinger = NoFinger
  MouseModes = {"follow", "pointAndDrag"}
  Pads <- SomePads
  Nobody = Nobody
  Mapped <- SomePads
  MaxMessages = 3
  MaxTimers = 3
  Modals <- SomeModals
  Kind <- KindOf
  NoModal = NoModal
  Exits = {e1, e2}
  MaxAsks = 6
  FallbackAfter = 4
  DialogAfter = 6
  CheckEvery = 2
  Off = Off
  MaxSince = 11
  FormTexts = {ta, tb}
  Empty = Empty
  Unchanged = Unchanged
  MaxReads = 2
  BufferTexts <- SomeTexts
  Deltas <- SomeDeltas
  MaxFields = 16
  Listeners = 2
INVARIANTS
  TypesOK
  InputMatches
  ControlsInReach
PROPERTIES
  ToggleSettles
  SentAsShown
\* a page that was left and a form that was sent stop
CHECK_DEADLOCK FALSE
