# A TLA+ model of moonlight-web-stream

moonlight-web-stream lets a browser play games that run on a Sunshine or
GameStream host. A web server serves the page, keeps users and hosts, and starts
one *streamer* process per session; the streamer speaks the Moonlight protocol
with the host through `moonlight-common-c` and hands picture, sound and input over
to the browser by WebRTC or by frames on a Web Socket.

This directory models the parts of the program where tasks, threads and processes
meet: what is checked with TLC on small instances, and what is proved with TLAPS
for every value of the constants. Paths are given below `src/` of the repository;
`PROJECT.json` maps every definition to the lines it stands for.

Contents: [the system](#the-system) · [the modules](#the-modules) ·
[runs](#the-runs) · [bounds](#bounds) · [fairness](#fairness) ·
[disagreements](#where-the-code-and-its-comments-disagree) · [proofs](#the-proofs) ·
[not modelled](#what-is-not-modelled) · [plan](#plan)

## The system

```
 browser (TypeScript)                 web server (Rust, actix)             streamer process (Rust, tokio)
 ┌───────────────────┐  Web Socket   ┌─────────────────────┐ stdin/stdout ┌──────────────────────────────┐
 │ stream/index.ts   │<------------->│ api/stream.rs       │<------------>│ main.rs: StreamConnection    │
 │ transports, input │               │ two tasks per stream│   ipc.rs     │ transports, event loops      │
 │ pipelines, stats  │  HTTP         │ app/: users, hosts  │              │ moonlight-common/src/stream  │
 │ pages             │<------------->│ storage/json: file  │              │ moonlight-common-c (threads) │
 └───────────────────┘               └─────────────────────┘              └──────────────────────────────┘
          ^            WebRTC: data channels, RTP, RTCP                                  ^     | host
          └───────────────────────────────────────────────────────────────────────────────┘
```

### Inventory

| Component | State it keeps | Operations | Talks to | What is hard | Correct when |
|---|---|---|---|---|---|
| **Moonlight connection** `moonlight-common/src/stream/{mod,connection,video,audio}.rs` | `connection_exists` behind a mutex, three global listeners | `start`, `stop`, `Drop`, callbacks | the C library, whose threads call back at any time | the flag is only locked for test-and-set in `start` but for all of `Drop`; listeners are installed without it; `Drop` waits for threads that wait for the listener locks | one owner, no callback on an empty or foreign listener, a dropped handle always closes |
| **Delayed termination** `streamer/src/main.rs:764`, `transport/webrtc/mod.rs:589` | an optional instant; sleeping tasks | request, withdraw, wake | session, WebRTC peer | tasks are never cancelled; old ones meet renewed requests | never early, never forgotten |
| **Streamer session** `streamer/src/main.rs` | transport sender, stored stream, host lock, `is_terminating` | `set_transport`, `start_stream`, `stop`, event loops | everything in the process | five kinds of tasks share it; `stop` runs in whichever comes first | no connection is lost or used after it was taken, `stop` is final and ends the process |
| **WebRTC video** `transport/webrtc/{video,sender}.rs` | a bounded queue of frames, `needs_idr` | decode callback, sample sender, RTCP | library thread, tokio task, browser | refusal and recovery, notifications that leave nothing behind, weak atomics | what the browser gets can be decoded, what was dropped is asked for again |
| **Server side of a stream, IPC** `web-server/src/api/stream.rs`, `common/src/ipc.rs` | two tasks, two pipes, the child process | first message, set-up, launch, configure, forward, clean up | browser and streamer | the second task runs before Init is sent; either end may vanish any time; full pipes | Init first, both directions in order, nothing outlives the streamer |
| **Storage** `web-server/src/app/storage/json/mod.rs` | maps of users and hosts behind locks, a channel of capacity one, the file | add/modify/remove, `force_write`, `file_writer`, `load` | requests, the file system | the copy is taken entry by entry while requests go on; notices are coalesced; crash inside a write | no change forgotten, the file consistent and never older |
| **WebRTC peer, signalling, channels** `transport/webrtc/mod.rs`, `web/stream/transport/webrtc.ts` | peer connections and their descriptions, data channels, own termination timer | offer/answer, candidates, channel set-up | browser, session | both sides offer, messages are handled without waiting, tracks and channels come before or after who wants them | both ends settle on one description with every track; what arrives is handled |
| **Web Socket transport** `transport/web_socket/mod.rs`, `web/stream/transport/web_socket.ts` | one buffer for all channels; round-trip times | send and take frames | web server | the buffer is shared with whoever listens | a message is what was sent |
| **H.264/H.265 readers, payloaders** `transport/webrtc/video/**` | parser state | Annex B splitting, NAL headers, fragmentation | video | boundaries | fragments rebuild the NAL unit |
| **Statistics, decoders** `streamer/src/{video,audio}.rs` | window of frame times | add a frame | video, audio | reset of the window | averages are of the window |
| **Packet buffer** `streamer/src/buffer.rs` | position, limit | put/get, flip, reset | every transport | bounds, UTF-8 lengths | what was put is what is got |
| **Accounts, sessions, first login** `web-server/src/app/{mod,user,auth}.rs`, `api/auth.rs` | users, sessions, roles | login, logout, add/patch/delete user | storage | look-ups outside the lock; the first login | one administrator at first, no name twice |
| **Hosts** `web-server/src/app/host.rs`, `api/mod.rs` | owner, pair info, cached state and images | add, patch, pair, delete, list, image | storage, the host over HTTP | ownership read twice | a request acts only for its user |
| **Streamed responses** `web-server/src/api/response_streaming.rs`, `web/api.ts` | a channel into a body; text not yet split | send, read, end | pairing, host list | chunks cut anywhere | whole lines, in order, all of them |
| **Pairing and host API** `moonlight-common/src/{pair,high}.rs`, `network/**` | phases of the pairing, cached host info | five phases, HTTP requests | the host | order of the phases | only a host that knows the PIN is paired |
| **Browser: viewer page and reconnect** `web/stream.ts` | the current Stream, `reconnecting`, attempts, window, timer, `permanentFailureShown`, the dialog, `navigatingHome` | begin, schedule, attempt, success, give up, retry, navigate home | Streams, the backend, the user | attempts wait three times and are never cancelled; destroyed Streams still report; a listener asks the backend meanwhile | one Stream at a time, what recovered is kept, an outage is settled within the window |
| **Browser: full screen and pointer lock** `web/stream.ts`, `component/sidebar/index.ts` | the browser's two modes, the mouse mode and the one to go back to, sidebar, guide | key combination, button, prompt; events | the browser | three flows, each waiting several times, and a user who may take either mode away | the mouse is relative only while locked, there is a way out, a switch ends |
| **Browser: dialogs** `component/modal/**` | one abort controller, one overlay, one mounted modal | `showModal`, `close` | every page | what follows an `await` acts on whatever is current by then | what is shown is awaited |
| **Browser: leaving a stream** `web/stream.ts` | status, two timers, an interval | game exit, `navigateHome`, recovery | the backend, the browser | timers that look at a status | a page that is stuck asks |
| **Browser: forms** `component/input.ts`, `modal/{form,login}.ts`, `user/*.ts` | values, boxes, reads of files | change, tick, submit | the server | a file is read later | what is shown is sent |
| **Browser: keys, pointer, gamepads** `stream/{input,gamepad,keyboard}.ts` | pressed keys, fingers and their gesture, slots of pads, rumble | DOM events, intervals | channels, host | missed releases, gestures that change, numbers that are used again | the host holds what the user holds |
| **Browser: set-up and fallback** `web/stream/index.ts`, `transport/*.ts` | transport in use, flow, pipelines | try WebRTC, try Web Socket, start, destroy | streamer through the server | the peer reports while the flow waits | one stream, both sides on one transport |
| **Browser: connection monitoring** `web/stream/index.ts` | state of the peer, a check, timers nobody stops | changes of the peer, due timers | viewer page | flapping | a loss is watched, and given up no sooner than said |
| **Browser: decoding and drawing** `stream/video/**` | queue before the set-up, translators, the decoder's queue, a frame | submit, set up, fail, reset, draw | channels, host | the set-up waits; decoders fail and fall behind | no hole, no flood of key-frame requests |
| **Browser: pipelines, workers** `stream/pipeline/**`, `{video,audio}/pipeline.ts` | what the browser can do, tables, a worker | ask, search, build; post | set-up | probes that fail, messages that cross | what is built works |
| **Browser: sound, media elements** `stream/audio/**`, `video_element.ts` | play time, libopus, user interaction, tracks | packets, touches, tracks, clean up | channels | set-up behind packets; listeners that stay | heard once ready, no lag, only the current player plays |
| **Browser: statistics** `stream/stats.ts` | channel, listeners, interval | toggle, change of transport | transports | listeners that are never removed | those of the transport in use |
| **Browser: start page** `web/index.ts`, `web/api.ts`, `api/auth.rs` | attempt, cookie | authenticate, log in, list hosts | server | a cookie of a server that was restarted | gets to the stream, asks only who must log in |
| **Browser: administration** `web/admin.ts`, `component/**` | list, filter, elements | list, add, delete, search | server | answers in any order | the list is the one the administrator made |
| **FFI, sample client, build** `moonlight-common-sys`, `moonlight-client-simple` | none of their own | | | | |

The hazards of each, line by line, are in `PROJECT.json` with the property that
covers them, or the reason why none does yet.

## The modules

```
  StreamSlot <──implements── MoonlightConnection ─┐
      │ INSTANCE                                  ├ MCConnectionTimer    ConnectionTimerProofs
      v                                           │
  StreamerSession <──INSTANCE── TerminateTimer ───┤                      TerminateTimerProofs
                                                  └ MCStreamerSession    StreamerSessionProofs
  WebRtcVideo, ServerStream ──────────────────────── MCVideoServer       VideoServerProofs
  JsonStorage ────────────────────────────────────── MCJsonStorage       JsonStorageProofs
  ViewerReconnect ────────────────────────────────── MCViewerReconnect   ViewerReconnectProofs

  DataChannel <── KeyboardInput, GamepadInput ─┐
  PointerInput, ImmersiveMode, Modals,         ├──── MCPageInput         PageInputProofs
  LeavingPage (MCLeavingPage), Forms,          │
  MessageBuffers ──────────────────────────────┘
  StreamSetup, ConnectionMonitor, Signalling, ─┐
  InboundChannels, VideoDecoding,              │
  RenderPipelines, WorkerPipeline,             ├──── MCPageStream        PageStreamProofs
  AudioPlayback, StreamStats, MediaElements,   │
  PortalStartup, StreamedResponse, AdminUsers ─┘
```

Four `MC` modules run several modules that share no state: `part` is chosen at the start
and says which of them a behaviour is about, the others stay at one of their initial
states. The invariants are the conjunction of those of the parts, a liveness property is
`part = "x" => ...`, and the fairness of each module is restated there for its part, since
a run needs its actions in its own next-state relation. The states of such a run are the
sum, not the product, of those of its parts. (`WF_xVars(part = "x" /\ A)` instead of
`WF_vars(A)` is what makes the fairness of one part silent about the others.)

Operators marked `Faulty` are not part of any specification: each is a plausible
mistake in the operator that follows it, kept to show that the properties notice.

**StreamSlot** is the promise of `MoonlightStream::start`, in three actions: the
process has one slot, an attempt takes it or is refused, and only its owner frees it.

**MoonlightConnection** is the code behind that promise. `exists` is the boolean in
`connection_exists`, `guard` the holder of its mutex, `phase[h]` the program counter
of a start attempt and of the handle it becomes, `step[h]` the position in the
sequence that installs or clears the three global `listener`s, and `native[i]`
whether the library may call slot `i` and whether it is inside it. `Claim` is the
test-and-set of `start` with its early return; `Install`, `StartConnection`,
`StartReturns` follow, the last with the error return that drops the half-built
handle; `Stop`, `StopConnection`, `StopReturns`, `Clear`, `Release` are `stop` and
`Drop`. The C library is external: it calls back while it has the callbacks, joins
its decoder threads before `LiStopConnection` returns, and runs
`connection_terminated` on a thread of its own that may outlast it.

**TerminateTimer** is `request_terminate`, `clear_terminate_request` and the tasks
they leave asleep. Time is in ticks; an age above the sleep is not told apart.

**StreamerSession** composes both: `StreamConnection` with its receiver
(`RecvSetTransport` … `RecvEnds`), the transports and their event loops
(`CloseReplaced`, `Peer…`, `Loop…`), the `start_stream` tasks (`TakeOldStream`,
`LockHost`, `Launch`, `Started`, `Store`, `StopAfterFailure`), the blocking threads
(`StopConnection`), and `stop` (`StopTakesStream` … `StopNotifies`). The locks of
`timeout_terminate_request` and `transport_sender` are the guards `RequestUnlocked`
and `SenderUnlocked`: a task that has one across an `await` is exactly a task in a
certain `stopPc`. Uses of the Moonlight connection are the actions of `StreamSlot`.

**WebRtcVideo** is one video transport: `Submit`, `SendSamples`, `ClearQueue`,
`MarkNeedsIdr` and `Report…` are `send_decode_unit` on the library's thread;
`Poll`, `Wait`, `Write`, `PollOrphaned` the `sample_sender` task; `PictureLoss` the
RTCP reader. A frame is its number since the last IDR frame and whether it can be
decoded, that is, whether everything since that IDR frame was queued. Whether the
task still has the queue is `Holders`: it keeps a strong reference only while it is
about to wait.

**JsonStorage** is the storage. A user is a version number, a host its owner.
`AddUser`, `ModifyUser`, `RemoveUser` change a map and leave `ForceWrite` for a later
step of the same request; `ModifyHost` does both at once, as the code does. The writer
copies entry by entry (`CopyEntry`), holding the read locks of the maps: values may
change meanwhile, entries neither appear nor disappear. `Open` and `Written` are the
truncation and the write, between which `Crash` leaves a torn file that `Restart`
refuses.

**ServerStream** is one `/host/stream` request: the browser, the reader task
(`ReadInit` … `ReaderEnds`), the writer task (`WriteWs`, `WriterEof`, `CloseWs`,
`Kill`), and of the process what the server can see: the loop that waits for Init,
the order in which it takes and says things, and the ways it ends. A channel, the task
that drains it and the pipe behind it are one bounded queue.

**ViewerReconnect** is the page: `ViewerApp` with the Streams it creates. Each method of
the workflow is an operator of the same name (`BeginReconnect`, `Schedule`,
`OnReconnectSuccess`, `DeclarePermanentFailure`) that the handlers call; an attempt is
`PerformReconnectAttempt` (destroy the old Stream), `StartStream` half a second later and
`CheckAttempt` eight seconds after that, each with its own wait in `timer`, `settle[s]` and
`check[s]`, because attempts can overlap. `link[s]` is how far the transport of a Stream
has come; the operators with a Stream as parameter are its reports to `onInfo`. Time is in
ticks of those waits: `Tick` is disabled while something is due, and what is due in the
same tick runs in either order, except that the look comes first. `active` is what the
backend would answer a game exit listener that is asking (`checking`).

**DataChannel** is a value with operators and no state of its own: what an
`RTCDataChannel` was given, the queue of its wrapper, which is only emptied by the next
`send` after the opening, and the Web Socket variant, which never waits.

**KeyboardInput** follows a key from the user's finger to the host: `focus` says who sees
it (stream, overlay, another window), `pressedKeys` is the page's set, `channel` a
`DataChannel`, `host` what the host holds. `Leave` is the blur listener with its exception
for a change to full screen; `NewStream` the input of a stream that replaces another.
**PointerInput** is `onTouchStart/Update/Move/End` with the tracker, the action a gesture
has become, and the mouse buttons; distance is whether a click can still be meant.
**GamepadInput** relates `told` (pads the page was told of), `slots`, the messages to the
streamer and its `active_gamepads`, and rumble with its intervals.

**ImmersiveMode** has one program counter per flow (`toggle` for the key combination,
`sidebarFlow`, `prompt`), the browser's two modes, timers of transitions and the mouse
mode with the one to go back to. **Modals** separates a task from its microtasks: `GoOn`
runs what follows `await modal.onFinish`. **LeavingPage** is the way out with its timers,
in ticks of 500 ms. **Forms** keeps of an input its value, placeholder and box and of a
file read that it ends later. **MessageBuffers** has the two shared buffers and the packets
put together and given up in them.

**StreamSetup** is the flow of `startConnection` as a program counter, the peer, the Web
Socket, the wire to the streamer and the streamer's side of it. **ConnectionMonitor** is the
watch on a peer in seconds. **Signalling** has the two directions of messages, the page's
chain of peer operations (of the WebRTC standard, external), and descriptions as the set of
tracks they name. **InboundChannels** is what the page gets: tracks, channels and when
somebody listens. **VideoDecoding** numbers the units of a stream; what the decoder is
given is compared with what each unit needs. **RenderPipelines** has the tables as
sequences of records and searches them entry by entry, asking a browser out of `Browsers`.
**WorkerPipeline** is the two message queues between page and worker. **AudioPlayback** and
**MediaElements** are the players; **StreamStats** who listens to which transport.

**PortalStartup** composes `startApp` with `apiAuthenticate`, the routes `login` and
`authenticate` and the session middleware; the server may go down, restart without its
sessions and change its hosts. **StreamedResponse** cuts a text of halves of lines into
chunks. **AdminUsers** keeps the three lists of a `ListComponent` (unfiltered, filtered,
elements), the requests on their way and the open page of a user.

## The runs

| Run | Configuration | States | Shows |
|---|---|---|---|
| `connection_timer` | `ConnectionTimer.cfg` | 3,139 | three attempts racing: `ConnectionIsSafe` (one owner, a flag that tells the truth, callbacks that reach the owner's listener, none left behind), every drop closes (`DropCompletes`), `StreamSlot` implemented (`ImplementsSlot`); a request always has a task that will act on it (`PendingIsCovered`), no stale task acts on a renewed one (`NoEarlyStop`), and it is acted on (`RequestActedOn`) |
| `session_safety` | `StreamerSession_safety.cfg` | 1,260,456 | no connection is lost (`OwnerAccounted`), no transport after `stop` (`StopIsFinal`), a new transport gets the whole timeout (`NewTransportGetsGrace`) |
| `session_live` | `StreamerSession_live.cfg` | 62,942 | `stop` exits the process (`StopExits`), a lost WebRTC client ends it (`LostPeerEndsSession`), every start ends (`StartSettles`) |
| `video_server` | `VideoServer.cfg` | 115,584 | a break is being reported (`BrokenIsReported`), the queue keeps its limit and decodable frames leave without a gap (`QueueInOrder`), a break or a reported loss heals (`PictureHeals`); Init comes first and nothing of the browser is lost or reordered (`ClientIsHeard`), nor of the streamer (`StreamerOrder`), and the end of either side releases the other (`RequestEnds`) |
| `storage` | `JsonStorage.cfg` | 542,310 | every change is announced and the file names no unknown owner (`FileKeepsUp`), never gets older (`FileNeverGoesBack`), and has every change in the end (`EventuallySaved`) |
| `reconnect` | `ViewerReconnect.cfg` | 1,197,960 | one Stream at a time if retries are patient (`OneStream`), attempts never tear down what recovered (`RecoveredIsKept`), nothing is scheduled behind the dialog (`QuietBehindDialog`), an outage is settled (`OutageSettles`) |
| `page_input` | `PageInput.cfg` | 272,490 | the host is told what the user does (`InputMatches`: keys raised when leaving, drags held, clicks where touched, slots and rumble of pads, packets whole); nobody is locked in (`ControlsInReach`: mouse mode, sidebar, dialogs, a lost page that is stuck); the switch to full screen ends (`ToggleSettles`); a form sends what it shows (`SentAsShown`) |
| `page_stream` | `PageStream.cfg` | 90,855 | one stream over one transport, a watched peer, crossed offers that settle (`SetUpSound`); no hole and no flood of key-frame requests, also in a worker (`PicturesInOrder`); what is built works, only the current player plays, statistics follow, sound does not lag (`PlayersFit`); negotiations end, messages, pictures and sound are used, the portal opens (`EverythingIsUsed`); lines, users and log-in as the server says (`PortalIsRight`) |
| `session_restart`, `session_fallback`, `reconnect_overlap`, `leaving_stuck` | `StreamerSession_{restart,fallback}.cfg`, `ViewerReconnect_overlap.cfg`, `LeavingPage_stuck.cfg` | – | the four disagreements below |

`TypeOK` or `TypesOK` is the one type invariant of each passing run that has room for it.
Most configurations switch the deadlock check off, each with
the reason next to it: a process exits, a request is answered, a handle is used once.

### Bounds

- *MoonlightConnection*: three attempts. Two give the race of a start with a drop; the
  third is refused or follows while the first two are still at it.
- *TerminateTimer*: three requests, timeout and slack of two ticks each: a renewal can
  fall before the timeout, inside the slack, and after the task ran. Tasks are as many
  as requests because nobody ever cancels one.
- *StreamerSession*: one WebRTC and one Web Socket transport, two starts (safety) or one
  (liveness), one tick of timeout and of slack. A transport that is replaced, a start
  that meets an older one, and a timeout during either all occur; a third transport
  would only repeat the replacement.
- *WebRtcVideo*: one task (see below), a queue of two, numbers 1 to 4 reused
  cyclically, so a run is longer than the queue without being bounded; `MaxIdrs` limits
  the IDR frames queued at a time because the code does not.
- *JsonStorage*: two users, one host, one request on users at a time, two versions. Two
  users are needed for the copy to be torn between them and an owner. `MaxVersion`
  limits how often a user changes, which keeps identifiers and versions fresh.
- *ServerStream*: pipes of two, four messages of the browser (Init, one that fills, one
  that waits, one behind it), three of the streamer and its Stop. A running stream has
  no end of frames: beyond the bound they all carry the last number.

- *ViewerReconnect*: a window of twelve ticks has room for four attempts, more than there
  are delays, so the last delay is used again, the window ends both in a timer and in a
  look, and attempts overlap. Settling takes less than any delay but the first, and no
  delay is longer than the look, as in the code. Five Streams are enough because an unused
  one is taken again; all three settings of the transport are start states. `HastyRetry`
  says whether the user may click Retry before every earlier attempt has ended: `FALSE` in
  `reconnect`, where one Stream at a time then holds, `TRUE` in `reconnect_overlap`.

- *page_input*: two keys and five packets (press, repeat, raise, and one of each waiting for
  the channel); three fingers, as no gesture looks at a fourth; two pads, so that a slot can
  be taken by another one; two messages, a form, the information and the dialog as modals;
  texts that are a key, a character of two units, too long for their length byte and too
  long for the buffer; timers of the way out as long as the code's, in half seconds.
- *page_stream*: the monitor's times are the code's in seconds; two tracks of signalling, each
  with an offer of its own that crosses the page's; six units, more than a backlog, a key
  frame and its followers; browsers of different ages from one that can do nothing to
  one that can do everything (`SomeBrowsers`); latencies of the code in hundredths of a
  second; two transports, three players and two tracks, so that one is replaced while
  another one comes; five lines in chunks cut anywhere; two users, one of them there before.
- A separate bound is on each counter that a user or the network could drive for ever
  (`MaxToggles`, `MaxTroubles`, `MaxMessages`, `MaxReads`, ...): the comment next to the
  constant names what it limits.

`QueueInOrder` is about one task. A second `setup` on the same transport spawns a second
sample sender that takes frames from the same queue, and then no track has them all.

Some properties leave a case out on purpose, because the code does not promise it and no
comment says that it does; each exception is a variable or a condition named in the
property:

- `InputMatches`: who leaves the page while it changes to full screen (`spared`); a drag whose
  finger was forgotten by a change of settings (`abandoned`); rumble of a replaced stream's
  intervals, which nobody clears (`old`); a text behind a packet that was given up
  (`input.ts:216` does not reset the buffer); wheels beyond a byte and texts whose units are
  not their characters.
- `PortalIsRight`: chunks that bring the ends of two lines, after which `split("\n", 2)` loses
  the rest (`api.ts:178`); a list that arrives after the administrator changed something.
- `EverythingIsUsed`: packets of sound before the set-up, which silence the stream for good
  (`audio_decoder_pcm_pipe.ts:60`).

## Fairness

Fairness is what the runtimes give and nothing a user decides. tokio polls every task that
can go on, the operating system runs every thread, a library call that can return does,
and time passes: weak fairness of the corresponding actions. Strong fairness is used
where an action is disabled again and again by others:

- `StopConnection`, `StopReturns` and `Cleanup` of *MoonlightConnection* wait for a mutex
  or for a callback that other handles and threads keep taking;
- `ReportNeedIdr`: `compare_exchange_weak` may fail although the flag is set, but not
  every time;
- in `SteadyFairness` the host sends frames (weak) and, when it owes an IDR frame, that one
  (strong, since a frame is being sent most of the time); `PictureHeals`
  is a claim about a running stream;
- `SendFrame` of *ServerStream*: a running stream has frames, whenever the pipe has room.

- the browser runs the timers of the page and time passes (*ViewerReconnect*); `Tick` and
  `Timers` are disabled by nothing but the page being left, so weak fairness is enough.

- of the parts of *page_input* only *ImmersiveMode* has any: the browser answers what it is
  asked, and its timers run;
- of *page_stream*: a peer finds its candidates and reports what becomes of it
  (*StreamSetup*), what the browser has received it hands over and timers run
  (*InboundChannels*), posted messages are taken (*WorkerPipeline*), a running stream has
  sound (*AudioPlayback*), a request ends with API_TIMEOUT at the latest and delays pass
  (*PortalStartup*, whose property also assumes a server that is up for good in the end).

No start, stop, request, message, event of an input device or departure of a client is fair. *StreamerSession*
assumes that the peer of a client that has gone breaks, and that a broken peer that does
not recover is given up, which is what WebRTC's consent checks and the peer's own timer
do; *ServerStream* takes from it that a streamer whose peer is lost stops. The storage
only assumes that the writer and a request between its change and its `force_write` go on.

## Where the code and its comments disagree

1. **`FallbackSurvives`**. The browser says "Failed to establish WebRTC connection.
   Falling back to Web Socket transport." (`web/stream/index.ts:276`).
   `on_ipc_message` withdraws a termination request when the new transport is asked for
   (`main.rs:567`), but `set_transport` then closes the old transport in the background
   (`main.rs:343`), whose `Closed` event makes a new request. A WebRTC transport would
   withdraw it on connecting; a Web Socket transport never does, and the session is
   stopped a timeout later.
2. **`RestartWaitsForClose`**. "remove and wait for connection close firstly"
   (`main.rs:614`): the old stream is stopped by `spawn_blocking` and nobody waits, so
   the new start can meet it and fail with `ConnectionAlreadyExists`, which stops the
   session.
3. **`OneStream`** with `HastyRetry`. The page "owns: destroying the old Stream, creating a
   fresh one" (`web/stream.ts:675`). The eight seconds an attempt waits to look at its
   result are not cancelled when the window ends and the dialog is shown. If the user
   clicks Retry (`:833`) and the look falls into the half second in which the retry has
   destroyed the old Stream and not yet created the next (`:771`), it finds `reconnecting`
   set and schedules another attempt without delay. Both create a Stream; the second
   overwrites the first, which plays on and keeps a streamer busy.

4. **`StuckAsks`**. "If we're somehow still here after 2 seconds, show the recovery dialog
   instead of leaving the user on a frozen page." (`web/stream.ts:413`). The dialog waits
   for a timer of its own, and the interval next to it cancels that timer as soon as the
   status is "Ok" (`:1107`), which it is from the start unless the connection was poor. A page
   that is left in good order and does not go stays frozen. With a poor status it does
   ask, which `ControlsInReach` contains.

## The proofs

Eight modules hold theorems, each about the specification its run checks, with no bound on
any constant: every invariant and every action property of the passing runs is stated by a
theorem. What they assume is the named `ASSUME` of the module that declares the constants
(which TLC evaluates in the run):

- the empty Option is no handle, user, finger or track; a close is no start; a slack is
  positive; sizes and waits are natural numbers; there are delays and Streams;
- `PageInputConstants`: keys and pads are finite sets, the listener of a game exit asks at
  least once, and a shared buffer holds at least the longest packet (eight fields, a touch);
- `PageStreamConstants`: users are a finite set, the table of last resort is about a codec
  there is (H.264), the latency aimed at is no more than the one that is too much, and the
  streamer has two tracks at most. The last one is not a convenience: with three tracks
  TLC finds a page that settles on a description without the third, but `setup_video` and
  `setup_audio` make one each and nobody else makes any (`transport/webrtc/{video,audio}.rs`).

Three theorems have a hypothesis of their own, which the values of the code and of the run
satisfy: `OneStreamAlways` and `RecoveredAlwaysKept` are about a user who does not retry
while an attempt is under way, and delays that exceed the half second between two Streams,
but for the first (`PatientUser`; `reconnect_overlap` shows that the user matters);
`QueueAlwaysInOrder` is about the one task that `setup` spawns (`OneSender`), whereas
`QueueAlwaysBounded` and `BrokenAlwaysReported` hold for any number of them.

| Theorem | Says |
|---|---|
| `TypeCorrect`, `OneOwnerAlways`, `FlagAlwaysOwned`, `CallbacksSafe`, `HandedOverClean`, `ConnectionAlwaysSafe` | the invariants of *MoonlightConnection*, for any number of attempts; the last is their conjunction `ConnectionIsSafe` |
| `Refinement` | *MoonlightConnection* implements `StreamSlot` |
| `PendingAlwaysCovered`, `NeverEarly` | *TerminateTimer*, for any number of requests, timeout and slack |
| `EachBehavesAlone`, `BothTypes` (in `ConnectionTimerProofs` and in `VideoServerProofs`) | two modules side by side behave like each alone, and keep their types |
| `BrokenAlwaysReported`, `QueueAlwaysBounded`, `QueueAlwaysInOrder` | *WebRtcVideo*, for any queue; the first two for any number of tasks |
| `NothingForgotten`, `FileAlwaysConsistent`, `FileAlwaysKeepsUp`, `FileOnlyAdvances` | *JsonStorage*, for any users, hosts and requests |
| `InitAlwaysFirst`, `ClientAlwaysInOrder`, `ClientAlwaysHeard`, `StreamerAlwaysInOrder` | both directions of *ServerStream*, for any pipe and any number of messages |
| `TypeCorrect`, `OwnerNeverLost`, `StopAlwaysFinal`, `GraceAlwaysGiven` | *StreamerSession*, for any transports and starts, timeout and slack |
| `SessionUsesSlot`, `SessionUsesTimer` | every behaviour of *StreamerSession* is one of `StreamSlot` and one of *TerminateTimer* |
| `TimeoutAlwaysCovered`, `TimeoutNeverEarly` | so what is proved of *TerminateTimer* holds of the timeout of a session |
| `DialogIsQuiet`, `TypeCorrect`, `OneStreamAlways`, `RecoveredAlwaysKept` | *ViewerReconnect*, for any delays, waits, window and settings; the first two for any user |
| `InputTypes`, `HostIsToldWhatIsDone`, `WayOutStays`, `FormsSendWhatTheyShow` | the eight modules of *page_input*, for any keys, fingers, pads, modals, timers, texts and listeners |
| `StreamTypes`, `SettingUpIsSound`, `PicturesKeepTheirOrder`, `WhatPlaysFits`, `PagesShowWhatIs` | the thirteen modules of *page_stream*, for any times, messages, units, browsers, codecs, players, lines and users |
| `PageInputIsRight`, `PageStreamIsRight` | the inductive invariants behind these |

Each rests on an inductive invariant, `IInv` unless another name is given:

- *MoonlightConnection*. `OneOwner` is not inductive: that a start cannot collide with a
  drop needs `FlagMeansOwned`, and that a callback finds its listener needs to know which
  slots are already installed or cleared (`StepCountsSlots`), that the library only holds
  slots of the owner (`NativeHasListener`) and who has the mutex (`GuardHeldByDrop`).
  `Refinement` then maps each action to `Take`, `Refuse`, `Release` or a stutter.
- *TerminateTimer*. `RequestIsLatest` (no sleeping task is younger than the request) and
  `PendingIsCovered` (one is no older) pin the request to the youngest task, which is why
  age alone tells stale tasks apart.
- *WebRtcVideo*. `Reported` follows the refused frame through clearing and marking to the
  result; it needs `CurrentKnown`, that the frame being sent was built from the present
  state of the chain. `QueueInOrder` needs `NoGap`: each frame in the queue that can be
  decoded comes right after the one before it, the first one after what the task holds or
  has written, and the last one is where the host goes on, so that a frame that was dropped
  or cleared is followed by frames that cannot be decoded until there is an IDR frame. The
  limit of the queue needs `IdrsFirst`: what may not be refused is in front of what may.
- *JsonStorage*. `Announced` compares the maps not with the file but with what the file
  *will* hold once the writer has finished; `CopyInv` says that the copy lies between the
  file and the maps, and that a user who was copied as missing cannot own a copied host.
  That last part holds because of the lock on adding users during a copy.
- *ServerStream*. Messages carry their numbers; `Numbered` says both queues are gap-free
  and that only number one is Init, `Progress` ties the reader's position to what has been
  taken and forwarded, `NotBeforeInit` says that the process has taken nothing before.
  The other direction has `OInv`: what is on the way follows what the browser has seen
  number by number (`UpToDate`, `Consecutive`), Stop is the last message, and the writer
  leaves its loop because of it or of a process that is gone (`ClosedByStop`). An exit in
  between leaves a prefix, which keeps all of it.
- *StreamerSession*. The types are kept group by group. `OwnerAccounted` would break if a
  second task began with a start another one has finished; `Queued` says that a start in an
  event channel has been sent and not begun, and waits there once. `StopFinal` adds to
  `StopIsFinal` that the process is gone when `stop` is done, and `Young` ties the age of
  a pending request to the grace of the newest transport. `SlotUse` and `TimerUse` go through
  the actions once more: each takes one step of the slot and of the timer, or none. With
  `Refinement` on the other side this ties the session to *MoonlightConnection*; and the
  theorems of *TerminateTimer*, instantiated (`Proved`), hold of the session.
- *ViewerReconnect*. `QuietBehindDialog` says nothing of a dialog that another one took
  away, or of a timer without anybody reconnecting: `Scheduled` ties the timer to
  `reconnecting`, and `GivenUp` ties both dialogs to `permanentFailureShown`, which makes
  every report of a Stream behind the dialog return early. The types need that `Tick`
  runs no wait past its end. `OneStream` needs `SettlesAlone`: while an attempt waits to
  create its Stream there is none to report anything, so only the look of an older attempt
  can schedule one more; that one is not the first of its outage, and its delay is longer.
  `RecoveredIsKept` is about steps: `RInv` says that the Stream is in trouble while anybody
  reconnects, which for the first Stream, whose ConnectionComplete counts as no success,
  means that its peer has failed.

The parts of *page_input* and *page_stream* share no state. Each has an invariant of its
own that its steps keep, and `OnePartMoves` and the lemmas behind it make their conjunction
(`PageInputInv`, `PageStreamInv`) the invariant of the whole. What the properties leave
open and the parts need:

- *KeyboardInput*. That no key stays down is a promise about the end of a channel: `PageKnows`
  says of `HeldIn`, what the host will hold once all packets on their way have come, that the
  page believes each of those keys pressed, and that a page without the focus believes none.
- *PointerInput*. `AimedInTime` ties the place that was sent to the three ways in which a
  gesture stops being a click. *GamepadInput*. `Seats`: a pad has one place however many
  came and went before; `WrittenDown` says who waits for the connection, and `Rumbles` that
  only the pad in place 0 can rumble, as no other's interval is ever entered.
- *ImmersiveMode*. `TimersFit` counts the transitions under way whose timer is still to come.
  *Modals*. `OneModal` says in the middle of an `await` what `ControlsInReach` says at its end.
  *LeavingPage*. `TimersOrDialog`: on a lost page one of two timers runs, or the dialog is
  shown. *Forms*. `StandFor` ties boxes and placeholders to the values they are made from.
- *MessageBuffers*. `WellFilled`: a buffer that was sent begins at its start, so that a
  packet is whole although the buffer still has the rest of a longer one; `WhatIsHeard` is
  about the listeners that all read the same buffer.
- *StreamSetup*. One flow follows from Init being sent and taken once (`OneFlow`); `SidesAgree`
  compares the flow with what the streamer *will* use when it has read the wire, and
  `MediaFit` the pipelines with that.
- *ConnectionMonitor*. `NotTooLong`: what is written down of an outage is forgotten on every
  connection, so it is never longer than the outage, whatever the flapping.
- *Signalling*. `LastIsFull` follows the offer with all tracks from the streamer's task over
  the wire and the page's chain to what the page has heard; it holds because before the last
  track is added one offer or answer at most is anywhere (`Alone`). `Unsettled` says that
  somebody who is not settled has something to hear; `CandidatesFollow` that candidates stay
  behind the answer they belong to.
- *VideoDecoding*. What the decoder may be given next is a property of its queue, of the units
  that wait and of the two flags together (`PipeSound`, with `TranslatedSound` and
  `InBandSound` for the two kinds of stream); a backlog is worked off by a fold, and the
  lemma about one unit is carried along it.
- *WorkerPipeline*. `OnItsWay` says exactly what the queue to the worker holds: the pipeline,
  the canvas, then the inputs by number. *RenderPipelines*. `Passed`: the entries before the
  present one cannot be built, which makes the one that is found the first, and an error an
  answer to the whole table. *InboundChannels* counts: what was sent is handled or on its
  way, what was made is shown or waits. *MediaElements*. A player not in use is silent.
- *StreamedResponse*. `NothingIsTorn` gives each half of a line and each line end its place in
  the text: lines returned, then less than a line, then what is on its way; a place is
  compared with `TextAt`, whatever the pieces are. *AdminUsers*. `ListFollowsServer` compares
  the list with `Known`, the users of the server and the changes whose answers are still to
  come; `AddingAndDeleting` excludes that one user is both. The list on the screen is a
  filter of that, and `EachHasItsLi` says that element and user belong together.

Filters, folds and searches are written as recursive functions or with operators of the
library, whose definitions by cases the provers can unfold once. What they compute for
every input is proved where it is needed by the least number for which it would fail
(`Least`, from the well-founded order of the numbers), which takes the place of induction:
the filters of *WebRtcVideo* and *AdminUsers*, the fold of *GamepadInput* over the pads that
came before the connection and that of *VideoDecoding* over its backlog, and the removal of
an element in *AdminUsers*.

**Only model-checked**: the eleven liveness properties, because the prover has no `ENABLED`
and so no fairness: `DropCompletes`, `RequestActedOn`, `StopExits`, `LostPeerEndsSession`,
`StartSettles`, `PictureHeals`, `RequestEnds`, `EventuallySaved`, `OutageSettles`,
`ToggleSettles` and `EverythingIsUsed`. The four disagreements are counterexamples.

## What is not modelled

- Of the streamer's inbound packets those the page's modules do not follow to their end
  (text, cursor and clipboard), and statistics of either side.
- The capacity of the event channels between the session's tasks (20); see the deadlock hazard
  at `main.rs:773`.
- Content: codecs, RTP, XML, cryptography, configuration files, HTML.
- The end of stdin while the streamer waits for Init: the web server would have to die
  between launching and configuring.
- Of the viewer page: a page the browser has suspended; the grace timer, which only
  `onConnectionPoor` starts and nobody calls; the splash screen, toasts and onboarding;
  the two seconds after which `navigateHome` offers to reload. A dialog that another modal
  takes away is modelled (`OtherModal`): its promise never resolves,
  `permanentFailureShown` stays set, and the page does not reconnect again.
- The end of an orphaned sample sender: `sender.rs:184` logs "stopping to submit samples",
  but the loop continues without an `await` (`PollAgain`).
- `cancel_host` and malformed lines on the pipe.
- What drops a notification in `sender.rs:189`: a frame that is queued between the look at
  the empty queue and the wait leaves with the next one, not at once.
- The page of hosts and games (`index.ts` 1–432 is commented out), sliders and settings,
  WebGL and YUV drawing, and the numbers in statistics.
- Bindings to C, the sample client, build scripts, generated code (`libopus.js`) and tables
  (`translation.ts`, `keyboard.ts`, `convert.rs`).

## Plan

All modules in the diagram above are done. What would follow, by importance:

1. **Accounts** – users, sessions and hosts inside the server: first login
   (`app/mod.rs:173`), `add_user` between look-up and insert (`json/mod.rs:264`), removal
   of a user in use, owner changes racing with `patch_host` and `pair_host`
   (`host.rs:118`), composed with *JsonStorage*. Candidates for disagreement: "No duplicate
   names are allowed!" (`storage/mod.rs:111`), "only this user exists" (`app/mod.rs:197`).
2. **SessionLocks** – the bounded channels and locks that *StreamerSession* leaves out, and
   the four-party wait at `main.rs:773`.
3. **HostState** – host info and image caches (`host.rs`, `high.rs`) and deletion.
4. **Media** – `annexb.rs`, the readers and `ByteBuffer` as functions over short sequences
   against reference definitions; **RoundTrip**, the `u16` of the Web Socket transport.
5. More proofs: that the timeout of a WebRTC peer (`webrtc/mod.rs`), which *StreamerSession*
   only knows by its outcome, is a *TerminateTimer* too.
