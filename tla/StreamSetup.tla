----------------------------- MODULE StreamSetup -----------------------------
(***************************************************************************)
(* How one Stream of the page comes to run: web/stream/index.ts with the   *)
(* two transports of web/stream/transport, against the streamer behind one *)
(* Web Socket.                                                             *)
(*                                                                         *)
(* startConnection is one asynchronous flow.  It tries WebRTC, waits for   *)
(* the peer, looks for what can show the video and play the audio, sends   *)
(* StartStream and then only waits for the transport to close; if WebRTC   *)
(* fails before it was ever connected, "auto" does the same again over the *)
(* Web Socket.  While the flow waits, the peer reports what it wants, and  *)
(* the viewer may destroy the Stream, which does not stop the flow.        *)
(*                                                                         *)
(* Left out: which codecs there are and what is logged; the offers and     *)
(* candidates, which Signalling models, are one answer of the streamer     *)
(* here; the watch on the peer is ConnectionMonitor.                       *)
(***************************************************************************)
EXTENDS Sequences, FiniteSetsExt

VARIABLES
    dataTransport,  \* settings.dataTransport
    ws,             \* readyState of the Web Socket
    wsSendBuffer,   \* messages that wait for it to open
    wire,           \* messages on their way to the streamer
    inbox,          \* messages on their way to the page
    remote,         \* the transport of the streamer, and whether it streams
    transport,      \* the Stream's transport
    path,           \* the transport the flow works on, which a destroyed Stream has no more
    peer,           \* the RTCPeerConnection: its connectionState
    ice,            \* iceConnectionState has left "new"
    gathered,       \* iceGatheringState is "complete"
    wasConnected,   \* WebRTCTransport.wasConnected
    flow,           \* where startConnection waits
    video, audio,   \* createVideoRenderer and createAudioPlayer
    renderer,       \* videoRenderer: mounted for a track or for data
    player,         \* audioPlayer
    destroyed       \* destroy was called

socketVars == <<ws, wsSendBuffer, wire>>
remoteVars == <<inbox, remote>>
peerVars == <<peer, ice, gathered, wasConnected>>
mediaVars == <<video, audio, renderer, player>>
flowVars == <<transport, path, flow>>
vars == <<dataTransport, socketVars, remoteVars, flowVars, peerVars, mediaVars, destroyed>>

Transports == {"webrtc", "websocket"}
Messages == {"Init", "webrtc", "websocket", "StartStream"}
Pipes == {"none", "videotrack", "data"}

TypeOK ==
    /\ dataTransport \in Transports \cup {"auto"}
    /\ ws \in {"connecting", "open", "closed"}
    /\ wsSendBuffer \in Seq(Messages) /\ wire \in Seq(Messages)
    /\ inbox \in Seq({"Setup", "WebRtc", "ConnectionComplete"})
    /\ remote \in [transport : Transports \cup {"none"}, streams : 0..2]
    /\ transport \in Transports \cup {"none"} /\ path \in Transports \cup {"none"}
    /\ peer \in {"none", "new", "connecting", "connected", "disconnected", "failed", "closed"}
    /\ ice \in BOOLEAN /\ gathered \in BOOLEAN /\ wasConnected \in BOOLEAN
    /\ flow \in {"idle", "negotiating", "probing", "building", "running", "over"}
    /\ video \in {"idle", "support", "building", "done", "failed", "threw"}
    /\ audio \in {"idle", "building", "done"}
    /\ renderer \in Pipes /\ player \in Pipes
    /\ destroyed \in BOOLEAN

\* The constructor sends Init at once, before the socket is open.
Init ==
    /\ dataTransport \in Transports \cup {"auto"}
    /\ ws = "connecting" /\ wsSendBuffer = <<"Init">> /\ wire = <<>>
    /\ inbox = <<>> /\ remote = [transport |-> "none", streams |-> 0]
    /\ transport = "none" /\ path = "none" /\ flow = "idle"
    /\ peer = "none" /\ ice = FALSE /\ gathered = FALSE /\ wasConnected = FALSE
    /\ video = "idle" /\ audio = "idle" /\ renderer = "none" /\ player = "none"
    /\ destroyed = FALSE

-----------------------------------------------------------------------------
(* The Web Socket *)

\* sendWsMessage
SendWsMessage(m) ==
    IF ws = "open" THEN wire' = Append(wire, m) /\ UNCHANGED <<ws, wsSendBuffer>>
                   ELSE wsSendBuffer' = Append(wsSendBuffer, m) /\ UNCHANGED <<ws, wire>>

OnWsOpen ==
    /\ ws = "connecting"
    /\ ws' = "open"
    /\ wire' = wire \o wsSendBuffer
    /\ wsSendBuffer' = <<>>
    /\ UNCHANGED <<dataTransport, remoteVars, flowVars, peerVars, mediaVars, destroyed>>

-----------------------------------------------------------------------------
(* The flow *)

\* What a channel of a transport carries the picture and the sound as.
PipeOf(t) == IF t = "webrtc" THEN "videotrack" ELSE "data"

\* tryWebSocketTransport up to its first await.
TryWebSocket ==
    /\ SendWsMessage("websocket")
    /\ transport' = "websocket" /\ path' = "websocket"
    /\ flow' = "probing"

\* tryWebRTCTransport is over, with "failednoconnect" or not.
EndWebRtc(noconnect) ==
    IF noconnect /\ dataTransport = "auto"
    THEN TryWebSocket
    ELSE /\ flow' = "over"
         /\ UNCHANGED <<transport, path, socketVars>>

\* Setup: startConnection up to its first await, the one for the peer or for the pipes.
Setup ==
    /\ inbox # <<>> /\ Head(inbox) = "Setup"
    /\ inbox' = Tail(inbox)
    /\ IF dataTransport = "websocket"
       THEN TryWebSocket /\ UNCHANGED peer
       ELSE /\ SendWsMessage("webrtc")
            /\ transport' = "webrtc" /\ path' = "webrtc"
            /\ flow' = "negotiating"
            /\ peer' = "new"
    /\ UNCHANGED <<dataTransport, remote, ice, gathered, wasConnected, mediaVars, destroyed>>

\* createVideoRenderer and createAudioPlayer first clean up what is there.
CleanUpOld ==
    /\ renderer' = "none" /\ player' = "none"

\* createPipelines: both are asked for at once.  Without a transport, or without a codec that
\* was asked for, nothing is looked for.
CreatePipelines(codec) ==
    /\ flow = "probing"
    /\ flow' = "building"
    /\ CleanUpOld
    /\ video' = IF transport # "none" /\ codec THEN "support" ELSE "failed"
    /\ audio' = IF transport # "none" THEN "building" ELSE "done"
    /\ UNCHANGED <<dataTransport, socketVars, remoteVars, transport, path, peerVars, destroyed>>

\* The codecs of the transport are known; a Stream that was destroyed meanwhile has no
\* transport to get the channel from.
VideoSupport ==
    /\ video = "support"
    /\ video' = IF transport = "none" THEN "threw" ELSE "building"
    /\ UNCHANGED <<dataTransport, socketVars, remoteVars, flowVars, peerVars, audio, renderer,
                   player, destroyed>>

\* buildVideoPipeline is over: what it has built is mounted.
VideoBuilt(ok) ==
    /\ video = "building"
    /\ video' = IF ok THEN "done" ELSE "failed"
    /\ renderer' = IF ok THEN PipeOf(path) ELSE renderer
    /\ UNCHANGED <<dataTransport, socketVars, remoteVars, flowVars, peerVars, audio, player,
                   destroyed>>

AudioBuilt(ok) ==
    /\ audio = "building"
    /\ audio' = "done"
    /\ player' = IF ok THEN PipeOf(path) ELSE player
    /\ UNCHANGED <<dataTransport, socketVars, remoteVars, flowVars, peerVars, video, renderer,
                   destroyed>>

PipelinesDone == video \in {"done", "failed"} /\ audio = "done"

\* createPipelines has a codec: startStream, and from now on the end of the transport counts.
StartStream ==
    /\ flow = "building" /\ PipelinesDone /\ video = "done"
    /\ SendWsMessage("StartStream")
    /\ flow' = "running"
    /\ video' = "idle" /\ audio' = "idle"
    /\ UNCHANGED <<dataTransport, remoteVars, transport, path, peerVars, renderer, player,
                   destroyed>>

\* It has none: the peer is closed and the flow falls back, or gives up.
NoPipeline ==
    /\ flow = "building" /\ PipelinesDone /\ video = "failed"
    /\ video' = "idle" /\ audio' = "idle"
    /\ IF path = "webrtc" /\ dataTransport = "auto"
       THEN TryWebSocket
       ELSE flow' = "over" /\ UNCHANGED <<transport, path, socketVars>>
    /\ peer' = IF path = "webrtc" THEN "closed" ELSE peer
    /\ UNCHANGED <<dataTransport, remoteVars, ice, gathered, wasConnected, renderer, player,
                   destroyed>>

\* The flow ends with what createVideoRenderer has thrown.
PipelineThrew ==
    /\ flow = "building" /\ video = "threw"
    /\ flow' = "over" /\ video' = "idle"
    /\ UNCHANGED <<dataTransport, socketVars, remoteVars, transport, path, peerVars, audio,
                   renderer, player, destroyed>>

-----------------------------------------------------------------------------
(* The peer *)

PeerReports == peer \notin {"none", "closed"}

\* onclose of the transport: while the flow waits for the peer, it has failed; once the
\* stream was started, the flow is over; in between nobody listens.
OnClose(noconnect) ==
    CASE flow = "negotiating" -> EndWebRtc(TRUE)
      [] flow = "running" /\ path = "webrtc" -> EndWebRtc(noconnect)
      [] flow \notin {"negotiating", "running"} \/ (flow = "running" /\ path # "webrtc") ->
            UNCHANGED <<flowVars, socketVars>>

ConnectedRemembered == wasConnected' = TRUE

\* connectionstatechange to "connected": onconnect
PeerConnected ==
    /\ PeerReports /\ peer \in {"connecting", "disconnected"}
    /\ peer' = "connected"
    /\ ConnectedRemembered
    /\ flow' = IF flow = "negotiating" THEN "probing" ELSE flow
    /\ UNCHANGED <<dataTransport, socketVars, remoteVars, transport, path, ice, gathered,
                   mediaVars, destroyed>>

PeerDisconnected ==
    /\ peer = "connected"
    /\ peer' = "disconnected"
    /\ UNCHANGED <<dataTransport, socketVars, remoteVars, flowVars, ice, gathered,
                   wasConnected, mediaVars, destroyed>>

\* connectionstatechange to "failed"; a fallback closes the peer.
PeerFailed ==
    /\ PeerReports /\ peer \in {"connecting", "disconnected"}
    /\ OnClose(~wasConnected)
    /\ peer' = IF path' = "webrtc" THEN "failed" ELSE "closed"
    /\ UNCHANGED <<dataTransport, remoteVars, ice, gathered, wasConnected, mediaVars, destroyed>>

\* icegatheringstatechange to "complete": before the streamer has said anything, this is
\* taken for a failure.
Gathered ==
    /\ PeerReports /\ ~gathered
    /\ gathered' = TRUE
    /\ IF ~ice THEN OnClose(TRUE) ELSE UNCHANGED <<flowVars, socketVars>>
    /\ peer' = IF path' = "webrtc" THEN peer ELSE "closed"
    /\ UNCHANGED <<dataTransport, remoteVars, ice, wasConnected, mediaVars, destroyed>>

\* A message of the streamer for the peer; another transport only logs it.
WebRtcMessage ==
    /\ inbox # <<>> /\ Head(inbox) = "WebRtc"
    /\ inbox' = Tail(inbox)
    /\ IF transport = "webrtc" /\ peer = "new"
       THEN peer' = "connecting" /\ ice' = TRUE
       ELSE UNCHANGED <<peer, ice>>
    /\ UNCHANGED <<dataTransport, socketVars, remote, flowVars, gathered, wasConnected,
                   mediaVars, destroyed>>

\* ConnectionComplete sets up the renderer and the player there are.
ConnectionComplete ==
    /\ inbox # <<>> /\ Head(inbox) = "ConnectionComplete"
    /\ inbox' = Tail(inbox)
    /\ UNCHANGED <<dataTransport, socketVars, remote, flowVars, peerVars, mediaVars, destroyed>>

-----------------------------------------------------------------------------
(* The end, and the streamer *)

\* The socket closes: a flow that runs over it is over.
OnWsClose ==
    /\ ws = "open"
    /\ ws' = "closed"
    /\ wire' = <<>> /\ inbox' = <<>>
    /\ flow' = IF flow = "running" /\ path = "websocket" THEN "over" ELSE flow
    /\ UNCHANGED <<dataTransport, wsSendBuffer, remote, transport, path, peerVars, mediaVars,
                   destroyed>>

\* destroy: of the flow nothing is told.
Destroy ==
    /\ ~destroyed
    /\ destroyed' = TRUE
    /\ peer' = IF transport = "webrtc" THEN "closed" ELSE peer
    /\ transport' = "none"
    /\ renderer' = "none" /\ player' = "none"
    /\ ws' = "closed" /\ wire' = <<>> /\ inbox' = <<>>
    /\ flow' = IF flow = "running" /\ path = "websocket" THEN "over" ELSE flow
    /\ UNCHANGED <<dataTransport, wsSendBuffer, remote, path, ice, gathered, wasConnected,
                   video, audio>>

\* The server starts the streamer for Init; the streamer sets the transport it is told and
\* describes its own side of a peer, and starts the stream over the transport it has.
StreamerTakes ==
    /\ wire # <<>>
    /\ wire' = Tail(wire)
    /\ LET m == Head(wire)
       IN \/ m = "Init" /\ inbox' = Append(inbox, "Setup") /\ UNCHANGED remote
          \/ /\ m \in Transports
             /\ remote' = [remote EXCEPT !.transport = m]
             /\ inbox' = IF m = "webrtc" THEN Append(inbox, "WebRtc") ELSE inbox
          \/ /\ m = "StartStream"
             /\ remote' = [remote EXCEPT !.streams = @ + 1]
             /\ inbox' = Append(inbox, "ConnectionComplete")
    /\ UNCHANGED <<dataTransport, ws, wsSendBuffer, flowVars, peerVars, mediaVars, destroyed>>

Next ==
    \/ OnWsOpen \/ Setup \/ WebRtcMessage \/ ConnectionComplete \/ OnWsClose \/ Destroy
    \/ \E codec \in BOOLEAN : CreatePipelines(codec)
    \/ \E ok \in BOOLEAN : VideoBuilt(ok) \/ AudioBuilt(ok)
    \/ VideoSupport \/ StartStream \/ NoPipeline \/ PipelineThrew
    \/ PeerConnected \/ PeerDisconnected \/ PeerFailed \/ Gathered
    \/ StreamerTakes

Spec == Init /\ [][Next]_vars

-----------------------------------------------------------------------------
(* Properties *)

\* What the streamer is going to stream over, once it has taken what is on its way.
RemoteTransport ==
    LET told == {i \in DOMAIN wire : wire[i] \in Transports}
    IN IF told = {} THEN remote.transport ELSE wire[Max(told)]

\* The page asks for at most one stream, whatever fails when: a stream that ran is never
\* taken for a connection that could not be made.
StartedOnce ==
    remote.streams + Cardinality({i \in DOMAIN wire : wire[i] = "StartStream"}) <= 1

\* Once the stream is asked for, both sides use the same transport, and what shows the
\* picture and plays the sound is made for it and not left over from the try before.
PipelinesFit ==
    flow = "running" /\ ~destroyed =>
        /\ transport = path /\ renderer = PipeOf(transport)
        /\ player \in {"none", PipeOf(transport)}
        /\ ws = "open" => RemoteTransport = transport

\* A try always comes to an end: the peer connects or fails, or has found all its own
\* candidates before the streamer has said anything, or the Stream was destroyed.
NegotiationEnds == flow = "negotiating" ~> flow # "negotiating" \/ destroyed

\* The browser reports what becomes of the peer.
Fairness == WF_vars(Gathered) /\ WF_vars(PeerConnected \/ PeerFailed)
=============================================================================
