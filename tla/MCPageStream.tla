---------------------------- MODULE MCPageStream ------------------------------
(***************************************************************************)
(* What the page does with a stream, part by part: setting it up and       *)
(* watching over its connection, the channels, the decoder, the pipelines  *)
(* and players of pictures and sound, and the statistics; and the pages    *)
(* around it: the log in, the lists that arrive in pieces, the users.  The *)
(* parts share no state; `part` says which of them a behaviour is about,   *)
(* and the others stay where they start.                                   *)
(***************************************************************************)
EXTENDS Integers, FiniteSets

CONSTANTS
    CheckAfter, PoorAfter, LostAfter, Never, MaxTime, SignallingTracks,
    MaxCandidates, MaxMessages, InboundMaxPictures, Backlog, MaxUnits, Codecs,
    H264, Browsers, WorkerMaxPictures, TargetLatency, MaxLatency, Duration,
    Unset, Slack, MaxTransports, MaxToggles, MaxPlayers, ElementTracks,
    Generated, NoTrack, LastDelay, MaxTroubles, Lines, Users, Initial, Nobody

MonitorConstants ==
    /\ CheckAfter \in Nat /\ PoorAfter \in Nat /\ LostAfter \in Nat /\ MaxTime \in Nat
    /\ Never \notin Nat
\* The streamer has a track of pictures and one of sound, and no more (setup_video and
\* setup_audio of streamer/src/transport/webrtc/mod.rs).
SignalsConstants ==
    /\ \A a, b, c \in SignallingTracks : a = b \/ b = c \/ a = c
    /\ MaxCandidates \in Nat
InboundConstants == MaxMessages \in Nat /\ InboundMaxPictures \in Nat
DecodingConstants == Backlog \in Nat /\ MaxUnits \in Nat
\* The last resort of a setup is H.264 (web/stream/video/pipeline.ts).
PipelinesConstants == H264 \in Codecs
WorkerConstants == WorkerMaxPictures \in Nat
PlaybackConstants ==
    /\ TargetLatency \in Nat /\ MaxLatency \in Nat /\ TargetLatency <= MaxLatency
    /\ Duration \in Nat /\ Slack \in Nat /\ Unset \notin Int
StatsConstants == MaxTransports \in Nat /\ MaxToggles \in Nat
ElementsConstants == MaxPlayers \in Nat /\ NoTrack \notin ElementTracks \cup {Generated}
PortalConstants == LastDelay \in Nat /\ MaxTroubles \in Nat
ResponsesConstants == Lines \in Nat
UsersConstants == IsFiniteSet(Users) /\ Initial \subseteq Users /\ Nobody \notin Users

ASSUME PageStreamConstants ==
    /\ MonitorConstants /\ SignalsConstants /\ InboundConstants /\ DecodingConstants
    /\ PipelinesConstants /\ WorkerConstants /\ PlaybackConstants /\ StatsConstants
    /\ ElementsConstants /\ PortalConstants /\ ResponsesConstants /\ UsersConstants

VARIABLES
    part,
    \* StreamSetup
    dataTransport, ws, wsSendBuffer, wire, inbox, remote, setupTransport,
    path, peer, ice, gathered, wasConnected, flow, video, audio,
    setupRenderer, setupPlayer, destroyed,
    \* ConnectionMonitor
    connectionState, disconnectStart, connectionCheckTimeout, poorTimers,
    away, told, untrue,
    \* Signalling
    chain, signaling, signallingHeard, gathering, found, added, offers,
    unanswered, described, making, searched, signallingToPage, toStreamer,
    refused,
    \* InboundChannels
    channels, listensOn, inboundToPage, sent, handled, hdr, rendererHdr,
    inboundRenderer, track, trackSet, reading, newProcessor, running,
    processor, pictures, inboundMade, inboundShown,
    \* VideoDecoding
    mode, decoderErrored, bufferedUnits, requestedIdr, needsKeyFrame,
    hasDescription, decoder, last, currentFrame, open, arrived, decoderAsked,
    misused,
    \* RenderPipelines
    browser, pipeInfo, request, position, result,
    \* WorkerPipeline
    kind, toWorker, workerToPage, page, setUpPosted, submitted,
    currentPipeline, canvas, pipelineErrored, stage, trackProcessor,
    workerReading, workerMade, workerBuffered, workerPictures, isFirstSample,
    rendererSetUp, attached, workerShown,
    \* AudioPlayback
    audioPlayer, setUp, opusModule, audioErrored, isFirstPacket, needsKey,
    hadUserInteraction, ahead, audioContext, resumes, audioHeard, late, gone,
    \* StreamStats
    enabled, statsTransport, statsChannel, listeners, interval, statsAsked,
    statsShown, toggles,
    \* MediaElements
    medium, elementMade, current, players,
    \* PortalStartup
    pc, attempt, cookie, autoLogin, account, up, hosts, desktop, troubles,
    \* StreamedResponse
    written, onItsWay, bufferedText, returned, state, separate,
    thrownAway, updated,
    \* AdminUsers
    server, fetched, snapshot, unfilteredList, list, matching, liElements,
    listElement, adding, deleting, deleted, opening, info, crossed

setupVars ==
    <<dataTransport, ws, wsSendBuffer, wire, inbox, remote, setupTransport,
      path, peer, ice, gathered, wasConnected, flow, video, audio,
      setupRenderer, setupPlayer, destroyed>>
monitorVars ==
    <<connectionState, disconnectStart, connectionCheckTimeout, poorTimers,
      away, told, untrue>>
signallingVars ==
    <<chain, signaling, signallingHeard, gathering, found, added, offers,
      unanswered, described, making, searched, signallingToPage, toStreamer,
      refused>>
inboundVars ==
    <<channels, listensOn, inboundToPage, sent, handled, hdr, rendererHdr,
      inboundRenderer, track, trackSet, reading, newProcessor, running,
      processor, pictures, inboundMade, inboundShown>>
decodingVars ==
    <<mode, decoderErrored, bufferedUnits, requestedIdr, needsKeyFrame,
      hasDescription, decoder, last, currentFrame, open, arrived,
      decoderAsked, misused>>
pipelinesVars ==
    <<browser, pipeInfo, request, position, result>>
workerVars ==
    <<kind, toWorker, workerToPage, page, setUpPosted, submitted,
      currentPipeline, canvas, pipelineErrored, stage, trackProcessor,
      workerReading, workerMade, workerBuffered, workerPictures, isFirstSample,
      rendererSetUp, attached, workerShown>>
playbackVars ==
    <<audioPlayer, setUp, opusModule, audioErrored, isFirstPacket, needsKey,
      hadUserInteraction, ahead, audioContext, resumes, audioHeard, late,
      gone>>
statsVars ==
    <<enabled, statsTransport, statsChannel, listeners, interval, statsAsked,
      statsShown, toggles>>
elementsVars ==
    <<medium, elementMade, current, players>>
portalVars ==
    <<pc, attempt, cookie, autoLogin, account, up, hosts, desktop, troubles>>
responsesVars ==
    <<written, onItsWay, bufferedText, returned, state, separate,
      thrownAway, updated>>
usersVars ==
    <<server, fetched, snapshot, unfilteredList, list, matching, liElements,
      listElement, adding, deleting, deleted, opening, info, crossed>>

Setup == INSTANCE StreamSetup WITH
    transport <- setupTransport, renderer <- setupRenderer,
    player <- setupPlayer
Monitor == INSTANCE ConnectionMonitor
Signals == INSTANCE Signalling WITH
    heard <- signallingHeard, toPage <- signallingToPage,
    Tracks <- SignallingTracks
Inbound == INSTANCE InboundChannels WITH
    toPage <- inboundToPage, renderer <- inboundRenderer,
    made <- inboundMade, shown <- inboundShown,
    MaxPictures <- InboundMaxPictures
Decoding == INSTANCE VideoDecoding WITH
    errored <- decoderErrored, asked <- decoderAsked
Pipelines == INSTANCE RenderPipelines
InWorker == INSTANCE WorkerPipeline WITH
    toPage <- workerToPage, reading <- workerReading, made <- workerMade,
    bufferedUnits <- workerBuffered, pictures <- workerPictures,
    shown <- workerShown, MaxPictures <- WorkerMaxPictures
Playback == INSTANCE AudioPlayback WITH
    player <- audioPlayer, errored <- audioErrored, heard <- audioHeard
Stats == INSTANCE StreamStats WITH
    transport <- statsTransport, asked <- statsAsked, shown <- statsShown
Elements == INSTANCE MediaElements WITH
    made <- elementMade, Tracks <- ElementTracks
Portal == INSTANCE PortalStartup
Responses == INSTANCE StreamedResponse
UserList == INSTANCE AdminUsers

allVars ==
    <<part, setupVars, monitorVars, signallingVars, inboundVars, decodingVars,
      pipelinesVars, workerVars, playbackVars, statsVars, elementsVars,
      portalVars, responsesVars, usersVars>>

Parts ==
    {"setup", "monitor", "signalling", "inbound", "decoding", "pipelines",
     "worker", "playback", "stats", "elements", "portal", "responses",
     "users"}

\* The features RenderPipelines tells apart, of the browsers of the day and of one
\* without a secure context.
Chromium ==
    {"VideoDecoder", "AudioDecoder", "TrackProcessor", "TrackGenerator", "Canvas",
     "Offscreen", "VideoElement", "AudioElement", "AudioContext", "Worker"}
Safari ==
    {"VideoDecoder", "WorkerTrackProcessor", "WorkerTrackGenerator", "Canvas",
     "Offscreen", "VideoElement", "AudioElement", "AudioContext", "Worker"}
Firefox ==
    {"VideoDecoder", "AudioDecoder", "Canvas", "Offscreen", "VideoElement",
     "AudioElement", "AudioContext", "Worker"}
Old == {"Canvas", "VideoElement", "AudioElement", "AudioContext"}
SomeBrowsers == {Chromium, Safari, Firefox, Old}

\* Where a part may start in several states, the others look at one of them.
Init ==
    /\ part \in Parts
    /\ Setup!Init
    /\ part # "setup" =>
        dataTransport = "auto"
    /\ Monitor!Init
    /\ Signals!Init
    /\ Inbound!Init
    /\ Decoding!Init
    /\ Pipelines!Init
    /\ part # "pipelines" =>
        browser = [features |-> Old, decodes |-> {}, plays |-> {}]
    /\ InWorker!Init
    /\ part # "worker" =>
        kind = "frames"
    /\ Playback!Init
    /\ part # "playback" =>
        audioPlayer = "decoder" /\ resumes
    /\ Stats!Init
    /\ Elements!Init
    /\ part # "elements" =>
        medium = "video"
    /\ Portal!Init
    /\ part # "portal" =>
        cookie = "none" /\ ~autoLogin /\ account /\ up /\ desktop /\ hosts = 1
    /\ Responses!Init
    /\ UserList!Init

OthersStay ==
    /\ UNCHANGED part
    /\ IF part = "setup" THEN TRUE ELSE UNCHANGED setupVars
    /\ IF part = "monitor" THEN TRUE ELSE UNCHANGED monitorVars
    /\ IF part = "signalling" THEN TRUE ELSE UNCHANGED signallingVars
    /\ IF part = "inbound" THEN TRUE ELSE UNCHANGED inboundVars
    /\ IF part = "decoding" THEN TRUE ELSE UNCHANGED decodingVars
    /\ IF part = "pipelines" THEN TRUE ELSE UNCHANGED pipelinesVars
    /\ IF part = "worker" THEN TRUE ELSE UNCHANGED workerVars
    /\ IF part = "playback" THEN TRUE ELSE UNCHANGED playbackVars
    /\ IF part = "stats" THEN TRUE ELSE UNCHANGED statsVars
    /\ IF part = "elements" THEN TRUE ELSE UNCHANGED elementsVars
    /\ IF part = "portal" THEN TRUE ELSE UNCHANGED portalVars
    /\ IF part = "responses" THEN TRUE ELSE UNCHANGED responsesVars
    /\ IF part = "users" THEN TRUE ELSE UNCHANGED usersVars

SetupNext == part = "setup" /\ Setup!Next /\ OthersStay
MonitorNext == part = "monitor" /\ Monitor!Next /\ OthersStay
SignalsNext == part = "signalling" /\ Signals!Next /\ OthersStay
InboundNext == part = "inbound" /\ Inbound!Next /\ OthersStay
DecodingNext == part = "decoding" /\ Decoding!Next /\ OthersStay
PipelinesNext == part = "pipelines" /\ Pipelines!Next /\ OthersStay
InWorkerNext == part = "worker" /\ InWorker!Next /\ OthersStay
PlaybackNext == part = "playback" /\ Playback!Next /\ OthersStay
StatsNext == part = "stats" /\ Stats!Next /\ OthersStay
ElementsNext == part = "elements" /\ Elements!Next /\ OthersStay
PortalNext == part = "portal" /\ Portal!Next /\ OthersStay
ResponsesNext == part = "responses" /\ Responses!Next /\ OthersStay
UserListNext == part = "users" /\ UserList!Next /\ OthersStay

Next ==
    \/ SetupNext \/ MonitorNext \/ SignalsNext \/ InboundNext
    \/ DecodingNext \/ PipelinesNext \/ InWorkerNext \/ PlaybackNext
    \/ StatsNext \/ ElementsNext \/ PortalNext \/ ResponsesNext
    \/ UserListNext

\* The fairness of the part a behaviour is about, as its module states it.
Spec ==
    /\ Init /\ [][Next]_allVars
    /\ WF_setupVars(part = "setup" /\ Setup!Gathered)
    /\ WF_setupVars(part = "setup" /\ (Setup!PeerConnected \/ Setup!PeerFailed))
    /\ WF_inboundVars(part = "inbound" /\ Inbound!Look)
    /\ WF_inboundVars(part = "inbound" /\ Inbound!Read)
    /\ WF_inboundVars(part = "inbound" /\ Inbound!ReplaceChannel)
    /\ WF_inboundVars(part = "inbound" /\ Inbound!OnGeneralChannelMessage)
    /\ WF_workerVars(part = "worker" /\ InWorker!Works)
    /\ WF_workerVars(part = "worker" /\ InWorker!TakeOutput)
    /\ WF_playbackVars(part = "playback" /\ Playback!Packet)
    /\ WF_portalVars(part = "portal" /\ Portal!Page)

-------------------------------------------------------------------------------
(* Properties *)

\* Every variable of every part keeps its type.
TypesOK ==
    /\ Setup!TypeOK /\ Monitor!TypeOK /\ Signals!TypeOK /\ Inbound!TypeOK
    /\ Decoding!TypeOK /\ Pipelines!TypeOK /\ InWorker!TypeOK /\ Playback!TypeOK
    /\ Stats!TypeOK /\ Elements!TypeOK /\ Portal!TypeOK /\ Responses!TypeOK
    /\ UserList!TypeOK

\* A stream is set up once and as a whole: what is sent is what the page can show,
\* a peer that is lost is watched until it is back or given up, and an offer that is
\* settled covers every track, with the candidates of its answer.
SetUpSound ==
    /\ Setup!StartedOnce /\ Setup!PipelinesFit
    /\ Monitor!LossIsWatched
    /\ Signals!SettledIsComplete /\ Signals!AnsweredCandidatesCount

\* Pictures are shown in the order they were sent, each one built upon what it needs,
\* the host is asked for one key frame, not for many, and behind a worker everything is
\* set up before the first picture comes.
PicturesInOrder ==
    /\ Decoding!DeltasContinue /\ Decoding!OneKeyFrameAsked /\ Decoding!PicturesAdvance
    /\ InWorker!SetupComesFirst

\* What plays is what was chosen and set up: the browser can do what a pipeline needs,
\* a replaced player is silent, statistics and tracks reach the current transport
\* and renderer, and sound does not lag.
PlayersFit ==
    /\ Pipelines!BuiltWorks /\ Pipelines!DefaultIsFound
    /\ Elements!OnlyCurrentPlays
    /\ Stats!StatsFollowTransport
    /\ Inbound!TrackReachesRenderer
    /\ Playback!LatencyBounded

\* Everything comes to something: the negotiation to an end, messages and pictures to
\* whoever uses them, also through a worker, sound to the ear unless the player is silent
\* for a reason HeardOnceReady names, and a portal with a server that answers to its list
\* of hosts.
EverythingIsUsed ==
    /\ part = "setup" => Setup!NegotiationEnds
    /\ part = "inbound" => Inbound!ReceivedIsUsed
    /\ part = "worker" => InWorker!SubmittedIsShown
    /\ part = "playback" => Playback!HeardOnceReady
    /\ part = "portal" => Portal!Opens

\* The pages around the stream show what the server said, as far as the code goes: of a
\* streamed answer every line but those of which a chunk with two ends of line makes the
\* page throw text away; of the users everybody but those changed before the list had
\* come; and nobody is asked for a password whom the server logs in by itself.
PortalIsRight ==
    /\ Responses!WholeLines
    /\ UserList!ListIsRight
    /\ Portal!AsksOnlyWhoMust
===============================================================================
