--------------------------- MODULE InboundChannels ---------------------------
(***************************************************************************)
(* What the page receives over a WebRTC peer: the channels of              *)
(* web/stream/transport/webrtc.ts, the listeners Stream puts on them, and  *)
(* the pipe that reads a video track picture by picture                    *)
(* (video/media_stream_track_processor_pipe.ts).                           *)
(*                                                                         *)
(* The wrapper of the general channel first listens on the RTCDataChannel  *)
(* the page made; the streamer makes one of the same name and sends on     *)
(* that, and the wrapper moves over when the page learns of it.  The video *)
(* track comes as an event of the peer, before or after somebody listens.  *)
(* The pipe starts to read with the setup and looks for a track every      *)
(* 100 ms until it has one.                                                *)
(*                                                                         *)
(* Left out: the audio track, which takes the same way, the statistics of  *)
(* the receiver, and the other data channels, which are sent on only.      *)
(***************************************************************************)
EXTENDS Integers, Sequences

CONSTANTS MaxMessages,  \* bound: messages of the streamer
          MaxPictures   \* bound: pictures of the track

VARIABLES
    channels,      \* initChannels has run
    listensOn,     \* the RTCDataChannel of the general channel: "own", "remote" or "none"
    toPage,        \* what the streamer has sent on its channel and the browser has not handed over
    sent, handled, \* how many messages of each kind were sent and were acted on
    hdr,           \* Stream's statistics: HDR is on
    rendererHdr,   \* what the renderer was told last
    renderer,      \* "none", "element" or "pipes": a video element, or pipes in front of a canvas
    track,         \* the TrackHolder has a track
    trackSet,      \* how often the renderer was given the track
    reading,       \* the loop of readTrack: "idle", "looking", "reading" or "over"
    newProcessor,  \* newProcessor
    running,       \* running
    processor,     \* trackProcessor: "none" or "here"
    pictures,      \* pictures the processor holds
    made, shown    \* how many it has got and how many were submitted

general == <<listensOn, toPage, sent, handled, hdr, rendererHdr>>
reader == <<reading, newProcessor, running, processor, pictures, made, shown>>
vars == <<channels, general, renderer, track, trackSet, reader>>

Messages == {"hdrOn", "hdrOff", "status", "short"}

TypeOK ==
    /\ channels \in BOOLEAN
    /\ listensOn \in {"none", "own", "remote"}
    /\ toPage \in Seq(Messages) /\ Len(toPage) <= MaxMessages
    /\ sent \in 0..MaxMessages /\ handled \in 0..MaxMessages
    /\ hdr \in BOOLEAN /\ rendererHdr \in BOOLEAN
    /\ renderer \in {"none", "element", "pipes"}
    /\ track \in BOOLEAN /\ trackSet \in 0..2
    /\ reading \in {"idle", "looking", "reading", "over"}
    /\ newProcessor \in BOOLEAN /\ running \in BOOLEAN
    /\ processor \in {"none", "here"}
    /\ pictures \in 0..MaxPictures /\ made \in 0..MaxPictures /\ shown \in 0..MaxPictures

Init ==
    /\ channels = FALSE
    /\ listensOn = "none" /\ toPage = <<>> /\ sent = 0 /\ handled = 0
    /\ hdr = FALSE /\ rendererHdr = FALSE
    /\ renderer = "none" /\ track = FALSE /\ trackSet = 0
    /\ reading = "idle" /\ newProcessor = FALSE /\ running = FALSE
    /\ processor = "none" /\ pictures = 0 /\ made = 0 /\ shown = 0

\* initChannels, and setTransport, which listens on the general channel
InitChannels ==
    /\ ~channels
    /\ channels' = TRUE /\ listensOn' = "own"
    /\ UNCHANGED <<toPage, sent, handled, hdr, rendererHdr, renderer, track, trackSet, reader>>

\* onDataChannel and replaceChannel
ReplaceChannel ==
    /\ channels
    /\ listensOn = "own"
    /\ listensOn' = "remote"
    /\ UNCHANGED <<channels, toPage, sent, handled, hdr, rendererHdr, renderer, track, trackSet,
                   reader>>

\* External: the streamer sends once its channel is open.
Sends(m) ==
    /\ channels
    /\ sent < MaxMessages
    /\ m \in {"hdrOn", "hdrOff"} => renderer # "none"  \* only a stream that runs has a mode
    /\ sent' = sent + 1 /\ toPage' = Append(toPage, m)
    /\ UNCHANGED <<channels, listensOn, handled, hdr, rendererHdr, renderer, track, trackSet,
                   reader>>

\* Pipes do not pass setHdrMode on to what they end in.
SetHdrMode(enabled) ==
    /\ hdr' = enabled
    /\ rendererHdr' = IF renderer = "element" THEN enabled ELSE rendererHdr

\* onGeneralChannelMessage: a message that is cut off is logged.  The browser keeps what
\* comes in before the page knows of the channel.
OnGeneralChannelMessage ==
    /\ listensOn = "remote"
    /\ toPage # <<>>
    /\ toPage' = Tail(toPage) /\ handled' = handled + 1
    /\ IF Head(toPage) \in {"hdrOn", "hdrOff"} THEN SetHdrMode(Head(toPage) = "hdrOn")
                                               ELSE UNCHANGED <<hdr, rendererHdr>>
    /\ UNCHANGED <<channels, listensOn, sent, renderer, track, trackSet, reader>>

\* setTrack of a renderer, which is one of the pipes or the video element
SetTrack(kind) ==
    /\ trackSet' = trackSet + 1
    /\ IF kind = "pipes" THEN processor' = "here" /\ newProcessor' = TRUE
                         ELSE UNCHANGED <<processor, newProcessor>>
    /\ UNCHANGED <<reading, running, pictures, made, shown>>

\* The peer reports the track.
OnTrack ==
    /\ channels
    /\ ~track
    /\ track' = TRUE
    /\ IF renderer # "none" THEN SetTrack(renderer) ELSE UNCHANGED <<trackSet, reader>>
    /\ UNCHANGED <<channels, general, renderer>>

\* createVideoRenderer mounts what was built and calls addTrackListener.
CreateVideoRenderer(kind) ==
    /\ channels
    /\ renderer = "none"
    /\ renderer' = kind
    /\ IF track THEN SetTrack(kind) ELSE UNCHANGED <<trackSet, reader>>
    /\ UNCHANGED <<channels, general, track>>

\* The setup, with the start of the stream, and cleanup
Setup ==
    /\ renderer = "pipes"
    /\ reading = "idle" /\ ~running
    /\ running' = TRUE /\ reading' = "looking"
    /\ UNCHANGED <<channels, general, renderer, track, trackSet, newProcessor, processor, pictures,
                   made, shown>>

Cleanup ==
    /\ renderer = "pipes"
    /\ running
    /\ running' = FALSE /\ processor' = "none"
    /\ UNCHANGED <<channels, general, renderer, track, trackSet, reading, newProcessor, pictures,
                   made, shown>>

\* A turn of readTrack without a reader: it takes the one of the processor, if there is any,
\* and waits.
Look ==
    /\ reading = "looking"
    /\ IF running THEN /\ newProcessor' = FALSE
                       /\ reading' = IF processor = "here" THEN "reading" ELSE "looking"
                  ELSE reading' = "over" /\ UNCHANGED newProcessor
    /\ UNCHANGED <<channels, general, renderer, track, trackSet, running, processor, pictures,
                   made, shown>>

\* External: the processor of the browser gets a picture.
Picture ==
    /\ processor = "here"
    /\ made < MaxPictures
    /\ made' = made + 1 /\ pictures' = pictures + 1
    /\ UNCHANGED <<channels, general, renderer, track, trackSet, reading, newProcessor, running,
                   processor, shown>>

\* reader.read() has a picture; the loop looks at running before the next one.
Read ==
    /\ reading = "reading"
    /\ running /\ pictures > 0
    /\ pictures' = pictures - 1 /\ shown' = shown + 1
    /\ UNCHANGED <<channels, general, renderer, track, trackSet, reading, newProcessor, running,
                   processor, made>>

Next ==
    \/ InitChannels \/ ReplaceChannel \/ OnGeneralChannelMessage
    \/ \E m \in Messages : Sends(m)
    \/ OnTrack \/ \E kind \in {"element", "pipes"} : CreateVideoRenderer(kind)
    \/ Setup \/ Cleanup \/ Look \/ Picture \/ Read

Spec == Init /\ [][Next]_vars

\* A timer that is set runs, what the browser has it hands over, and it tells the page of
\* a channel of the streamer.
Fairness == WF_vars(Look) /\ WF_vars(Read) /\ WF_vars(ReplaceChannel)
                /\ WF_vars(OnGeneralChannelMessage)

-----------------------------------------------------------------------------
(* Properties *)

\* Whichever comes first, the renderer is given the track exactly once, and a video element
\* shows HDR as the streamer said last of what was heard.
TrackReachesRenderer ==
    /\ trackSet = IF track /\ renderer # "none" THEN 1 ELSE 0
    /\ renderer = "element" => rendererHdr = hdr

\* What the streamer says on its channel is acted on, whenever it says it, and a picture of
\* the track is shown unless the renderer is cleaned up: the track may come long after the
\* pipe has begun to look for it.
MessagesAreHandled == sent > 0 ~> handled = sent
PicturesAreShown == pictures > 0 /\ running ~> pictures = 0 \/ ~running
ReceivedIsUsed == MessagesAreHandled /\ PicturesAreShown
=============================================================================
