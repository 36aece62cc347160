--------------------------- MODULE RenderPipelines ---------------------------
(***************************************************************************)
(* Which renderer and which player a stream gets: gatherPipeInfo and       *)
(* buildPipeline of web/stream/pipeline/, buildVideoPipeline and           *)
(* buildAudioPipeline with their tables, and the support every pipe and    *)
(* every worker reports (getInfo).                                         *)
(*                                                                         *)
(* What the browser can do is asked once for the life of the page, part of *)
(* it in workers, and a worker that fails makes the answer fail for good.  *)
(* A table is searched from its first entry, asking the browser about the  *)
(* renderer of each.                                                       *)
(*                                                                         *)
(* A codec is one of Codecs: that a browser only may support one is        *)
(* treated as support by every comparison there is.                        *)
(***************************************************************************)
EXTENDS Sequences, Functions

CONSTANTS Codecs,
          H264,      \* the codec that "is assumed universal"
          Browsers   \* the browsers there are, as sets of features

VARIABLES
    browser,  \* [features, decodes, plays]: what the browser offers
    pipeInfo, \* PIPE_INFO: unasked, pending, known or failed
    request,  \* what is being built, or what was built last
    position, \* the entry that is looked at
    result    \* [state, entry, codecs]

vars == <<browser, pipeInfo, request, position, result>>

-----------------------------------------------------------------------------
(* Pipes: what a pipe takes and what it hands on, "type" and "baseType"; the *)
(* pipes that end a pipeline, in a worker too, hand on to nobody.            *)

Pipe(takes, gives) == [type |-> takes, baseType |-> gives]

Pipes ==
    [ WorkerVideoFrameSendPipe      |-> Pipe("videoframe", "workerinput"),
      WorkerDataSendPipe            |-> Pipe("data", "workerinput"),
      WorkerVideoTrackSendPipe      |-> Pipe("videotrack", "workerinput"),
      WorkerVideoFrameReceivePipe   |-> Pipe("workeroutput", "videoframe"),
      WorkerDataReceivePipe         |-> Pipe("workeroutput", "data"),
      WorkerVideoTrackReceivePipe   |-> Pipe("workeroutput", "videotrack"),
      WorkerVideoMediaStreamProcessorPipe       |-> Pipe("workerinput", "workeroutput"),
      WorkerVideoMediaStreamProcessorCanvasPipe |-> Pipe("workerinput", "workeroutput"),
      WorkerDataToVideoTrackPipe                |-> Pipe("workerinput", "workeroutput"),
      DepacketizeVideoPipe               |-> Pipe("data", "videodata"),
      VideoDecoderPipe                   |-> Pipe("videodata", "videoframe"),
      VideoMediaStreamTrackProcessorPipe |-> Pipe("videotrack", "videoframe"),
      VideoMediaStreamTrackGeneratorPipe |-> Pipe("videoframe", "videotrack"),
      CanvasFrameDrawPipe                |-> Pipe("videoframe", "canvas"),
      VideoElementRenderer    |-> Pipe("videotrack", "nobody"),
      MainCanvasRenderer      |-> Pipe("canvas", "nobody"),
      OffscreenCanvasRenderer |-> Pipe("workeroutput", "nobody"),
      AudioDecoderPipe                   |-> Pipe("audiodata_opus", "audiosample"),
      AudioMediaStreamTrackGeneratorPipe |-> Pipe("audiosample", "audiotrack"),
      AudioDecoderPcmPipe                |-> Pipe("audiodata", "audiopcm"),
      AudioBufferPipe                    |-> Pipe("audiopcm", "audionode"),
      AudioElementPlayer                 |-> Pipe("audiotrack", "nobody"),
      ContextDestinationNodeAudioPlayer  |-> Pipe("audionode", "nobody") ]

Entry(input, pipes, end) == [input |-> input, pipes |-> pipes, end |-> end]

TrackToCanvas == Entry("videotrack",
    <<"VideoMediaStreamTrackProcessorPipe", "CanvasFrameDrawPipe">>, "MainCanvasRenderer")
DataToCanvas == Entry("data",
    <<"DepacketizeVideoPipe", "VideoDecoderPipe", "CanvasFrameDrawPipe">>, "MainCanvasRenderer")

ForceCanvasPipelines ==
    << TrackToCanvas,
       Entry("videotrack",
             <<"WorkerVideoTrackSendPipe", "WorkerVideoMediaStreamProcessorCanvasPipe">>,
             "OffscreenCanvasRenderer"),
       Entry("videotrack",
             <<"WorkerVideoTrackSendPipe", "WorkerVideoMediaStreamProcessorPipe",
               "WorkerVideoFrameReceivePipe", "CanvasFrameDrawPipe">>, "MainCanvasRenderer"),
       DataToCanvas >>

\* The third and the fourth entry do not connect.
VideoPipelines ==
    << Entry("videotrack", <<>>, "VideoElementRenderer"),
       TrackToCanvas,
       Entry("videotrack",
             <<"WorkerVideoTrackSendPipe", "WorkerVideoMediaStreamProcessorCanvasPipe",
               "CanvasFrameDrawPipe">>, "OffscreenCanvasRenderer"),
       Entry("videotrack",
             <<"WorkerVideoTrackSendPipe", "WorkerVideoMediaStreamProcessorPipe",
               "WorkerVideoFrameReceivePipe">>, "MainCanvasRenderer"),
       Entry("data",
             <<"WorkerDataSendPipe", "WorkerDataToVideoTrackPipe",
               "WorkerVideoTrackReceivePipe">>, "VideoElementRenderer"),
       Entry("data",
             <<"DepacketizeVideoPipe", "VideoDecoderPipe",
               "VideoMediaStreamTrackGeneratorPipe">>, "VideoElementRenderer"),
       DataToCanvas >>

AudioPipelines ==
    << Entry("audiotrack", <<>>, "AudioElementPlayer"),
       Entry("data", <<"AudioDecoderPipe", "AudioMediaStreamTrackGeneratorPipe">>,
             "AudioElementPlayer"),
       Entry("data", <<"AudioDecoderPcmPipe", "AudioBufferPipe">>,
             "ContextDestinationNodeAudioPlayer") >>

\* What runs in the workers, between what receives from the page and what sends back.
WorkerPipelines ==
    [ WorkerVideoMediaStreamProcessorPipe |->
          <<"WorkerVideoTrackReceivePipe", "VideoMediaStreamTrackProcessorPipe",
            "WorkerVideoFrameSendPipe">>,
      WorkerVideoMediaStreamProcessorCanvasPipe |->
          <<"WorkerVideoTrackReceivePipe", "VideoMediaStreamTrackProcessorPipe",
            "CanvasFrameDrawPipe", "WorkerOffscreenCanvasSendPipe">>,
      WorkerDataToVideoTrackPipe |->
          <<"WorkerDataReceivePipe", "DepacketizeVideoPipe", "VideoDecoderPipe",
            "VideoTrackGeneratorPipe", "WorkerVideoTrackSendPipe">> ]

InWorker(p) == IF p \in DOMAIN WorkerPipelines THEN Range(WorkerPipelines[p]) ELSE {}

\* environmentSupported of a pipe, on the page or in a worker.
Needs(p, inWorker) ==
    CASE p = "VideoDecoderPipe" -> {"VideoDecoder"}
      [] p = "VideoMediaStreamTrackProcessorPipe" ->
            {IF inWorker THEN "WorkerTrackProcessor" ELSE "TrackProcessor"}
      [] p \in {"VideoMediaStreamTrackGeneratorPipe", "AudioMediaStreamTrackGeneratorPipe"} ->
            {"TrackGenerator"}
      [] p = "VideoTrackGeneratorPipe" -> {"WorkerTrackGenerator"}
      [] p = "CanvasFrameDrawPipe" -> {IF inWorker THEN "Offscreen" ELSE "Canvas"}
      [] p = "MainCanvasRenderer" -> {"Canvas"}
      [] p \in {"OffscreenCanvasRenderer", "WorkerOffscreenCanvasSendPipe"} -> {"Offscreen"}
      [] p = "VideoElementRenderer" -> {"VideoElement"}
      [] p = "AudioDecoderPipe" -> {"AudioDecoder"}
      [] p = "AudioElementPlayer" -> {"AudioElement"}
      [] p \in {"AudioBufferPipe", "ContextDestinationNodeAudioPlayer"} -> {"AudioContext"}
      [] OTHER -> {}

\* checkSupport: a worker answers for every pipe it would run.
WorkerSupported(p) ==
    p \in DOMAIN WorkerPipelines =>
        /\ "Worker" \in browser.features
        /\ \A q \in InWorker(p) : Needs(q, TRUE) \subseteq browser.features

Supported(p) == Needs(p, FALSE) \subseteq browser.features /\ WorkerSupported(p)

\* detectCodecs of the decoder and of the video element; the others take every codec.
CodecsOf(p) ==
    CASE "VideoDecoderPipe" \in InWorker(p) \cup {p} -> browser.decodes
      [] p = "VideoElementRenderer" -> browser.plays
      [] OTHER -> Codecs

Along(e) == Append(e.pipes, e.end)

\* buildPipeline: what a pipe hands on is what the next one takes.
Connects(e) ==
    \A i \in 1..Len(e.pipes) : Pipes[Along(e)[i]].baseType = Pipes[Along(e)[i + 1]].type

AllSupported(e) == \A p \in Range(Along(e)) : Supported(p)

\* Faulty: codecs that only some of the pipes support are kept.
AnyCodecs(e, wanted) == wanted \cap UNION {CodecsOf(p) : p \in Range(Along(e))}

\* andVideoCodecs over the whole pipeline
CommonCodecs(e, wanted) == {c \in wanted : \A p \in Range(Along(e)) : c \in CodecsOf(p)}

Requests ==
    [kind : {"video"}, input : {"videotrack", "data"}, canvas : BOOLEAN, force : BOOLEAN,
     wanted : SUBSET Codecs]
    \cup [kind : {"audio"}, input : {"audiotrack", "data"}, canvas : {FALSE}, force : {FALSE},
          wanted : {{}}]

Table == CASE request.kind = "audio" -> AudioPipelines
           [] request.kind = "video" /\ request.canvas -> ForceCanvasPipelines
           [] OTHER -> VideoPipelines

NoEntry == Entry("nothing", <<>>, "VideoElementRenderer")
Result(state, entry, codecs) == [state |-> state, entry |-> entry, codecs |-> codecs]
Entries == Range(ForceCanvasPipelines) \cup Range(VideoPipelines) \cup Range(AudioPipelines)

TypeOK ==
    /\ browser \in [features : Browsers, decodes : SUBSET Codecs, plays : SUBSET Codecs]
    /\ pipeInfo \in {"unasked", "pending", "known", "failed"}
    /\ request \in Requests
    /\ position \in 1..(Len(VideoPipelines) + 1)
    /\ result \in [state : {"idle", "searching", "built", "error", "rejected"},
                   entry : Entries \cup {NoEntry}, codecs : SUBSET Codecs]

Init ==
    /\ browser \in [features : Browsers, decodes : SUBSET Codecs, plays : SUBSET Codecs]
    /\ pipeInfo = "unasked"
    /\ request = CHOOSE r \in Requests : TRUE
    /\ position = 1
    /\ result = Result("idle", NoEntry, {})

-----------------------------------------------------------------------------
(* Actions *)

\* A transport is tried: createVideoRenderer or createAudioPlayer asks for a pipeline.
Ask(r) ==
    /\ result.state # "searching"
    /\ request' = r
    /\ position' = 1
    /\ result' = Result("searching", NoEntry, {})
    /\ pipeInfo' = IF pipeInfo = "unasked" THEN "pending" ELSE pipeInfo
    /\ UNCHANGED browser

\* Every pipe has answered, or one worker has failed.
Gathered ==
    /\ pipeInfo = "pending"
    /\ pipeInfo' \in {"known"} \cup (IF "Worker" \in browser.features THEN {"failed"} ELSE {})
    /\ UNCHANGED <<browser, request, position, result>>

Rejected ==
    /\ result.state = "searching" /\ pipeInfo = "failed"
    /\ result' = Result("rejected", NoEntry, {})
    /\ UNCHANGED <<browser, pipeInfo, request, position>>

Searching == result.state = "searching" /\ pipeInfo = "known"

\* "Forcing Video Element Renderer", without asking whether there is one.
ForceElement ==
    /\ Searching /\ request.force
    /\ result' = IF request.input = "data" THEN Result("error", NoEntry, {})
                 ELSE Result("built", VideoPipelines[1],
                             IF request.wanted = {} THEN {H264} ELSE request.wanted)
    /\ UNCHANGED <<browser, pipeInfo, request, position>>

Usable(e) ==
    /\ e.input = request.input
    /\ AllSupported(e)
    /\ request.kind = "video" => CommonCodecs(e, request.wanted) # {}

EndsSearch(e) == request.kind = "audio" /\ ~Connects(e)

InTable == position <= Len(Table)

\* One turn of the loop over the table.
Consider ==
    /\ Searching /\ ~request.force
    /\ InTable
    /\ LET e == Table[position]
       IN result' = CASE Usable(e) /\ EndsSearch(e) -> Result("error", NoEntry, {})
                      [] Usable(e) /\ Connects(e) ->
                            Result("built", e, CommonCodecs(e, request.wanted))
                      [] OTHER -> result
    /\ position' = position + 1
    /\ UNCHANGED <<browser, pipeInfo, request>>

NothingFound ==
    /\ Searching /\ ~request.force
    /\ ~InTable
    /\ result' = Result("error", NoEntry, {})
    /\ UNCHANGED <<browser, pipeInfo, request, position>>

Next == \/ \E r \in Requests : Ask(r)
        \/ Gathered \/ Rejected \/ ForceElement \/ Consider \/ NothingFound

Spec == Init /\ [][Next]_vars

-----------------------------------------------------------------------------
(* Properties *)

\* What is built can be walked from its input to the screen or the loudspeaker, with pipes
\* the browser has, and any codec the host may be told of is one that every pipe on the way
\* understands.  (Forcing the video element asks for none of this.)
BuiltWorks ==
    result.state = "built" /\ ~request.force =>
        LET e == result.entry
        IN /\ e.input = request.input /\ Connects(e) /\ AllSupported(e)
           /\ \A c \in result.codecs, p \in Range(Along(e)) : c \in CodecsOf(p)
           /\ request.kind = "video" => result.codecs # {}

\* "Default (should be supported everywhere)": where the default entry of a table would do,
\* the search does not come back empty.
DefaultIsFound ==
    result.state = "error" /\ ~request.force =>
        \A i \in {1, Len(Table)} : ~(Usable(Table[i]) /\ Connects(Table[i]))
=============================================================================
