--------------------------- MODULE WorkerPipeline ----------------------------
(***************************************************************************)
(* A pipeline that runs in a worker: WorkerPipe and the pipes at both ends *)
(* of it (web/stream/pipeline/worker_pipe.ts, worker_io.ts), the worker    *)
(* itself (worker.ts), and the pipes the three pipelines of                *)
(* web/stream/video/pipeline.ts put into it.                               *)
(*                                                                         *)
(*   canvas   a track is read picture by picture and drawn in the worker   *)
(*            on the canvas of the OffscreenCanvasRenderer                 *)
(*   frames   a track is read, and its pictures are sent back              *)
(*   track    packets are decoded into a track that is sent back           *)
(*                                                                         *)
(* Page and worker talk by posted messages, in order.  The page listens    *)
(* for the track or the packets as soon as it has mounted the renderer, so *)
(* they may be posted before the set-up, which comes with                  *)
(* ConnectionComplete, or behind it.                                       *)
(*                                                                         *)
(* What becomes of a unit in the decoder is the matter of VideoDecoding:   *)
(* here every packet the decoder takes comes out as a picture.             *)
(***************************************************************************)
EXTENDS Integers, Sequences

CONSTANT MaxPictures \* bound: how many packets are submitted, or pictures the track has

VARIABLES
    kind,            \* which pipeline: canvas, frames or track
    toWorker,        \* messages on their way to the worker
    toPage,          \* messages on their way back
    page,            \* constructed, mounted or gone
    setUpPosted,     \* setup has sent the set-up
    submitted,       \* how many tracks or packets were submitted
    currentPipeline, \* the worker has a pipeline
    canvas,          \* the canvas of the WorkerOffscreenCanvasSendPipe is set
    pipelineErrored,
    stage,           \* the set-up of the pipes in the worker: none, begun, done or failed
    trackProcessor,  \* setTrack has come to VideoMediaStreamTrackProcessorPipe
    reading,         \* readTrack has the reader of its processor
    made,            \* how many pictures the processor has got
    bufferedUnits,   \* how many packets wait for the decoder to be set up
    pictures,        \* how many pictures the processor holds or the decoder works at
    isFirstSample,   \* of VideoTrackGeneratorPipe
    rendererSetUp,   \* the set-up has come to the pipes that follow on the page
    attached,        \* and the track
    shown            \* how many pictures were shown

posted == <<page, setUpPosted, submitted>>
worker == <<currentPipeline, canvas, pipelineErrored>>
pipes == <<stage, trackProcessor, reading, made, bufferedUnits, pictures, isFirstSample>>
seen == <<rendererSetUp, attached, shown>>
vars == <<kind, toWorker, toPage, posted, worker, pipes, seen>>

Input == {"setUp", "track", "packet"}
Message == {"create", "canvas"} \cup Input
Output == {"setUp", "frame", "track"}

TypeOK ==
    /\ kind \in {"canvas", "frames", "track"}
    /\ toWorker \in Seq(Message) /\ toPage \in Seq(Output)
    /\ page \in {"constructed", "mounted", "gone"}
    /\ stage \in {"none", "begun", "done", "failed"}
    /\ {setUpPosted, currentPipeline, canvas, pipelineErrored, trackProcessor, reading,
        isFirstSample, rendererSetUp, attached} \subseteq BOOLEAN
    /\ {submitted, made, bufferedUnits, pictures, shown} \subseteq Nat

Init ==
    /\ kind \in {"canvas", "frames", "track"}
    /\ toWorker = <<"create">> \* the constructor of WorkerPipe
    /\ toPage = <<>>
    /\ page = "constructed" /\ setUpPosted = FALSE /\ submitted = 0
    /\ currentPipeline = FALSE /\ canvas = FALSE /\ pipelineErrored = FALSE
    /\ stage = "none" /\ trackProcessor = FALSE /\ reading = FALSE /\ made = 0
    /\ bufferedUnits = 0 /\ pictures = 0 /\ isFirstSample = TRUE
    /\ rendererSetUp = FALSE /\ attached = FALSE /\ shown = 0

(* The page *)

\* mount of the WorkerPipe: the base first, then its canvas goes to the worker.
Mount ==
    /\ page = "constructed"
    /\ page' = "mounted"
    /\ toWorker' = IF kind = "canvas" THEN Append(toWorker, "canvas") ELSE toWorker
    /\ UNCHANGED <<kind, toPage, setUpPosted, submitted, worker, pipes, seen>>

\* setup of the pipe that sends to the worker, with ConnectionComplete
Setup ==
    /\ page = "mounted" /\ ~setUpPosted
    /\ setUpPosted' = TRUE
    /\ toWorker' = Append(toWorker, "setUp")
    /\ UNCHANGED <<kind, toPage, page, submitted, worker, pipes, seen>>

\* setTrack or submitPacket: the listener is there from the mount on.  The host has one track
\* of pictures.
Submit ==
    /\ page = "mounted"
    /\ submitted < IF kind = "track" THEN MaxPictures ELSE 1
    /\ submitted' = submitted + 1
    /\ toWorker' = Append(toWorker, IF kind = "track" THEN "packet" ELSE "track")
    /\ UNCHANGED <<kind, toPage, page, setUpPosted, worker, pipes, seen>>

\* cleanup: the worker is terminated, and what it has not been given or has not said is gone.
Cleanup ==
    /\ page # "gone"
    /\ page' = "gone"
    /\ toWorker' = <<>> /\ toPage' = <<>>
    /\ UNCHANGED <<kind, setUpPosted, submitted, worker, pipes, seen>>

\* The pipes that follow on the page get what the worker has made.
TakeOutput ==
    /\ toPage # <<>>
    /\ toPage' = Tail(toPage)
    /\ rendererSetUp' = (rendererSetUp \/ Head(toPage) = "setUp")
    /\ attached' = (attached \/ Head(toPage) = "track")
    /\ shown' = IF Head(toPage) = "frame" THEN shown + 1 ELSE shown
    /\ UNCHANGED <<kind, toWorker, posted, worker, pipes>>

(* The worker *)

\* createPipeline: building it may fail, which is only logged.
CreatePipeline ==
    /\ toWorker # <<>> /\ Head(toWorker) = "create"
    /\ currentPipeline' \in BOOLEAN
    /\ toWorker' = Tail(toWorker)
    /\ UNCHANGED <<kind, toPage, posted, canvas, pipelineErrored, pipes, seen>>

\* Input for a worker that has failed is dropped, and without a pipeline it fails.
Refuse ==
    /\ toWorker # <<>> /\ Head(toWorker) # "create" /\ ~currentPipeline
    /\ toWorker' = Tail(toWorker)
    /\ pipelineErrored' = TRUE
    /\ UNCHANGED <<kind, toPage, posted, currentPipeline, canvas, pipes, seen>>

\* What the pipeline takes from the page
Takes(message) ==
    /\ toWorker # <<>> /\ Head(toWorker) = message
    /\ currentPipeline /\ ~pipelineErrored
    /\ toWorker' = Tail(toWorker)
    /\ UNCHANGED <<kind, posted, currentPipeline, pipelineErrored, seen>>

TakeCanvas ==
    /\ Takes("canvas")
    /\ canvas' = TRUE
    /\ UNCHANGED <<toPage, pipes>>

\* setup: a track is looked for from now on, and the set-up goes on at once; a decoder first
\* asks the browser for a configuration.
TakeSetUp ==
    /\ Takes("setUp")
    /\ IF kind = "track" THEN stage' = "begun" /\ UNCHANGED toPage
                         ELSE stage' = "done" /\ toPage' = Append(toPage, "setUp")
    /\ UNCHANGED <<canvas, trackProcessor, reading, made, bufferedUnits, pictures, isFirstSample>>

\* setTrack of VideoMediaStreamTrackProcessorPipe
TakeTrack ==
    /\ Takes("track")
    /\ trackProcessor' = TRUE
    /\ UNCHANGED <<toPage, canvas, stage, reading, made, bufferedUnits, pictures, isFirstSample>>

\* submitDecodeUnit: the first unit behind the set-up takes those that came before along.
TakePacket ==
    /\ Takes("packet")
    /\ CASE stage = "failed" -> UNCHANGED <<bufferedUnits, pictures>>
         [] stage = "done"   -> /\ pictures' = pictures + bufferedUnits + 1
                                /\ bufferedUnits' = 0
         [] OTHER            -> bufferedUnits' = bufferedUnits + 1 /\ UNCHANGED pictures
    /\ UNCHANGED <<toPage, canvas, stage, trackProcessor, reading, made, isFirstSample>>

\* The browser has a configuration for the decoder, which goes before the set-up, or none.
DecoderSetup ==
    /\ page # "gone"
    /\ stage = "begun"
    /\ \/ stage' = "done" /\ toPage' = Append(toPage, "setUp")
       \/ stage' = "failed" /\ UNCHANGED toPage
    /\ UNCHANGED <<kind, toWorker, posted, worker, trackProcessor, reading, made, bufferedUnits,
                   pictures, isFirstSample, seen>>

\* onError: the decoder gives up.
DecoderError ==
    /\ page # "gone"
    /\ kind = "track" /\ stage = "done"
    /\ stage' = "failed" /\ pictures' = 0
    /\ UNCHANGED <<kind, toWorker, toPage, posted, worker, trackProcessor, reading, made,
                   bufferedUnits, isFirstSample, seen>>

\* readTrack runs from the set-up on.
Running == stage = "done"

\* A turn of readTrack finds the reader of the processor.
Look ==
    /\ page # "gone"
    /\ kind # "track" /\ Running
    /\ trackProcessor /\ ~reading
    /\ reading' = TRUE
    /\ UNCHANGED <<kind, toWorker, toPage, posted, worker, stage, trackProcessor, made,
                   bufferedUnits, pictures, isFirstSample, seen>>

\* External: the processor gets a picture, and may have room for no more than the newest.
Picture ==
    /\ page # "gone"
    /\ trackProcessor
    /\ made < MaxPictures
    /\ made' = made + 1
    /\ pictures' \in {pictures + 1, 1}
    /\ UNCHANGED <<kind, toWorker, toPage, posted, worker, stage, trackProcessor, reading,
                   bufferedUnits, isFirstSample, seen>>

\* A picture of the track is drawn on the canvas, if there is one, or sent back.
ReadTrack ==
    /\ page # "gone"
    /\ reading /\ pictures > 0
    /\ pictures' = pictures - 1
    /\ IF kind = "canvas" THEN shown' = (IF canvas THEN shown + 1 ELSE shown) /\ UNCHANGED toPage
                          ELSE toPage' = Append(toPage, "frame") /\ UNCHANGED shown
    /\ UNCHANGED <<kind, toWorker, posted, worker, stage, trackProcessor, reading, made,
                   bufferedUnits, isFirstSample, rendererSetUp, attached>>

\* onOutput, and submitFrame of VideoTrackGeneratorPipe: the track goes back with the first
\* picture, and whoever has it sees what is written to it.
OnOutput ==
    /\ page # "gone"
    /\ kind = "track" /\ pictures > 0
    /\ pictures' = pictures - 1
    /\ isFirstSample' = FALSE
    /\ toPage' = IF isFirstSample THEN Append(toPage, "track") ELSE toPage
    /\ shown' = IF attached THEN shown + 1 ELSE shown
    /\ UNCHANGED <<kind, toWorker, posted, worker, stage, trackProcessor, reading, made,
                   bufferedUnits, rendererSetUp, attached>>

Taken == CreatePipeline \/ Refuse \/ TakeCanvas \/ TakeSetUp \/ TakeTrack \/ TakePacket

Next == \/ Mount \/ Setup \/ Submit \/ Cleanup \/ TakeOutput \/ Taken
        \/ DecoderSetup \/ DecoderError \/ Look \/ Picture \/ ReadTrack \/ OnOutput

Spec == Init /\ [][Next]_vars

\* A posted message is taken, the browser answers and decodes, and a timer that is set runs.
Works == Taken \/ DecoderSetup \/ Look \/ ReadTrack \/ OnOutput
Fairness == WF_vars(Works) /\ WF_vars(TakeOutput)

-----------------------------------------------------------------------------
(* Properties *)

\* Whatever is posted before the set-up, the pipes behind the worker are set up before they
\* get a picture or the track, and get one track; what is drawn in the worker has a canvas to
\* be drawn on; and a worker that could build its pipeline never fails.
SetupComesFirst ==
    /\ currentPipeline => ~pipelineErrored
    /\ kind # "canvas" /\ (shown > 0 \/ attached) => rendererSetUp
    /\ kind = "canvas" /\ reading => canvas
    /\ attached => \A i \in DOMAIN toPage : toPage[i] # "track"

\* Once the set-up is posted it passes the worker and a track is read, whichever was first:
\* each picture of it brings one that is shown.  Of packets, the ones that come when the
\* decoder is set up bring the track, and then every picture is shown.  Unless the renderer
\* is cleaned up, the pipeline could not be built or the decoder gives up.
Over == page = "gone" \/ pipelineErrored \/ stage = "failed"
SubmittedIsShown ==
    /\ setUpPosted ~> rendererSetUp \/ Over
    /\ \A n \in 0..MaxPictures :
          (setUpPosted /\ pictures > 0 /\ shown = n /\ (kind = "track" => attached))
              ~> (shown > n \/ Over)
    /\ (stage = "done" /\ \E i \in DOMAIN toWorker : toWorker[i] = "packet") ~> (attached \/ Over)
=============================================================================
