---------------------------- MODULE VideoDecoding ----------------------------
(***************************************************************************)
(* The pictures of a stream that come as data: DepacketizeVideoPipe,       *)
(* VideoDecoderPipe with its translators for H.264 and H.265, and the      *)
(* CanvasFrameDrawPipe they end in (web/stream/video/).                    *)
(*                                                                         *)
(* A unit is a key frame or a delta that continues the unit before it.     *)
(* Which configuration the browser's decoder takes is only known when the  *)
(* setup, which waits for the browser, is over: one that finds the         *)
(* parameter sets in the stream, or one that needs them beforehand, when a *)
(* translator takes them out of the key frames and configures the decoder  *)
(* anew.  The decoder works through its queue on its own and may fail.     *)
(*                                                                         *)
(* Left out: bytes, start codes, lengths, timestamps and sizes, and the    *)
(* requests for animation frames, which draw nothing when a frame is drawn *)
(* as it is submitted.                                                     *)
(***************************************************************************)
EXTENDS Integers, SequencesExt

CONSTANTS Backlog,  \* a queue longer than this takes more than 200 ms (and holds more than 2)
          MaxUnits  \* bound: how many units arrive

VARIABLES
    mode,           \* "setup" until decoderSetupFinished, then how the decoder is configured
    errored,        \* VideoDecoderPipe.errored
    bufferedUnits,
    requestedIdr,
    needsKeyFrame,
    hasDescription, \* of the translator: both or all three parameter sets were seen
    decoder,        \* the browser's: state, whether it needs a key frame, its queue
    last,           \* the unit the decoder was given last, since its configuration; 0: none
    currentFrame,   \* the frame the canvas pipe holds; 0: none
    open,           \* the frames nobody has closed
    arrived,        \* how many units have arrived
    asked,          \* how many key frames were asked for since one arrived
    misused         \* the decoder was given a delta it cannot decode

pipe == <<bufferedUnits, requestedIdr, needsKeyFrame, hasDescription>>
vars == <<mode, errored, pipe, decoder, last, currentFrame, open, arrived, asked, misused>>

Unit == [n : 1..MaxUnits, key : BOOLEAN, sets : BOOLEAN]

TypeOK ==
    /\ mode \in {"setup", "inBand", "translated", "none", "gone"}
    /\ errored \in BOOLEAN /\ misused \in BOOLEAN
    /\ bufferedUnits \in Seq(Unit)
    /\ requestedIdr \in BOOLEAN /\ needsKeyFrame \in BOOLEAN /\ hasDescription \in BOOLEAN
    /\ decoder.state \in {"unconfigured", "configured", "closed"}
    /\ decoder.needsKey \in BOOLEAN /\ decoder.queue \in Seq(1..MaxUnits)
    /\ last \in 0..MaxUnits /\ currentFrame \in 0..MaxUnits
    /\ open \subseteq 1..MaxUnits
    /\ arrived \in 0..MaxUnits /\ asked \in 0..MaxUnits

Fresh(state) == [state |-> state, needsKey |-> TRUE, queue |-> <<>>]

Init ==
    /\ mode = "setup" /\ errored = FALSE /\ misused = FALSE
    /\ bufferedUnits = <<>>
    /\ requestedIdr = FALSE /\ needsKeyFrame = TRUE /\ hasDescription = FALSE
    /\ decoder = Fresh("unconfigured")
    /\ last = 0 /\ currentFrame = 0 /\ open = {}
    /\ arrived = 0 /\ asked = 0

(* What a listener does to the decoder and the pipe, as a function of both. *)

Pipe == [buffered |-> bufferedUnits, requested |-> requestedIdr, needsKey |-> needsKeyFrame,
         described |-> hasDescription, decoder |-> decoder, last |-> last,
         misused |-> misused, thrown |-> FALSE]

Becomes(s) ==
    /\ bufferedUnits' = s.buffered /\ requestedIdr' = s.requested
    /\ needsKeyFrame' = s.needsKey /\ hasDescription' = s.described
    /\ decoder' = s.decoder /\ last' = s.last /\ misused' = s.misused

\* decode of the browser's decoder: it throws unless it is configured, and when a delta comes
\* where it needs a key frame.
Decode(s, u) ==
    LET refused == s.decoder.state # "configured" \/ (s.decoder.needsKey /\ ~u.key)
    IN [s EXCEPT !.thrown = refused,
                 !.misused = @ \/ (~u.key /\ s.last # u.n - 1),
                 !.last = IF refused THEN @ ELSE u.n,
                 !.decoder = IF refused THEN @
                             ELSE [s.decoder EXCEPT !.needsKey = FALSE, !.queue = Append(@, u.n)]]

Configured(s) == [s EXCEPT !.decoder = Fresh("configured"), !.last = 0]

\* Faulty: the decoder is emptied, and the next delta is taken for its continuation.
ResetOnly(s) == IF mode = "translated" THEN s ELSE Configured(s)

\* reset of the pipe: with a translator it only writes down the configuration.
Reset(s) == IF mode = "translated" THEN s ELSE [Configured(s) EXCEPT !.needsKey = TRUE]

SubmitInBand(s, u) ==
    IF ~u.key /\ s.needsKey THEN s
    ELSE Decode([s EXCEPT !.needsKey = FALSE, !.requested = FALSE], u)

\* A key frame without parameter sets before the first description is decoded all the same.
SubmitTranslated(s, u) ==
    IF ~u.key /\ ~s.described THEN s
    ELSE Decode(IF u.sets THEN [Configured(s) EXCEPT !.described = TRUE, !.requested = FALSE]
                          ELSE s,
                u)

\* submitDecodeUnit after the setup, for one unit; an exception ends the whole listener.
Submit(s, u) ==
    IF s.thrown THEN s
    ELSE IF mode = "translated" THEN SubmitTranslated(s, u) ELSE SubmitInBand(s, u)

WithBuffered(s, u) == Append(s.buffered, u)

TooSlow(s) == Len(s.decoder.queue) > Backlog

Asks(s) == TooSlow(s) /\ ~s.requested

\* pollRequestIdr
Poll(s) == IF Asks(s) THEN [Reset(s) EXCEPT !.requested = TRUE] ELSE s

(* Actions *)

\* The setup is over: the browser takes a configuration, or none.
SetupFinished(m) ==
    /\ mode = "setup"
    /\ mode' = m
    /\ errored' = (errored \/ m = "none")
    /\ decoder' = IF m = "inBand" THEN Fresh("configured") ELSE decoder
    /\ UNCHANGED <<pipe, last, currentFrame, open, arrived, asked, misused>>

\* A unit arrives: the receive listener of createVideoRenderer submits it and asks for a key
\* frame if it should.
Arrive(key, sets) ==
    /\ mode # "gone"
    /\ arrived < MaxUnits
    /\ arrived' = arrived + 1
    /\ LET u == [n |-> arrived + 1, key |-> key, sets |-> sets]
           submitted ==
               CASE errored -> Pipe
                 [] ~errored /\ mode = "setup" -> [Pipe EXCEPT !.buffered = Append(@, u)]
                 [] OTHER -> FoldLeft(Submit, [Pipe EXCEPT !.buffered = <<>>],
                                      WithBuffered(Pipe, u))
           polled == IF submitted.thrown THEN submitted ELSE Poll(submitted)
       IN /\ Becomes(polled)
          /\ asked' = (IF key THEN 0 ELSE asked)
                      + (IF ~submitted.thrown /\ Asks(submitted) THEN 1 ELSE 0)
    /\ UNCHANGED <<mode, errored, currentFrame, open>>

CloseCurrent(frames) == frames \ {currentFrame}

\* The decoder has decoded a unit: submitFrame of the canvas pipe.
Output ==
    /\ decoder.queue # <<>>
    /\ decoder' = [decoder EXCEPT !.queue = Tail(@)]
    /\ currentFrame' = Head(decoder.queue)
    /\ open' = CloseCurrent(open) \cup {Head(decoder.queue)}
    /\ UNCHANGED <<mode, errored, pipe, last, arrived, asked, misused>>

\* The decoder gives up.
DecoderError ==
    /\ decoder.state = "configured"
    /\ decoder' = Fresh("closed")
    /\ errored' = TRUE
    /\ UNCHANGED <<mode, pipe, last, currentFrame, open, arrived, asked, misused>>

\* cleanup; it throws if the decoder has already given up.  The last frame stays open.
Cleanup ==
    /\ mode # "gone"
    /\ mode' = "gone"
    /\ decoder' = Fresh("closed")
    /\ UNCHANGED <<errored, pipe, last, currentFrame, open, arrived, asked, misused>>

Next ==
    \/ \E m \in {"inBand", "translated", "none"} : SetupFinished(m)
    \/ \E key \in BOOLEAN : \E sets \in {FALSE, key} : Arrive(key, sets)
    \/ Output \/ DecoderError \/ Cleanup

Spec == Init /\ [][Next]_vars

-----------------------------------------------------------------------------
(* Properties *)

\* What waited for the setup, what was dropped until a key frame came and what an exception
\* or a reset threw away never tears a hole: a delta is only given to the decoder after the
\* unit it continues.
DeltasContinue == ~misused

\* However slow the decoder is, one key frame is asked for, and no other before it came.
OneKeyFrameAsked == asked <= 1

\* The frame on the canvas is the only one that holds memory, and pictures never go back.
PicturesAdvance ==
    /\ open \subseteq {currentFrame}
    /\ \A i \in 1..Len(decoder.queue) : decoder.queue[i] > currentFrame
    /\ \A i, j \in 1..Len(decoder.queue) : i < j => decoder.queue[i] < decoder.queue[j]
=============================================================================
