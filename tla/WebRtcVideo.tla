----------------------------- MODULE WebRtcVideo -----------------------------
(***************************************************************************)
(* The video path of a WebRTC transport: WebRtcVideo (webrtc/video.rs) and *)
(* the TrackLocalSender it feeds (webrtc/sender.rs).                       *)
(*                                                                         *)
(* The decoder thread of the Moonlight library hands over one frame at a   *)
(* time (the transport and the video mutex are locked meanwhile) and learns*)
(* from the result whether to ask the host for an IDR frame.  A task per   *)
(* track takes the frames from a bounded queue and writes them.  The task  *)
(* holds only a weak reference to the queue between two frames, but a      *)
(* strong one while it waits for more.                                     *)
(*                                                                         *)
(* What is in a frame is abstracted to its number since the last IDR       *)
(* frame, and to whether everything since was queued, that is, whether it  *)
(* can be decoded.  The audio path uses the same queue without IDR frames  *)
(* and without looking at the result.                                      *)
(***************************************************************************)
EXTENDS Integers, SequencesExt

CONSTANTS Senders,    \* sample_sender tasks, one per create_track
          QueueSize,  \* channel_queue_size
          MaxRun,     \* bound: frames between two IDR frames are numbered up to it and again
          MaxIdrs     \* bound: IDR frames in the queue at a time

ASSUME QueueAssumption == QueueSize \in Nat /\ MaxRun \in Nat \ {0} /\ MaxIdrs \in Nat

VARIABLES
    codec,      \* the decoder has been set up: codec is Some
    alive,      \* the TrackLocalSender has not been dropped
    queue,      \* frames waiting, oldest first
    decoder,    \* how far send_decode_unit has come
    current,    \* the frame it sends
    chain,      \* no frame since the last IDR frame has been dropped
    needsIdr,   \* the needs_idr flag
    requested,  \* the host owes an IDR frame
    sender,     \* sender[w]: where task w is
    held,       \* held[w]: the frame it took
    last        \* last[w]: the frame it wrote last

videoVars == <<codec, alive, queue, decoder, current, chain, needsIdr, requested, sender, held, last>>

Frame == [n : 0..MaxRun, intact : BOOLEAN]
IsIdr(frame) == frame.n = 0

Follower(frame) == IF frame.n = MaxRun THEN 1 ELSE frame.n + 1

VideoTypeOK ==
    /\ codec \in BOOLEAN
    /\ alive \in BOOLEAN
    /\ queue \in Seq(Frame)
    /\ decoder \in {"idle", "send", "clear", "mark", "report"}
    /\ current \in Frame
    /\ chain \in BOOLEAN
    /\ needsIdr \in BOOLEAN
    /\ requested \in BOOLEAN
    /\ sender \in [Senders -> {"unused", "poll", "empty", "waiting", "writing", "orphan"}]
    /\ held \in [Senders -> Frame]
    /\ last \in [Senders -> -1..MaxRun]

\* The library starts by waiting for an IDR frame.
VideoInit ==
    /\ codec = FALSE
    /\ alive = TRUE
    /\ queue = <<>>
    /\ decoder = "idle"
    /\ current = [n |-> MaxRun, intact |-> FALSE]
    /\ chain = FALSE
    /\ needsIdr = FALSE
    /\ requested = TRUE
    /\ sender = [w \in Senders |-> "unused"]
    /\ held = [w \in Senders |-> [n |-> 0, intact |-> FALSE]]
    /\ last = [w \in Senders |-> -1]

senderVars == <<sender, held, last>>

-------------------------------------------------------------------------------
(* WebRtcVideo::setup *)

\* create_track spawns the task before anything can fail.
CreateTrack(w) ==
    /\ alive /\ decoder = "idle"
    /\ sender[w] = "unused"
    /\ sender' = [sender EXCEPT ![w] = "poll"]
    /\ codec' \in {codec, TRUE}
    /\ UNCHANGED <<alive, queue, decoder, current, chain, needsIdr, requested, held, last>>

-------------------------------------------------------------------------------
(* WebRtcVideo::send_decode_unit and send_single_frame *)

\* clear_queue keeps the IDR frames in their order.
Retain(kept, frame) == IF IsIdr(frame) THEN Append(kept, frame) ELSE kept

\* A frame arrives; an IDR frame makes the queued frames before it superfluous.
Submit(n) ==
    /\ alive /\ codec /\ decoder = "idle"
    /\ n = 0 => Cardinality({i \in DOMAIN queue : IsIdr(queue[i])}) < MaxIdrs
    /\ n = 0 \/ n = Follower(current)
    /\ decoder' = "send"
    /\ current' = [n |-> n, intact |-> n = 0 \/ chain]
    /\ queue' = IF n = 0 THEN FoldLeft(Retain, <<>>, queue) ELSE queue
    /\ requested' = (requested /\ n # 0)
    /\ UNCHANGED <<codec, alive, chain, needsIdr, senderVars>>

\* send_samples: only an IDR frame is queued regardless of the frames waiting.
HasRoom == IsIdr(current) \/ Len(queue) <= QueueSize

\* Faulty: the frame is put where the task takes frames from.
PushBack == <<current>> \o queue

PushFront == Append(queue, current)

\* notify_waiters wakes the tasks waiting now and leaves nothing for the others.
Notified == [w \in Senders |-> IF sender[w] = "waiting" THEN "poll" ELSE sender[w]]

SendSamples ==
    /\ decoder = "send"
    /\ IF HasRoom
       THEN /\ queue' = PushFront
            /\ sender' = Notified
            /\ chain' = current.intact
            /\ decoder' = "report"
       ELSE /\ chain' = FALSE
            /\ decoder' = "clear"
            /\ UNCHANGED <<queue, sender>>
    /\ UNCHANGED <<codec, alive, current, needsIdr, requested, held, last>>

\* A refused frame: what waits before it is dropped too, IDR frames included.
ClearQueue ==
    /\ decoder = "clear"
    /\ queue' = <<>>
    /\ decoder' = "mark"
    /\ UNCHANGED <<codec, alive, current, chain, needsIdr, requested, senderVars>>

\* Faulty: a dropped frame is not reported.
ForgetNeedsIdr ==
    /\ decoder = "mark"
    /\ decoder' = "report"
    /\ UNCHANGED <<codec, alive, queue, current, chain, needsIdr, requested, senderVars>>

MarkNeedsIdr ==
    /\ decoder = "mark"
    /\ needsIdr' = TRUE
    /\ decoder' = "report"
    /\ UNCHANGED <<codec, alive, queue, current, chain, requested, senderVars>>

\* Faulty: the flag is reset and the result forgotten.
ReportOk ==
    /\ decoder = "report"
    /\ needsIdr' = FALSE
    /\ decoder' = "idle"
    /\ UNCHANGED <<codec, alive, queue, current, chain, requested, senderVars>>

\* The result NeedIdr, which makes the library ask the host.
ReportNeedIdr ==
    /\ decoder = "report"
    /\ needsIdr
    /\ needsIdr' = FALSE
    /\ requested' = TRUE
    /\ decoder' = "idle"
    /\ UNCHANGED <<codec, alive, queue, current, chain, senderVars>>

\* The result Ok: compare_exchange_weak may fail although the flag is set.
ReportNothing ==
    /\ decoder = "report"
    /\ decoder' = "idle"
    /\ UNCHANGED <<codec, alive, queue, current, chain, needsIdr, requested, senderVars>>

\* The browser reports a picture loss over RTCP.
PictureLoss ==
    /\ \E w \in Senders : sender[w] # "unused"
    /\ needsIdr' = TRUE
    /\ UNCHANGED <<codec, alive, queue, decoder, current, chain, requested, senderVars>>

-------------------------------------------------------------------------------
(* sample_sender *)

\* The tasks that hold a strong reference to the queue across an await.
Holders == {w \in Senders : sender[w] \in {"empty", "waiting"}}

\* upgrade fails: the task says it stops and goes round again.
PollOrphaned(w) ==
    /\ sender[w] = "poll"
    /\ ~alive /\ Holders = {}
    /\ sender' = [sender EXCEPT ![w] = "orphan"]
    /\ UNCHANGED <<codec, alive, queue, decoder, current, chain, needsIdr, requested, held, last>>

PollAgain(w) ==
    /\ sender[w] = "orphan"
    /\ sender' = [sender EXCEPT ![w] = "poll"]
    /\ UNCHANGED <<codec, alive, queue, decoder, current, chain, needsIdr, requested, held, last>>

Poll(w) ==
    /\ sender[w] = "poll"
    /\ alive \/ Holders # {}
    /\ IF queue = <<>>
       THEN sender' = [sender EXCEPT ![w] = "empty"] /\ UNCHANGED <<queue, held>>
       ELSE /\ sender' = [sender EXCEPT ![w] = "writing"]
            /\ held' = [held EXCEPT ![w] = Head(queue)]
            /\ queue' = Tail(queue)
    /\ UNCHANGED <<codec, alive, decoder, current, chain, needsIdr, requested, last>>

\* The queue has been unlocked before the task waits for a notification.
Wait(w) ==
    /\ sender[w] = "empty"
    /\ sender' = [sender EXCEPT ![w] = "waiting"]
    /\ UNCHANGED <<codec, alive, queue, decoder, current, chain, needsIdr, requested, held, last>>

\* Faulty: the numbers start at one.
WriteNext(w) ==
    /\ sender[w] = "writing"
    /\ sender' = [sender EXCEPT ![w] = "poll"]
    /\ last' = [last EXCEPT ![w] = held[w].n + 1]
    /\ UNCHANGED <<codec, alive, queue, decoder, current, chain, needsIdr, requested, held>>

\* The packets are written; an error is only logged.
Write(w) ==
    /\ sender[w] = "writing"
    /\ sender' = [sender EXCEPT ![w] = "poll"]
    /\ last' = [last EXCEPT ![w] = held[w].n]
    /\ UNCHANGED <<codec, alive, queue, decoder, current, chain, needsIdr, requested, held>>

\* The transport is dropped; a waiting task keeps the queue.
DropSender ==
    /\ alive /\ decoder = "idle"
    /\ alive' = FALSE
    /\ queue' = IF Holders = {} THEN <<>> ELSE queue
    /\ UNCHANGED <<codec, decoder, current, chain, needsIdr, requested, senderVars>>

-------------------------------------------------------------------------------
Decode ==
    \/ SendSamples \/ ClearQueue \/ MarkNeedsIdr \/ ReportNeedIdr \/ ReportNothing

SampleSender(w) == PollOrphaned(w) \/ PollAgain(w) \/ Poll(w) \/ Wait(w) \/ Write(w)

VideoNext ==
    \/ \E n \in 0..MaxRun : Submit(n)
    \/ Decode
    \/ PictureLoss
    \/ DropSender
    \/ \E w \in Senders : CreateTrack(w) \/ SampleSender(w)

VideoSpec == VideoInit /\ [][VideoNext]_videoVars

\* Threads and tasks go on; a compare_exchange_weak does not fail for ever.
VideoFairness ==
    /\ WF_videoVars(Decode)
    /\ SF_videoVars(ReportNeedIdr)
    /\ \A w \in Senders : WF_videoVars(SampleSender(w))

\* Frames keep coming, and a host that owes an IDR frame sends one.
SteadyFairness ==
    /\ VideoFairness
    /\ WF_videoVars(\E n \in 1..MaxRun : Submit(n))
    /\ SF_videoVars(requested /\ Submit(0))

-------------------------------------------------------------------------------
(* Properties *)

\* The queue holds at most QueueSize + 1 frames that may be refused, and an IDR
\* frame is never queued behind a frame it makes superfluous.
QueueBounded ==
    /\ Cardinality({i \in DOMAIN queue : ~IsIdr(queue[i])}) <= QueueSize + 1
    /\ \A i, j \in DOMAIN queue : i < j /\ IsIdr(queue[j]) => IsIdr(queue[i])

\* While the browser cannot decode what it is sent because a frame was dropped,
\* the host is being asked for an IDR frame, or one is on its way.
BrokenIsReported ==
    codec /\ ~chain =>
        \/ needsIdr \/ requested
        \/ decoder \in {"clear", "mark"}
        \/ decoder = "send" /\ IsIdr(current)

\* A track never gets a frame whose predecessor it did not get, unless the host
\* has been asked to start over: with one task, the frames that can be decoded
\* are written in order and without a gap.
GapFree ==
    \A w \in Senders :
        sender[w] = "writing" /\ held[w].intact /\ ~IsIdr(held[w]) =>
            \/ last[w] = held[w].n - 1
            \/ last[w] = MaxRun /\ held[w].n = 1

\* What send_samples queues, a single sample sender writes within the limit, in
\* order and without a gap: the two parts above together.
QueueInOrder == QueueBounded /\ GapFree

\* A picture loss the browser reports reaches the host.
PictureLossAnswered == needsIdr ~> requested \/ ~alive

\* After a dropped frame the picture recovers.
BrokenHeals == codec /\ ~chain ~> chain \/ ~alive

\* Whatever breaks the chain of references, in the streamer or on the way, is
\* followed by an IDR frame: the two parts above together.
PictureHeals == PictureLossAnswered /\ BrokenHeals
===============================================================================
