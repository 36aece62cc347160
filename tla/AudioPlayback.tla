---------------------------- MODULE AudioPlayback ----------------------------
(***************************************************************************)
(* The sound of a stream that comes as data (web/stream/audio/): in one    *)
(* player the browser decodes it into a track of an audio element          *)
(* (AudioDecoderPipe, AudioMediaStreamTrackGeneratorPipe,                  *)
(* AudioElementPlayer), in the other libopus does and every packet is      *)
(* scheduled on the clock of an audio context (AudioDecoderPcmPipe,        *)
(* AudioBufferPipe, ContextDestinationNodeAudioPlayer).                    *)
(*                                                                         *)
(* Packets may come before the set-up, which takes another way, and before *)
(* the viewer has touched the page, without which a browser plays nothing: *)
(* an audio context that is made before that is suspended, its clock       *)
(* stands, and nobody resumes it.  Some browsers do so themselves when a   *)
(* source is started later on.                                             *)
(* Times are in hundredths of a second and relative to the clock.          *)
(*                                                                         *)
(* Left out: samples and channels.                                         *)
(***************************************************************************)
EXTENDS Integers

CONSTANTS TargetLatency, MaxLatency, \* TARGET_LATENCY_SECS and MAX_LATENCY_SECS
          Duration,                  \* of a packet
          Unset,                     \* null
          Slack                      \* bound: how far the clock is followed past an underrun

VARIABLES
    player,             \* decoder or pcm
    setUp,              \* setup was called: setupData, node and context, or configure
    opusModule,         \* libopus is loaded
    errored,
    isFirstPacket,      \* of AudioDecoderPipe
    needsKey,           \* the browser's decoder waits for a key chunk
    hadUserInteraction,
    ahead,              \* nextAudioPlayTime less the time of the context, or Unset
    audioContext,       \* null, suspended or running
    resumes,            \* the browser resumes a context when a source of it is started
    heard,              \* a packet was played where the viewer can hear it
    late,               \* a packet was to start in the past
    gone                \* cleaned up

context == <<audioContext, resumes>>
vars == <<player, setUp, opusModule, errored, isFirstPacket, needsKey, hadUserInteraction,
          ahead, context, heard, late, gone>>

TypeOK ==
    /\ player \in {"decoder", "pcm"}
    /\ {setUp, opusModule, errored, isFirstPacket, needsKey, hadUserInteraction, resumes, heard,
        late, gone} \subseteq BOOLEAN
    /\ audioContext \in {"null", "suspended", "running"}
    /\ ahead \in (-Slack)..(MaxLatency + Duration) \cup {Unset}

Init ==
    /\ player \in {"decoder", "pcm"}
    /\ setUp = FALSE /\ opusModule = FALSE /\ errored = FALSE
    /\ isFirstPacket = TRUE /\ needsKey = TRUE
    /\ hadUserInteraction = FALSE
    /\ ahead = Unset
    /\ audioContext = "null" /\ resumes \in BOOLEAN
    /\ heard = FALSE /\ late = FALSE /\ gone = FALSE

\* setup of the player, with ConnectionComplete: libopus plays on a context that is made now.
Setup ==
    /\ ~setUp /\ ~gone
    /\ setUp' = TRUE
    /\ audioContext' = IF player = "decoder" THEN "null"
                       ELSE IF hadUserInteraction THEN "running" ELSE "suspended"
    /\ UNCHANGED <<player, opusModule, errored, isFirstPacket, needsKey, hadUserInteraction,
                   ahead, resumes, heard, late, gone>>

\* loadOpus is done.
OpusLoaded ==
    /\ player = "pcm" /\ ~opusModule /\ ~gone
    /\ opusModule' = TRUE
    /\ UNCHANGED <<player, setUp, errored, isFirstPacket, needsKey, hadUserInteraction, ahead,
                   context, heard, late, gone>>

\* onUserInteraction: later packets are scheduled, or the element is no longer muted.  The
\* context is left as it is.
UserInteraction ==
    /\ ~hadUserInteraction /\ ~gone
    /\ hadUserInteraction' = TRUE
    /\ UNCHANGED <<player, setUp, opusModule, errored, isFirstPacket, needsKey, ahead, context,
                   heard, late, gone>>

\* Where playPcm starts the next packet.
StartAt(a) == IF a = Unset \/ a > MaxLatency \/ a < 0 THEN TargetLatency ELSE a

\* playPcm: what is started on a context that is suspended is not heard.
PlayPcm ==
    IF hadUserInteraction
    THEN /\ ahead' = StartAt(ahead) + Duration
         /\ late' = (late \/ StartAt(ahead) < 0)
         /\ audioContext' = IF resumes THEN "running" ELSE audioContext
         /\ heard' = (heard \/ audioContext' = "running")
    ELSE UNCHANGED <<ahead, late, audioContext, heard>>

\* decodeAndPlay of AudioDecoderPcmPipe: a packet before the set-up is an error, one before
\* libopus is there is dropped; decoding may fail.
PcmPacket ==
    /\ player = "pcm"
    /\ IF errored \/ ~setUp \/ ~opusModule
       THEN /\ errored' = (errored \/ ~setUp)
            /\ UNCHANGED <<ahead, late, audioContext, heard>>
       ELSE \/ errored' = FALSE /\ PlayPcm
            \/ errored' = TRUE /\ UNCHANGED <<ahead, late, audioContext, heard>>
    /\ UNCHANGED <<isFirstPacket, needsKey>>

IsKey == isFirstPacket

\* decodeAndPlay of AudioDecoderPipe: only the first packet ever is a key chunk, decoded or
\* not.  The decoder may give up (onError).
DecoderPacket ==
    /\ player = "decoder"
    /\ isFirstPacket' = (isFirstPacket /\ errored)
    /\ LET decodes == ~errored /\ setUp /\ (IsKey \/ ~needsKey)
       IN IF decodes
          THEN \/ /\ needsKey' = FALSE
                  /\ heard' = (heard \/ hadUserInteraction)
                  /\ UNCHANGED errored
               \/ errored' = TRUE /\ UNCHANGED <<needsKey, heard>>
          ELSE UNCHANGED <<errored, needsKey, heard>>
    /\ UNCHANGED <<ahead, late, audioContext>>

\* A packet comes.
Packet ==
    /\ ~gone
    /\ PcmPacket \/ DecoderPacket
    /\ UNCHANGED <<player, setUp, opusModule, hadUserInteraction, resumes, gone>>

\* The clock of the context runs.
Tick ==
    /\ audioContext = "running"
    /\ ahead # Unset /\ ahead > -Slack /\ ~gone
    /\ ahead' = ahead - 1
    /\ UNCHANGED <<player, setUp, opusModule, errored, isFirstPacket, needsKey,
                   hadUserInteraction, context, heard, late, gone>>

Cleanup ==
    /\ ~gone
    /\ gone' = TRUE
    /\ UNCHANGED <<player, setUp, opusModule, errored, isFirstPacket, needsKey,
                   hadUserInteraction, ahead, context, heard, late>>

Next == Setup \/ OpusLoaded \/ UserInteraction \/ Packet \/ Tick \/ Cleanup

Spec == Init /\ [][Next]_vars

\* The host sends sound without a break.
Fairness == WF_vars(Packet)

-----------------------------------------------------------------------------
(* Properties *)

\* Sound never lags the stream by more than the greatest latency and the packet itself,
\* however fast packets come, and no packet is asked to start in the past, however late.
LatencyBounded == (ahead # Unset => ahead <= MaxLatency + Duration) /\ ~late

\* A player that is set up, has its decoder and was allowed to play is heard, in whatever
\* order that came and whatever packets came before; unless decoding fails, which includes a
\* packet before the set-up where libopus decodes, or it is silent for one of two reasons.
\* The only key chunk was spent on a decoder that was not configured; or the context was made
\* before the viewer touched the page, and neither the browser nor the player resumes it.
KeySpent == player = "decoder" /\ needsKey /\ ~isFirstPacket
Asleep == audioContext = "suspended" /\ ~resumes
HeardOnceReady ==
    (setUp /\ hadUserInteraction /\ (player = "pcm" => opusModule))
        ~> (heard \/ errored \/ KeySpent \/ Asleep \/ gone)
=============================================================================
