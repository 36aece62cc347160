---------------------------- MODULE MediaElements ----------------------------
(***************************************************************************)
(* What a stream is shown and heard with (web/stream/video and audio):     *)
(* VideoElementRenderer, AudioElementPlayer, the generator pipes that make *)
(* a track for them out of decoded samples, and the audio context of       *)
(* ContextDestinationNodeAudioPlayer.                                      *)
(*                                                                         *)
(* Stream builds a player when a transport is chosen and cleans up the one *)
(* before.  A listener for tracks is never removed, so a player that was   *)
(* cleaned up still gets the tracks of its transport, late ones included.  *)
(* A browser plays nothing with sound before the viewer has touched the    *)
(* page; it tells the player of the moment of every touch.                 *)
(*                                                                         *)
(* The medium is chosen at first and stays.  Left out: sizes, HDR, codecs, *)
(* and what a track shows.                                                 *)
(***************************************************************************)
EXTENDS Naturals, FiniteSets

CONSTANTS MaxPlayers,  \* bound: players one Stream builds
          Tracks,      \* the tracks of the transport
          Generated,   \* the track of a MediaStreamTrackGenerator
          NoTrack      \* null

VARIABLES
    medium,   \* "video" or "audio"
    made,     \* how many players were built
    current,  \* videoRenderer or audioPlayer: its number, or 0
    players   \* the players that were built, by their number

vars == <<medium, made, current, players>>

Kinds == {"track", "generator", "node"}

Player == [kind : Kinds, mounted : BOOLEAN,
           srcObject : BOOLEAN,                \* the element plays the MediaStream
           tracks : SUBSET (Tracks \cup {Generated}),  \* what is in the MediaStream
           oldTrack : Tracks \cup {Generated, NoTrack},
           muted : BOOLEAN,                    \* of an element, or no hadUserInteraction
           paused : BOOLEAN,                   \* of a video
           isFirstSample : BOOLEAN,
           context : {"none", "open", "closed"}, \* audioContext
           source : BOOLEAN]                     \* a source is connected to the destination

TypeOK ==
    /\ medium \in {"video", "audio"}
    /\ made \in 0..MaxPlayers /\ current \in 0..made
    /\ players \in [1..made -> Player]

Init ==
    /\ medium \in {"video", "audio"}
    /\ made = 0 /\ current = 0
    /\ players = <<>>

\* The constructors.  The elements are muted and play by themselves; only a decoded sound
\* goes to an audio context, behind an AudioBufferPipe that drops it at first.
NewPlayer(kind) ==
    [kind |-> kind, mounted |-> TRUE, srcObject |-> kind # "node",
     tracks |-> {}, oldTrack |-> NoTrack, muted |-> TRUE, paused |-> TRUE,
     isFirstSample |-> TRUE, context |-> "none", source |-> FALSE]

\* unmount and cleanup.  The renderer of videos keeps its oldTrack.
CleanUp(p) ==
    [p EXCEPT !.mounted = FALSE, !.srcObject = FALSE,
              !.tracks = @ \ {p.oldTrack},
              !.oldTrack = IF medium = "audio" THEN NoTrack ELSE @,
              !.context = IF @ = "open" THEN "closed" ELSE @]

\* The player there was, when a new one is built or the stream is destroyed.
WithoutCurrent == [i \in DOMAIN players |-> IF i = current THEN CleanUp(players[i]) ELSE players[i]]

\* createVideoRenderer and createAudioPlayer.
Create(kind) ==
    /\ made < MaxPlayers
    /\ kind = "node" => medium = "audio"
    /\ made' = made + 1 /\ current' = made'
    /\ players' = [i \in 1..made' |-> IF i = made' THEN NewPlayer(kind) ELSE WithoutCurrent[i]]
    /\ UNCHANGED medium

\* setTrack: the element plays the new track instead of the old one.
SetTrack(p, t) == [p EXCEPT !.tracks = (@ \ {p.oldTrack}) \cup {t}, !.oldTrack = t]

\* A video that plays by itself starts with its track, if the browser lets it.
Starts(p) == {p} \cup (IF p.srcObject THEN {[p EXCEPT !.paused = FALSE]} ELSE {})

\* A track of the transport, told to everyone who ever listened.
Track(t) ==
    /\ current # 0 /\ players[current].kind = "track"
    /\ \E starts \in BOOLEAN :
        players' = [i \in 1..made |->
            IF players[i].kind # "track" THEN players[i]
            ELSE LET p == SetTrack(players[i], t)
                 IN IF starts /\ p.srcObject THEN [p EXCEPT !.paused = FALSE] ELSE p]
    /\ UNCHANGED <<medium, made, current>>

\* submitFrame and submitSample of a generator pipe: the first one gives the track away.
Sample ==
    /\ current # 0 /\ players[current].kind = "generator"
    /\ players[current].isFirstSample
    /\ \E p \in Starts(SetTrack(players[current], Generated)) :
        players' = [players EXCEPT ![current] = [p EXCEPT !.isFirstSample = FALSE]]
    /\ UNCHANGED <<medium, made, current>>

\* setup of ContextDestinationNodeAudioPlayer, and AudioBufferPipe, which then has a source.
Setup ==
    /\ current # 0 /\ players[current].kind = "node" /\ players[current].context = "none"
    /\ players' = [players EXCEPT ![current].context = "open", ![current].source = TRUE]
    /\ UNCHANGED <<medium, made, current>>

\* The viewer touches the page: a sound is heard from now on, and a video that is paused is
\* played, which the browser may refuse.
UserInteraction ==
    /\ current # 0
    /\ IF medium = "audio"
       THEN players' = [players EXCEPT ![current].muted = FALSE]
       ELSE \E p \in Starts(players[current]) : players' = [players EXCEPT ![current] = p]
    /\ UNCHANGED <<medium, made, current>>

\* Stream.destroy.
Destroy ==
    /\ current # 0
    /\ players' = WithoutCurrent
    /\ current' = 0
    /\ UNCHANGED <<medium, made>>

Next ==
    \/ \E k \in Kinds : Create(k)
    \/ \E t \in Tracks : Track(t)
    \/ Sample \/ Setup \/ UserInteraction \/ Destroy

Spec == Init /\ [][Next]_vars

-----------------------------------------------------------------------------
(* Properties *)

\* The player is seen or heard.
Plays(p) ==
    /\ IF medium = "video" THEN ~p.paused ELSE ~p.muted
    /\ \/ p.srcObject /\ p.tracks # {}
       \/ p.context = "open" /\ p.source

\* When a transport was replaced or the stream is over, nothing is heard or seen of a player
\* that was cleaned up, though it goes on getting tracks; and the player in use plays one
\* track, the last it was given, and not the one before as well.
OnlyCurrentPlays ==
    /\ \A i \in 1..made : Plays(players[i]) => i = current
    /\ current # 0 =>
        LET p == players[current]
        IN p.tracks = IF p.oldTrack = NoTrack THEN {} ELSE {p.oldTrack}
=============================================================================
