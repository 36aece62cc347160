--------------------------- MODULE KeyboardInput ---------------------------
(***************************************************************************)
(* The keys of the viewer page: the listeners of web/stream.ts, the set of *)
(* pressed keys of StreamInput (web/stream/input.ts), the KEYBOARD channel *)
(* and the host at its end.                                                *)
(*                                                                         *)
(* The page sees a key only while it has the focus and no dialog and no    *)
(* sidebar takes the event, so it misses releases; a held key repeats its  *)
(* press.  When the page loses the focus it raises what it has pressed,    *)
(* but not while it changes to full screen.  Before a transport is set     *)
(* there is no channel, and before a WebRTC channel is open what is sent   *)
(* waits in it.  Which key and which modifiers an event stands for is left *)
(* to the tables of keyboard.ts; every key here has an entry.              *)
(***************************************************************************)
EXTENDS DataChannel, SequencesExt

CONSTANTS Keys,       \* the keys of VK_MAPPINGS to look at
          MaxPackets  \* bound: packets on their way

VARIABLES
    held,         \* the keys the user holds down
    focus,        \* who sees a key: the stream, an overlay of the page, or another window
    transition,   \* immersiveTransitionInProgress
    spared,       \* the page was last left in a transition
    pressedKeys,  \* StreamInput.pressedKeys
    channel,      \* the KEYBOARD channel
    started,      \* the streamer has a stream to pass packets on to
    host          \* the keys the host believes to be down

vars == <<held, focus, transition, spared, pressedKeys, channel, started, host>>

Packet == [down : BOOLEAN, key : Keys]
Press(k) == [down |-> TRUE, key |-> k]
Release(k) == [down |-> FALSE, key |-> k]
Room == Len(OnItsWay(channel)) + Cardinality(pressedKeys) < MaxPackets

TypeOK ==
    /\ held \subseteq Keys /\ pressedKeys \subseteq Keys /\ host \subseteq Keys
    /\ focus \in {"stream", "overlay", "away"}
    /\ transition \in BOOLEAN /\ spared \in BOOLEAN /\ started \in BOOLEAN
    /\ channel.kind \in {"none", "webrtc", "websocket"} /\ channel.open \in BOOLEAN
    /\ OnItsWay(channel) \in Seq(Packet)

Init ==
    /\ held = {} /\ focus = "stream" /\ transition = FALSE /\ spared = FALSE
    /\ pressedKeys = {} /\ channel = NoChannel /\ started = FALSE /\ host = {}

\* sendKeyEvent: a press of a pressed key and a release of another one are ignored.
SendDown(k) ==
    IF k \in pressedKeys
    THEN UNCHANGED <<pressedKeys, channel>>
    ELSE /\ pressedKeys' = pressedKeys \cup {k}
         /\ channel' = Send(channel, Press(k))

SendUp(k) ==
    IF k \notin pressedKeys
    THEN UNCHANGED <<pressedKeys, channel>>
    ELSE /\ pressedKeys' = pressedKeys \ {k}
         /\ channel' = Send(channel, Release(k))

\* The keyboard reports a press, or repeats it.
KeyDown(k) ==
    /\ Room
    /\ held' = held \cup {k}
    /\ IF focus = "stream" THEN SendDown(k) ELSE UNCHANGED <<pressedKeys, channel>>
    /\ UNCHANGED <<focus, transition, spared, started, host>>

KeyUp(k) ==
    /\ Room
    /\ k \in held
    /\ held' = held \ {k}
    /\ IF focus = "stream" THEN SendUp(k) ELSE UNCHANGED <<pressedKeys, channel>>
    /\ UNCHANGED <<focus, transition, spared, started, host>>

\* raiseAllKeys
RaiseAllKeys ==
    /\ pressedKeys' = {}
    /\ channel' = SendAll(channel, SetToSeq({Release(k) : k \in pressedKeys}))

\* blur and visibilitychange
Leave ==
    /\ focus # "away"
    /\ focus' = "away"
    /\ spared' = transition
    /\ IF transition THEN UNCHANGED <<pressedKeys, channel>> ELSE RaiseAllKeys
    /\ UNCHANGED <<held, transition, started, host>>

\* A dialog or the sidebar takes the events, or gives them back, or the page is focused.
Focus(where) ==
    /\ focus # where
    /\ focus' = where
    /\ spared' = FALSE
    /\ UNCHANGED <<held, transition, pressedKeys, channel, started, host>>

\* requestFullscreen begins, and two seconds after it the flag is cleared.
Transition(now) ==
    /\ transition # now
    /\ transition' = now
    /\ UNCHANGED <<held, focus, spared, pressedKeys, channel, started, host>>

\* setTransport: what the channel of the transport before still kept is lost with it.
SetTransport(new) ==
    /\ ~started
    /\ channel.kind \in {"none", "webrtc"} /\ channel.kind # new.kind
    /\ channel' = new
    /\ UNCHANGED <<held, focus, transition, spared, pressedKeys, started, host>>

ChannelOpens ==
    /\ channel.kind = "webrtc" /\ ~channel.open
    /\ channel' = Opens(channel)
    /\ UNCHANGED <<held, focus, transition, spared, pressedKeys, started, host>>

\* The streamer has started the stream.
StreamStarts ==
    /\ ~started /\ channel.kind # "none"
    /\ started' = TRUE
    /\ UNCHANGED <<held, focus, transition, spared, pressedKeys, channel, host>>

\* on_packet: without a stream the packet is dropped.
TakePacket ==
    /\ channel.wire # <<>>
    /\ LET p == Head(channel.wire)
       IN host' = CASE ~started -> host
                    [] started /\ p.down -> host \cup {p.key}
                    [] started /\ ~p.down -> host \ {p.key}
    /\ channel' = Taken(channel)
    /\ UNCHANGED <<held, focus, transition, spared, pressedKeys, started>>

\* A reconnect: a new Stream, a new StreamInput, and a new connection to the host.
NewStream ==
    /\ started
    /\ started' = FALSE
    /\ pressedKeys' = {} /\ channel' = NoChannel /\ host' = {}
    /\ UNCHANGED <<held, focus, transition, spared>>

Next ==
    \/ \E k \in Keys : KeyDown(k) \/ KeyUp(k)
    \/ Leave
    \/ \E where \in {"stream", "overlay"} : Focus(where)
    \/ \E now \in BOOLEAN : Transition(now)
    \/ \E new \in {NewWebRtc, NewWebSocket} : SetTransport(new)
    \/ ChannelOpens \/ StreamStarts \/ TakePacket \/ NewStream

Spec == Init /\ [][Next]_vars

-----------------------------------------------------------------------------
(* Properties *)

\* What the host will hold once it has taken everything on its way.
HeldAfter ==
    LET q == OnItsWay(channel)
    IN {k \in Keys : \E i \in 0..Len(q) :
           /\ IF i = 0 THEN k \in host ELSE q[i] = Press(k)
           /\ \A j \in (i + 1)..Len(q) : q[j] # Release(k)}

\* Who leaves the page leaves no key pressed at the host, however many releases the page
\* has missed before: everything the host holds or is going to hold is raised behind it,
\* unless the page was changing to full screen.
LeavingReleases == focus = "away" /\ ~spared => HeldAfter = {}
=============================================================================
