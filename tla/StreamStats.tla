----------------------------- MODULE StreamStats -----------------------------
(***************************************************************************)
(* The statistics of a stream: StreamStats of web/stream/stats.ts.         *)
(*                                                                         *)
(* The viewer turns them on and off while the stream may change from one   *)
(* transport to the next.  The streamer's half comes over a channel of     *)
(* the transport, the browser's half is asked of the transport once a      *)
(* second, and the answer may come when another transport is in use.       *)
(*                                                                         *)
(* Left out: the numbers.  No transport reports a network quality, so the  *)
(* listeners for one are never called.                                     *)
(***************************************************************************)
EXTENDS Integers, FiniteSets

CONSTANTS MaxTransports, \* bound: transports of one stream
          MaxToggles     \* bound: how often the viewer toggles them

VARIABLES
    enabled,
    transport,    \* number of the transport in use; 0: none yet
    statsChannel, \* the transport whose channel is listened to; 0: null
    listeners,    \* how many receive listeners a transport's channel has
    interval,     \* updateIntervalId is set
    asked,        \* transports that were asked and have not answered
    shown,        \* the transport the browser's half shown is of; 0: none
    toggles

vars == <<enabled, transport, statsChannel, listeners, interval, asked, shown, toggles>>

Transports == 1..MaxTransports

TypeOK ==
    /\ enabled \in BOOLEAN /\ interval \in BOOLEAN
    /\ {transport, statsChannel, shown} \subseteq 0..MaxTransports
    /\ listeners \in [Transports -> 0..(MaxToggles + MaxTransports)]
    /\ asked \subseteq Transports
    /\ toggles \in 0..MaxToggles

Init ==
    /\ enabled = FALSE /\ interval = FALSE
    /\ transport = 0 /\ statsChannel = 0 /\ shown = 0
    /\ listeners = [t \in Transports |-> 0]
    /\ asked = {} /\ toggles = 0

\* A channel listened to before is given up; its listener stays, because the function that is
\* to be removed is a new one.
ChannelFor(t) == t

\* checkEnabled
CheckEnabled(on, t) ==
    /\ interval' = on
    /\ IF on
       THEN /\ statsChannel' = ChannelFor(t)
            /\ listeners' = [u \in Transports |->
                                IF u = t /\ u = ChannelFor(t) THEN listeners[u] + 1
                                                              ELSE listeners[u]]
       ELSE UNCHANGED <<statsChannel, listeners>>

SetTransport ==
    /\ transport < MaxTransports
    /\ transport' = transport + 1
    /\ CheckEnabled(enabled, transport + 1)
    /\ UNCHANGED <<enabled, asked, shown, toggles>>

Toggle ==
    /\ toggles < MaxToggles
    /\ toggles' = toggles + 1
    /\ enabled' = ~enabled
    /\ CheckEnabled(~enabled, transport)
    /\ UNCHANGED <<transport, asked, shown>>

\* updateLocalStats up to its await; a timer that is behind asks a transport again.
AskTransport ==
    /\ interval /\ transport # 0
    /\ asked' = asked \cup {transport}
    /\ UNCHANGED <<enabled, transport, statsChannel, listeners, interval, shown, toggles>>

Answer(t) ==
    /\ t \in asked
    /\ asked' = asked \ {t}
    /\ shown' = t
    /\ UNCHANGED <<enabled, transport, statsChannel, listeners, interval, toggles>>

Next == SetTransport \/ Toggle \/ AskTransport \/ \E t \in Transports : Answer(t)

Spec == Init /\ [][Next]_vars

-----------------------------------------------------------------------------
(* Properties *)

\* However the viewer's toggling and the change of transports fall, statistics that are on
\* are those of the transport in use: its channel is heard and its numbers are asked for.
StatsFollowTransport ==
    enabled => /\ interval
               /\ statsChannel = transport
               /\ transport # 0 => listeners[transport] > 0
=============================================================================
