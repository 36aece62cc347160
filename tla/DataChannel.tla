---------------------------- MODULE DataChannel ----------------------------
(***************************************************************************)
(* The two kinds of DataTransportChannel of the page                       *)
(* (web/stream/transport/webrtc.ts, web_socket.ts) as values: what the     *)
(* RTCDataChannel has been given, what the wrapper still keeps for later,  *)
(* and what happens to a message that is sent.  Messages are of any kind.  *)
(***************************************************************************)
EXTENDS Sequences

\* No transport has been set: StreamInput keeps null and drops what it sends.
NoChannel == [kind |-> "none", open |-> FALSE, sendQueue |-> <<>>, wire |-> <<>>]

\* A WebRTCDataTransportChannel, whose RTCDataChannel is still connecting.
NewWebRtc == [NoChannel EXCEPT !.kind = "webrtc"]

\* A WebSocketDataTransportChannel: the socket is open before it is made.
NewWebSocket == [NoChannel EXCEPT !.kind = "websocket", !.open = TRUE]

\* Faulty: a packet that had to wait goes out behind the one that did not.
QueueBehind(c, m) ==
    CASE c.kind = "none" -> c
      [] c.kind # "none" /\ ~c.open -> [c EXCEPT !.sendQueue = Append(@, m)]
      [] c.kind # "none" /\ c.open ->
            [c EXCEPT !.wire = Append(@, m) \o c.sendQueue, !.sendQueue = <<>>]

\* Without a channel the packet is dropped.  Before the channel is open the packet is kept;
\* afterwards what was kept goes first.  A Web Socket never keeps anything.
Send(c, m) ==
    CASE c.kind = "none" -> c
      [] c.kind # "none" /\ ~c.open -> [c EXCEPT !.sendQueue = Append(@, m)]
      [] c.kind # "none" /\ c.open ->
            [c EXCEPT !.wire = @ \o c.sendQueue \o <<m>>, !.sendQueue = <<>>]

\* Several packets in a row.
SendAll(c, ms) ==
    CASE c.kind = "none" \/ ms = <<>> -> c
      [] c.kind # "none" /\ ms # <<>> /\ ~c.open -> [c EXCEPT !.sendQueue = @ \o ms]
      [] c.kind # "none" /\ ms # <<>> /\ c.open ->
            [c EXCEPT !.wire = @ \o c.sendQueue \o ms, !.sendQueue = <<>>]

\* The browser reports the channel open: the wrapper has no listener for it, so what it
\* keeps stays where it is until the next packet.
Opens(c) == [c EXCEPT !.open = TRUE]

\* The other end has taken the oldest packet.
Taken(c) == [c EXCEPT !.wire = Tail(@)]

\* Everything on its way, in the order in which it will arrive.
OnItsWay(c) == c.wire \o c.sendQueue
=============================================================================
