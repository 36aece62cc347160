---------------------------- MODULE StreamerSession ----------------------------
(***************************************************************************)
(* One streamer process: StreamConnection of streamer/src/main.rs with the *)
(* tasks that share it.                                                    *)
(*                                                                         *)
(*   - the receiver takes the messages of the web server one by one;       *)
(*   - every transport has an event loop, and a task that closes it when   *)
(*     another transport replaces it;                                      *)
(*   - every StartStream event spawns a start_stream task;                 *)
(*   - every closed transport spawns a delayed termination (TerminateTimer)*)
(*   - blocking threads stop the Moonlight connections taken away;         *)
(*   - stop runs at most once, in whichever of these calls it first.       *)
(*                                                                         *)
(* The Moonlight connection is used through what StreamSlot promises;      *)
(* MoonlightConnection implements that promise.  The process is modelled   *)
(* from the moment main waits for `terminate`: the client sets a transport *)
(* only in answer to the Setup message main sends right before.  Media,    *)
(* input packets, signalling and log messages are left out, and so is the  *)
(* capacity of the event channels (20).                                    *)
(***************************************************************************)
EXTENDS Naturals, Sequences

CONSTANTS WebRtc,       \* WebRTC transports the client may ask for, one per SetTransport
          WebSocket,    \* Web Socket transports the client may ask for
          Starts,       \* StartStream messages the client may send
          Timeout,      \* TIMEOUT_DURATION in ticks
          Slack,        \* how much longer a termination task sleeps, in ticks
          None          \* an empty Option

ASSUME DistinctAssumption ==
    /\ WebRtc \cap WebSocket = {}
    /\ None \notin WebRtc \cup WebSocket \cup Starts
    /\ "Closed" \notin Starts
ASSUME TimeAssumption == Timeout \in Nat /\ Slack \in Nat \ {0}

Transports == WebRtc \cup WebSocket

VARIABLES
    clientGone, \* the browser has left: no more messages, no media path
    receiver,   \* the ipc receive loop: "recv", "create" (a transport), "ended"
    incoming,   \* the transport the receiver is creating
    sender,     \* transport_sender
    closing,    \* replaced transports whose close task has not run yet
    peer,       \* peer[t]: the connection state of transport t
    events,     \* events[t]: the event channel of transport t
    loop,       \* loop[t]: the event loop of transport t
    task,       \* task[s]: the start_stream task of StartStream s
    stream,     \* the MoonlightStream stored in `stream`
    stopping,   \* MoonlightStreams moved to a blocking thread to be stopped
    hostLock,   \* the start_stream task that holds info.host
    stopPc,     \* how far stop has come; "no" while is_terminating is false
    stopBy,     \* who called stop first
    exited,     \* main has been notified and the process is gone
    grace       \* ticks since the last SetTransport, as far as they matter

VARIABLES pending, age, timer, elapsed, fired       \* timeout_terminate_request
VARIABLES owner, refused, finished                  \* the Moonlight connection

Timer == INSTANCE TerminateTimer WITH Timers <- Transports
Slot == INSTANCE StreamSlot WITH Handles <- Starts, NoHandle <- None

ipcVars == <<clientGone, receiver, incoming>>
transportVars == <<sender, closing, peer, events, loop>>
startVars == <<task, stream, stopping, hostLock>>
stopVars == <<stopPc, stopBy, exited>>
timerVars == <<pending, age, timer, elapsed, fired>>
slotVars == <<owner, refused, finished>>

vars == <<ipcVars, transportVars, startVars, stopVars, grace, timerVars, slotVars>>

TypeOK ==
    /\ clientGone \in BOOLEAN
    /\ receiver \in {"recv", "create", "ended"}
    /\ incoming \in Transports \cup {None}
    /\ sender \in Transports \cup {None}
    /\ closing \subseteq Transports
    /\ peer \in [Transports -> {"unused", "new", "connected", "broken", "closed"}]
    /\ events \in [Transports -> Seq(Starts \cup {"Closed"})]
    /\ loop \in [Transports -> {"unused", "poll", "done"}]
    /\ task \in [Starts -> {"unused", "sent", "spawned", "queued", "launching",
                            "starting", "storing", "done", "failed"}]
    /\ stream \in Starts \cup {None}
    /\ stopping \subseteq Starts
    /\ hostLock \in Starts \cup {None}
    /\ stopPc \in {"no", "begin", "transport", "notice", "sleep", "done"}
    /\ stopBy \in {"nobody", "timeout", "start", "terminated"}
    /\ exited \in BOOLEAN
    /\ grace \in 0..Timeout + 1
    /\ Timer!TimerTypeOK
    /\ owner \in Starts \cup {None}
    /\ refused \subseteq Starts
    /\ finished \subseteq Starts

Init ==
    /\ clientGone = FALSE
    /\ receiver = "recv"
    /\ incoming = None
    /\ sender = None
    /\ closing = {}
    /\ peer = [t \in Transports |-> "unused"]
    /\ events = [t \in Transports |-> <<>>]
    /\ loop = [t \in Transports |-> "unused"]
    /\ task = [s \in Starts |-> "unused"]
    /\ stream = None
    /\ stopping = {}
    /\ hostLock = None
    /\ stopPc = "no"
    /\ stopBy = "nobody"
    /\ exited = FALSE
    /\ grace = 0
    /\ Timer!TimerInit
    /\ Slot!Init

-------------------------------------------------------------------------------
\* Nothing happens once the process is gone.
Running == ~exited

(* Locks.  A termination task keeps timeout_terminate_request locked while   *)
(* it runs stop; stop keeps transport_sender locked once it has come to it.  *)

\* Faulty: stop does not keep the lock.
SenderAlwaysUnlocked == TRUE

RequestUnlocked == ~(stopBy = "timeout" /\ stopPc # "done")
SenderUnlocked == stopPc \in {"no", "begin", "transport", "done"}

\* An event is lost when the loop that would receive it has ended.
Deliver(t, event) ==
    events' = [events EXCEPT ![t] = IF loop[t] = "poll" THEN Append(@, event) ELSE @]

\* Entering stop: the compare_exchange on is_terminating lets one caller in.
CallStop(caller) ==
    IF stopPc = "no"
    THEN stopPc' = "begin" /\ stopBy' = caller /\ UNCHANGED exited
    ELSE UNCHANGED stopVars

-------------------------------------------------------------------------------
(* The receiver: on_ipc_message. *)

\* SetTransport first withdraws a termination request, then creates the transport.
RecvSetTransport(t) ==
    /\ Running
    /\ ~clientGone /\ receiver = "recv"
    /\ peer[t] = "unused"
    /\ RequestUnlocked
    /\ receiver' = "create"
    /\ incoming' = t
    /\ peer' = [peer EXCEPT ![t] = "new"]
    /\ grace' = 0
    /\ Timer!Withdraw
    /\ UNCHANGED <<clientGone, sender, closing, events, loop, startVars, stopVars, slotVars>>

\* webrtc::new may fail; the message is then done with.
CreateFails ==
    /\ Running
    /\ receiver = "create"
    /\ incoming \in WebRtc
    /\ receiver' = "recv"
    /\ incoming' = None
    /\ UNCHANGED <<clientGone, transportVars, startVars, stopVars, grace, timerVars, slotVars>>

\* set_transport: replace the sender, spawn the new loop and the old one's close.
SetTransport ==
    /\ Running
    /\ receiver = "create"
    /\ SenderUnlocked
    /\ sender' = incoming
    /\ loop' = [loop EXCEPT ![incoming] = "poll"]
    /\ peer' = IF incoming \in WebSocket THEN [peer EXCEPT ![incoming] = "connected"] ELSE peer
    /\ closing' = IF sender = None THEN closing ELSE closing \cup {sender}
    /\ receiver' = "recv"
    /\ incoming' = None
    /\ UNCHANGED <<clientGone, events, startVars, stopVars, grace, timerVars, slotVars>>

\* StartStream is handed to the current transport, which turns it into an event.
RecvStartStream(s) ==
    /\ Running
    /\ ~clientGone /\ receiver = "recv"
    /\ SenderUnlocked
    /\ task[s] = "unused"
    /\ task' = [task EXCEPT ![s] = "sent"]
    /\ IF sender = None THEN UNCHANGED events ELSE Deliver(sender, s)
    /\ UNCHANGED <<ipcVars, sender, closing, peer, loop, stream, stopping, hostLock,
                   stopVars, grace, timerVars, slotVars>>

\* The server closes our stdin, or one line cannot be parsed: the loop just ends.
RecvEnds ==
    /\ Running
    /\ receiver = "recv"
    /\ receiver' = "ended"
    /\ UNCHANGED <<clientGone, incoming, transportVars, startVars, stopVars, grace,
                   timerVars, slotVars>>

-------------------------------------------------------------------------------
(* The transports. *)

\* The task spawned by set_transport closes and drops the transport replaced:
\* its event channel reports Closed once what was sent before has been read.
CloseReplaced(t) ==
    /\ Running
    /\ t \in closing
    /\ closing' = closing \ {t}
    /\ peer' = [peer EXCEPT ![t] = "closed"]
    /\ Deliver(t, "Closed")
    /\ UNCHANGED <<ipcVars, sender, loop, startVars, stopVars, grace, timerVars, slotVars>>

\* on_peer_connection_state_change, seen from the network.
PeerConnects(t) ==
    /\ Running
    /\ t \in WebRtc /\ loop[t] # "unused"
    /\ ~clientGone
    /\ peer[t] \in {"new", "broken"}
    /\ peer' = [peer EXCEPT ![t] = "connected"]
    /\ UNCHANGED <<ipcVars, sender, closing, events, loop, startVars, stopVars, grace,
                   timerVars, slotVars>>

PeerBreaks(t) ==
    /\ Running
    /\ t \in WebRtc /\ loop[t] # "unused"
    /\ peer[t] \in {"new", "connected"}
    /\ peer' = [peer EXCEPT ![t] = "broken"]
    /\ UNCHANGED <<ipcVars, sender, closing, events, loop, startVars, stopVars, grace,
                   timerVars, slotVars>>

\* The peer's own TerminateTimer: broken for longer than the timeout.
PeerGivenUp(t) ==
    /\ Running
    /\ peer[t] = "broken"
    /\ \A i \in 1..Len(events[t]) : events[t][i] # "Closed"
    /\ Deliver(t, "Closed")
    /\ UNCHANGED <<ipcVars, sender, closing, peer, loop, startVars, stopVars, grace,
                   timerVars, slotVars>>

\* The event loop spawns start_stream.
LoopStart(t) ==
    /\ Running
    /\ loop[t] = "poll"
    /\ events[t] # <<>>
    /\ Head(events[t]) \in Starts
    /\ task' = [task EXCEPT ![Head(events[t])] = "spawned"]
    /\ events' = [events EXCEPT ![t] = Tail(@)]
    /\ UNCHANGED <<ipcVars, sender, closing, peer, loop, stream, stopping, hostLock,
                   stopVars, grace, timerVars, slotVars>>

\* Faulty: the loop just ends.
LoopClosedSilently(t) ==
    /\ Running
    /\ loop[t] = "poll"
    /\ events[t] # <<>>
    /\ Head(events[t]) = "Closed"
    /\ loop' = [loop EXCEPT ![t] = "done"]
    /\ events' = [events EXCEPT ![t] = <<>>]
    /\ UNCHANGED <<ipcVars, sender, closing, peer, startVars, stopVars, grace, timerVars,
                   slotVars>>

\* Closed: request_terminate, and the loop ends.
LoopClosed(t) ==
    /\ Running
    /\ loop[t] = "poll"
    /\ events[t] # <<>>
    /\ Head(events[t]) = "Closed"
    /\ RequestUnlocked
    /\ loop' = [loop EXCEPT ![t] = "done"]
    /\ events' = [events EXCEPT ![t] = <<>>]
    /\ Timer!Request(t)
    /\ UNCHANGED <<ipcVars, sender, closing, peer, startVars, stopVars, grace, slotVars>>

ClientLeaves ==
    /\ Running
    /\ ~clientGone
    /\ clientGone' = TRUE
    /\ UNCHANGED <<receiver, incoming, transportVars, startVars, stopVars, grace,
                   timerVars, slotVars>>

-------------------------------------------------------------------------------
(* start_stream *)

\* Faulty: stops whatever was stored, an empty Option too.
TakeAnyStream(s) ==
    /\ Running
    /\ task[s] = "spawned"
    /\ task' = [task EXCEPT ![s] = "queued"]
    /\ stopping' = stopping \cup {stream}
    /\ stream' = None
    /\ UNCHANGED <<ipcVars, transportVars, hostLock, stopVars, grace, timerVars, slotVars>>

\* A stream that is already there is taken and stopped on a blocking thread;
\* nothing waits for that thread.
TakeOldStream(s) ==
    /\ Running
    /\ task[s] = "spawned"
    /\ task' = [task EXCEPT ![s] = "queued"]
    /\ stopping' = IF stream = None THEN stopping ELSE stopping \cup {stream}
    /\ stream' = None
    /\ UNCHANGED <<ipcVars, transportVars, hostLock, stopVars, grace, timerVars, slotVars>>

LockHost(s) ==
    /\ Running
    /\ task[s] = "queued"
    /\ hostLock = None
    /\ hostLock' = s
    /\ task' = [task EXCEPT ![s] = "launching"]
    /\ UNCHANGED <<ipcVars, transportVars, stream, stopping, stopVars, grace, timerVars,
                   slotVars>>

\* Faulty: the task starts over until it succeeds.
FailAndRetry(s) ==
    /\ task' = [task EXCEPT ![s] = "queued"]
    /\ hostLock' = None
    /\ UNCHANGED <<ipcVars, transportVars, stream, stopping, stopVars, grace, timerVars>>

\* The task gives up: it returns an error, which releases the host.
Fail(s) ==
    /\ task' = [task EXCEPT ![s] = "failed"]
    /\ hostLock' = None
    /\ UNCHANGED <<ipcVars, transportVars, stream, stopping, stopVars, grace, timerVars>>

\* host.start_stream: the request to the host fails, Moonlight answers with
\* ConnectionAlreadyExists, or LiStartConnection is called.
Launch(s) ==
    /\ Running
    /\ task[s] = "launching"
    /\ \/ UNCHANGED slotVars /\ Fail(s)
       \/ Slot!Refuse(s) /\ Fail(s)
       \/ /\ Slot!Take(s)
          /\ task' = [task EXCEPT ![s] = "starting"]
          /\ UNCHANGED <<ipcVars, transportVars, stream, stopping, hostLock, stopVars,
                         grace, timerVars>>

\* LiStartConnection returns; a failed start drops its handle at once.
Started(s) ==
    /\ Running
    /\ task[s] = "starting"
    /\ \/ Slot!Release(s) /\ Fail(s)
       \/ /\ task' = [task EXCEPT ![s] = "storing"]
          /\ UNCHANGED <<ipcVars, transportVars, stream, stopping, hostLock, stopVars,
                         grace, timerVars, slotVars>>

\* The new stream is stored, whatever has happened to the session meanwhile.
Store(s) ==
    /\ Running
    /\ task[s] = "storing"
    /\ task' = [task EXCEPT ![s] = "done"]
    /\ stream' = s
    /\ stopping' = IF stream = None THEN stopping ELSE stopping \cup {stream}
    /\ hostLock' = None
    /\ UNCHANGED <<ipcVars, transportVars, stopVars, grace, timerVars, slotVars>>

\* The event loop's task stops the session when start_stream failed.
StopAfterFailure(s) ==
    /\ Running
    /\ task[s] = "failed"
    /\ task' = [task EXCEPT ![s] = "done"]
    /\ CallStop("start")
    /\ UNCHANGED <<ipcVars, transportVars, stream, stopping, hostLock, grace, timerVars,
                   slotVars>>

\* A blocking thread: MoonlightStream::stop.
StopConnection(s) ==
    /\ Running
    /\ s \in stopping
    /\ stopping' = stopping \ {s}
    /\ Slot!Release(s)
    /\ UNCHANGED <<ipcVars, transportVars, task, stream, hostLock, stopVars, grace, timerVars>>

(***************************************************************************)
(* The host ends the connection: connection_terminated calls stop, on a    *)
(* thread that nobody joins.  A late one calls the listener of the next    *)
(* connection, or finds none and aborts the process (MoonlightConnection). *)
(***************************************************************************)
ConnectionTerminated(s) ==
    /\ Running
    /\ owner = s \/ s \in finished
    /\ \/ owner # None /\ stopPc = "no" /\ CallStop("terminated")
       \/ owner # s /\ exited' = TRUE /\ UNCHANGED <<stopPc, stopBy>>
    /\ UNCHANGED <<ipcVars, transportVars, startVars, grace, timerVars, slotVars>>

-------------------------------------------------------------------------------
(* Termination. *)

\* A termination task wakes up and stops the session if the request is old enough.
Wake(t) ==
    /\ Running
    /\ RequestUnlocked
    /\ Timer!Wake(t)
    /\ IF Timer!Expired THEN CallStop("timeout") ELSE UNCHANGED stopVars
    /\ UNCHANGED <<ipcVars, transportVars, startVars, grace, slotVars>>

\* Faulty: the stored stream is forgotten instead of stopped.
StopForgetsStream ==
    /\ Running
    /\ stopPc = "begin"
    /\ stopPc' = "transport"
    /\ stream' = None
    /\ UNCHANGED <<ipcVars, transportVars, task, stopping, hostLock, stopBy, exited, grace,
                   timerVars, slotVars>>

StopTakesStream ==
    /\ Running
    /\ stopPc = "begin"
    /\ stopPc' = "transport"
    /\ stopping' = IF stream = None THEN stopping ELSE stopping \cup {stream}
    /\ stream' = None
    /\ UNCHANGED <<ipcVars, transportVars, task, hostLock, stopBy, exited, grace, timerVars,
                   slotVars>>

\* transport_sender is locked until stop returns; the transport closes.
StopClosesTransport ==
    /\ Running
    /\ stopPc = "transport"
    /\ stopPc' = "notice"
    /\ sender' = None
    /\ IF sender = None
       THEN UNCHANGED <<peer, events>>
       ELSE peer' = [peer EXCEPT ![sender] = "closed"] /\ Deliver(sender, "Closed")
    /\ UNCHANGED <<ipcVars, closing, loop, startVars, stopBy, exited, grace, timerVars,
                   slotVars>>

\* The web server is sent StreamerIpcMessage::Stop; 200 ms are left for it to go out.
StopSendsNotice ==
    /\ Running
    /\ stopPc = "notice"
    /\ stopPc' = "sleep"
    /\ UNCHANGED <<ipcVars, transportVars, startVars, stopBy, exited, grace, timerVars,
                   slotVars>>

\* Faulty: nobody is notified.
StopEnds ==
    /\ Running
    /\ stopPc = "sleep"
    /\ stopPc' = "done"
    /\ UNCHANGED <<ipcVars, transportVars, startVars, stopBy, exited, grace, timerVars, slotVars>>

\* main wakes up and exits the process.
StopNotifies ==
    /\ Running
    /\ stopPc = "sleep"
    /\ stopPc' = "done"
    /\ exited' = TRUE
    /\ UNCHANGED <<ipcVars, transportVars, startVars, stopBy, grace, timerVars, slotVars>>

Tick ==
    /\ Running
    /\ Timer!Tick
    /\ grace' = IF grace <= Timeout THEN grace + 1 ELSE grace
    /\ UNCHANGED <<ipcVars, transportVars, startVars, stopVars, slotVars>>

-------------------------------------------------------------------------------
Receive ==
    \/ \E t \in Transports : RecvSetTransport(t)
    \/ \E s \in Starts : RecvStartStream(s)
    \/ CreateFails \/ SetTransport \/ RecvEnds

Network(t) == PeerConnects(t) \/ PeerBreaks(t) \/ PeerGivenUp(t)

Loop(t) == LoopStart(t) \/ LoopClosed(t)

Start(s) ==
    \/ TakeOldStream(s) \/ LockHost(s) \/ Launch(s) \/ Started(s) \/ Store(s)
    \/ StopAfterFailure(s)

Stop == StopTakesStream \/ StopClosesTransport \/ StopSendsNotice \/ StopNotifies

Next ==
    \/ Receive
    \/ \E t \in Transports : Network(t) \/ Loop(t) \/ CloseReplaced(t) \/ Wake(t)
    \/ \E s \in Starts : Start(s) \/ StopConnection(s) \/ ConnectionTerminated(s)
    \/ Stop
    \/ ClientLeaves
    \/ Tick

Spec == Init /\ [][Next]_vars

(***************************************************************************)
(* The runtime polls every task that can go on, blocking threads run, the  *)
(* library calls return, and time passes.  The client owes nothing; once   *)
(* it has gone, the peer it was connected to breaks (ICE consent expires)  *)
(* and a broken peer that does not recover is given up.                    *)
(***************************************************************************)
Fairness ==
    /\ WF_vars(SetTransport \/ CreateFails)
    /\ WF_vars(Stop)
    /\ WF_vars(Tick)
    /\ \A t \in Transports :
          /\ WF_vars(Loop(t))
          /\ WF_vars(CloseReplaced(t))
          /\ WF_vars(Wake(t))
          /\ WF_vars(clientGone /\ peer[t] = "connected" /\ PeerBreaks(t))
          /\ WF_vars(PeerGivenUp(t))
    /\ \A s \in Starts :
          /\ WF_vars(Start(s))
          /\ WF_vars(StopConnection(s))

FairSpec == Spec /\ Fairness

-------------------------------------------------------------------------------
(* Properties *)

\* The handle of a Moonlight connection is in one place at a time: with the task
\* that starts it, stored, or with a blocking thread that stops it; and nobody has
\* the handle of a connection that is over.  So no replaced, failed or taken handle
\* is dropped twice, or left where nothing drops it, and the next start_stream finds
\* the one that is stored.  stop finds it too unless it has looked already: a start
\* that ends after stop took the stream (main.rs:803-810) stores a handle (754-755)
\* which nobody stops before the process exits, and which counts as stored here.
OwnerAccounted ==
    /\ owner # None =>
          \/ task[owner] \in {"starting", "storing"} /\ stream # owner /\ owner \notin stopping
          \/ task[owner] = "done" /\ stream = owner /\ owner \notin stopping
          \/ task[owner] = "done" /\ stream # owner /\ owner \in stopping
    /\ stream \in {None, owner}
    /\ stopping \subseteq {owner}
    /\ \A s \in Starts : task[s] \in {"starting", "storing"} => s = owner

\* After stop has closed the transport none is set again: the receiver cannot
\* slip a new one in between the close and the exit.
StopIsFinal == stopPc \in {"notice", "sleep", "done"} => sender = None

\* A new transport gets the whole timeout: whatever closed before it was set,
\* the session is not stopped for it earlier than TIMEOUT_DURATION after.
NewTransportGetsGrace ==
    [][stopBy = "nobody" /\ stopBy' = "timeout" => grace > Timeout]_vars

\* stop comes to its end and takes the process with it.
StopExits == stopPc # "no" ~> exited

\* A client connected over WebRTC that goes away ends the session, through the
\* peer's timer, the Closed event, the session's timer and stop, unless it had
\* already asked for a Web Socket transport, which no timer watches.
LostPeerEndsSession ==
    clientGone /\ sender \in WebRtc /\ peer[sender] \in {"connected", "broken"}
        ~> exited \/ sender \in WebSocket

\* Every start_stream that was spawned comes to an end or goes with the process.
StartSettles ==
    \A s \in Starts : task[s] = "spawned" ~> task[s] = "done" \/ exited

-------------------------------------------------------------------------------
(* What the repository says and the code does not do. *)

\* main.rs:614, "We might already be streaming -> remove and wait for connection
\* close firstly": no new stream is asked for while a removed one still closes.
RestartWaitsForClose ==
    \A s \in Starts : task[s] = "launching" => stopping = {}

\* index.ts:276, "Failed to establish WebRTC connection. Falling back to Web
\* Socket transport.": the session goes on over the Web Socket, so it is not
\* stopped by a timeout while the client is there and that transport is set.
FallbackSurvives ==
    [][stopBy = "nobody" /\ stopBy' = "timeout" => clientGone \/ sender \notin WebSocket]_vars
===============================================================================
