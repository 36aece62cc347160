---------------------------- MODULE ViewerReconnect ----------------------------
(***************************************************************************)
(* The page that shows a stream: ViewerApp of web/stream.ts, which owns    *)
(* the reconnect workflow, with the Stream objects of web/stream/index.ts  *)
(* it creates and destroys.                                                *)
(*                                                                         *)
(* Everything runs on the one thread of the page, so a handler is a step.  *)
(* What makes it hard is that handlers wait: an attempt to reconnect is a  *)
(* timer, half a second between two Streams, and a look eight seconds      *)
(* later, and none of the three knows what happened meanwhile; that a      *)
(* destroyed Stream still reports the end of its Web Socket; and that the  *)
(* listener of that report asks the backend whether the session goes on.   *)
(*                                                                         *)
(* Time is counted in ticks of the waits in stream.ts.  A timer runs at    *)
(* its time, a tick passes only when nothing is due, and of what is due in *)
(* the same tick the look after an attempt, the longest wait, runs first:  *)
(* it was set first.  A page the browser has suspended is not modelled.    *)
(* Left out: toasts, the splash screen, pipelines, input, and the grace    *)
(* timer, which only onConnectionPoor starts and nobody calls.             *)
(***************************************************************************)
EXTENDS Integers, Sequences

CONSTANTS Streams,    \* Stream objects, reused once nothing refers to them
          NoStream,   \* null
          Transports, \* the values of settings.dataTransport to look at
          Delays,     \* RECONNECT_DELAYS in ticks
          Settle,     \* from destroying a Stream to creating the next one
          Check,      \* from creating a Stream to the look whether it works
          Window,     \* RECONNECT_WINDOW_MS in ticks
          HastyRetry  \* may the user retry before every attempt has ended?

ASSUME StreamsAssumption == NoStream \notin Streams /\ Streams # {}
ASSUME TransportsAssumption == Transports \subseteq {"auto", "webrtc", "websocket"}
ASSUME UserAssumption == HastyRetry \in BOOLEAN
ASSUME TimeAssumption ==
    /\ Delays \in Seq(Nat) /\ Delays # <<>>
    /\ Settle \in Nat /\ Check \in Nat /\ Window \in Nat \ {0}
    /\ \A i \in 1..Len(Delays) : Delays[i] <= Check

VARIABLES
    transport,     \* settings.dataTransport
    stream,        \* ViewerApp.stream
    live,          \* the Streams that were created and not destroyed
    link,          \* link[s]: how far the transport of Stream s has come
    ws,            \* the live Streams whose Web Socket has not been closed
    complete,      \* the live Streams that received ConnectionComplete
    closing,       \* the close event of a destroyed Stream is still to come
    checking,      \* a game exit listener is asking for the session
    isReconnect,   \* currentStreamIsReconnect
    reconnecting,  \* reconnecting
    attempts,      \* reconnectAttemptCount, as far as Delays tells them apart
    elapsed,       \* ticks since reconnectWindowStart, up to Window
    timer,         \* reconnectTimer: the ticks left, or Off
    settle,        \* settle[s]: the attempt that is going to create s, or Off
    check,         \* check[s]: the attempt that is going to look after s, or Off
    status,        \* lastConnectionStatus
    failureShown,  \* permanentFailureShown
    dialog,        \* the dialog of declarePermanentFailure
    page,          \* "leaving" is navigatingHome; "left" once it is unloaded
    up,            \* the network between the page, the server and the backend
    active         \* what the backend says of the session

appVars == <<reconnecting, attempts, elapsed, timer, failureShown, dialog>>
streamVars == <<stream, live, link, ws, complete, isReconnect>>
waitVars == <<settle, check>>
exitVars == <<closing, checking>>
worldVars == <<transport, up, active>>
vars == <<appVars, streamVars, waitVars, exitVars, worldVars, status, page>>

Off == -1
Waits(bound) == {Off} \cup 0..bound
Links == {"gone", "opening", "negotiating", "connected", "disconnected", "failed",
          "socket", "lost"}
DelayAfter(n) == Delays[IF n < Len(Delays) THEN n + 1 ELSE Len(Delays)]

TypeOK ==
    /\ transport \in Transports
    /\ stream \in Streams \cup {NoStream}
    /\ live \subseteq Streams /\ ws \subseteq live /\ complete \subseteq live
    /\ link \in [Streams -> Links]
    /\ closing \in BOOLEAN /\ checking \in BOOLEAN /\ isReconnect \in BOOLEAN
    /\ reconnecting \in BOOLEAN
    /\ attempts \in 0..Len(Delays)
    /\ elapsed \in 0..Window
    /\ timer \in {Off} \cup Nat
    /\ settle \in [Streams -> Waits(Settle)] /\ check \in [Streams -> Waits(Check)]
    /\ status \in {"Ok", "Poor"}
    /\ failureShown \in BOOLEAN
    /\ dialog \in {"none", "shown", "aborted"}
    /\ page \in {"shown", "leaving", "left"}
    /\ up \in BOOLEAN /\ active \in BOOLEAN

Unused(s) == s \notin live /\ settle[s] = Off /\ check[s] = Off
NextStream == CHOOSE s \in Streams : Unused(s)

(* The constructor starts the first Stream.                                *)
Init ==
    /\ transport \in Transports
    /\ stream = CHOOSE s \in Streams : TRUE
    /\ live = {stream} /\ ws = {stream} /\ complete = {}
    /\ link = [s \in Streams |-> IF s = stream THEN "opening" ELSE "gone"]
    /\ closing = FALSE /\ checking = FALSE /\ isReconnect = FALSE
    /\ reconnecting = FALSE /\ attempts = 0 /\ elapsed = 0 /\ timer = Off
    /\ settle = [s \in Streams |-> Off] /\ check = [s \in Streams |-> Off]
    /\ status = "Ok" /\ failureShown = FALSE /\ dialog = "none"
    /\ page = "shown" /\ up = TRUE /\ active = TRUE

-----------------------------------------------------------------------------
(* The methods of the workflow, as the handlers call them.                 *)

DeclarePermanentFailure ==
    /\ reconnecting' = FALSE
    /\ failureShown' = TRUE
    /\ dialog' = "shown"

\* Faulty: the window starts anew with every attempt.
ScheduleAnew(n, e) ==
    /\ attempts' = n /\ elapsed' = 0
    /\ timer' = IF timer # Off THEN timer ELSE DelayAfter(n)
    /\ reconnecting' = TRUE
    /\ UNCHANGED <<failureShown, dialog>>

(* scheduleReconnectAttempt, with `n` attempts made and `e` ticks elapsed. *)
Schedule(n, e) ==
    /\ attempts' = n /\ elapsed' = e
    /\ \/ timer # Off
          /\ reconnecting' = TRUE
          /\ UNCHANGED <<timer, failureShown, dialog>>
       \/ timer = Off /\ e >= Window
          /\ DeclarePermanentFailure
          /\ UNCHANGED timer
       \/ timer = Off /\ e < Window
          /\ timer' = DelayAfter(n)
          /\ reconnecting' = TRUE
          /\ UNCHANGED <<failureShown, dialog>>

\* Faulty: the dialog is not looked at.
BeginReconnectAnyway ==
    IF page # "shown"
    THEN UNCHANGED appVars
    ELSE IF reconnecting THEN Schedule(attempts, elapsed) ELSE Schedule(0, 0)

BeginReconnect ==
    IF page # "shown" \/ failureShown
    THEN UNCHANGED appVars
    ELSE IF reconnecting THEN Schedule(attempts, elapsed) ELSE Schedule(0, 0)

\* Faulty: the attempt that is waiting for its delay is not cancelled, and the
\* attempts go on.
OnReconnectSuccessUncancelled ==
    /\ attempts' = 0 /\ elapsed' = 0
    /\ failureShown' = FALSE
    /\ UNCHANGED <<timer, reconnecting, dialog>>

OnReconnectSuccess ==
    /\ timer' = Off
    /\ reconnecting' = FALSE
    /\ attempts' = 0 /\ elapsed' = 0
    /\ failureShown' = FALSE
    /\ UNCHANGED dialog

(* transportState "connected", and the same for the other signs of success *)
Recovered == IF reconnecting THEN OnReconnectSuccess ELSE UNCHANGED appVars

\* Faulty: the old Stream is forgotten, not destroyed.
ForgetOldStream ==
    /\ stream' = NoStream
    /\ settle' = [settle EXCEPT ![NextStream] = Settle]
    /\ UNCHANGED <<live, link, ws, complete, closing, isReconnect>>

\* Faulty: destroy() leaves the Web Socket open.
DestroyAllButWs ==
    /\ stream' = NoStream
    /\ live' = live \ {stream}
    /\ complete' = complete \ {stream}
    /\ link' = [s \in Streams |-> IF s = stream THEN "gone" ELSE link[s]]
    /\ settle' = [settle EXCEPT ![NextStream] = Settle]
    /\ UNCHANGED <<ws, closing, isReconnect>>

(* The first half of performReconnectAttempt: the old Stream is unmounted  *)
(* and destroyed, and the attempt waits before it creates the next one.    *)
(* Closing a Web Socket that is open is reported later.                    *)
DestroyOldStream ==
    /\ stream' = NoStream
    /\ live' = live \ {stream}
    /\ ws' = ws \ {stream}
    /\ complete' = complete \ {stream}
    /\ link' = [s \in Streams |-> IF s = stream THEN "gone" ELSE link[s]]
    /\ closing' = (closing \/ stream \in ws)
    /\ settle' = [settle EXCEPT ![NextStream] = Settle]
    /\ UNCHANGED isReconnect

NavigateHome ==
    /\ page = "shown"
    /\ page' = "leaving"
    /\ timer' = Off
    /\ reconnecting' = FALSE
    /\ UNCHANGED <<attempts, elapsed, failureShown, dialog>>

-----------------------------------------------------------------------------
(* The timers of an attempt.                                               *)

CheckDue == \E s \in Streams : check[s] = 0

TimerDue ==
    /\ timer = 0 /\ ~CheckDue /\ page # "left"
    /\ attempts' = IF attempts < Len(Delays) THEN attempts + 1 ELSE attempts

(* The early returns of performReconnectAttempt: nobody reconnects any     *)
(* more, or the window is over.                                            *)
AttemptEnds ==
    /\ TimerDue
    /\ ~reconnecting \/ page # "shown" \/ elapsed >= Window
    /\ timer' = Off
    /\ IF reconnecting /\ page = "shown"
       THEN DeclarePermanentFailure
       ELSE UNCHANGED <<reconnecting, failureShown, dialog>>
    /\ UNCHANGED <<elapsed, streamVars, waitVars, exitVars, worldVars, status, page>>

PerformReconnectAttempt ==
    /\ TimerDue
    /\ reconnecting /\ page = "shown" /\ elapsed < Window
    /\ timer' = Off
    /\ DestroyOldStream
    /\ UNCHANGED <<reconnecting, elapsed, failureShown, dialog, check, checking, worldVars, status,
                   page>>

(* The middle of performReconnectAttempt.  It does not look again whether  *)
(* anybody is still reconnecting.                                          *)
StartStream(s) ==
    /\ settle[s] = 0 /\ ~CheckDue /\ page # "left"
    /\ settle' = [settle EXCEPT ![s] = Off]
    /\ stream' = s
    /\ live' = live \cup {s}
    /\ ws' = ws \cup {s}
    /\ link' = [link EXCEPT ![s] = "opening"]
    /\ isReconnect' = TRUE
    /\ check' = [check EXCEPT ![s] = Check]
    /\ UNCHANGED <<complete, appVars, exitVars, worldVars, status, page>>

(* Its end: another attempt, unless the connection is known to be good.    *)
CheckAttempt(s) ==
    /\ check[s] = 0 /\ page # "left"
    /\ check' = [check EXCEPT ![s] = Off]
    /\ IF reconnecting /\ status # "Ok" THEN Schedule(attempts, elapsed) ELSE UNCHANGED appVars
    /\ UNCHANGED <<streamVars, settle, exitVars, worldVars, status, page>>

Due == timer = 0 \/ CheckDue \/ \E s \in Streams : settle[s] = 0
Waiting == timer # Off \/ \E s \in Streams : settle[s] # Off \/ check[s] # Off
Later(wait) == IF wait = Off THEN Off ELSE wait - 1

Tick ==
    /\ page # "left" /\ ~Due
    /\ Waiting \/ reconnecting
    /\ timer' = Later(timer)
    /\ settle' = [s \in Streams |-> Later(settle[s])]
    /\ check' = [s \in Streams |-> Later(check[s])]
    /\ elapsed' = IF reconnecting /\ elapsed < Window THEN elapsed + 1 ELSE elapsed
    /\ UNCHANGED <<reconnecting, attempts, failureShown, dialog, streamVars, exitVars, worldVars,
                   status, page>>

-----------------------------------------------------------------------------
(* What a live Stream s reports to onInfo.                                 *)

Reports(s) == page # "left" /\ s \in live

Setup(s) ==
    /\ Reports(s) /\ s \in ws /\ up /\ link[s] = "opening"
    /\ link' = [link EXCEPT ![s] = IF transport = "websocket" THEN "socket" ELSE "negotiating"]
    /\ UNCHANGED <<stream, live, ws, complete, isReconnect, appVars, waitVars, exitVars, worldVars,
                   status, page>>

(* WebRTC gives up before it was connected: startConnection closes the     *)
(* peer before the monitor of the connection looks at its state, so the    *)
(* monitor reports "closed", which nobody acts on.                         *)
FallBack(s) ==
    /\ Reports(s) /\ transport = "auto" /\ link[s] = "negotiating"
    /\ link' = [link EXCEPT ![s] = IF s \in ws THEN "socket" ELSE "lost"]
    /\ UNCHANGED <<stream, live, ws, complete, isReconnect, appVars, waitVars, exitVars, worldVars,
                   status, page>>

PeerConnected(s) ==
    /\ Reports(s) /\ up /\ link[s] \in {"negotiating", "disconnected", "failed"}
    /\ link' = [link EXCEPT ![s] = "connected"]
    /\ Recovered
    /\ UNCHANGED <<stream, live, ws, complete, isReconnect, waitVars, exitVars, worldVars, status,
                   page>>

PeerDisconnected(s) ==
    /\ Reports(s) /\ link[s] = "connected"
    /\ link' = [link EXCEPT ![s] = "disconnected"]
    /\ UNCHANGED <<stream, live, ws, complete, isReconnect, appVars, waitVars, exitVars, worldVars,
                   status, page>>

(* Three seconds later it still is.                                        *)
PeerStaysDisconnected(s) ==
    /\ Reports(s) /\ link[s] = "disconnected"
    /\ status' = "Poor"
    /\ UNCHANGED <<streamVars, appVars, waitVars, exitVars, worldVars, page>>

PeerFailed(s) ==
    /\ Reports(s)
    /\ link[s] \in {"connected", "disconnected"} \/ (link[s] = "negotiating" /\ transport = "webrtc")
    /\ link' = [link EXCEPT ![s] = "failed"]
    /\ status' = "Poor"
    /\ BeginReconnect
    /\ UNCHANGED <<stream, live, ws, complete, isReconnect, waitVars, exitVars, worldVars, page>>

ConnectionComplete(s) ==
    /\ Reports(s) /\ s \in ws \ complete /\ link[s] \in {"connected", "disconnected", "socket"}
    /\ complete' = complete \cup {s}
    /\ IF isReconnect THEN Recovered ELSE UNCHANGED appVars
    /\ UNCHANGED <<stream, live, link, ws, isReconnect, waitVars, exitVars, worldVars, status, page>>

(* ConnectionStatusUpdate, what the host says of a stream that runs        *)
ConnectionStatus(s, value) ==
    /\ Reports(s) /\ s \in complete /\ link[s] \in {"connected", "socket"}
    /\ status' = value
    /\ IF value = "Ok" THEN Recovered ELSE UNCHANGED appVars
    /\ UNCHANGED <<streamVars, waitVars, exitVars, worldVars, page>>

-----------------------------------------------------------------------------
(* The end of a stream, and of the session.                                *)

(* The Web Socket of a live Stream closes: the network or the server.      *)
WsClosed(s) ==
    /\ Reports(s) /\ s \in ws
    /\ ws' = ws \ {s}
    /\ link' = [link EXCEPT ![s] = IF @ \in {"socket", "opening"} THEN "lost" ELSE @]
    /\ checking' = TRUE
    /\ UNCHANGED <<stream, live, complete, isReconnect, appVars, waitVars, closing, worldVars, status,
                   page>>

(* ConnectionTerminated or NavigateHome                                    *)
GameExit(s) ==
    /\ Reports(s) /\ s \in ws
    /\ checking' = TRUE
    /\ UNCHANGED <<streamVars, appVars, waitVars, closing, worldVars, status, page>>

(* Several Streams may have been destroyed.                                *)
DestroyedWsClosed ==
    /\ closing /\ page # "left"
    /\ closing' \in BOOLEAN
    /\ checking' = TRUE
    /\ UNCHANGED <<streamVars, appVars, waitVars, worldVars, status, page>>

SessionGone ==
    /\ checking /\ (~up \/ ~active)
    /\ NavigateHome
    /\ checking' = FALSE
    /\ UNCHANGED <<streamVars, waitVars, closing, worldVars, status>>

(* The sixth answer is still that the session is active.                   *)
SessionStillActive ==
    /\ checking /\ up /\ active /\ page # "left"
    /\ checking' = FALSE
    /\ UNCHANGED <<streamVars, appVars, waitVars, closing, worldVars, status, page>>

PageUnloads ==
    /\ page = "leaving"
    /\ page' = "left"
    /\ UNCHANGED <<streamVars, appVars, waitVars, exitVars, worldVars, status>>

-----------------------------------------------------------------------------
(* The user.                                                               *)

(* "Retry" of the dialog performs an attempt at once.                      *)
Retry ==
    /\ dialog = "shown" /\ page # "left"
    /\ HastyRetry \/ \A s \in Streams : settle[s] = Off /\ check[s] = Off
    /\ dialog' = "none"
    /\ failureShown' = FALSE
    /\ reconnecting' = TRUE
    /\ attempts' = 0 /\ elapsed' = 0
    /\ IF page = "shown" THEN DestroyOldStream ELSE UNCHANGED <<streamVars, settle, closing>>
    /\ UNCHANGED <<timer, check, checking, worldVars, status, page>>

(* "Exit Stream" of the dialog, which leaves whether or not the backend    *)
(* could be told, and "End Stream" of the sidebar, which leaves only then. *)
Leave ==
    /\ page # "left"
    /\ up \/ dialog = "shown"
    /\ page' = "left"
    /\ active' = (active /\ ~up)
    /\ UNCHANGED <<streamVars, appVars, waitVars, exitVars, transport, up, status>>

(* showModal of anything else takes the dialog away without an answer.     *)
OtherModal ==
    /\ dialog = "shown" /\ page # "left"
    /\ dialog' = "aborted"
    /\ UNCHANGED <<reconnecting, attempts, elapsed, timer, failureShown, streamVars, waitVars,
                   exitVars, worldVars, status, page>>

(* The world.                                                              *)
Network ==
    /\ page # "left"
    /\ up' = ~up
    /\ UNCHANGED <<streamVars, appVars, waitVars, exitVars, transport, active, status, page>>

SessionEnds ==
    /\ page # "left" /\ active
    /\ active' = FALSE
    /\ UNCHANGED <<streamVars, appVars, waitVars, exitVars, transport, up, status, page>>

Timers ==
    \/ AttemptEnds \/ PerformReconnectAttempt
    \/ \E s \in Streams : StartStream(s) \/ CheckAttempt(s)
Report(s) ==
    \/ Setup(s) \/ FallBack(s) \/ PeerConnected(s) \/ PeerDisconnected(s)
    \/ PeerStaysDisconnected(s) \/ PeerFailed(s) \/ ConnectionComplete(s)
    \/ \E value \in {"Ok", "Poor"} : ConnectionStatus(s, value)
    \/ WsClosed(s) \/ GameExit(s)
Exits == DestroyedWsClosed \/ SessionGone \/ SessionStillActive \/ PageUnloads
User == Retry \/ Leave \/ OtherModal
World == Network \/ SessionEnds

Next == Timers \/ Tick \/ (\E s \in Streams : Report(s)) \/ Exits \/ User \/ World

Spec == Init /\ [][Next]_vars

(* The browser runs the timers of a page; nothing else has to happen.      *)
FairSpec == Spec /\ WF_vars(Tick) /\ WF_vars(Timers)

-----------------------------------------------------------------------------
(* Properties.                                                             *)

(* The old Stream is destroyed before the next one is created: the page    *)
(* has one Stream, which is ViewerApp's own, or none while an attempt      *)
(* waits.  A Stream that is replaced without having been destroyed would   *)
(* go on playing and keep a streamer of the server busy.                   *)
OneStream == live = {stream} \ {NoStream}

(* An attempt that was scheduled before the connection came back never     *)
(* tears it down: only a user who asks for a retry loses a Stream that     *)
(* works.                                                                  *)
Works(s) == link[s] = "connected" \/ (link[s] = "socket" /\ s \in complete)
RecoveredIsKept == [][\A s \in live \ live' : Works(s) => dialog = "shown"]_vars

(* While the user is asked whether to go on no attempt is scheduled,       *)
(* whatever a Stream behind the dialog or the look of an older attempt     *)
(* finds.                                                                  *)
QuietBehindDialog == dialog = "shown" => timer = Off /\ ~reconnecting

(* An outage comes to an end: the stream is back, or the page is left, or  *)
(* the user is asked, within the window.  The condition on the status is   *)
(* needed: an attempt that finds an "Ok" from before it does not go on.    *)
Outage == page = "shown" /\ reconnecting /\ status = "Poor"
OutageSettles == Outage ~> ~Outage

=============================================================================
