------------------------ MODULE StreamerSessionProofs ------------------------
(***************************************************************************)
(* What holds of StreamerSession for any transports and starts a client    *)
(* asks for, any timeout and any slack.  The types are kept group by       *)
(* group; an event that waits in a channel belongs to a start nobody has   *)
(* begun with, which keeps a second start_stream task for it from undoing  *)
(* what the first one owns.                                                *)
(***************************************************************************)
EXTENDS StreamerSession, TLAPS

\* The receiver could set a transport again once stop is done, but the process is gone.
StopFinal == StopIsFinal /\ (stopPc = "done" => exited)

\* Behind the close of the transport nobody gets past the lock of transport_sender.
LEMMA StopStep ==
    ASSUME StopFinal, [Next]_vars
    PROVE  StopFinal'
  <1> USE DEF StopFinal, StopIsFinal, Running, SenderUnlocked
  <1>1. CASE UNCHANGED <<sender, stopPc, exited>>
    BY <1>1
  <1>2. CASE SetTransport
    BY <1>2 DEF SetTransport, stopVars
  <1>3. CASE UNCHANGED sender /\ \E c : CallStop(c)
    BY <1>3 DEF CallStop, stopVars
  <1>4. CASE Stop
    BY <1>4 DEF Stop, StopTakesStream, StopClosesTransport, StopSendsNotice, StopNotifies,
                ipcVars, transportVars, startVars, slotVars, timerVars
  <1>5. CASE Receive
    <2>1. ASSUME NEW t \in Transports, RecvSetTransport(t)
          PROVE  UNCHANGED <<sender, stopPc, exited>>
      BY <2>1 DEF RecvSetTransport, stopVars
    <2>2. ASSUME NEW s \in Starts, RecvStartStream(s)
          PROVE  UNCHANGED <<sender, stopPc, exited>>
      BY <2>2 DEF RecvStartStream, stopVars
    <2>3. CreateFails \/ RecvEnds => UNCHANGED <<sender, stopPc, exited>>
      BY DEF CreateFails, RecvEnds, transportVars, stopVars
    <2> QED
      BY <1>1, <1>2, <1>5, <2>1, <2>2, <2>3 DEF Receive
  <1>6. ASSUME NEW t \in Transports, Network(t) \/ Loop(t) \/ CloseReplaced(t)
        PROVE  UNCHANGED <<sender, stopPc, exited>>
    BY <1>6 DEF Network, PeerConnects, PeerBreaks, PeerGivenUp, Loop, LoopStart, LoopClosed,
                CloseReplaced, stopVars, transportVars
  <1>7. ASSUME NEW t \in Transports, Wake(t)
        PROVE  StopFinal'
    BY <1>1, <1>3, <1>7 DEF Wake, stopVars, transportVars
  <1>8. ASSUME NEW s \in Starts, Start(s) \/ StopConnection(s) \/ ConnectionTerminated(s)
        PROVE  StopFinal'
    BY <1>1, <1>3, <1>8 DEF Start, TakeOldStream, LockHost, Launch, Fail, Started, Store,
                StopAfterFailure, StopConnection, ConnectionTerminated, stopVars, transportVars
  <1>9. CASE ClientLeaves \/ Tick \/ UNCHANGED vars
    BY <1>1, <1>9 DEF ClientLeaves, Tick, vars, stopVars, transportVars
  <1> QED
    BY <1>4, <1>5, <1>1, <1>6, <1>7, <1>8, <1>9 DEF Next

-----------------------------------------------------------------------------
(* The types: the parts of TypeOK, and that a receiver that creates a transport has one. *)

IpcTypes ==
    /\ clientGone \in BOOLEAN
    /\ receiver \in {"recv", "create", "ended"}
    /\ incoming \in Transports \cup {None}
    /\ receiver = "create" => incoming \in Transports
TransportTypes ==
    /\ sender \in Transports \cup {None}
    /\ closing \subseteq Transports
    /\ peer \in [Transports -> {"unused", "new", "connected", "broken", "closed"}]
    /\ loop \in [Transports -> {"unused", "poll", "done"}]
EventTypes == events \in [Transports -> Seq(Starts \cup {"Closed"})]
StartTypes ==
    /\ task \in [Starts -> {"unused", "sent", "spawned", "queued", "launching",
                            "starting", "storing", "done", "failed"}]
    /\ stream \in Starts \cup {None}
    /\ stopping \subseteq Starts
    /\ hostLock \in Starts \cup {None}
StopTypes ==
    /\ stopPc \in {"no", "begin", "transport", "notice", "sleep", "done"}
    /\ stopBy \in {"nobody", "timeout", "start", "terminated"}
    /\ exited \in BOOLEAN
TimeTypes == grace \in 0..Timeout + 1 /\ Timer!TimerTypeOK
SlotTypes == owner \in Starts \cup {None} /\ refused \subseteq Starts /\ finished \subseteq Starts

Types ==
    /\ IpcTypes /\ TransportTypes /\ EventTypes /\ StartTypes /\ StopTypes /\ TimeTypes
    /\ SlotTypes

\* Delivering keeps the types of the channels.
LEMMA DeliverType ==
    ASSUME TransportTypes, EventTypes, NEW t \in Transports, NEW e \in Starts \cup {"Closed"},
           Deliver(t, e)
    PROVE  EventTypes'
  <1>1. events[t] \in Seq(Starts \cup {"Closed"})
    BY DEF EventTypes
  <1>2. Append(events[t], e) \in Seq(Starts \cup {"Closed"})
    BY <1>1
  <1> QED
    BY <1>1, <1>2 DEF EventTypes, Deliver

\* So does every step, whatever is in front.
LEMMA EventStep ==
    ASSUME TransportTypes, EventTypes, IpcTypes, [Next]_vars
    PROVE  EventTypes'
  <1>1. CASE UNCHANGED events
    BY <1>1 DEF EventTypes
  <1>2. ASSUME NEW s \in Starts, RecvStartStream(s)
        PROVE  EventTypes'
    <2>1. CASE sender = None
      BY <1>1, <1>2, <2>1 DEF RecvStartStream
    <2>2. CASE sender # None
      BY <1>2, <2>2, DeliverType DEF RecvStartStream, TransportTypes
    <2> QED
      BY <2>1, <2>2
  <1>3. ASSUME NEW t \in Transports, CloseReplaced(t) \/ PeerGivenUp(t)
        PROVE  EventTypes'
    BY <1>3, DeliverType DEF CloseReplaced, PeerGivenUp
  <1>4. ASSUME NEW t \in Transports, LoopStart(t)
        PROVE  EventTypes'
    <2>1. events[t] \in Seq(Starts \cup {"Closed"}) /\ events[t] # <<>>
      BY <1>4 DEF EventTypes, LoopStart
    <2>2. Tail(events[t]) \in Seq(Starts \cup {"Closed"})
      BY <2>1
    <2> QED
      BY <1>4, <2>2 DEF EventTypes, LoopStart
  <1>5. ASSUME NEW t \in Transports, LoopClosed(t)
        PROVE  EventTypes'
    <2>1. <<>> \in Seq(Starts \cup {"Closed"})
      OBVIOUS
    <2> QED
      BY <1>5, <2>1 DEF EventTypes, LoopClosed
  <1>6. CASE StopClosesTransport
    <2>1. CASE sender = None
      BY <1>1, <1>6, <2>1 DEF StopClosesTransport
    <2>2. CASE sender # None
      BY <1>6, <2>2, DeliverType DEF StopClosesTransport, TransportTypes
    <2> QED
      BY <2>1, <2>2
  <1>7. ASSUME NEW t \in Transports,
               RecvSetTransport(t) \/ PeerConnects(t) \/ PeerBreaks(t) \/ Wake(t)
        PROVE  UNCHANGED events
    BY <1>7 DEF RecvSetTransport, PeerConnects, PeerBreaks, Wake, transportVars
  <1>8. ASSUME NEW s \in Starts, Start(s) \/ StopConnection(s) \/ ConnectionTerminated(s)
        PROVE  UNCHANGED events
    BY <1>8 DEF Start, TakeOldStream, LockHost, Launch, Fail, Started, Store, StopAfterFailure,
                StopConnection, ConnectionTerminated, transportVars
  <1>9. CASE \/ CreateFails \/ SetTransport \/ RecvEnds \/ ClientLeaves \/ Tick \/ UNCHANGED vars
             \/ StopTakesStream \/ StopSendsNotice \/ StopNotifies
    BY <1>1, <1>9 DEF CreateFails, SetTransport, RecvEnds, ClientLeaves, Tick, vars,
                      StopTakesStream, StopSendsNotice, StopNotifies, transportVars
  <1> QED
    BY <1>1, <1>2, <1>3, <1>4, <1>5, <1>6, <1>7, <1>8, <1>9
       DEF Next, Receive, Network, Loop, Stop

\* Every step keeps the types of the receiver and of the transports.
LEMMA TransportStep ==
    ASSUME IpcTypes, TransportTypes, [Next]_vars
    PROVE  IpcTypes' /\ TransportTypes'
  <1> USE DEF IpcTypes, TransportTypes, ipcVars, transportVars
  <1>1. ASSUME NEW t \in Transports, RecvSetTransport(t)
        PROVE  IpcTypes' /\ TransportTypes'
    BY <1>1 DEF RecvSetTransport
  <1>2. ASSUME NEW s \in Starts, RecvStartStream(s)
        PROVE  IpcTypes' /\ TransportTypes'
    BY <1>2 DEF RecvStartStream
  <1>3. CASE CreateFails \/ RecvEnds \/ ClientLeaves
    BY <1>3 DEF CreateFails, RecvEnds, ClientLeaves
  <1>4. CASE SetTransport
    BY <1>4 DEF SetTransport
  <1>5. ASSUME NEW t \in Transports,
               CloseReplaced(t) \/ PeerConnects(t) \/ PeerBreaks(t) \/ PeerGivenUp(t)
        PROVE  IpcTypes' /\ TransportTypes'
    BY <1>5 DEF CloseReplaced, PeerConnects, PeerBreaks, PeerGivenUp
  <1>6. ASSUME NEW t \in Transports, LoopStart(t) \/ LoopClosed(t) \/ Wake(t)
        PROVE  IpcTypes' /\ TransportTypes'
    BY <1>6 DEF LoopStart, LoopClosed, Wake
  <1>7. CASE StopClosesTransport
    BY <1>7 DEF StopClosesTransport
  <1>8. ASSUME NEW s \in Starts, Start(s) \/ StopConnection(s) \/ ConnectionTerminated(s)
        PROVE  UNCHANGED <<ipcVars, transportVars>>
    BY <1>8 DEF Start, TakeOldStream, LockHost, Launch, Fail, Started, Store, StopAfterFailure,
                StopConnection, ConnectionTerminated
  <1>9. CASE Tick \/ UNCHANGED vars \/ StopTakesStream \/ StopSendsNotice \/ StopNotifies
    BY <1>9 DEF Tick, vars, StopTakesStream, StopSendsNotice, StopNotifies
  <1>10. CASE UNCHANGED <<ipcVars, transportVars>>
    BY <1>10
  <1> QED
    BY <1>1, <1>2, <1>3, <1>4, <1>5, <1>6, <1>7, <1>8, <1>9, <1>10
       DEF Next, Receive, Network, Loop, Stop

\* Every step keeps the types of the starts; what an event loop spawns is a start.
LEMMA StartStep ==
    ASSUME EventTypes, StartTypes, [Next]_vars
    PROVE  StartTypes'
  <1> USE DEF StartTypes, startVars
  <1>1. CASE UNCHANGED startVars
    BY <1>1
  <1>2. ASSUME NEW s \in Starts, RecvStartStream(s)
        PROVE  StartTypes'
    BY <1>2 DEF RecvStartStream
  <1>3. ASSUME NEW t \in Transports, LoopStart(t)
        PROVE  StartTypes'
    BY <1>3 DEF LoopStart
  <1>4. ASSUME NEW s \in Starts, TakeOldStream(s) \/ LockHost(s)
        PROVE  StartTypes'
    BY <1>4 DEF TakeOldStream, LockHost
  <1>5. ASSUME NEW s \in Starts, Launch(s) \/ Started(s)
        PROVE  StartTypes'
    BY <1>5 DEF Launch, Started, Fail
  <1>6. ASSUME NEW s \in Starts, Store(s) \/ StopAfterFailure(s) \/ StopConnection(s)
        PROVE  StartTypes'
    BY <1>6 DEF Store, StopAfterFailure, StopConnection
  <1>7. CASE StopTakesStream
    BY <1>7 DEF StopTakesStream
  <1>8. ASSUME NEW t \in Transports,
               \/ RecvSetTransport(t) \/ Network(t) \/ LoopClosed(t) \/ CloseReplaced(t)
               \/ Wake(t)
        PROVE  UNCHANGED startVars
    BY <1>8 DEF RecvSetTransport, Network, PeerConnects, PeerBreaks, PeerGivenUp, LoopClosed,
                CloseReplaced, Wake
  <1>9. ASSUME NEW s \in Starts, ConnectionTerminated(s)
        PROVE  UNCHANGED startVars
    BY <1>9 DEF ConnectionTerminated
  <1>10. CASE \/ CreateFails \/ SetTransport \/ RecvEnds \/ ClientLeaves \/ Tick
              \/ StopClosesTransport \/ StopSendsNotice \/ StopNotifies \/ UNCHANGED vars
    BY <1>10 DEF CreateFails, SetTransport, RecvEnds, ClientLeaves, Tick, vars,
                 StopClosesTransport, StopSendsNotice, StopNotifies
  <1> QED
    BY <1>1, <1>2, <1>3, <1>4, <1>5, <1>6, <1>7, <1>8, <1>9, <1>10
       DEF Next, Receive, Loop, Start, Stop

\* Every step keeps the types of stop.
LEMMA StopTypeStep ==
    ASSUME StopTypes, [Next]_vars
    PROVE  StopTypes'
  <1> USE DEF StopTypes, stopVars
  <1>1. CASE UNCHANGED stopVars
    BY <1>1
  <1>2. ASSUME NEW c \in {"timeout", "start", "terminated"}, CallStop(c)
        PROVE  StopTypes'
    BY <1>2 DEF CallStop
  <1>3. ASSUME NEW t \in Transports, Wake(t)
        PROVE  StopTypes'
    BY <1>1, <1>2, <1>3 DEF Wake
  <1>4. ASSUME NEW s \in Starts, Start(s) \/ StopConnection(s) \/ ConnectionTerminated(s)
        PROVE  StopTypes'
    BY <1>1, <1>2, <1>4 DEF Start, TakeOldStream, LockHost, Launch, Fail, Started, Store,
                StopAfterFailure, StopConnection, ConnectionTerminated
  <1>5. CASE Stop
    BY <1>5 DEF Stop, StopTakesStream, StopClosesTransport, StopSendsNotice, StopNotifies
  <1>6. ASSUME NEW t \in Transports,
               RecvSetTransport(t) \/ Network(t) \/ Loop(t) \/ CloseReplaced(t)
        PROVE  UNCHANGED stopVars
    BY <1>6 DEF RecvSetTransport, Network, PeerConnects, PeerBreaks, PeerGivenUp, Loop, LoopStart,
                LoopClosed, CloseReplaced
  <1>7. ASSUME NEW s \in Starts, RecvStartStream(s)
        PROVE  UNCHANGED stopVars
    BY <1>7 DEF RecvStartStream
  <1>8. CASE CreateFails \/ SetTransport \/ RecvEnds \/ ClientLeaves \/ Tick \/ UNCHANGED vars
    BY <1>8 DEF CreateFails, SetTransport, RecvEnds, ClientLeaves, Tick, vars
  <1> QED
    BY <1>1, <1>3, <1>4, <1>5, <1>6, <1>7, <1>8 DEF Next, Receive

\* Whatever step the session takes, the slot takes one of its own or none.
LEMMA SlotUse ==
    ASSUME [Next]_vars
    PROVE  [Slot!Next]_(Slot!slotVars)
  <1> USE DEF slotVars, Slot!slotVars
  <1>1. CASE UNCHANGED slotVars
    BY <1>1
  <1>2. ASSUME NEW s \in Starts, Slot!Take(s) \/ Slot!Refuse(s) \/ Slot!Release(s)
        PROVE  [Slot!Next]_(Slot!slotVars)
    BY <1>2 DEF Slot!Next
  <1>3. ASSUME NEW s \in Starts, Start(s) \/ StopConnection(s) \/ ConnectionTerminated(s)
        PROVE  [Slot!Next]_(Slot!slotVars)
    BY <1>1, <1>2, <1>3 DEF Start, TakeOldStream, LockHost, Launch, Started, Store,
                StopAfterFailure, StopConnection, ConnectionTerminated
  <1>4. ASSUME NEW t \in Transports, RecvSetTransport(t) \/ Network(t) \/ Loop(t)
                                      \/ CloseReplaced(t) \/ Wake(t)
        PROVE  UNCHANGED slotVars
    BY <1>4 DEF RecvSetTransport, Network, PeerConnects, PeerBreaks, PeerGivenUp, Loop, LoopStart,
                LoopClosed, CloseReplaced, Wake
  <1>5. ASSUME NEW s \in Starts, RecvStartStream(s)
        PROVE  UNCHANGED slotVars
    BY <1>5 DEF RecvStartStream
  <1>6. CASE \/ Stop \/ CreateFails \/ SetTransport \/ RecvEnds \/ ClientLeaves \/ Tick
             \/ UNCHANGED vars
    BY <1>6 DEF Stop, StopTakesStream, StopClosesTransport, StopSendsNotice, StopNotifies,
                CreateFails, SetTransport, RecvEnds, ClientLeaves, Tick, vars
  <1> QED
    BY <1>1, <1>3, <1>4, <1>5, <1>6 DEF Next, Receive

\* So every step keeps the types of the slot.
LEMMA SlotStep ==
    ASSUME SlotTypes, [Next]_vars
    PROVE  SlotTypes'
  <1> USE DEF SlotTypes, Slot!slotVars
  <1>1. CASE UNCHANGED Slot!slotVars
    BY <1>1
  <1>2. ASSUME NEW s \in Starts, Slot!Take(s) \/ Slot!Refuse(s) \/ Slot!Release(s)
        PROVE  SlotTypes'
    BY <1>2 DEF Slot!Take, Slot!Refuse, Slot!Release
  <1> QED
    BY SlotUse, <1>1, <1>2 DEF Slot!Next

\* Whatever step the session takes, its delayed termination takes one of its own or none.
LEMMA TimerUse ==
    ASSUME [Next]_vars
    PROVE  [Timer!TimerNext]_(Timer!timerVars)
  <1> USE DEF timerVars, Timer!timerVars
  <1>1. CASE UNCHANGED timerVars
    BY <1>1
  <1>2. ASSUME NEW t \in Transports, RecvSetTransport(t)
        PROVE  Timer!Withdraw
    BY <1>2 DEF RecvSetTransport
  <1>3. ASSUME NEW t \in Transports, LoopClosed(t) \/ Wake(t)
        PROVE  Timer!Request(t) \/ Timer!Wake(t)
    BY <1>3 DEF LoopClosed, Wake
  <1>4. CASE Tick
    BY <1>4 DEF Tick, Timer!TimerNext
  <1>5. ASSUME NEW t \in Transports, Network(t) \/ LoopStart(t) \/ CloseReplaced(t)
        PROVE  UNCHANGED timerVars
    BY <1>5 DEF Network, PeerConnects, PeerBreaks, PeerGivenUp, LoopStart, CloseReplaced
  <1>6. ASSUME NEW s \in Starts,
               RecvStartStream(s) \/ Start(s) \/ StopConnection(s) \/ ConnectionTerminated(s)
        PROVE  UNCHANGED timerVars
    BY <1>6 DEF RecvStartStream, Start, TakeOldStream, LockHost, Launch, Fail, Started, Store,
                StopAfterFailure, StopConnection, ConnectionTerminated
  <1>7. CASE Stop \/ CreateFails \/ SetTransport \/ RecvEnds \/ ClientLeaves \/ UNCHANGED vars
    BY <1>7 DEF Stop, StopTakesStream, StopClosesTransport, StopSendsNotice, StopNotifies,
                CreateFails, SetTransport, RecvEnds, ClientLeaves, vars
  <1> QED
    BY <1>1, <1>2, <1>3, <1>4, <1>5, <1>6, <1>7 DEF Next, Receive, Loop, Timer!TimerNext

\* Every step keeps the types of the timer and of the grace.
LEMMA TimeStep ==
    ASSUME TimeTypes, [Next]_vars
    PROVE  TimeTypes'
  <1> USE TimeAssumption DEF TimeTypes, Timer!TimerTypeOK, timerVars, Timer!Sleep
  <1>0. 0 \in 0..Timer!Sleep /\ 0 \in 0..Timeout + 1
    OBVIOUS
  <1>1. CASE UNCHANGED <<grace, timerVars>>
    BY <1>1
  <1>2. ASSUME NEW t \in Transports, RecvSetTransport(t)
        PROVE  TimeTypes'
    <2>1. grace' = 0 /\ age' = 0 /\ pending' = FALSE /\ UNCHANGED <<timer, elapsed, fired>>
      BY <1>2 DEF RecvSetTransport, Timer!Withdraw
    <2> QED
      BY <1>0, <2>1
  <1>3. ASSUME NEW t \in Transports, LoopClosed(t)
        PROVE  TimeTypes'
    BY <1>3 DEF LoopClosed, Timer!Request
  <1>4. ASSUME NEW t \in Transports, Wake(t)
        PROVE  TimeTypes'
    BY <1>4 DEF Wake, Timer!Wake, Timer!Expired
  <1>5. CASE Tick
    <2>1. age' \in 0..Timer!Sleep /\ grace' \in 0..Timeout + 1
      BY <1>5 DEF Tick, Timer!Tick, Timer!Older
    <2>2. elapsed' \in [Transports -> 0..Timer!Sleep]
      BY <1>5 DEF Tick, Timer!Tick, Timer!Older
    <2> QED
      BY <1>5, <2>1, <2>2 DEF Tick, Timer!Tick
  <1>6. ASSUME NEW t \in Transports, Network(t) \/ LoopStart(t) \/ CloseReplaced(t)
        PROVE  UNCHANGED <<grace, timerVars>>
    BY <1>6 DEF Network, PeerConnects, PeerBreaks, PeerGivenUp, LoopStart, CloseReplaced
  <1>7. ASSUME NEW s \in Starts,
               RecvStartStream(s) \/ Start(s) \/ StopConnection(s) \/ ConnectionTerminated(s)
        PROVE  UNCHANGED <<grace, timerVars>>
    BY <1>7 DEF RecvStartStream, Start, TakeOldStream, LockHost, Launch, Fail, Started, Store,
                StopAfterFailure, StopConnection, ConnectionTerminated
  <1>8. CASE Stop \/ CreateFails \/ SetTransport \/ RecvEnds \/ ClientLeaves \/ UNCHANGED vars
    BY <1>8 DEF Stop, StopTakesStream, StopClosesTransport, StopSendsNotice, StopNotifies,
                CreateFails, SetTransport, RecvEnds, ClientLeaves, vars
  <1> QED
    BY <1>1, <1>2, <1>3, <1>4, <1>5, <1>6, <1>7, <1>8 DEF Next, Receive, Loop

-----------------------------------------------------------------------------
\* A start that waits in a channel has no task yet, and waits there once.
EventsSent ==
    \A t \in Transports : \A i \in 1..Len(events[t]) :
        events[t][i] \in Starts => task[events[t][i]] = "sent"
EventsOnce ==
    \A t, u \in Transports : \A i \in 1..Len(events[t]), j \in 1..Len(events[u]) :
        events[t][i] \in Starts /\ events[t][i] = events[u][j] => t = u /\ i = j
Queued == EventsSent /\ EventsOnce

\* A Closed event is no start, wherever it is put.
LEMMA ClosedKeepsQueued ==
    ASSUME EventTypes, Queued, NEW t \in Transports, Deliver(t, "Closed"), UNCHANGED task
    PROVE  Queued'
  <1>1. \A u \in Transports : events[u] \in Seq(Starts \cup {"Closed"})
    BY DEF EventTypes
  <1>2. \A u \in Transports : \A i \in 1..Len(events'[u]) : events'[u][i] \in Starts =>
            i \in 1..Len(events[u]) /\ events'[u][i] = events[u][i]
    BY <1>1, DistinctAssumption DEF EventTypes, Deliver
  <1> QED
    BY <1>2 DEF Queued, EventsSent, EventsOnce

\* A start is sent once, and its task begins with its event taken out.
LEMMA QueuedStep ==
    ASSUME TransportTypes, EventTypes, StartTypes, Queued, [Next]_vars
    PROVE  Queued'
  <1>1. \A u \in Transports : events[u] \in Seq(Starts \cup {"Closed"})
    BY DEF EventTypes
  <1>2. CASE UNCHANGED <<events, task>>
    BY <1>2 DEF Queued, EventsSent, EventsOnce
  <1>3. ASSUME NEW s \in Starts, RecvStartStream(s)
        PROVE  Queued'
    <2>1. /\ task[s] = "unused" /\ task' = [task EXCEPT ![s] = "sent"]
          /\ UNCHANGED events \/ (sender \in Transports /\ Deliver(sender, s))
      BY <1>3 DEF RecvStartStream, TransportTypes
    <2>2. \A u \in Transports : \A i \in 1..Len(events[u]) : events[u][i] # s
      BY <2>1 DEF Queued, EventsSent
    <2>3. CASE UNCHANGED events
      BY <2>1, <2>2, <2>3, <1>1 DEF Queued, EventsSent, EventsOnce, StartTypes
    <2>4. CASE sender \in Transports /\ Deliver(sender, s)
      <3>1. \A u \in Transports : \A i \in 1..Len(events'[u]) :
                \/ i \in 1..Len(events[u]) /\ events'[u][i] = events[u][i]
                \/ u = sender /\ i = Len(events[u]) + 1 /\ events'[u][i] = s
        BY <1>1, <2>4 DEF EventTypes, Deliver
      <3>2. EventsSent'
        BY <2>1, <3>1 DEF Queued, EventsSent, StartTypes
      <3>3. EventsOnce'
        <4> SUFFICES ASSUME NEW u \in Transports, NEW v \in Transports,
                            NEW i \in 1..Len(events'[u]), NEW j \in 1..Len(events'[v]),
                            events'[u][i] \in Starts, events'[u][i] = events'[v][j]
                     PROVE  u = v /\ i = j
          BY DEF EventsOnce
        <4>1. \/ i \in 1..Len(events[u]) /\ events'[u][i] = events[u][i]
              \/ u = sender /\ i = Len(events[u]) + 1 /\ events'[u][i] = s
          BY <3>1
        <4>2. \/ j \in 1..Len(events[v]) /\ events'[v][j] = events[v][j]
              \/ v = sender /\ j = Len(events[v]) + 1 /\ events'[v][j] = s
          BY <3>1
        <4>3. CASE events'[u][i] = s
          <5>1. ~(i \in 1..Len(events[u]) /\ events'[u][i] = events[u][i])
            BY <2>2, <4>3
          <5>2. ~(j \in 1..Len(events[v]) /\ events'[v][j] = events[v][j])
            BY <2>2, <4>3
          <5> QED
            BY <4>1, <4>2, <5>1, <5>2, Zenon
        <4>4. CASE events'[u][i] # s
          <5>1. /\ i \in 1..Len(events[u]) /\ events'[u][i] = events[u][i]
                /\ j \in 1..Len(events[v]) /\ events'[v][j] = events[v][j]
            BY <4>1, <4>2, <4>4, Zenon
          <5>2. events[u][i] \in Starts /\ events[u][i] = events[v][j]
            BY <5>1
          <5> QED
            BY <5>1, <5>2 DEF Queued, EventsOnce
        <4> QED
          BY <4>3, <4>4
      <3> QED
        BY <3>2, <3>3 DEF Queued
    <2> QED
      BY <2>1, <2>3, <2>4
  <1>4. ASSUME NEW t \in Transports, LoopStart(t)
        PROVE  Queued'
    <2> DEFINE s == Head(events[t])
    <2>1. events[t] # <<>> /\ events[t] \in Seq(Starts \cup {"Closed"}) /\ s \in Starts
      BY <1>1, <1>4 DEF LoopStart
    <2>2. Len(events[t]) \in Nat \ {0} /\ s = events[t][1]
      BY <2>1
    <2>3. /\ task' = [task EXCEPT ![s] = "spawned"]
          /\ events' = [events EXCEPT ![t] = Tail(events[t])]
      BY <1>4 DEF LoopStart
    <2>4. \A u \in Transports : \A i \in 1..Len(events'[u]) :
              /\ u # t => i \in 1..Len(events[u]) /\ events'[u][i] = events[u][i]
              /\ u = t => i + 1 \in 1..Len(events[u]) /\ events'[u][i] = events[u][i + 1]
      BY <1>1, <2>1, <2>2, <2>3 DEF EventTypes
    <2>5. \A u \in Transports : \A i \in 1..Len(events'[u]) : events'[u][i] # s
      <3> SUFFICES ASSUME NEW u \in Transports, NEW i \in 1..Len(events'[u]), events'[u][i] = s
                   PROVE  FALSE
        OBVIOUS
      <3>1. CASE u # t
        BY <2>1, <2>2, <2>4, <3>1 DEF Queued, EventsOnce
      <3>2. CASE u = t
        BY <2>1, <2>2, <2>4, <3>2 DEF Queued, EventsOnce
      <3> QED
        BY <3>1, <3>2
    <2>6. EventsSent'
      <3> SUFFICES ASSUME NEW u \in Transports, NEW i \in 1..Len(events'[u]),
                          events'[u][i] \in Starts
                   PROVE  task'[events'[u][i]] = "sent"
        BY DEF EventsSent
      <3>1. task[events'[u][i]] = "sent"
        <4>1. PICK k \in 1..Len(events[u]) : events'[u][i] = events[u][k]
          BY <2>4
        <4> QED
          BY <4>1 DEF Queued, EventsSent
      <3>2. events'[u][i] # s
        BY <2>5
      <3> QED
        BY <2>3, <3>1, <3>2 DEF StartTypes
    <2>7. EventsOnce'
      <3> SUFFICES ASSUME NEW u \in Transports, NEW v \in Transports,
                          NEW i \in 1..Len(events'[u]), NEW j \in 1..Len(events'[v]),
                          events'[u][i] \in Starts, events'[u][i] = events'[v][j]
                   PROVE  u = v /\ i = j
        BY DEF EventsOnce
      <3> DEFINE a == IF u = t THEN i + 1 ELSE i
      <3> DEFINE b == IF v = t THEN j + 1 ELSE j
      <3>1. /\ a \in 1..Len(events[u]) /\ events'[u][i] = events[u][a]
            /\ b \in 1..Len(events[v]) /\ events'[v][j] = events[v][b]
        BY <2>4
      <3>2. u = v /\ a = b
        <4> HIDE DEF a, b
        <4>1. events[u][a] \in Starts /\ events[u][a] = events[v][b]
          BY <3>1
        <4> QED
          BY <3>1, <4>1 DEF Queued, EventsOnce
      <3> QED
        BY <3>2
    <2> QED
      BY <2>6, <2>7 DEF Queued
  <1>5. ASSUME NEW t \in Transports, LoopClosed(t)
        PROVE  Queued'
    <2>1. events' = [events EXCEPT ![t] = <<>>] /\ UNCHANGED task
      BY <1>5 DEF LoopClosed, startVars
    <2>2. \A u \in Transports : \A i \in 1..Len(events'[u]) :
              i \in 1..Len(events[u]) /\ events'[u][i] = events[u][i]
      BY <1>1, <2>1 DEF EventTypes
    <2> QED
      BY <2>1, <2>2 DEF Queued, EventsSent, EventsOnce
  <1>6. ASSUME NEW t \in Transports, CloseReplaced(t) \/ PeerGivenUp(t)
        PROVE  Queued'
    BY <1>6, ClosedKeepsQueued DEF CloseReplaced, PeerGivenUp, startVars
  <1>7. CASE StopClosesTransport
    <2>1. /\ UNCHANGED task
          /\ UNCHANGED events \/ (sender \in Transports /\ Deliver(sender, "Closed"))
      BY <1>7 DEF StopClosesTransport, startVars, TransportTypes
    <2> QED
      BY <1>2, <2>1, ClosedKeepsQueued
  <1>8. ASSUME NEW s \in Starts, NEW v, task[s] # "sent", task' = [task EXCEPT ![s] = v],
               UNCHANGED events
        PROVE  Queued'
    BY <1>8 DEF Queued, EventsSent, EventsOnce, StartTypes
  <1>9. ASSUME NEW s \in Starts, Start(s)
        PROVE  Queued'
    BY <1>8, <1>9 DEF Start, TakeOldStream, LockHost, Launch, Fail, Started, Store,
                      StopAfterFailure, transportVars
  <1>10. ASSUME NEW s \in Starts, StopConnection(s) \/ ConnectionTerminated(s)
         PROVE  UNCHANGED <<events, task>>
    BY <1>10 DEF StopConnection, ConnectionTerminated, transportVars, startVars
  <1>11. ASSUME NEW t \in Transports,
                RecvSetTransport(t) \/ PeerConnects(t) \/ PeerBreaks(t) \/ Wake(t)
         PROVE  UNCHANGED <<events, task>>
    BY <1>11 DEF RecvSetTransport, PeerConnects, PeerBreaks, Wake, transportVars, startVars
  <1>12. CASE \/ CreateFails \/ SetTransport \/ RecvEnds \/ ClientLeaves \/ Tick \/ UNCHANGED vars
              \/ StopTakesStream \/ StopSendsNotice \/ StopNotifies
    BY <1>2, <1>12 DEF CreateFails, SetTransport, RecvEnds, ClientLeaves, Tick, vars,
                       StopTakesStream, StopSendsNotice, StopNotifies, transportVars, startVars
  <1> QED
    BY <1>2, <1>3, <1>4, <1>5, <1>6, <1>7, <1>9, <1>10, <1>11, <1>12
       DEF Next, Receive, Network, Loop, Stop

\* A step takes the owner from one place to the next, or its connection is over.
LEMMA OwnerStep ==
    ASSUME EventTypes, StartTypes, Queued, OwnerAccounted, [Next]_vars
    PROVE  OwnerAccounted'
  <1> USE DEF OwnerAccounted, StartTypes
  <1>1. CASE UNCHANGED <<owner, task, stream, stopping>>
    BY <1>1
  <1>2. ASSUME NEW s \in Starts, task[s] \notin {"starting", "storing", "done"},
               NEW v, v \notin {"starting", "storing"},
               task' = [task EXCEPT ![s] = v], UNCHANGED <<owner, stream, stopping>>
        PROVE  OwnerAccounted'
    BY <1>2
  <1>3. ASSUME NEW s \in Starts, RecvStartStream(s)
        PROVE  OwnerAccounted'
    BY <1>2, <1>3 DEF RecvStartStream, slotVars
  <1>4. ASSUME NEW t \in Transports, LoopStart(t)
        PROVE  OwnerAccounted'
    <2> DEFINE s == Head(events[t])
    <2>1. events[t] # <<>> /\ events[t] \in Seq(Starts \cup {"Closed"}) /\ s \in Starts
      BY <1>4 DEF LoopStart, EventTypes
    <2>2. Len(events[t]) \in Nat \ {0} /\ s = events[t][1]
      BY <2>1
    <2>3. task[s] = "sent"
      BY <2>1, <2>2 DEF Queued, EventsSent
    <2> QED
      BY <1>2, <1>4, <2>1, <2>3 DEF LoopStart, slotVars
  <1>5. ASSUME NEW s \in Starts, Start(s)
        PROVE  OwnerAccounted'
    <2>1. CASE TakeOldStream(s)
      BY <2>1 DEF TakeOldStream, slotVars
    <2>2. CASE LockHost(s) \/ StopAfterFailure(s)
      BY <1>2, <2>2 DEF LockHost, StopAfterFailure, slotVars
    <2>3. CASE Launch(s)
      <3>1. CASE Slot!Take(s)
        <4>1. /\ owner = None /\ owner' = s /\ s # None
              /\ task' = [task EXCEPT ![s] = "starting"] /\ UNCHANGED <<stream, stopping>>
          BY <2>3, <3>1, DistinctAssumption DEF Launch, Fail, Slot!Refuse, Slot!Take, slotVars
        <4>2. stream = None /\ stopping = {}
          BY <4>1, DistinctAssumption
        <4>3. \A x \in Starts : task[x] \notin {"starting", "storing"}
          BY <4>1, DistinctAssumption
        <4>4. task'[s] = "starting" /\ \A x \in Starts : x # s => task'[x] = task[x]
          BY <4>1
        <4> QED
          BY <4>1, <4>2, <4>3, <4>4
      <3>2. CASE UNCHANGED owner /\ Fail(s)
        BY <1>2, <2>3, <3>2 DEF Launch, Fail
      <3> QED
        BY <2>3, <3>1, <3>2 DEF Launch, Slot!Refuse, slotVars
    <2>4. CASE Started(s)
      <3>1. /\ task[s] = "starting" /\ s = owner /\ s # None
            /\ stream = None /\ stopping = {}
        BY <2>4, DistinctAssumption DEF Started
      <3>2. CASE Slot!Release(s) /\ Fail(s)
        BY <3>1, <3>2 DEF Slot!Release, Fail
      <3>3. CASE /\ task' = [task EXCEPT ![s] = "storing"]
                 /\ UNCHANGED <<owner, stream, stopping>>
        BY <3>1, <3>3
      <3> QED
        BY <2>4, <3>2, <3>3 DEF Started, slotVars
    <2>5. CASE Store(s)
      <3>1. s = owner /\ s # None /\ stream = None /\ stopping = {}
        BY <2>5, DistinctAssumption DEF Store
      <3> QED
        BY <2>5, <3>1 DEF Store, slotVars
    <2> QED
      BY <1>5, <2>1, <2>2, <2>3, <2>4, <2>5 DEF Start
  <1>6. ASSUME NEW s \in Starts, StopConnection(s)
        PROVE  OwnerAccounted'
    BY <1>6 DEF StopConnection, Slot!Release
  <1>7. CASE StopTakesStream
    BY <1>7 DEF StopTakesStream, slotVars
  <1>8. ASSUME NEW s \in Starts, ConnectionTerminated(s)
        PROVE  UNCHANGED <<owner, task, stream, stopping>>
    BY <1>8 DEF ConnectionTerminated, startVars, slotVars
  <1>9. ASSUME NEW t \in Transports,
               \/ RecvSetTransport(t) \/ Network(t) \/ LoopClosed(t) \/ CloseReplaced(t)
               \/ Wake(t)
        PROVE  UNCHANGED <<owner, task, stream, stopping>>
    BY <1>9 DEF RecvSetTransport, Network, PeerConnects, PeerBreaks, PeerGivenUp, LoopClosed,
                CloseReplaced, Wake, startVars, slotVars
  <1>10. CASE \/ CreateFails \/ SetTransport \/ RecvEnds \/ ClientLeaves \/ Tick \/ UNCHANGED vars
              \/ StopClosesTransport \/ StopSendsNotice \/ StopNotifies
    BY <1>1, <1>10 DEF CreateFails, SetTransport, RecvEnds, ClientLeaves, Tick, vars,
                       StopClosesTransport, StopSendsNotice, StopNotifies, startVars, slotVars
  <1> QED
    BY <1>1, <1>3, <1>4, <1>5, <1>6, <1>7, <1>8, <1>9, <1>10 DEF Next, Receive, Loop, Stop

-----------------------------------------------------------------------------
\* The request is no older than the transport that was set last, as far as both are counted:
\* setting one withdraws the request, and what closes later asks anew.
Young == pending => age <= grace \/ grace > Timeout

\* A request that is made starts at age zero, and both grow alike.
LEMMA YoungStep ==
    ASSUME TimeTypes, Young, [Next]_vars
    PROVE  Young'
  <1> USE DEF Young
  <1>1. CASE UNCHANGED <<grace, pending, age>>
    BY <1>1
  <1>2. ASSUME NEW t \in Transports, RecvSetTransport(t)
        PROVE  Young'
    BY <1>2 DEF RecvSetTransport, Timer!Withdraw
  <1>3. ASSUME NEW t \in Transports, LoopClosed(t)
        PROVE  Young'
    BY <1>3, TimeAssumption DEF LoopClosed, Timer!Request, TimeTypes
  <1>4. ASSUME NEW t \in Transports, Wake(t)
        PROVE  UNCHANGED <<grace, pending, age>>
    BY <1>4 DEF Wake, Timer!Wake
  <1>5. CASE Tick
    <2>1. age \in Nat /\ grace \in Nat
      BY TimeAssumption DEF TimeTypes, Timer!TimerTypeOK, Timer!Sleep
    <2>2. /\ age' \in Nat /\ age' <= age + 1 /\ UNCHANGED pending
          /\ grace' = IF grace <= Timeout THEN grace + 1 ELSE grace
      BY <1>5, <2>1 DEF Tick, Timer!Tick, Timer!Older
    <2> QED
      BY <2>1, <2>2, TimeAssumption
  <1>6. ASSUME NEW t \in Transports, Network(t) \/ LoopStart(t) \/ CloseReplaced(t)
        PROVE  UNCHANGED <<grace, pending, age>>
    BY <1>6 DEF Network, PeerConnects, PeerBreaks, PeerGivenUp, LoopStart, CloseReplaced, timerVars
  <1>7. ASSUME NEW s \in Starts,
               RecvStartStream(s) \/ Start(s) \/ StopConnection(s) \/ ConnectionTerminated(s)
        PROVE  UNCHANGED <<grace, pending, age>>
    BY <1>7 DEF RecvStartStream, Start, TakeOldStream, LockHost, Launch, Fail, Started, Store,
                StopAfterFailure, StopConnection, ConnectionTerminated, timerVars
  <1>8. CASE Stop \/ CreateFails \/ SetTransport \/ RecvEnds \/ ClientLeaves \/ UNCHANGED vars
    BY <1>1, <1>8 DEF Stop, StopTakesStream, StopClosesTransport, StopSendsNotice, StopNotifies,
                CreateFails, SetTransport, RecvEnds, ClientLeaves, vars, timerVars
  <1> QED
    BY <1>1, <1>2, <1>3, <1>4, <1>5, <1>6, <1>7, <1>8 DEF Next, Receive, Loop

\* Only a termination task that finds an old enough request stops for the timeout.
LEMMA StoppedByExpiry ==
    ASSUME [Next]_vars, stopBy = "nobody", stopBy' = "timeout"
    PROVE  Timer!Expired
  <1>1. CASE UNCHANGED stopBy
    BY <1>1
  <1>2. ASSUME NEW t \in Transports, Wake(t)
        PROVE  Timer!Expired
    BY <1>2 DEF Wake, stopVars
  <1>3. ASSUME NEW s \in Starts, Start(s) \/ StopConnection(s) \/ ConnectionTerminated(s)
        PROVE  stopBy' # "timeout"
    BY <1>3 DEF Start, TakeOldStream, LockHost, Launch, Fail, Started, Store, StopAfterFailure,
                StopConnection, ConnectionTerminated, CallStop, stopVars
  <1>4. ASSUME NEW t \in Transports,
               RecvSetTransport(t) \/ Network(t) \/ Loop(t) \/ CloseReplaced(t)
        PROVE  UNCHANGED stopBy
    BY <1>4 DEF RecvSetTransport, Network, PeerConnects, PeerBreaks, PeerGivenUp, Loop, LoopStart,
                LoopClosed, CloseReplaced, stopVars
  <1>5. ASSUME NEW s \in Starts, RecvStartStream(s)
        PROVE  UNCHANGED stopBy
    BY <1>5 DEF RecvStartStream, stopVars
  <1>6. CASE \/ Stop \/ CreateFails \/ SetTransport \/ RecvEnds \/ ClientLeaves \/ Tick
             \/ UNCHANGED vars
    BY <1>1, <1>6 DEF Stop, StopTakesStream, StopClosesTransport, StopSendsNotice, StopNotifies,
                CreateFails, SetTransport, RecvEnds, ClientLeaves, Tick, vars, stopVars
  <1> QED
    BY <1>1, <1>2, <1>3, <1>4, <1>5, <1>6 DEF Next, Receive

-----------------------------------------------------------------------------
(* The theorems. *)

IInv == Types /\ StopFinal /\ Queued /\ OwnerAccounted /\ Young

\* The groups are all of the types.
LEMMA TypesSuffice == Types => TypeOK
  BY DEF Types, IpcTypes, TransportTypes, EventTypes, StartTypes, StopTypes, TimeTypes, SlotTypes,
         TypeOK

\* The inductive invariant, whatever transports and starts the client asks for.
THEOREM Inductive == Spec => []IInv
  <1>1. Init => IInv
    <2> SUFFICES ASSUME Init
                 PROVE  IInv
      OBVIOUS
    <2>1. IpcTypes /\ TransportTypes /\ StartTypes /\ StopTypes /\ SlotTypes
      BY DEF Init, IpcTypes, TransportTypes, StartTypes, StopTypes, SlotTypes, Slot!Init
    <2>2. EventTypes
      <3>1. <<>> \in Seq(Starts \cup {"Closed"})
        OBVIOUS
      <3> QED
        BY <3>1 DEF Init, EventTypes
    <2>3. TimeTypes
      <3>1. 0 \in 0..Timer!Sleep /\ 0 \in 0..Timeout + 1
        BY TimeAssumption DEF Timer!Sleep
      <3> QED
        BY <3>1 DEF Init, TimeTypes, Timer!TimerInit, Timer!TimerTypeOK
    <2>4. StopFinal /\ OwnerAccounted /\ Young
      BY DEF Init, StopFinal, StopIsFinal, OwnerAccounted, Young, Timer!TimerInit, Slot!Init
    <2>5. Queued
      BY DEF Init, Queued, EventsSent, EventsOnce
    <2> QED
      BY <2>1, <2>2, <2>3, <2>4, <2>5 DEF IInv, Types
  <1>2. IInv /\ [Next]_vars => IInv'
    BY TransportStep, EventStep, StartStep, StopTypeStep, TimeStep, SlotStep, StopStep, QueuedStep,
       OwnerStep, YoungStep
       DEF IInv, Types
  <1> QED
    BY <1>1, <1>2, PTL DEF Spec

\* Every variable of the session keeps its type; in particular what waits in an event
\* channel is a start or the close of its transport.
THEOREM TypeCorrect == Spec => []TypeOK
  <1>1. IInv => TypeOK
    BY TypesSuffice DEF IInv
  <1> QED
    BY <1>1, Inductive, PTL

\* The handle of a Moonlight connection is in exactly one place, however starts,
\* restarts, failures and stop (main.rs:613-758, 790-834) interleave.
THEOREM OwnerAlwaysAccounted == Spec => []OwnerAccounted
  <1>1. IInv => OwnerAccounted
    BY DEF IInv
  <1> QED
    BY <1>1, Inductive, PTL

\* No transport is set again behind stop.
THEOREM StopAlwaysFinal == Spec => []StopIsFinal
  <1>1. IInv => StopIsFinal
    BY DEF IInv, StopFinal
  <1> QED
    BY <1>1, Inductive, PTL

\* A transport that was asked for has the whole timeout before the session is stopped for
\* one that closed, for any timeout and any slack.
THEOREM GraceAlwaysGiven == Spec => NewTransportGetsGrace
  <1>1. IInv /\ [Next]_vars => [stopBy = "nobody" /\ stopBy' = "timeout" => grace > Timeout]_vars
    <2> SUFFICES ASSUME IInv, [Next]_vars, stopBy = "nobody", stopBy' = "timeout"
                 PROVE  grace > Timeout
      OBVIOUS
    <2>1. pending /\ age > Timeout
      BY StoppedByExpiry DEF Timer!Expired
    <2>2. age \in Nat /\ grace \in Nat
      BY TimeAssumption DEF IInv, Types, TimeTypes, Timer!TimerTypeOK, Timer!Sleep
    <2> QED
      BY <2>1, <2>2, TimeAssumption DEF IInv, Young
  <1> QED
    BY <1>1, Inductive, PTL DEF Spec, NewTransportGetsGrace

\* However starts, restarts, failures and stop (main.rs:613-758, 790-810) interleave, a session
\* takes the Moonlight connection when it is free, is refused otherwise, and only the start that
\* has it gives it back: what it does to the connection is what StreamSlot promises.
THEOREM SessionUsesSlot == Spec => Slot!Spec
  <1>1. Init => Slot!Init
    BY DEF Init, Slot!Init
  <1>2. [Next]_vars => [Slot!Next]_(Slot!slotVars)
    BY SlotUse
  <1> QED
    BY <1>1, <1>2, PTL DEF Spec, Slot!Spec

\* The timeout of a session (main.rs:282-350, 563-568, 761-788) is the delayed termination of TerminateTimer,
\* whatever the session does meanwhile.
THEOREM SessionUsesTimer == Spec => Timer!TimerSpec
  <1>1. Init => Timer!TimerInit
    BY DEF Init, Timer!TimerInit
  <1>2. [Next]_vars => [Timer!TimerNext]_(Timer!timerVars)
    BY TimerUse
  <1> QED
    BY <1>1, <1>2, PTL DEF Spec, Timer!TimerSpec

\* The proofs about the delayed termination, for the one of the session.
Proved == INSTANCE TerminateTimerProofs WITH Timers <- Transports

\* They are about the same delayed termination.
LEMMA SameTimer == Timer!TimerSpec => Proved!TimerSpec
  <1>1. Timer!TimerInit => Proved!TimerInit
    BY DEF Timer!TimerInit, Proved!TimerInit
  <1>2. [Timer!TimerNext]_(Timer!timerVars) => [Proved!TimerNext]_(Proved!timerVars)
    BY DEF Timer!TimerNext, Timer!Withdraw, Timer!Tick, Timer!Request, Timer!Wake, Timer!timerVars,
           Timer!Expired, Timer!Older, Timer!Sleep,
           Proved!TimerNext, Proved!Withdraw, Proved!Tick, Proved!Request, Proved!Wake,
           Proved!timerVars, Proved!Expired, Proved!Older, Proved!Sleep
  <1> QED
    BY <1>1, <1>2, PTL DEF Timer!TimerSpec, Proved!TimerSpec

\* A session that is to be stopped because of the timeout has a task that is going to stop it,
\* whatever transports come, go and close meanwhile.
THEOREM TimeoutAlwaysCovered == Spec => []Timer!PendingIsCovered
  <1>1. Proved!PendingIsCovered => Timer!PendingIsCovered
    BY DEF Proved!PendingIsCovered, Timer!PendingIsCovered, Proved!Armed, Timer!Armed
  <1>2. Proved!TimerSpec => []Proved!PendingIsCovered
    BY TimeAssumption, Proved!PendingAlwaysCovered
  <1> QED
    BY <1>1, <1>2, SameTimer, SessionUsesTimer, PTL

\* No task stops a session for a transport that closed when another one closed within the
\* timeout: the task that acts is the youngest.
THEOREM TimeoutNeverEarly == Spec => Timer!NoEarlyStop
  <1>1. [~fired /\ fired' => \A t \in Transports :
              Proved!Armed(t) => elapsed[t] > Timeout]_(Proved!timerVars)
          => [~fired /\ fired' => \A t \in Transports :
              Timer!Armed(t) => elapsed[t] > Timeout]_(Timer!timerVars)
    BY DEF Proved!Armed, Timer!Armed, Proved!timerVars, Timer!timerVars
  <1>2. Proved!TimerSpec => Proved!NoEarlyStop
    BY TimeAssumption, Proved!NeverEarly
  <1> QED
    BY <1>1, <1>2, SameTimer, SessionUsesTimer, PTL DEF Proved!NoEarlyStop, Timer!NoEarlyStop
===============================================================================
