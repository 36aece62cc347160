------------------------ MODULE ViewerReconnectProofs ------------------------
(***************************************************************************)
(* What holds of ViewerReconnect for any delays, waits, window, settings   *)
(* and number of Streams, whether or not the user waits.                   *)
(***************************************************************************)
EXTENDS ViewerReconnect, TLAPS

\* A timer is only ever set for somebody who is reconnecting, and whoever shows
\* the dialog, or had it taken away, has stopped reconnecting and refuses to begin.
Scheduled == timer # Off => reconnecting
GivenUp == dialog # "none" => failureShown /\ ~reconnecting

IInv == Scheduled /\ GivenUp

-----------------------------------------------------------------------------
\* scheduleReconnectAttempt keeps both, for whoever is reconnecting or begins to.
LEMMA ScheduleKeeps ==
    ASSUME IInv, NEW n, NEW e, Schedule(n, e), reconnecting \/ ~failureShown
    PROVE  IInv'
  <1>1. dialog = "none"
    BY DEF IInv, GivenUp
  <1>2. CASE timer # Off /\ reconnecting' = TRUE /\ UNCHANGED <<timer, failureShown, dialog>>
    BY <1>1, <1>2 DEF IInv, Scheduled, GivenUp
  <1>3. CASE timer = Off /\ DeclarePermanentFailure /\ UNCHANGED timer
    BY <1>3 DEF DeclarePermanentFailure, IInv, Scheduled, GivenUp
  <1>4. CASE timer = Off /\ reconnecting' = TRUE /\ UNCHANGED <<failureShown, dialog>>
    BY <1>1, <1>4 DEF IInv, Scheduled, GivenUp
  <1> QED
    BY <1>2, <1>3, <1>4 DEF Schedule

\* So do the handlers that begin to reconnect, and those that learn of a success.
LEMMA BeginKeeps ==
    ASSUME IInv, BeginReconnect
    PROVE  IInv'
  <1>1. CASE page # "shown" \/ failureShown
    BY <1>1 DEF BeginReconnect, appVars, IInv, Scheduled, GivenUp
  <1>2. CASE ~(page # "shown" \/ failureShown)
    <2>1. Schedule(attempts, elapsed) \/ Schedule(0, 0)
      BY <1>2 DEF BeginReconnect
    <2> QED
      BY <1>2, <2>1, ScheduleKeeps
  <1> QED
    BY <1>1, <1>2

LEMMA RecoveredKeeps ==
    ASSUME IInv, Recovered
    PROVE  IInv'
  <1>1. CASE reconnecting
    BY <1>1 DEF Recovered, OnReconnectSuccess, IInv, Scheduled, GivenUp
  <1>2. CASE ~reconnecting
    BY <1>2 DEF Recovered, appVars, IInv, Scheduled, GivenUp
  <1> QED
    BY <1>1, <1>2

LEMMA UnchangedKeeps ==
    ASSUME IInv, UNCHANGED appVars
    PROVE  IInv'
  BY DEF appVars, IInv, Scheduled, GivenUp

-----------------------------------------------------------------------------
LEMMA TimersKeep ==
    ASSUME IInv, Timers
    PROVE  IInv'
  <1>1. CASE AttemptEnds
    <2>1. timer' = Off
      BY <1>1 DEF AttemptEnds
    <2>2. reconnecting
      BY <1>1 DEF AttemptEnds, TimerDue, IInv, Scheduled, Off
    <2>3. CASE page = "shown"
      BY <1>1, <2>1, <2>2, <2>3 DEF AttemptEnds, DeclarePermanentFailure, IInv, Scheduled, GivenUp
    <2>4. CASE page # "shown"
      BY <1>1, <2>1, <2>2, <2>4 DEF AttemptEnds, IInv, Scheduled, GivenUp
    <2> QED
      BY <2>3, <2>4
  <1>2. CASE PerformReconnectAttempt
    BY <1>2 DEF PerformReconnectAttempt, IInv, Scheduled, GivenUp
  <1>3. ASSUME NEW s \in Streams, StartStream(s)
        PROVE  IInv'
    BY <1>3, UnchangedKeeps DEF StartStream
  <1>4. ASSUME NEW s \in Streams, CheckAttempt(s)
        PROVE  IInv'
    <2>1. CASE reconnecting /\ status # "Ok"
      BY <1>4, <2>1, ScheduleKeeps DEF CheckAttempt
    <2>2. CASE ~(reconnecting /\ status # "Ok")
      BY <1>4, <2>2, UnchangedKeeps DEF CheckAttempt
    <2> QED
      BY <2>1, <2>2
  <1> QED
    BY <1>1, <1>2, <1>3, <1>4 DEF Timers

LEMMA ReportKeeps ==
    ASSUME IInv, NEW s \in Streams, Report(s)
    PROVE  IInv'
  <1>1. CASE Setup(s) \/ FallBack(s) \/ PeerDisconnected(s) \/ PeerStaysDisconnected(s)
             \/ WsClosed(s) \/ GameExit(s)
    BY <1>1, UnchangedKeeps
       DEF Setup, FallBack, PeerDisconnected, PeerStaysDisconnected, WsClosed, GameExit
  <1>2. CASE PeerConnected(s)
    BY <1>2, RecoveredKeeps DEF PeerConnected
  <1>3. CASE PeerFailed(s)
    BY <1>3, BeginKeeps DEF PeerFailed
  <1>4. CASE ConnectionComplete(s)
    <2>1. CASE isReconnect
      BY <1>4, <2>1, RecoveredKeeps DEF ConnectionComplete
    <2>2. CASE ~isReconnect
      BY <1>4, <2>2, UnchangedKeeps DEF ConnectionComplete
    <2> QED
      BY <2>1, <2>2
  <1>5. ASSUME NEW value \in {"Ok", "Poor"}, ConnectionStatus(s, value)
        PROVE  IInv'
    <2>1. CASE value = "Ok"
      BY <1>5, <2>1, RecoveredKeeps DEF ConnectionStatus
    <2>2. CASE value # "Ok"
      BY <1>5, <2>2, UnchangedKeeps DEF ConnectionStatus
    <2> QED
      BY <2>1, <2>2
  <1> QED
    BY <1>1, <1>2, <1>3, <1>4, <1>5 DEF Report

LEMMA OthersKeep ==
    ASSUME IInv, Tick \/ Exits \/ User \/ World
    PROVE  IInv'
  <1>1. CASE Tick
    <2>1. timer = Off => timer' = Off
      BY <1>1 DEF Tick, Later
    <2> QED
      BY <1>1, <2>1 DEF Tick, IInv, Scheduled, GivenUp
  <1>2. CASE DestroyedWsClosed \/ SessionStillActive \/ PageUnloads \/ Leave \/ World
    BY <1>2, UnchangedKeeps
       DEF DestroyedWsClosed, SessionStillActive, PageUnloads, Leave, World, Network, SessionEnds
  <1>3. CASE SessionGone
    BY <1>3 DEF SessionGone, NavigateHome, IInv, Scheduled, GivenUp
  <1>4. CASE Retry
    BY <1>4 DEF Retry, IInv, Scheduled, GivenUp
  <1>5. CASE OtherModal
    BY <1>5 DEF OtherModal, IInv, Scheduled, GivenUp
  <1> QED
    BY <1>1, <1>2, <1>3, <1>4, <1>5 DEF Exits, User

\* The inductive invariant.
THEOREM Inductive == Spec => []IInv
  <1>1. Init => IInv
    BY DEF Init, IInv, Scheduled, GivenUp
  <1>2. IInv /\ [Next]_vars => IInv'
    <2> SUFFICES ASSUME IInv, [Next]_vars
                 PROVE  IInv'
      OBVIOUS
    <2>1. CASE UNCHANGED vars
      BY <2>1, UnchangedKeeps DEF vars
    <2>2. CASE Next
      BY <2>2, TimersKeep, ReportKeeps, OthersKeep DEF Next
    <2> QED
      BY <2>1, <2>2
  <1> QED
    BY <1>1, <1>2, PTL DEF Spec

\* While the user is asked whether to go on no attempt is scheduled, whatever the
\* Streams behind the dialog report and however the waits of attempts overlap.
THEOREM DialogIsQuiet == Spec => []QuietBehindDialog
  <1>1. IInv => QuietBehindDialog
    BY DEF IInv, Scheduled, GivenUp, QuietBehindDialog
  <1> QED
    BY <1>1, Inductive, PTL

-----------------------------------------------------------------------------
\* The delay before an attempt is one of RECONNECT_DELAYS.
LEMMA DelayNat ==
    ASSUME NEW n \in 0..Len(Delays)
    PROVE  DelayAfter(n) \in Nat
  <1>1. Delays \in Seq(Nat) /\ Len(Delays) \in Nat \ {0}
    BY TimeAssumption
  <1>2. (IF n < Len(Delays) THEN n + 1 ELSE Len(Delays)) \in 1..Len(Delays)
    BY <1>1
  <1> QED
    BY <1>1, <1>2 DEF DelayAfter

\* The parts of TypeOK that the methods of the workflow change.
AppType ==
    /\ reconnecting \in BOOLEAN /\ failureShown \in BOOLEAN
    /\ attempts \in 0..Len(Delays) /\ elapsed \in 0..Window
    /\ timer \in {Off} \cup Nat
    /\ dialog \in {"none", "shown", "aborted"}

LEMMA ScheduleType ==
    ASSUME TypeOK, NEW n \in 0..Len(Delays), NEW e \in 0..Window, Schedule(n, e)
    PROVE  AppType'
  BY DelayNat DEF TypeOK, AppType, Schedule, DeclarePermanentFailure

LEMMA BeginType ==
    ASSUME TypeOK, BeginReconnect
    PROVE  AppType'
  <1>1. 0 \in 0..Len(Delays) /\ 0 \in 0..Window
    BY TimeAssumption
  <1>2. attempts \in 0..Len(Delays) /\ elapsed \in 0..Window
    BY DEF TypeOK
  <1>3. CASE UNCHANGED appVars
    BY <1>3 DEF appVars, TypeOK, AppType
  <1>4. CASE Schedule(attempts, elapsed) \/ Schedule(0, 0)
    BY <1>1, <1>2, <1>4, ScheduleType
  <1> QED
    BY <1>3, <1>4 DEF BeginReconnect

LEMMA RecoveredType ==
    ASSUME TypeOK, Recovered
    PROVE  AppType'
  <1>1. 0 \in 0..Len(Delays) /\ 0 \in 0..Window
    BY TimeAssumption
  <1>2. CASE UNCHANGED appVars
    BY <1>2 DEF appVars, TypeOK, AppType
  <1>3. CASE OnReconnectSuccess
    BY <1>1, <1>3 DEF OnReconnectSuccess, TypeOK, AppType
  <1> QED
    BY <1>2, <1>3 DEF Recovered

LEMMA DestroyType ==
    ASSUME TypeOK, DestroyOldStream
    PROVE  /\ stream' \in Streams \cup {NoStream}
           /\ live' \subseteq Streams /\ ws' \subseteq live' /\ complete' \subseteq live'
           /\ link' \in [Streams -> Links]
           /\ settle' \in [Streams -> Waits(Settle)]
           /\ closing' \in BOOLEAN /\ isReconnect' \in BOOLEAN
  <1>1. Settle \in Waits(Settle) /\ "gone" \in Links
    BY TimeAssumption DEF Waits, Links
  <1>2. settle' \in [Streams -> Waits(Settle)]
    BY <1>1 DEF TypeOK, DestroyOldStream
  <1>3. link' \in [Streams -> Links]
    BY <1>1 DEF TypeOK, DestroyOldStream
  <1>4. closing' \in BOOLEAN
    BY Zenon DEF TypeOK, DestroyOldStream
  <1> QED
    BY <1>2, <1>3, <1>4 DEF TypeOK, DestroyOldStream

LEMMA InitType == Init => TypeOK
  <1> SUFFICES ASSUME Init PROVE TypeOK
    OBVIOUS
  <1>1. stream \in Streams
    BY StreamsAssumption DEF Init
  <1>2. link \in [Streams -> Links]
    BY DEF Init, Links
  <1>3. 0 \in 0..Len(Delays) /\ 0 \in 0..Window
    BY TimeAssumption
  <1> QED
    BY <1>1, <1>2, <1>3 DEF Init, TypeOK, Waits

LEMMA TimersType ==
    ASSUME TypeOK, Timers
    PROVE  TypeOK'
  <1>1. ASSUME TimerDue PROVE attempts' \in 0..Len(Delays)
    BY <1>1, TimeAssumption DEF TimerDue, TypeOK
  <1>2. CASE AttemptEnds
    <2>1. AppType'
      BY <1>1, <1>2 DEF AttemptEnds, DeclarePermanentFailure, TypeOK, AppType
    <2> QED
      BY <1>2, <2>1 DEF AttemptEnds, TypeOK, AppType, streamVars, waitVars, exitVars, worldVars
  <1>3. CASE PerformReconnectAttempt
    BY <1>1, <1>3, DestroyType DEF PerformReconnectAttempt, TypeOK, worldVars
  <1>4. ASSUME NEW s \in Streams, StartStream(s)
        PROVE  TypeOK'
    <2>1. Off \in Waits(Settle) /\ Check \in Waits(Check) /\ "opening" \in Links
      BY TimeAssumption DEF Waits, Links
    <2>2. settle' \in [Streams -> Waits(Settle)] /\ check' \in [Streams -> Waits(Check)]
      BY <1>4, <2>1 DEF StartStream, TypeOK
    <2>3. link' \in [Streams -> Links]
      BY <1>4, <2>1 DEF StartStream, TypeOK
    <2> QED
      BY <1>4, <2>2, <2>3 DEF StartStream, TypeOK, appVars, exitVars, worldVars
  <1>5. ASSUME NEW s \in Streams, CheckAttempt(s)
        PROVE  TypeOK'
    <2>1. AppType'
      <3>1. attempts \in 0..Len(Delays) /\ elapsed \in 0..Window
        BY DEF TypeOK
      <3>2. CASE Schedule(attempts, elapsed)
        BY <3>1, <3>2, ScheduleType
      <3>3. CASE UNCHANGED appVars
        BY <3>3 DEF appVars, TypeOK, AppType
      <3> QED
        BY <1>5, <3>2, <3>3 DEF CheckAttempt
    <2>2. check' \in [Streams -> Waits(Check)]
      BY <1>5 DEF CheckAttempt, TypeOK, Waits
    <2> QED
      BY <1>5, <2>1, <2>2 DEF CheckAttempt, TypeOK, AppType, streamVars, exitVars, worldVars
  <1> QED
    BY <1>2, <1>3, <1>4, <1>5 DEF Timers

LEMMA LaterWaits ==
    ASSUME NEW bound \in Nat, NEW wait \in Waits(bound), wait # 0
    PROVE  Later(wait) \in Waits(bound)
  <1>1. CASE wait = Off
    BY <1>1 DEF Later, Waits
  <1>2. CASE wait \in 1..bound
    BY <1>2 DEF Later, Waits, Off
  <1> QED
    BY <1>1, <1>2 DEF Waits

LEMMA TickType ==
    ASSUME TypeOK, Tick
    PROVE  TypeOK'
  <1>1. timer' \in {Off} \cup Nat
    BY DEF Tick, Due, Later, TypeOK, Off
  <1>2. settle' \in [Streams -> Waits(Settle)]
    <2>1. \A s \in Streams : settle[s] \in Waits(Settle) /\ settle[s] # 0
      BY DEF Tick, Due, TypeOK
    <2>2. \A s \in Streams : Later(settle[s]) \in Waits(Settle)
      BY <2>1, LaterWaits, TimeAssumption
    <2> QED
      BY <2>2 DEF Tick
  <1>3. check' \in [Streams -> Waits(Check)]
    <2>1. \A s \in Streams : check[s] \in Waits(Check) /\ check[s] # 0
      BY DEF Tick, Due, CheckDue, TypeOK
    <2>2. \A s \in Streams : Later(check[s]) \in Waits(Check)
      BY <2>1, LaterWaits, TimeAssumption
    <2> QED
      BY <2>2 DEF Tick
  <1>4. elapsed' \in 0..Window
    BY TimeAssumption DEF Tick, TypeOK
  <1> QED
    BY <1>1, <1>2, <1>3, <1>4 DEF Tick, TypeOK, streamVars, exitVars, worldVars

LEMMA ReportType ==
    ASSUME TypeOK, NEW s \in Streams, Report(s)
    PROVE  TypeOK'
  <1>1. link' \in [Streams -> Links]
    BY DEF Report, Setup, FallBack, PeerConnected, PeerDisconnected, PeerStaysDisconnected, PeerFailed,
       ConnectionComplete, ConnectionStatus, WsClosed, GameExit, TypeOK, Links, streamVars
  <1>2. AppType'
    <2>1. UNCHANGED appVars => AppType'
      BY DEF appVars, TypeOK, AppType
    <2>2. UNCHANGED appVars \/ Recovered \/ BeginReconnect
      BY DEF Report, Setup, FallBack, PeerConnected, PeerDisconnected, PeerStaysDisconnected,
         PeerFailed, ConnectionComplete, ConnectionStatus, WsClosed, GameExit
    <2> QED
      BY <2>1, <2>2, BeginType, RecoveredType
  <1>3. UNCHANGED <<stream, live, isReconnect, settle, check, closing, transport, up, active, page>>
    BY DEF Report, Setup, FallBack, PeerConnected, PeerDisconnected, PeerStaysDisconnected, PeerFailed,
       ConnectionComplete, ConnectionStatus, WsClosed, GameExit, streamVars, waitVars, exitVars,
       worldVars
  <1>4. /\ ws' \subseteq live' /\ complete' \subseteq live'
        /\ checking' \in BOOLEAN /\ status' \in {"Ok", "Poor"}
    BY DEF Report, Reports, Setup, FallBack, PeerConnected, PeerDisconnected, PeerStaysDisconnected,
       PeerFailed, ConnectionComplete, ConnectionStatus, WsClosed, GameExit, TypeOK, streamVars,
       exitVars
  <1> QED
    BY <1>1, <1>2, <1>3, <1>4 DEF TypeOK, AppType

LEMMA OthersType ==
    ASSUME TypeOK, Exits \/ User \/ World
    PROVE  TypeOK'
  <1>1. CASE Exits
    <2>1. CASE DestroyedWsClosed
      BY <2>1 DEF DestroyedWsClosed, TypeOK, appVars, streamVars, waitVars, worldVars
    <2>2. CASE SessionGone
      BY <2>2 DEF SessionGone, NavigateHome, TypeOK, streamVars, waitVars, worldVars
    <2>3. CASE SessionStillActive
      BY <2>3 DEF SessionStillActive, TypeOK, appVars, streamVars, waitVars, worldVars
    <2>4. CASE PageUnloads
      BY <2>4 DEF PageUnloads, TypeOK, appVars, streamVars, waitVars, exitVars, worldVars
    <2> QED
      BY <1>1, <2>1, <2>2, <2>3, <2>4 DEF Exits
  <1>2. CASE Retry
    <2>1. 0 \in 0..Len(Delays) /\ 0 \in 0..Window
      BY TimeAssumption
    <2>2. AppType'
      BY <1>2, <2>1 DEF Retry, TypeOK, AppType
    <2>3. CASE DestroyOldStream
      BY <1>2, <2>2, <2>3, DestroyType DEF Retry, TypeOK, AppType, worldVars
    <2>4. CASE UNCHANGED <<streamVars, settle, closing>>
      BY <1>2, <2>2, <2>4 DEF Retry, TypeOK, AppType, streamVars, worldVars
    <2> QED
      BY <1>2, <2>3, <2>4 DEF Retry
  <1>3. CASE Leave
    <2>1. active' \in BOOLEAN
      BY <1>3, Zenon DEF Leave, TypeOK
    <2> QED
      BY <1>3, <2>1 DEF Leave, TypeOK, appVars, streamVars, waitVars, exitVars
  <1>4. CASE OtherModal
    BY <1>4 DEF OtherModal, TypeOK, streamVars, waitVars, exitVars, worldVars
  <1>5. CASE Network
    <2>1. up' \in BOOLEAN
      BY <1>5, Zenon DEF Network, TypeOK
    <2> QED
      BY <1>5, <2>1 DEF Network, TypeOK, appVars, streamVars, waitVars, exitVars
  <1>6. CASE SessionEnds
    <2>1. active' \in BOOLEAN
      BY <1>6 DEF SessionEnds
    <2> QED
      BY <1>6, <2>1 DEF SessionEnds, TypeOK, appVars, streamVars, waitVars, exitVars
  <1> QED
    BY <1>1, <1>2, <1>3, <1>4, <1>5, <1>6 DEF User, World

\* Every variable keeps its type: in particular no wait runs past its end, and the
\* number of attempts always has a delay.
THEOREM TypeCorrect == Spec => []TypeOK
  <1>1. TypeOK /\ [Next]_vars => TypeOK'
    <2> SUFFICES ASSUME TypeOK, [Next]_vars
                 PROVE  TypeOK'
      OBVIOUS
    <2>1. CASE UNCHANGED vars
      BY <2>1 DEF vars, appVars, streamVars, waitVars, exitVars, worldVars, TypeOK
    <2>2. CASE Next
      BY <2>2, TimersType, TickType, ReportType, OthersType DEF Next
    <2> QED
      BY <2>1, <2>2
  <1> QED
    BY <1>1, InitType, PTL DEF Spec

-----------------------------------------------------------------------------
(* One Stream at a time, for a user who waits and delays that are longer than the   *)
(* half second between two Streams: all of them, but the one before a first attempt. *)

PatientUser == ~HastyRetry /\ \A n \in 1..Len(Delays) : DelayAfter(n) > Settle

AllSettled == \A s \in Streams : settle[s] = Off

\* An attempt that is about to create a Stream is the only one, there is none meanwhile,
\* and no other attempt is scheduled before it has: who schedules one meanwhile is
\* the look of an older attempt, and then the delay is not that of a first one.
SettlesAlone ==
    \A s \in Streams : settle[s] # Off =>
        /\ stream = NoStream
        /\ \A t \in Streams : settle[t] # Off => t = s
        /\ timer = Off \/ timer > settle[s]
        /\ attempts > 0 \/ (timer = Off /\ \A t \in Streams : check[t] = Off)

SInv == OneStream /\ SettlesAlone

LEMMA LiveSettled ==
    ASSUME SInv, NEW s \in Streams, s \in live
    PROVE  AllSettled /\ stream = s
  BY StreamsAssumption DEF SInv, OneStream, SettlesAlone, AllSettled

\* Reports come from a live Stream, while no attempt is about to create one.
LEMMA SettledKeeps ==
    ASSUME SInv, AllSettled, UNCHANGED <<stream, live, settle>>
    PROVE  SInv'
  BY DEF SInv, OneStream, SettlesAlone, AllSettled

LEMMA CalmKeeps ==
    ASSUME SInv, UNCHANGED <<stream, live, settle, attempts, check>>, timer' \in {timer, Off}
    PROVE  SInv'
  BY DEF SInv, OneStream, SettlesAlone

\* The old Stream is destroyed, and an attempt is about to create the next one.
LEMMA DestroyKeeps ==
    ASSUME SInv, AllSettled, DestroyOldStream, timer' = Off,
           attempts' > 0 \/ \A t \in Streams : check'[t] = Off,
           TypeOK
    PROVE  SInv'
  <1>1. stream' = NoStream /\ live' = {}
    BY DEF DestroyOldStream, SInv, OneStream
  <1>2. \A s \in Streams : settle'[s] # Off => s = NextStream
    BY DEF DestroyOldStream, AllSettled, TypeOK
  <1> QED
    BY <1>1, <1>2 DEF SInv, OneStream, SettlesAlone

LEMMA TimersSettle ==
    ASSUME PatientUser, TypeOK, SInv, Timers
    PROVE  SInv'
  <1>1. ASSUME timer = 0
        PROVE  AllSettled
    <2> SUFFICES ASSUME NEW s \in Streams, settle[s] # Off
                 PROVE  FALSE
      BY DEF AllSettled
    <2>1. settle[s] \in 0..Settle
      BY DEF TypeOK, Waits
    <2>2. timer > settle[s]
      BY <1>1 DEF SInv, SettlesAlone, Off
    <2> QED
      BY <1>1, <2>1, <2>2, TimeAssumption
  <1>2. CASE AttemptEnds
    BY <1>1, <1>2, SettledKeeps DEF AttemptEnds, TimerDue, streamVars, waitVars
  <1>3. CASE PerformReconnectAttempt
    <2>1. attempts' > 0
      BY <1>3, TimeAssumption DEF PerformReconnectAttempt, TimerDue, TypeOK
    <2> QED
      BY <1>1, <1>3, <2>1, DestroyKeeps DEF PerformReconnectAttempt, TimerDue
  <1>4. ASSUME NEW s \in Streams, StartStream(s)
        PROVE  SInv'
    <2>1. settle[s] # Off
      BY <1>4 DEF StartStream, Off
    <2>2. stream = NoStream /\ live = {} /\ \A t \in Streams : settle[t] # Off => t = s
      BY <2>1 DEF SInv, OneStream, SettlesAlone
    <2>3. AllSettled'
      BY <1>4, <2>2 DEF StartStream, AllSettled, TypeOK
    <2> QED
      BY <1>4, <2>2, <2>3, StreamsAssumption
      DEF StartStream, SInv, OneStream, SettlesAlone, AllSettled
  <1>5. ASSUME NEW s \in Streams, CheckAttempt(s)
        PROVE  SInv'
    <2>1. UNCHANGED <<stream, live, settle, attempts>>
      BY <1>5 DEF CheckAttempt, streamVars, Schedule, appVars
    <2>2. check[s] # Off
      BY <1>5 DEF CheckAttempt, Off
    <2>3. ASSUME NEW t \in Streams, settle'[t] # Off
          PROVE  timer' = Off \/ timer' > settle'[t]
      <3>1. settle[t] # Off /\ settle[t] \in 0..Settle /\ (timer = Off \/ timer > settle[t])
        BY <2>1, <2>3 DEF SInv, SettlesAlone, TypeOK, Waits
      <3>2. attempts \in 1..Len(Delays)
        BY <2>2, <3>1 DEF SInv, SettlesAlone, TypeOK
      <3>3. DelayAfter(attempts) > Settle /\ DelayAfter(attempts) \in Nat /\ Settle \in Nat
        BY <3>2, DelayNat, TimeAssumption DEF PatientUser
      <3>4. timer' = timer \/ timer' = DelayAfter(attempts)
        BY <1>5 DEF CheckAttempt, Schedule, appVars
      <3> QED
        BY <2>1, <3>1, <3>3, <3>4
    <2> QED
      BY <2>1, <2>2, <2>3 DEF SInv, OneStream, SettlesAlone
  <1> QED
    BY <1>2, <1>3, <1>4, <1>5 DEF Timers

LEMMA TickSettles ==
    ASSUME TypeOK, SInv, Tick
    PROVE  SInv'
  <1>1. UNCHANGED <<stream, live, attempts>>
    BY DEF Tick, streamVars
  <1>2. ASSUME NEW s \in Streams
        PROVE  /\ settle[s] # 0 /\ check[s] # 0
               /\ settle'[s] = Later(settle[s]) /\ check'[s] = Later(check[s])
    BY DEF Tick, Due, CheckDue
  <1>3. ASSUME NEW s \in Streams
        PROVE  /\ settle'[s] = Off <=> settle[s] = Off
               /\ check'[s] = Off <=> check[s] = Off
    BY <1>2 DEF Later, TypeOK, Waits, Off
  <1>4. timer = Off => timer' = Off
    BY DEF Tick, Later
  <1>5. ASSUME NEW s \in Streams, settle'[s] # Off, timer # Off
        PROVE  timer' > settle'[s]
    <2>1. settle[s] \in 0..Settle /\ settle'[s] = settle[s] - 1
      BY <1>2, <1>3, <1>5 DEF Later, TypeOK, Waits
    <2>2. timer \in Nat /\ timer' = timer - 1 /\ timer > settle[s]
      BY <1>3, <1>5 DEF Tick, Later, TypeOK, SInv, SettlesAlone
    <2> QED
      BY <2>1, <2>2, TimeAssumption
  <1> QED
    BY <1>1, <1>3, <1>4, <1>5 DEF SInv, OneStream, SettlesAlone

LEMMA OthersSettle ==
    ASSUME PatientUser, IInv, TypeOK, SInv, Exits \/ User \/ World
    PROVE  SInv'
  <1>1. CASE DestroyedWsClosed \/ SessionStillActive \/ PageUnloads \/ Leave \/ World
    BY <1>1, CalmKeeps
       DEF DestroyedWsClosed, SessionStillActive, PageUnloads, Leave, World, Network, SessionEnds,
           appVars, streamVars, waitVars
  <1>2. CASE SessionGone
    BY <1>2, CalmKeeps DEF SessionGone, NavigateHome, streamVars, waitVars
  <1>3. CASE OtherModal
    BY <1>3, CalmKeeps DEF OtherModal, streamVars, waitVars
  <1>4. CASE Retry
    <2>1. AllSettled /\ \A t \in Streams : check[t] = Off
      BY <1>4 DEF Retry, PatientUser, AllSettled
    <2>2. timer' = Off /\ check' = check
      BY <1>4 DEF Retry, IInv, Scheduled, GivenUp
    <2>3. CASE DestroyOldStream
      BY <2>1, <2>2, <2>3, DestroyKeeps
    <2>4. CASE UNCHANGED <<streamVars, settle, closing>>
      BY <2>1, <2>4, SettledKeeps DEF streamVars
    <2> QED
      BY <1>4, <2>3, <2>4 DEF Retry
  <1> QED
    BY <1>1, <1>2, <1>3, <1>4 DEF Exits, User

LEMMA PatientInvariant ==
    ASSUME PatientUser
    PROVE  Spec => []SInv
  <1>1. Init => SInv
    <2> SUFFICES ASSUME Init PROVE SInv
      OBVIOUS
    <2>1. stream \in Streams /\ AllSettled
      BY StreamsAssumption DEF Init, AllSettled
    <2> QED
      BY <2>1, StreamsAssumption DEF Init, SInv, OneStream, SettlesAlone, AllSettled
  <1>2. IInv /\ TypeOK /\ SInv /\ [Next]_vars => SInv'
    <2> SUFFICES ASSUME IInv, TypeOK, SInv, [Next]_vars
                 PROVE  SInv'
      OBVIOUS
    <2>1. CASE UNCHANGED vars
      BY <2>1, CalmKeeps DEF vars, appVars, streamVars, waitVars
    <2>2. ASSUME NEW s \in Streams, Report(s)
          PROVE  SInv'
      <3>1. s \in live /\ UNCHANGED <<stream, live, settle>>
        BY <2>2 DEF Report, Reports, Setup, FallBack, PeerConnected, PeerDisconnected,
           PeerStaysDisconnected, PeerFailed, ConnectionComplete, ConnectionStatus, WsClosed,
           GameExit, streamVars, waitVars
      <3> QED
        BY <3>1, LiveSettled, SettledKeeps
    <2>3. CASE Timers \/ Tick \/ Exits \/ User \/ World
      BY <2>3, TimersSettle, TickSettles, OthersSettle
    <2> QED
      BY <2>1, <2>2, <2>3 DEF Next
  <1> QED
    BY <1>1, <1>2, Inductive, TypeCorrect, PTL DEF Spec

\* The page never has two Streams, however its attempts overlap, as long as the user does
\* not ask for one more while an attempt is under way.
THEOREM OneStreamAlways ==
    ASSUME PatientUser
    PROVE  Spec => []OneStream
  <1>1. SInv => OneStream
    BY DEF SInv
  <1> QED
    BY <1>1, PatientInvariant, PTL

-----------------------------------------------------------------------------
(* Nobody reconnects while the Stream works: each sign of success ends the attempts,  *)
(* and only the failure of the Stream begins them.  What the first Stream says is not *)
(* a sign of success, so of it there is more to know.                                 *)

Troubled(s) ==
    IF isReconnect THEN ~Works(s) /\ link[s] # "disconnected" ELSE link[s] = "failed"

\* A Stream that has told of its connection has set up a transport before.
CompleteIsLate == \A s \in complete : link[s] \notin {"opening", "negotiating"}

RInv ==
    /\ CompleteIsLate
    /\ reconnecting /\ page = "shown" => \A s \in live : Troubled(s)

\* A step of anybody but the Stream and the attempts that replace it.
LEMMA AsideKeeps ==
    ASSUME RInv, UNCHANGED <<live, link, complete, isReconnect>>,
           page' = "shown" => page = "shown",
           reconnecting' => reconnecting \/ page # "shown"
    PROVE  RInv'
  BY DEF RInv, CompleteIsLate, Troubled, Works

\* Without a Stream there is nothing to lose.
LEMMA GoneKeeps ==
    ASSUME RInv, TypeOK, OneStream, DestroyOldStream
    PROVE  RInv'
  <1>1. live' = {}
    BY DEF DestroyOldStream, OneStream
  <1>2. complete' = {}
    BY <1>1 DEF DestroyOldStream, TypeOK, OneStream
  <1> QED
    BY <1>1, <1>2 DEF RInv, CompleteIsLate

LEMMA TimersRecover ==
    ASSUME RInv, TypeOK, SInv, Timers
    PROVE  RInv'
  <1>1. CASE AttemptEnds
    BY <1>1, AsideKeeps DEF AttemptEnds, DeclarePermanentFailure, streamVars
  <1>2. CASE PerformReconnectAttempt
    BY <1>2, GoneKeeps DEF PerformReconnectAttempt, SInv
  <1>3. ASSUME NEW s \in Streams, StartStream(s)
        PROVE  RInv'
    <2>1. live = {} /\ complete = {}
      <3>1. settle[s] # Off
        BY <1>3 DEF StartStream, Off
      <3> QED
        BY <3>1 DEF SInv, SettlesAlone, OneStream, TypeOK
    <2>2. live' = {s} /\ complete' = {} /\ link'[s] = "opening" /\ isReconnect'
      BY <1>3, <2>1 DEF StartStream, TypeOK
    <2> QED
      BY <2>2 DEF RInv, CompleteIsLate, Troubled, Works
  <1>4. ASSUME NEW s \in Streams, CheckAttempt(s)
        PROVE  RInv'
    <2>1. reconnecting' => reconnecting
      BY <1>4 DEF CheckAttempt, appVars
    <2> QED
      BY <1>4, <2>1, AsideKeeps DEF CheckAttempt, streamVars
  <1> QED
    BY <1>1, <1>2, <1>3, <1>4 DEF Timers

LEMMA RecoveredEnds == Recovered => ~reconnecting'
  BY DEF Recovered, OnReconnectSuccess, appVars

LEMMA ReportRecovers ==
    ASSUME RInv, TypeOK, SInv, NEW s \in Streams, Report(s)
    PROVE  RInv'
  <1>0. live = {s} /\ complete \subseteq {s} /\ link \in [Streams -> Links]
        /\ UNCHANGED <<live, isReconnect, page>>
    <2>1. s \in live /\ UNCHANGED <<live, isReconnect, page>>
      BY DEF Report, Reports, Setup, FallBack, PeerConnected, PeerDisconnected,
         PeerStaysDisconnected, PeerFailed, ConnectionComplete, ConnectionStatus, WsClosed, GameExit,
         streamVars
    <2> QED
      BY <2>1 DEF TypeOK, SInv, OneStream
  <1>1. CASE PeerStaysDisconnected(s) \/ GameExit(s)
    BY <1>1, AsideKeeps DEF PeerStaysDisconnected, GameExit, streamVars, appVars
  <1>2. CASE Setup(s) \/ FallBack(s)
    <2>1. s \notin complete
      BY <1>2 DEF Setup, FallBack, RInv, CompleteIsLate
    <2>2. UNCHANGED <<complete, reconnecting>> /\ link[s] # "failed"
          /\ link'[s] \in {"socket", "negotiating", "lost"}
      BY <1>0, <1>2 DEF Setup, FallBack, appVars
    <2> QED
      BY <1>0, <2>1, <2>2 DEF RInv, CompleteIsLate, Troubled, Works
  <1>3. CASE PeerConnected(s)
    BY <1>0, <1>3, RecoveredEnds DEF PeerConnected, RInv, CompleteIsLate
  <1>4. CASE PeerDisconnected(s)
    <2>1. UNCHANGED <<complete, reconnecting>> /\ link[s] = "connected" /\ link'[s] = "disconnected"
      BY <1>0, <1>4 DEF PeerDisconnected, appVars
    <2> QED
      BY <1>0, <2>1 DEF RInv, CompleteIsLate, Troubled, Works
  <1>5. CASE PeerFailed(s)
    <2>1. UNCHANGED complete /\ link'[s] = "failed"
      BY <1>0, <1>5 DEF PeerFailed
    <2> QED
      BY <1>0, <2>1 DEF RInv, CompleteIsLate, Troubled, Works
  <1>6. CASE ConnectionComplete(s)
    <2>1. link' = link /\ complete' = {s} /\ link[s] \in {"connected", "disconnected", "socket"}
      BY <1>0, <1>6 DEF ConnectionComplete
    <2>2. CASE isReconnect
      BY <1>0, <1>6, <2>1, <2>2, RecoveredEnds DEF ConnectionComplete, RInv, CompleteIsLate
    <2>3. CASE ~isReconnect
      BY <1>0, <1>6, <2>1, <2>3 DEF ConnectionComplete, appVars, RInv, CompleteIsLate, Troubled
    <2> QED
      BY <2>2, <2>3
  <1>7. ASSUME NEW value \in {"Ok", "Poor"}, ConnectionStatus(s, value)
        PROVE  RInv'
    <2>1. reconnecting' => reconnecting
      BY <1>7, RecoveredEnds DEF ConnectionStatus, appVars
    <2> QED
      BY <1>7, <2>1, AsideKeeps DEF ConnectionStatus, streamVars
  <1>8. CASE WsClosed(s)
    <2>1. UNCHANGED <<complete, reconnecting>>
          /\ link'[s] = IF link[s] \in {"socket", "opening"} THEN "lost" ELSE link[s]
      BY <1>0, <1>8 DEF WsClosed, appVars
    <2> QED
      BY <1>0, <2>1 DEF RInv, CompleteIsLate, Troubled, Works
  <1> QED
    BY <1>1, <1>2, <1>3, <1>4, <1>5, <1>6, <1>7, <1>8 DEF Report

LEMMA OthersRecover ==
    ASSUME RInv, TypeOK, SInv, Tick \/ Exits \/ User \/ World
    PROVE  RInv'
  <1>1. CASE \/ Tick \/ DestroyedWsClosed \/ SessionStillActive \/ PageUnloads
             \/ Leave \/ World \/ OtherModal
    <2>1. UNCHANGED <<streamVars, reconnecting>> /\ (page' = "shown" => page = "shown")
      BY <1>1 DEF Tick, DestroyedWsClosed, SessionStillActive, PageUnloads, Leave, World, Network,
                  SessionEnds, OtherModal, appVars
    <2> QED
      BY <2>1, AsideKeeps DEF streamVars
  <1>2. CASE SessionGone
    BY <1>2, AsideKeeps DEF SessionGone, NavigateHome, streamVars
  <1>3. CASE Retry
    <2>1. CASE page = "shown"
      BY <1>3, <2>1, GoneKeeps DEF Retry, SInv
    <2>2. CASE page # "shown"
      BY <1>3, <2>2, AsideKeeps DEF Retry, streamVars
    <2> QED
      BY <2>1, <2>2
  <1> QED
    BY <1>1, <1>2, <1>3 DEF Exits, User

\* No attempt tears down a Stream that works, however long ago it was scheduled: only
\* a user who asks for a retry does.
THEOREM RecoveredAlwaysKept ==
    ASSUME PatientUser
    PROVE  Spec => RecoveredIsKept
  <1>1. Init => RInv
    BY DEF Init, RInv, CompleteIsLate
  <1>2. TypeOK /\ SInv /\ RInv /\ [Next]_vars => RInv'
    <2> SUFFICES ASSUME TypeOK, SInv, RInv, [Next]_vars
                 PROVE  RInv'
      OBVIOUS
    <2>1. CASE UNCHANGED vars
      BY <2>1, AsideKeeps DEF vars, appVars, streamVars
    <2>2. CASE Next
      BY <2>2, TimersRecover, ReportRecovers, OthersRecover DEF Next
    <2> QED
      BY <2>1, <2>2
  <1>3. RInv /\ [Next]_vars => [\A s \in live \ live' : Works(s) => dialog = "shown"]_vars
    <2> SUFFICES ASSUME RInv, [Next]_vars,
                        NEW s \in live, s \notin live', Works(s), dialog # "shown"
                 PROVE  FALSE
      OBVIOUS
    <2>1. \/ PerformReconnectAttempt
          \/ live \subseteq live'
      <3>1. CASE UNCHANGED vars
        BY <3>1 DEF vars, streamVars
      <3>2. CASE Timers
        BY <3>2 DEF Timers, AttemptEnds, StartStream, CheckAttempt, streamVars
      <3>3. ASSUME NEW t \in Streams, Report(t)
            PROVE  live' = live
        BY <3>3 DEF Report, Setup, FallBack, PeerConnected, PeerDisconnected, PeerStaysDisconnected,
           PeerFailed, ConnectionComplete, ConnectionStatus, WsClosed, GameExit, streamVars
      <3>4. CASE Tick \/ Exits \/ World \/ User
        BY <3>4 DEF Tick, Exits, DestroyedWsClosed, SessionGone, SessionStillActive, PageUnloads, World,
           Network, SessionEnds, User, Retry, Leave, OtherModal, streamVars
      <3> QED
        BY <3>1, <3>2, <3>3, <3>4 DEF Next
    <2>2. CASE PerformReconnectAttempt
      BY <2>2 DEF PerformReconnectAttempt, RInv, Troubled, Works
    <2> QED
      BY <2>1, <2>2
  <1> QED
    BY <1>1, <1>2, <1>3, PatientInvariant, TypeCorrect, PTL DEF Spec, RecoveredIsKept
=============================================================================
