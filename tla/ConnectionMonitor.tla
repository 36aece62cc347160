-------------------------- MODULE ConnectionMonitor --------------------------
(***************************************************************************)
(* The watch a Stream keeps on its peer: setupConnectionMonitoring,        *)
(* scheduleConnectionCheck and destroy of web/stream/index.ts.             *)
(*                                                                         *)
(* Every change of the peer is written down and may start, keep or stop    *)
(* two kinds of timers: one check that renews itself until the connection  *)
(* has been away for LostAfter, and one timer per disconnection, which     *)
(* nobody stops, that tells the viewer of a poor connection.  Both look at *)
(* what is written down when they are due, and may be late.  What is       *)
(* reported of ICE only reaches the log.                                   *)
(***************************************************************************)
EXTENDS Integers

CONSTANTS CheckAfter, PoorAfter, LostAfter,  \* 5 s, 3 s and 15 s, in seconds
          Never,                             \* null
          MaxTime                            \* bound: how long an outage is counted

VARIABLES
    connectionState,         \* Stream.connectionState
    disconnectStart,         \* time since disconnectStartTime, or Never
    connectionCheckTimeout,  \* time left of the check, or Never
    poorTimers,              \* time left of the timers of disconnections
    away,                    \* time since the peer was connected last
    told,                    \* the viewer was told in this outage that the connection is lost
    untrue                   \* the viewer was told of what is not so

vars == <<connectionState, disconnectStart, connectionCheckTimeout, poorTimers, away, told,
          untrue>>

States == {"new", "connecting", "connected", "disconnected", "failed", "closed"}
Down == connectionState \in {"disconnected", "failed"}

TypeOK ==
    /\ connectionState \in States
    /\ disconnectStart \in 0..MaxTime \cup {Never}
    /\ connectionCheckTimeout \in 0..CheckAfter \cup {Never}
    /\ poorTimers \subseteq 0..PoorAfter
    /\ away \in 0..MaxTime
    /\ told \in BOOLEAN /\ untrue \in BOOLEAN

Init ==
    /\ connectionState = "new"
    /\ disconnectStart = Never /\ connectionCheckTimeout = Never /\ poorTimers = {}
    /\ away = 0 /\ told = FALSE /\ untrue = FALSE

Started == IF disconnectStart = Never THEN 0 ELSE disconnectStart

Connected ==
    /\ connectionState \in {"new", "connecting", "disconnected"}
    /\ connectionState' = "connected"
    /\ disconnectStart' = Never /\ connectionCheckTimeout' = Never
    /\ away' = 0 /\ told' = FALSE
    /\ UNCHANGED <<poorTimers, untrue>>

\* The outage goes on; only the check is stopped.
Connecting ==
    /\ connectionState \in {"new", "disconnected"}
    /\ connectionState' = "connecting"
    /\ connectionCheckTimeout' = Never
    /\ UNCHANGED <<disconnectStart, poorTimers, away, told, untrue>>

Disconnected ==
    /\ connectionState \in {"connected", "connecting"}
    /\ connectionState' = "disconnected"
    /\ disconnectStart' = Started
    /\ connectionCheckTimeout' = CheckAfter
    /\ poorTimers' = poorTimers \cup {PoorAfter}
    /\ UNCHANGED <<away, told, untrue>>

\* The viewer is told of a poor connection and of the failed transport at once.
Failed ==
    /\ connectionState \in {"connecting", "disconnected"}
    /\ connectionState' = "failed"
    /\ disconnectStart' = Started
    /\ connectionCheckTimeout' = CheckAfter
    /\ UNCHANGED <<poorTimers, away, told, untrue>>

\* The check is due.
Check ==
    /\ connectionCheckTimeout = 0
    /\ LET lost == Down /\ Started > LostAfter
       IN /\ connectionCheckTimeout' = IF Down /\ ~lost THEN CheckAfter ELSE Never
          /\ told' = (told \/ lost)
          /\ untrue' = (untrue \/ (lost /\ away <= LostAfter))
    /\ UNCHANGED <<connectionState, disconnectStart, poorTimers, away>>

\* The timer of a disconnection is due; it may be a later disconnection it finds.
Poor ==
    /\ 0 \in poorTimers
    /\ poorTimers' = poorTimers \ {0}
    /\ UNCHANGED <<connectionState, disconnectStart, connectionCheckTimeout, away, told, untrue>>

\* destroy
Destroy ==
    /\ connectionState # "closed"
    /\ connectionState' = "closed"
    /\ disconnectStart' = Never /\ connectionCheckTimeout' = Never
    /\ UNCHANGED <<poorTimers, away, told, untrue>>

Older(t) == IF t = Never \/ t = MaxTime THEN t ELSE t + 1
Nearer(t) == IF t = Never \/ t = 0 THEN t ELSE t - 1

Tick ==
    /\ disconnectStart' = Older(disconnectStart)
    /\ connectionCheckTimeout' = Nearer(connectionCheckTimeout)
    /\ poorTimers' = {Nearer(t) : t \in poorTimers}
    /\ away' = IF connectionState = "connected" THEN 0 ELSE Older(away)
    /\ UNCHANGED <<connectionState, told, untrue>>

Next == \/ Connected \/ Connecting \/ Disconnected \/ Failed
        \/ Check \/ Poor \/ Destroy \/ Tick

Spec == Init /\ [][Next]_vars

-----------------------------------------------------------------------------
(* Properties *)

\* As long as the peer is away, something is going to look at it again or the viewer was told
\* that the connection is lost; and it is told so only after the peer was away for LostAfter
\* without a break, however often it flapped before.
LossIsWatched == (Down => connectionCheckTimeout # Never \/ told) /\ ~untrue
=============================================================================
