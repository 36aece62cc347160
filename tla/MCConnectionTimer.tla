-------------------------- MODULE MCConnectionTimer --------------------------
(***************************************************************************)
(* Three start attempts compete for the one Moonlight connection, and      *)
(* three requests for the timeout of a session: a timeout of two ticks,    *)
(* and tasks that sleep two ticks longer, so that a renewal can come       *)
(* inside and outside the slack.  The two share no state; `part` says      *)
(* which of them a behaviour is about, and the other stays at its start.   *)
(***************************************************************************)
EXTENDS MoonlightConnection, TerminateTimer

VARIABLE part

allVars == <<part, vars, timerVars>>

BothInit == part \in {"connection", "timer"} /\ Init /\ TimerInit

ConnectionNext ==
    part = "connection" /\ Next /\ UNCHANGED <<part, timerVars>>

TimeoutNext ==
    part = "timer" /\ TimerNext /\ UNCHANGED <<part, vars>>

BothNext == ConnectionNext \/ TimeoutNext

\* Fairness of MoonlightConnection, when the behaviour is about it.
ConnectionFairness ==
    /\ \A h \in Handles :
        /\ WF_vars(part = "connection" /\ Going(Install(h)))
        /\ WF_vars(part = "connection" /\ Going(StartConnection(h)))
        /\ WF_vars(part = "connection" /\ Going(StartReturns(h)))
        /\ SF_vars(part = "connection" /\ Going(StopConnection(h)))
        /\ SF_vars(part = "connection" /\ Going(StopReturns(h)))
        /\ WF_vars(part = "connection" /\ Going(Clear(h)))
        /\ WF_vars(part = "connection" /\ Going(Release(h)))
        /\ WF_vars(part = "connection" /\ Going(TerminatedReturn(h)))
    /\ \A i \in Slots : WF_vars(part = "connection" /\ Going(CallbackReturn(i)))
    /\ \A i \in Decoders : SF_vars(part = "connection" /\ Going(Cleanup(i)))

\* TimerFairness, when the behaviour is about the timer.
TimeoutFairness ==
    /\ WF_timerVars(part = "timer" /\ Tick)
    /\ \A t \in Timers : WF_timerVars(part = "timer" /\ Wake(t))

BothSpec ==
    BothInit /\ [][BothNext]_allVars /\ ConnectionFairness /\ TimeoutFairness

\* Every variable of the connection and of the timer keeps its type.
TypesOK == TypeOK /\ TimerTypeOK
===============================================================================
