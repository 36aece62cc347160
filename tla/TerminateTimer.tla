---------------------------- MODULE TerminateTimer ----------------------------
(***************************************************************************)
(* The delayed termination of the streamer: request_terminate,             *)
(* clear_terminate_request and the task request_terminate spawns.  The     *)
(* session (main.rs) and every WebRTC peer (webrtc/mod.rs) have one each.  *)
(*                                                                         *)
(* A request stores the current instant and spawns a task that sleeps a    *)
(* little longer than TIMEOUT_DURATION.  A task that wakes up acts only if *)
(* there is a request and it is older than TIMEOUT_DURATION.  No task is   *)
(* ever cancelled: a request that is renewed or withdrawn is told from a   *)
(* stale task by its age alone.                                            *)
(*                                                                         *)
(* Time is counted in ticks and only as far as the comparisons can see.    *)
(***************************************************************************)
EXTENDS Naturals

CONSTANTS Timers,     \* the tasks request_terminate may spawn: one per call
          Timeout,    \* TIMEOUT_DURATION (10 s) in ticks
          Slack       \* how much longer the task sleeps (200 ms) in ticks

ASSUME TimeAssumption == Timeout \in Nat /\ Slack \in Nat \ {0}

VARIABLES
    pending,    \* timeout_terminate_request is Some
    age,        \* how long ago the stored instant was
    timer,      \* timer[t]: the state of the spawned task t
    elapsed,    \* elapsed[t]: how long the task has been sleeping
    fired       \* some task found an old enough request and acted

timerVars == <<pending, age, timer, elapsed, fired>>

\* How long a task sleeps at least; older is not told apart.
Sleep == Timeout + Slack

Older(a) == IF a < Sleep THEN a + 1 ELSE a

TimerTypeOK ==
    /\ pending \in BOOLEAN
    /\ age \in 0..Sleep
    /\ timer \in [Timers -> {"unused", "armed", "over"}]
    /\ elapsed \in [Timers -> 0..Sleep]
    /\ fired \in BOOLEAN

TimerInit ==
    /\ pending = FALSE
    /\ age = 0
    /\ timer = [t \in Timers |-> "unused"]
    /\ elapsed = [t \in Timers |-> 0]
    /\ fired = FALSE

\* Faulty: a renewed request counts on the task that is asleep already.
RequestOneTask(t) ==
    /\ timer[t] = "unused"
    /\ pending' = TRUE
    /\ age' = 0
    /\ timer' = IF pending THEN timer ELSE [timer EXCEPT ![t] = "armed"]
    /\ UNCHANGED <<elapsed, fired>>

\* Faulty: a renewed request keeps the old instant.
RequestFirst(t) ==
    /\ timer[t] = "unused"
    /\ pending' = TRUE
    /\ age' = IF pending THEN age ELSE 0
    /\ timer' = [timer EXCEPT ![t] = "armed"]
    /\ UNCHANGED <<elapsed, fired>>

\* request_terminate: a renewed request overwrites the instant.
Request(t) ==
    /\ timer[t] = "unused"
    /\ pending' = TRUE
    /\ age' = 0
    /\ timer' = [timer EXCEPT ![t] = "armed"]
    /\ UNCHANGED <<elapsed, fired>>

\* Faulty: nothing is withdrawn.
WithdrawNothing == UNCHANGED timerVars

\* clear_terminate_request
Withdraw ==
    /\ pending' = FALSE
    /\ age' = 0
    /\ UNCHANGED <<timer, elapsed, fired>>

\* Faulty: compared with the sleep instead of the timeout.
ExpiredAfterSleep == pending /\ age > Sleep

\* What the task looks at after its sleep.
Expired == pending /\ age > Timeout

\* The task has slept and acts, or finds nothing to act on; it may be late.
Wake(t) ==
    /\ timer[t] = "armed"
    /\ elapsed[t] = Sleep
    /\ timer' = [timer EXCEPT ![t] = "over"]
    /\ fired' = (fired \/ Expired)
    /\ UNCHANGED <<pending, age, elapsed>>

Tick ==
    /\ age' = IF pending THEN Older(age) ELSE age
    /\ elapsed' = [t \in Timers |-> IF timer[t] = "armed" THEN Older(elapsed[t])
                                                           ELSE elapsed[t]]
    /\ UNCHANGED <<pending, timer, fired>>

TimerNext ==
    \/ Withdraw
    \/ Tick
    \/ \E t \in Timers : Request(t) \/ Wake(t)

TimerSpec == TimerInit /\ [][TimerNext]_timerVars

\* Time passes and the runtime polls a task whose sleep is over.
TimerFairness == WF_timerVars(Tick) /\ \A t \in Timers : WF_timerVars(Wake(t))

TimerFairSpec == TimerSpec /\ TimerFairness

-------------------------------------------------------------------------------
(* Properties *)

Armed(t) == timer[t] = "armed"

\* A request is never left without a task young enough to act on it: whatever
\* was renewed or withdrawn before, the tasks still asleep include one that was
\* spawned no earlier than the request was made, unless one has acted already.
PendingIsCovered ==
    pending /\ ~fired => \E t \in Timers : Armed(t) /\ elapsed[t] <= age

\* No task acts because of an old request when it was renewed less than the
\* timeout ago: at that moment no younger task is asleep.
NoEarlyStop ==
    [][~fired /\ fired' => \A t \in Timers : Armed(t) => elapsed[t] > Timeout]_timerVars

\* A request that is neither withdrawn nor renewed for ever is acted on.
RequestActedOn == pending ~> fired \/ ~pending
===============================================================================
