------------------------- MODULE TerminateTimerProofs -------------------------
(***************************************************************************)
(* Proofs about TerminateTimer for every number of requests and every      *)
(* timeout and slack.  The two facts that make the uncancelled tasks safe  *)
(* are that no sleeping task is younger than the request (RequestIsLatest) *)
(* and that one of them is no older (PendingIsCovered): together the       *)
(* request is as old as the youngest task.                                 *)
(***************************************************************************)
EXTENDS TerminateTimer, TLAPS

\* No sleeping task is younger than the request.
RequestIsLatest == pending => \A t \in Timers : Armed(t) => age <= elapsed[t]

\* A task that has not been spawned has not slept.
UnusedAtZero == \A t \in Timers : timer[t] = "unused" => elapsed[t] = 0

TimerInv == TimerTypeOK /\ PendingIsCovered /\ RequestIsLatest /\ UnusedAtZero

\* Time passes for all tasks alike.
LEMMA OlderGrows ==
    ASSUME NEW a \in 0..Sleep, NEW b \in 0..Sleep
    PROVE  /\ Older(a) \in 0..Sleep
           /\ a <= b => Older(a) <= Older(b)
BY TimeAssumption DEF Older, Sleep

\* Nothing is asked for at the start.
LEMMA InitTimer == TimerInit => TimerInv
<1> SUFFICES ASSUME TimerInit PROVE TimerInv OBVIOUS
<1>1. 0 \in 0..Sleep BY TimeAssumption DEF Sleep
<1>2. pending \in BOOLEAN /\ fired \in BOOLEAN BY DEF TimerInit
<1>3. TimerTypeOK BY <1>1, <1>2, Zenon DEF TimerInit, TimerTypeOK
<1> QED
    BY <1>3 DEF TimerInit, TimerInv, PendingIsCovered, RequestIsLatest, UnusedAtZero

\* A request spawns the task that covers it.
LEMMA RequestKeeps ==
    ASSUME TimerInv, NEW t \in Timers, Request(t)
    PROVE  TimerInv'
<1> USE TimeAssumption DEF TimerInv, Request, Armed, Sleep
<1>1. TimerTypeOK' BY DEF TimerTypeOK
<1>2. Armed(t)' /\ elapsed'[t] = 0 BY DEF TimerTypeOK, UnusedAtZero
<1>3. PendingIsCovered' BY <1>2 DEF PendingIsCovered, TimerTypeOK
<1>4. RequestIsLatest' BY DEF RequestIsLatest, TimerTypeOK
<1>5. UnusedAtZero' BY DEF UnusedAtZero, TimerTypeOK
<1> QED BY <1>1, <1>3, <1>4, <1>5

\* A request that is withdrawn needs no task.
LEMMA WithdrawKeeps ==
    ASSUME TimerInv, Withdraw
    PROVE  TimerInv'
<1> USE DEF TimerInv, Withdraw
<1>1. 0 \in 0..Sleep BY TimeAssumption DEF Sleep
<1>2. TimerTypeOK' BY <1>1, Zenon DEF TimerTypeOK
<1>3. PendingIsCovered' /\ RequestIsLatest' BY DEF PendingIsCovered, RequestIsLatest
<1>4. UnusedAtZero' BY DEF UnusedAtZero
<1> QED BY <1>2, <1>3, <1>4

\* A task that acts has slept at least as long as the request is old.
LEMMA WakeKeeps ==
    ASSUME TimerInv, NEW t \in Timers, Wake(t)
    PROVE  TimerInv'
<1> USE TimeAssumption DEF TimerInv, Wake, Armed, Sleep, Expired
<1>1. TimerTypeOK'
  <2>1. fired' \in BOOLEAN BY DEF TimerTypeOK
  <2> QED BY <2>1 DEF TimerTypeOK
<1>2. PendingIsCovered'
  <2> SUFFICES ASSUME pending, ~fired, ~fired'
               PROVE  \E u \in Timers : Armed(u)' /\ elapsed'[u] <= age'
    BY DEF PendingIsCovered
  <2>1. age <= Timeout
    <3>1. ~(age > Timeout) BY Zenon
    <3> QED BY <3>1 DEF TimerTypeOK
  <2>2. PICK u \in Timers : Armed(u) /\ elapsed[u] <= age BY DEF PendingIsCovered
  <2>3. u # t BY <2>1, <2>2 DEF TimerTypeOK
  <2> QED BY <2>2, <2>3 DEF TimerTypeOK
<1>3. RequestIsLatest' BY DEF RequestIsLatest, TimerTypeOK
<1>4. UnusedAtZero' BY DEF UnusedAtZero, TimerTypeOK
<1> QED BY <1>1, <1>2, <1>3, <1>4

\* A tick makes the request and the tasks older together.
LEMMA TickKeeps ==
    ASSUME TimerInv, Tick
    PROVE  TimerInv'
<1> USE DEF TimerInv, Tick, Armed
<1>1. TimerTypeOK' BY OlderGrows DEF TimerTypeOK
<1>2. PendingIsCovered'
  <2> SUFFICES ASSUME pending, ~fired
               PROVE  \E u \in Timers : Armed(u)' /\ elapsed'[u] <= age'
    BY DEF PendingIsCovered
  <2>1. PICK u \in Timers : Armed(u) /\ elapsed[u] <= age BY DEF PendingIsCovered
  <2>2. elapsed'[u] <= age' BY <2>1, OlderGrows DEF TimerTypeOK
  <2> QED BY <2>1, <2>2
<1>3. RequestIsLatest'
  <2> SUFFICES ASSUME pending, NEW u \in Timers, Armed(u)
               PROVE  age' <= elapsed'[u]
    BY DEF RequestIsLatest
  <2>1. age <= elapsed[u] BY DEF RequestIsLatest
  <2> QED BY <2>1, OlderGrows DEF TimerTypeOK
<1>4. UnusedAtZero' BY DEF UnusedAtZero, TimerTypeOK
<1> QED BY <1>1, <1>2, <1>3, <1>4

\* TimerInv holds in every reachable state.
THEOREM TimerInductive == TimerSpec => []TimerInv
<1>1. TimerInv /\ [TimerNext]_timerVars => TimerInv'
  <2> SUFFICES ASSUME TimerInv, [TimerNext]_timerVars PROVE TimerInv' OBVIOUS
  <2>1. CASE UNCHANGED timerVars
    BY <2>1 DEF timerVars, TimerInv, TimerTypeOK, PendingIsCovered, RequestIsLatest,
                UnusedAtZero, Armed
  <2>2. CASE TimerNext BY <2>2, RequestKeeps, WithdrawKeeps, WakeKeeps, TickKeeps DEF TimerNext
  <2> QED BY <2>1, <2>2
<1> QED BY InitTimer, <1>1, PTL DEF TimerSpec

\* A pending termination request always has a task that is going to act on it.
THEOREM PendingAlwaysCovered == TimerSpec => []PendingIsCovered
<1>1. TimerInv => PendingIsCovered BY DEF TimerInv
<1> QED BY TimerInductive, <1>1, PTL

\* The session is never stopped for a request renewed within the timeout.
THEOREM NeverEarly == TimerSpec => NoEarlyStop
<1>1. TimerInv /\ [TimerNext]_timerVars
        => [~fired /\ fired' => \A t \in Timers : Armed(t) => elapsed[t] > Timeout]_timerVars
  <2> SUFFICES ASSUME TimerInv, TimerNext, ~fired, fired', NEW t \in Timers, Armed(t)
               PROVE  elapsed[t] > Timeout
    OBVIOUS
  <2>1. PICK u \in Timers : Wake(u) BY DEF TimerNext, Withdraw, Tick, Request
  <2>2. pending /\ age > Timeout BY <2>1 DEF Wake, Expired
  <2>3. age <= elapsed[t] BY <2>2 DEF TimerInv, RequestIsLatest
  <2> QED BY <2>2, <2>3, TimeAssumption DEF TimerInv, TimerTypeOK, Sleep
<1> QED BY TimerInductive, <1>1, PTL DEF TimerSpec, NoEarlyStop
===============================================================================
