---------------------------- MODULE LeavingPage ----------------------------
(***************************************************************************)
(* How the viewer leaves the page of a stream: the game exit listener,     *)
(* navigateHome, handleConnectionFailed, the connection status, the        *)
(* buttons of the sidebar and the messages of web/stream.ts, of which      *)
(* showModal shows one at a time (module Modals has its steps).            *)
(*                                                                         *)
(* A tick is 500 ms, the pause of the listener; a timer that is due runs   *)
(* before the next tick.  The browser is asked to go to another page and   *)
(* may never get there: then the page is still in front of the user.       *)
(***************************************************************************)
EXTENDS Integers

CONSTANTS Exits,         \* bound: calls of the game exit listener
          MaxAsks,       \* 6: how often one of them asks for the session
          FallbackAfter, \* 4 ticks: until the page counts as stuck
          DialogAfter,   \* 6 ticks: then until the dialog
          CheckEvery,    \* 2 ticks: the interval that looks at the status
          Off,           \* null
          MaxSince       \* bound: how long the page is watched after it should be gone

VARIABLES
    here,        \* the page is still in front of the user
    replaced,    \* window.location.replace was called
    navigating,  \* navigatingHome
    status,      \* lastConnectionStatus
    fallback,    \* fallbackRecoveryTimer: the ticks left, or Off
    inProgress,  \* connectionRecoveryInProgress
    timeout,     \* recoveryTimeout
    interval,    \* recoveryInterval
    dialog,      \* the message that is shown: "none", "lost", or one of the "other" ones
    loop,        \* loop[e]: what a call of the listener waits for, and its attempt
    button,      \* the button that ends the stream: "idle" or "ending"
    since,       \* ticks since navigateHome, up to MaxSince
    sound,       \* the status has been "Ok" since navigateHome
    dismissed    \* the message of a lost connection is gone and nobody has answered it

recovery == <<inProgress, timeout, interval>>
watch == <<since, sound>>
vars == <<here, replaced, navigating, status, fallback, recovery, dialog, loop, button, watch,
          dismissed>>

Waits(bound) == 0..bound \cup {Off}
Phases == [at : {"unused", "asking", "sleeping", "over"}, attempt : 0..MaxAsks]

TypeOK ==
    /\ here \in BOOLEAN /\ replaced \in BOOLEAN /\ navigating \in BOOLEAN
    /\ status \in {"Ok", "Poor"}
    /\ fallback \in Waits(FallbackAfter)
    /\ inProgress \in BOOLEAN
    /\ timeout \in Waits(DialogAfter) /\ interval \in Waits(CheckEvery)
    /\ dialog \in {"none", "lost", "other"}
    /\ loop \in [Exits -> Phases]
    /\ button \in {"idle", "ending"}
    /\ since \in 0..MaxSince /\ sound \in BOOLEAN /\ dismissed \in BOOLEAN

\* The message to a new user (stream.ts 566-578) may be open.
Init ==
    /\ here = TRUE /\ replaced = FALSE /\ navigating = FALSE
    /\ status = "Ok"
    /\ fallback = Off /\ inProgress = FALSE /\ timeout = Off /\ interval = Off
    /\ dialog \in {"none", "other"}
    /\ loop = [e \in Exits |-> [at |-> "unused", attempt |-> 0]]
    /\ button = "idle"
    /\ since = 0 /\ sound = FALSE /\ dismissed = FALSE

NavigateHome ==
    IF navigating THEN UNCHANGED <<navigating, replaced, fallback, watch>>
    ELSE /\ navigating' = TRUE /\ replaced' = TRUE
         /\ fallback' = FallbackAfter
         /\ since' = 0 /\ sound' = (status = "Ok")

\* connectionStatus
ConnectionStatus(value) ==
    /\ here
    /\ status' = value
    /\ IF value = "Ok" THEN inProgress' = FALSE /\ timeout' = Off /\ interval' = Off
                       ELSE UNCHANGED recovery
    /\ sound' = (sound \/ value = "Ok")
    /\ UNCHANGED <<here, replaced, navigating, fallback, dialog, loop, button, since, dismissed>>

\* The listener is called again for every reason to think that the game is over.
GameExit(e) ==
    /\ here
    /\ loop[e].at = "unused"
    /\ loop' = [loop EXCEPT ![e].at = "asking"]
    /\ UNCHANGED <<here, replaced, navigating, status, fallback, recovery, dialog, button, watch, dismissed>>

\* The backend does not know the session, calls it inactive or does not answer as it should.
SessionOver(e) ==
    /\ here
    /\ loop[e].at = "asking"
    /\ loop' = [loop EXCEPT ![e].at = "over"]
    /\ NavigateHome
    /\ UNCHANGED <<here, status, recovery, dialog, button, dismissed>>

SessionActive(e) ==
    /\ here
    /\ loop[e].at = "asking"
    /\ loop' = [loop EXCEPT ![e].at = "sleeping"]
    /\ UNCHANGED <<here, replaced, navigating, status, fallback, recovery, dialog, button, watch, dismissed>>

\* The fallback timer: handleConnectionFailed(true)
HandleConnectionFailed ==
    /\ here
    /\ fallback = 0
    /\ fallback' = Off
    /\ IF inProgress THEN UNCHANGED recovery
       ELSE inProgress' = TRUE /\ timeout' = DialogAfter /\ interval' = CheckEvery
    /\ UNCHANGED <<here, replaced, navigating, status, dialog, loop, button, watch, dismissed>>

\* showMessage.  A message in whose place another one is shown takes that for its answer:
\* its call goes on before anything else can happen, hides the overlay and aborts the new
\* message (modal/index.ts 53-57), whose own call then finds no controller and throws.  So
\* none of the two is shown; the caller of the old one goes on, and that of a lost
\* connection loads the page again.
ShowMessage(message) ==
    /\ dialog' = IF dialog = "none" THEN message ELSE "none"
    /\ here' = (dialog # "lost")

\* recoveryTimeout
RecoveryTimeout ==
    /\ here
    /\ timeout = 0
    /\ timeout' = Off /\ inProgress' = FALSE
    /\ ShowMessage("lost")
    /\ dismissed' = (dismissed \/ dialog # "none")
    /\ UNCHANGED <<replaced, navigating, status, fallback, interval, loop, button, watch>>

\* recoveryInterval, whose handle outlives it
RecoveryInterval ==
    /\ here
    /\ interval = 0
    /\ IF status = "Ok" THEN timeout' = Off /\ interval' = Off /\ inProgress' = FALSE
                        ELSE interval' = CheckEvery /\ UNCHANGED <<timeout, inProgress>>
    /\ UNCHANGED <<here, replaced, navigating, status, fallback, dialog, loop, button, watch,
                   dismissed>>

EndStream ==
    /\ here
    /\ button = "idle"
    /\ button' = "ending"
    /\ UNCHANGED <<here, replaced, navigating, status, fallback, recovery, dialog, loop, watch,
                   dismissed>>

\* The backend has answered, whatever it said; navigatingHome is not set.
EndAnswered ==
    /\ here
    /\ button = "ending"
    /\ replaced' = TRUE
    /\ UNCHANGED <<here, navigating, status, fallback, recovery, dialog, loop, button, watch,
                   dismissed>>

\* The backend cannot be reached.
EndFails ==
    /\ here
    /\ button = "ending"
    /\ button' = "idle"
    /\ ShowMessage("other")
    /\ UNCHANGED <<replaced, navigating, status, fallback, recovery, loop, watch, dismissed>>

\* The button for the full screen closes what is open, showModal(null); the call of a
\* message that is closed finds no controller either, and nothing that comes after it runs.
CloseMessage ==
    /\ here
    /\ dialog # "none"
    /\ dialog' = "none"
    /\ dismissed' = (dismissed \/ dialog = "lost")
    /\ UNCHANGED <<here, replaced, navigating, status, fallback, recovery, loop, button, watch>>

\* The user confirms the message; of a lost connection that loads the page again.
Confirm ==
    /\ here
    /\ dialog # "none"
    /\ dialog' = "none"
    /\ here' = (dialog # "lost")
    /\ UNCHANGED <<replaced, navigating, status, fallback, recovery, loop, button, watch,
                   dismissed>>

\* External: the browser gets to the other page.
Unload ==
    /\ here
    /\ replaced
    /\ here' = FALSE
    /\ UNCHANGED <<replaced, navigating, status, fallback, recovery, dialog, loop, button, watch,
                   dismissed>>

Later(wait) == IF wait = Off THEN Off ELSE wait - 1

\* The pause of the listener is over after a tick; it asks again or gives up.
Awake(l) ==
    IF l.at # "sleeping" THEN l
    ELSE [at |-> IF l.attempt + 1 < MaxAsks THEN "asking" ELSE "over",
          attempt |-> l.attempt + 1]

Tick ==
    /\ here
    /\ 0 \notin {fallback, timeout, interval}
    /\ fallback' = Later(fallback) /\ timeout' = Later(timeout) /\ interval' = Later(interval)
    /\ loop' = [e \in Exits |-> Awake(loop[e])]
    /\ since' = IF navigating /\ since < MaxSince THEN since + 1 ELSE since
    /\ UNCHANGED <<here, replaced, navigating, status, inProgress, dialog, button, sound, dismissed>>

Next ==
    \/ \E value \in {"Ok", "Poor"} : ConnectionStatus(value)
    \/ \E e \in Exits : GameExit(e) \/ SessionOver(e) \/ SessionActive(e)
    \/ HandleConnectionFailed \/ RecoveryTimeout \/ RecoveryInterval
    \/ EndStream \/ EndAnswered \/ EndFails \/ CloseMessage \/ Confirm
    \/ Unload \/ Tick

Spec == Init /\ [][Next]_vars

-----------------------------------------------------------------------------
(* Properties *)

\* A page that should have been left, is not and has no connection shows the message that
\* loads it again when it is confirmed, at the latest when both timers have run out: no
\* late or repeated exit, no status and no other button gets in its way.  Two things do, and
\* leave a page behind that asks nothing: another message that is open when it is due, whose
\* call closes both, and the button for the full screen, which closes it.
Stuck == here /\ navigating /\ since > FallbackAfter + DialogAfter
StuckAndLostAsks == Stuck /\ ~sound /\ ~dismissed => dialog = "lost"

\* stream.ts:413: "If we're somehow still here after 2 seconds, show the recovery dialog
\* instead of leaving the user on a frozen page."
StuckAsks == Stuck => dialog # "none"
=============================================================================
