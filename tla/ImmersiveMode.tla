--------------------------- MODULE ImmersiveMode ---------------------------
(***************************************************************************)
(* Full screen and pointer lock of the viewer page (ViewerApp and          *)
(* ViewerSidebar of web/stream.ts, component/sidebar/index.ts).            *)
(*                                                                         *)
(* Three flows ask for both, step by step, each waiting for the browser:   *)
(* the key combination, the button of the sidebar and the prompt of the    *)
(* first connection.  Meanwhile the browser, which the user may always     *)
(* tell to, takes either away and reports it, refuses what is asked for,   *)
(* and a reconnect replaces the StreamInput that has to know the mouse     *)
(* mode.  A change of the pointer lock or of the full screen and its event *)
(* are one task of the browser, and so one step.                           *)
(*                                                                         *)
(* Left out: the locks of the keyboard and the orientation, which only     *)
(* make requestFullscreen longer, and browsers without full screen.        *)
(***************************************************************************)
EXTENDS Integers, FiniteSets

CONSTANTS MaxTimers  \* bound: transitions under way and timers of ended ones

VARIABLES
    fullscreen,   \* document.fullscreenElement
    locked,       \* document.pointerLockElement
    unlocking,    \* exitPointerLock was called and is not carried out yet
    mouseMode,    \* inputConfig.mouseMode: what was configured, or "relative"
    previous,     \* previousMouseMode
    inputMode,    \* config.mouseMode of the StreamInput of the current Stream
    transition,   \* immersiveTransitionInProgress
    timers,       \* the timers that are going to clear it
    toggle,       \* isTogglingFullscreenWithKeybind
    flow,         \* flow[f]: where a flow is
    onboarded,    \* hasShownNavbarOnboarding
    guide,        \* navbarGuideEl
    sidebar,      \* the sidebar is mounted and visible
    extended      \* sidebarExtended

browserVars == <<fullscreen, locked, unlocking>>
modeVars == <<mouseMode, previous, inputMode>>
flagVars == <<transition, timers, toggle, onboarded>>
barVars == <<guide, sidebar, extended>>
vars == <<browserVars, modeVars, flagVars, flow, barVars>>

Flows == {"keybind", "button", "onboarding"}
Room == timers + Cardinality({f \in Flows : flow[f] \in {"fullscreen", "change"}}) < MaxTimers
Modes == {"follow", "relative"}

TypeOK ==
    /\ fullscreen \in BOOLEAN /\ locked \in BOOLEAN /\ unlocking \in BOOLEAN
    /\ mouseMode \in Modes /\ previous \in Modes /\ inputMode \in Modes
    /\ transition \in BOOLEAN /\ timers \in 0..MaxTimers
    /\ toggle \in {"none", "waitForCtrl", "makingFullscreen"}
    /\ flow \in [Flows -> {"idle", "prompt", "exit", "fullscreen", "change", "lock",
                           "lockAgain"}]
    /\ onboarded \in BOOLEAN
    /\ guide \in BOOLEAN /\ sidebar \in BOOLEAN /\ extended \in BOOLEAN

Init ==
    /\ fullscreen = FALSE /\ locked = FALSE /\ unlocking = FALSE
    /\ mouseMode = "follow" /\ previous = "follow" /\ inputMode = "follow"
    /\ transition = FALSE /\ timers = 0 /\ toggle = "none"
    /\ flow = [f \in Flows |-> "idle"]
    /\ onboarded = FALSE
    /\ guide = FALSE /\ sidebar = TRUE /\ extended = FALSE

\* setInputConfig keeps the mode for the next Stream and tells the current one.
SetMode(mode) == mouseMode' = mode /\ inputMode' = mode

\* What every handler does that finds the pointer free.
Restore == SetMode(IF mouseMode = "relative" THEN previous ELSE mouseMode)

\* checkFullyImmersed
ShowSidebar(full, lock) == sidebar' = ~(full /\ lock)

\* showNavbarGuide and hideNavbarGuide
ShowGuide == guide' = (guide \/ ~fullscreen)
HideGuide == guide' = FALSE

-----------------------------------------------------------------------------
(* requestFullscreen and requestPointerLock, step by step *)

\* requestPointerLock up to its first await.
BeginLock(f) ==
    /\ flow' = [flow EXCEPT ![f] = "lock"]
    /\ previous' = IF locked THEN previous ELSE mouseMode
    /\ extended' = FALSE

\* The finally of requestFullscreen, and what the flow does next: the key combination locks
\* the pointer whatever has come of the full screen.
Transited(f) ==
    /\ timers' = timers + 1
    /\ IF fullscreen \/ f = "keybind"
       THEN BeginLock(f)
       ELSE flow' = [flow EXCEPT ![f] = "idle"] /\ UNCHANGED <<previous, extended>>
    /\ UNCHANGED <<mouseMode, inputMode, transition, onboarded, guide, sidebar, browserVars>>

\* The flow of the key combination is over.
Settles(f) == toggle' = IF f = "keybind" THEN "none" ELSE toggle

\* requestFullscreen up to its first await: a page that is in full screen already goes on.
BeginFullscreen(f) ==
    /\ transition' = TRUE
    /\ flow' = [flow EXCEPT ![f] = IF fullscreen THEN "change" ELSE "fullscreen"]

\* Faulty: leaving the full screen does not look for the sidebar.
FullscreenChangeOnly(full) ==
    /\ fullscreen' = full
    /\ guide' = (guide /\ ~full)
    /\ IF full THEN UNCHANGED <<mouseMode, inputMode>> ELSE Restore
    /\ IF full THEN ShowSidebar(full, locked) ELSE UNCHANGED sidebar

\* onFullscreenChange
FullscreenChange(full) ==
    /\ fullscreen' = full
    /\ guide' = (guide /\ ~full)
    /\ IF full THEN UNCHANGED <<mouseMode, inputMode>> ELSE Restore
    /\ ShowSidebar(full, locked)

\* onPointerLockChange
PointerLockChange(lock) ==
    /\ locked' = lock
    /\ IF lock THEN SetMode("relative") ELSE Restore
    /\ ShowSidebar(fullscreen, lock)

\* The browser grants the full screen; the flow waits for the event, at most two seconds.
GrantFullscreen(f) ==
    /\ flow[f] = "fullscreen"
    /\ FullscreenChange(TRUE)
    /\ flow' = [flow EXCEPT ![f] = "change"]
    /\ UNCHANGED <<locked, unlocking, previous, flagVars, extended>>

\* It refuses, and the flow goes on without.
DenyFullscreen(f) ==
    /\ flow[f] = "fullscreen"
    /\ Transited(f)
    /\ Settles("none")

ChangeSeen(f) ==
    /\ flow[f] = "change"
    /\ Transited(f)
    /\ Settles("none")

\* The pointer is locked at the first or the second try.
GrantLock(f) ==
    /\ flow[f] \in {"lock", "lockAgain"}
    /\ PointerLockChange(TRUE)
    /\ flow' = [flow EXCEPT ![f] = "idle"]
    /\ Settles(f)
    /\ UNCHANGED <<fullscreen, unlocking, previous, transition, timers, onboarded, guide,
                   extended>>

\* Faulty: the second refusal ends the flow without a word.
DenyLockForGood(f) ==
    /\ flow[f] \in {"lock", "lockAgain"}
    /\ IF locked THEN UNCHANGED <<mouseMode, inputMode>> ELSE Restore
    /\ flow' = [flow EXCEPT ![f] = IF flow[f] = "lock" THEN "lockAgain" ELSE "idle"]
    /\ UNCHANGED <<browserVars, previous, flagVars, barVars>>

\* It is refused: pointerlockerror, then the second try, then the mode from before, even if
\* the pointer was locked by another flow meanwhile.
DenyLock(f) ==
    /\ flow[f] \in {"lock", "lockAgain"}
    /\ IF locked /\ flow[f] = "lock" THEN UNCHANGED <<mouseMode, inputMode>> ELSE Restore
    /\ flow' = [flow EXCEPT ![f] = IF flow[f] = "lock" THEN "lockAgain" ELSE "idle"]
    /\ IF flow[f] = "lockAgain" THEN Settles(f) ELSE UNCHANGED toggle
    /\ UNCHANGED <<browserVars, previous, transition, timers, onboarded, barVars>>

\* exitPointerLock and exitFullscreen of a flow, and what the browser makes of them.
BeginExit(f) ==
    /\ unlocking' = locked
    /\ flow' = [flow EXCEPT ![f] = "exit"]
    /\ UNCHANGED transition

Exited(f) ==
    /\ flow[f] = "exit"
    /\ IF fullscreen
       THEN FullscreenChange(FALSE)
       ELSE UNCHANGED <<fullscreen, guide, mouseMode, inputMode, sidebar>>
    /\ flow' = [flow EXCEPT ![f] = "idle"]
    /\ Settles(f)
    /\ UNCHANGED <<locked, unlocking, previous, transition, timers, onboarded, extended>>

-----------------------------------------------------------------------------
(* Who starts a flow *)

\* onKeyUp of Ctrl+Shift+I
Combination ==
    /\ toggle = "none"
    /\ toggle' = "waitForCtrl"
    /\ UNCHANGED <<browserVars, modeVars, transition, timers, onboarded, flow, barVars>>

\* onKeyUp of Ctrl
Keybind ==
    /\ toggle = "waitForCtrl"
    /\ Room
    /\ toggle' = "makingFullscreen"
    /\ IF fullscreen
       THEN BeginExit("keybind")
       ELSE BeginFullscreen("keybind") /\ UNCHANGED unlocking
    /\ UNCHANGED <<fullscreen, locked, modeVars, timers, onboarded, barVars>>

\* btnFullscreen.onclick; it closes the prompt of the first connection, which is then over.
Button ==
    /\ sidebar /\ flow["button"] = "idle" /\ flow["onboarding"] # "prompt"
    /\ Room
    /\ HideGuide
    /\ IF fullscreen
       THEN BeginExit("button")
       ELSE BeginFullscreen("button") /\ UNCHANGED unlocking
    /\ UNCHANGED <<fullscreen, locked, modeVars, timers, toggle, onboarded, sidebar, extended>>

ButtonInPrompt ==
    /\ sidebar /\ flow["button"] = "idle" /\ flow["onboarding"] = "prompt"
    /\ Room
    /\ HideGuide
    /\ flow' = [flow EXCEPT !["onboarding"] = "idle",
                            !["button"] = IF fullscreen THEN "exit" ELSE "fullscreen"]
    /\ unlocking' = (unlocking \/ (fullscreen /\ locked))
    /\ transition' = (transition \/ ~fullscreen)
    /\ UNCHANGED <<fullscreen, locked, modeVars, timers, toggle, onboarded, sidebar, extended>>

\* onInfo, the first ConnectionComplete
Onboarding ==
    /\ ~onboarded
    /\ onboarded' = TRUE
    /\ sidebar' = TRUE /\ extended' = TRUE
    /\ ShowGuide
    /\ flow' = [flow EXCEPT !["onboarding"] = "prompt"]
    /\ UNCHANGED <<browserVars, modeVars, transition, timers, toggle>>

\* The user has read the prompt.
Continue ==
    /\ flow["onboarding"] = "prompt"
    /\ Room
    /\ HideGuide
    /\ BeginFullscreen("onboarding")
    /\ UNCHANGED <<browserVars, modeVars, timers, toggle, onboarded, sidebar, extended>>

-----------------------------------------------------------------------------
(* The browser, the timers and the reconnect *)

Unlock ==
    /\ locked
    /\ PointerLockChange(FALSE)
    /\ unlocking' = FALSE
    /\ UNCHANGED <<fullscreen, previous, flagVars, flow, guide, extended>>

LeaveFullscreen ==
    /\ fullscreen
    /\ FullscreenChange(FALSE)
    /\ UNCHANGED <<locked, unlocking, previous, flagVars, flow, extended>>

\* Two seconds after a transition, also in the middle of the next one.
TransitionTimer ==
    /\ timers > 0
    /\ timers' = timers - 1
    /\ transition' = FALSE
    /\ UNCHANGED <<browserVars, modeVars, toggle, onboarded, flow, barVars>>

\* toggleSidebar
ToggleSidebar ==
    /\ sidebar
    /\ extended' = ~extended
    /\ UNCHANGED <<browserVars, modeVars, flagVars, flow, guide, sidebar>>

\* startStream of a reconnect: the new StreamInput is told the saved configuration.
NewStream ==
    /\ inputMode' = mouseMode
    /\ UNCHANGED <<browserVars, mouseMode, previous, flagVars, flow, barVars>>

Answer(f) == GrantFullscreen(f) \/ DenyFullscreen(f) \/ ChangeSeen(f) \/ GrantLock(f)
             \/ DenyLock(f) \/ Exited(f)

Next ==
    \/ \E f \in Flows : \/ GrantFullscreen(f) \/ DenyFullscreen(f) \/ ChangeSeen(f)
                        \/ GrantLock(f) \/ DenyLock(f) \/ Exited(f)
    \/ Combination \/ Keybind \/ Button \/ ButtonInPrompt \/ Onboarding \/ Continue
    \/ Unlock \/ LeaveFullscreen \/ TransitionTimer \/ ToggleSidebar \/ NewStream

Spec == Init /\ [][Next]_vars

\* The browser answers what it is asked, and runs timers.
Fairness == /\ \A f \in Flows : WF_vars(Answer(f))
            /\ WF_vars(TransitionTimer)

-----------------------------------------------------------------------------
(* Properties *)

\* The mouse is read as relative only while the pointer is locked, and never remembered as
\* the mode to go back to, whatever flows run into each other and whatever the browser takes
\* away in between: nobody is left with a mouse that only moves by differences.
RelativeNeedsLock ==
    /\ mouseMode = "relative" => locked
    /\ previous # "relative"
    /\ inputMode = mouseMode

\* There is always a way out: the sidebar is hidden only in full screen with the pointer
\* locked, and the guide that points at it is gone in full screen.
SidebarInReach == (~sidebar => fullscreen /\ locked) /\ ~(guide /\ fullscreen)

\* The key combination works again: its flow ends, whatever the browser answers.
ToggleSettles == toggle = "makingFullscreen" ~> toggle = "none"
=============================================================================
