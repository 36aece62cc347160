----------------------------- MODULE MCPageInput ------------------------------
(***************************************************************************)
(* What a user does to the page of a stream, part by part: the keys, the   *)
(* pointers and the gamepads, the modes of the view, the dialogs, the way  *)
(* out of the page, the forms, and the buffers all input is written to.    *)
(* The parts share no state; `part` says which of them a behaviour is      *)
(* about, and the others stay where they start.                            *)
(***************************************************************************)
EXTENDS Integers, FiniteSets

CONSTANTS
    Keys, MaxPackets, Fingers, NoFinger, MouseModes, Pads, Nobody, Mapped,
    MaxMessages, MaxTimers, Modals, Kind, NoModal, Exits, MaxAsks,
    FallbackAfter, DialogAfter, CheckEvery, Off, MaxSince, FormTexts, Empty,
    Unchanged, MaxReads, BufferTexts, Deltas, MaxFields, Listeners

KeyboardConstants == IsFiniteSet(Keys)
PointerConstants == NoFinger \notin Fingers
GamepadConstants == IsFiniteSet(Pads) /\ Nobody \notin Pads
ImmersiveConstants == MaxTimers \in Nat
ModalsConstants == NoModal \notin Modals
LeavingConstants ==
    /\ MaxAsks \in Nat \ {0} /\ FallbackAfter \in Nat /\ DialogAfter \in Nat
    /\ CheckEvery \in Nat /\ MaxSince \in Nat /\ Off \notin Nat
\* A buffer holds at least the longest message (a touch, input.ts 474-490), and what is
\* written to it are numbers.
BuffersConstants ==
    /\ MaxFields \in Nat /\ MaxFields >= 8
    /\ Listeners \in Nat
    /\ Deltas \subseteq Int
    /\ BufferTexts \subseteq [units : Nat, chars : Nat, fits : BOOLEAN]

ASSUME PageInputConstants ==
    /\ KeyboardConstants /\ PointerConstants /\ GamepadConstants /\ ImmersiveConstants
    /\ ModalsConstants /\ LeavingConstants /\ BuffersConstants

VARIABLES
    part,
    \* KeyboardInput
    held, focus, keyTransition, spared, pressedKeys, channel, started, host,
    \* PointerInput
    touchMode, pointerMouseMode, down, tracked, primary, gesture, action,
    left, aimed, blind, abandoned,
    \* GamepadInput
    pads, connected, buffered, slots, rumble, controllers, state, active,
    told, asked, old, plays,
    \* ImmersiveMode
    fullscreen, locked, unlocking, viewMouseMode, previous, inputMode,
    viewTransition, timers, toggle, flow, onboarded, guide, sidebar, extended,
    \* Modals
    modalAbort, mounted, visible, phase, microtasks,
    \* LeavingPage
    here, replaced, navigating, status, fallback, inProgress, timeout,
    interval, dialog, loop, button, since, sound, dismissed,
    \* Forms
    form, inputs, unfired, reading, formSent,
    \* MessageBuffers
    small, channels, unsent, bufferSent, big, hearing, heard

keyboardVars ==
    <<held, focus, keyTransition, spared, pressedKeys, channel, started,
      host>>
pointerVars ==
    <<touchMode, pointerMouseMode, down, tracked, primary, gesture, action,
      left, aimed, blind, abandoned>>
gamepadVars ==
    <<pads, connected, buffered, slots, rumble, controllers, state, active,
      told, asked, old, plays>>
immersiveVars ==
    <<fullscreen, locked, unlocking, viewMouseMode, previous, inputMode,
      viewTransition, timers, toggle, flow, onboarded, guide, sidebar,
      extended>>
modalsVars ==
    <<modalAbort, mounted, visible, phase, microtasks>>
leavingVars ==
    <<here, replaced, navigating, status, fallback, inProgress, timeout,
      interval, dialog, loop, button, since, sound, dismissed>>
formsVars ==
    <<form, inputs, unfired, reading, formSent>>
buffersVars ==
    <<small, channels, unsent, bufferSent, big, hearing, heard>>

Keyboard == INSTANCE KeyboardInput WITH
    transition <- keyTransition
Pointer == INSTANCE PointerInput WITH
    mouseMode <- pointerMouseMode
Gamepad == INSTANCE GamepadInput
Immersive == INSTANCE ImmersiveMode WITH
    mouseMode <- viewMouseMode, transition <- viewTransition
Dialogs == INSTANCE Modals
Leaving == INSTANCE LeavingPage
Inputs == INSTANCE Forms WITH
    sent <- formSent, Texts <- FormTexts
Buffers == INSTANCE MessageBuffers WITH
    sent <- bufferSent, Texts <- BufferTexts

allVars ==
    <<part, keyboardVars, pointerVars, gamepadVars, immersiveVars, modalsVars,
      leavingVars, formsVars, buffersVars>>

Parts ==
    {"keyboard", "pointer", "gamepad", "immersive", "modals", "leaving",
     "forms", "buffers"}

\* Where a part may start in several states, the others look at one of them.
Init ==
    /\ part \in Parts
    /\ Keyboard!Init
    /\ Pointer!Init
    /\ part # "pointer" =>
        pointerMouseMode = CHOOSE m \in MouseModes : TRUE
    /\ Gamepad!Init
    /\ part # "gamepad" =>
        pads = {}
    /\ Immersive!Init
    /\ Dialogs!Init
    /\ Leaving!Init
    /\ part # "leaving" =>
        dialog = "none"
    /\ Inputs!Init
    /\ Buffers!Init

OthersStay ==
    /\ UNCHANGED part
    /\ IF part = "keyboard" THEN TRUE ELSE UNCHANGED keyboardVars
    /\ IF part = "pointer" THEN TRUE ELSE UNCHANGED pointerVars
    /\ IF part = "gamepad" THEN TRUE ELSE UNCHANGED gamepadVars
    /\ IF part = "immersive" THEN TRUE ELSE UNCHANGED immersiveVars
    /\ IF part = "modals" THEN TRUE ELSE UNCHANGED modalsVars
    /\ IF part = "leaving" THEN TRUE ELSE UNCHANGED leavingVars
    /\ IF part = "forms" THEN TRUE ELSE UNCHANGED formsVars
    /\ IF part = "buffers" THEN TRUE ELSE UNCHANGED buffersVars

KeyboardNext == part = "keyboard" /\ Keyboard!Next /\ OthersStay
PointerNext == part = "pointer" /\ Pointer!Next /\ OthersStay
GamepadNext == part = "gamepad" /\ Gamepad!Next /\ OthersStay
ImmersiveNext == part = "immersive" /\ Immersive!Next /\ OthersStay
DialogsNext == part = "modals" /\ Dialogs!Next /\ OthersStay
LeavingNext == part = "leaving" /\ Leaving!Next /\ OthersStay
InputsNext == part = "forms" /\ Inputs!Next /\ OthersStay
BuffersNext == part = "buffers" /\ Buffers!Next /\ OthersStay

Next ==
    \/ KeyboardNext \/ PointerNext \/ GamepadNext \/ ImmersiveNext
    \/ DialogsNext \/ LeavingNext \/ InputsNext \/ BuffersNext

\* A key, an emoji, a text that is too long for its length byte, and one that is too
\* long for the buffer.
SomeTexts == {
    [units |-> 1, chars |-> 1, fits |-> TRUE],
    [units |-> 2, chars |-> 1, fits |-> TRUE],
    [units |-> 300, chars |-> 300, fits |-> TRUE],
    [units |-> 1200, chars |-> 1200, fits |-> FALSE]}
SomeDeltas == {-240, -120, 120, 240}
SomePads == 0..1
SomeModals == {"message1", "message2", "form", "info", "dialog"}
KindOf == [m \in SomeModals |-> IF m \in {"message1", "message2"} THEN "message" ELSE m]

\* The browser answers what it is asked, and runs timers (Fairness of ImmersiveMode).
Spec ==
    /\ Init /\ [][Next]_allVars
    /\ \A f \in Immersive!Flows :
        WF_immersiveVars(part = "immersive" /\ Immersive!Answer(f))
    /\ WF_immersiveVars(part = "immersive" /\ Immersive!TransitionTimer)


-------------------------------------------------------------------------------
(* Properties *)

\* Every variable of every part keeps its type.
TypesOK ==
    /\ Keyboard!TypeOK /\ Pointer!TypeOK /\ Gamepad!TypeOK /\ Immersive!TypeOK
    /\ Dialogs!TypeOK /\ Leaving!TypeOK /\ Inputs!TypeOK /\ Buffers!TypeOK

\* What the host is told is what the user does: who leaves the page leaves no key
\* down, the button is held for a finger only while that finger drags (or the drag was
\* taken from it), a click lands where the finger was if that was sent, a gamepad has its
\* slot and rumbles for itself only, and no message is overwritten by another.
InputMatches ==
    /\ Keyboard!LeavingReleases
    /\ Pointer!DragIsHeld /\ Pointer!ClickWhereTouched
    /\ Gamepad!SlotsFollowPads /\ Gamepad!NoRumbleLeftOver
    /\ Buffers!MessagesSurvive

\* The user never loses the way out: the mouse is captured only while the pointer is
\* locked, the sidebar can be reached in every mode, a dialog that is shown has
\* someone who waits for its answer, and a page that should have been left and has no
\* connection shows the message that loads it again, unless another one was open when it
\* was due or the button for the full screen closed it.
ControlsInReach ==
    /\ Immersive!RelativeNeedsLock /\ Immersive!SidebarInReach
    /\ Dialogs!ShownIsAwaited
    /\ Leaving!StuckAndLostAsks

\* A switch to full screen always comes to an end, and its button is free again.
ToggleSettles == part = "immersive" => Immersive!ToggleSettles

\* What is sent is what the form shows when it is submitted.
SentAsShown == Inputs!SentAsShown
===============================================================================
