---------------------------- MODULE PointerInput ----------------------------
(***************************************************************************)
(* Fingers and the mouse over the picture: the touch and mouse handlers of *)
(* StreamInput (web/stream/input.ts) and what they make the host believe.  *)
(*                                                                         *)
(* Unless fingers are passed on as they are, one of them, the primary one, *)
(* plays a mouse: it moves the cursor, clicks, drags with the left button, *)
(* scrolls once a second finger joins before it did anything, and swipes   *)
(* the keyboard of the page up and down once a third one joins.  The       *)
(* gesture is decided by time, distance and the number of fingers, event   *)
(* by event; a change of the settings forgets the fingers while they are   *)
(* down.                                                                   *)
(*                                                                         *)
(* Buttons and the positions they need go out on one reliable ordered      *)
(* channel, so `left' and `aimed' are what the host has when it has taken  *)
(* everything.  Left out, because they keep nothing: fingers passed on,    *)
(* relative moves, the wheel, the positions of "follow" and the event of a *)
(* swipe.  Of a place we keep whether it is over the picture and whether a *)
(* click can still have come so far.                                       *)
(***************************************************************************)
EXTENDS Integers, FiniteSets

CONSTANTS Fingers,    \* touch identifiers
          NoFinger,   \* null
          MouseModes  \* the values of config.mouseMode to look at

VARIABLES
    touchMode,   \* config.touchMode
    mouseMode,   \* config.mouseMode
    down,        \* the fingers on the glass
    tracked,     \* the keys of touchTracker
    primary,     \* primaryTouch
    gesture,     \* what touchTracker says of the primary finger
    action,      \* touchMouseAction
    left,        \* who made the host believe that the left button is pressed, or "up"
    aimed,       \* the cursor was sent to the place of the primary finger
    blind,       \* a click of a finger that had been looked at, if it was to be, went to
                 \* where the cursor happened to be
    abandoned    \* this drag was taken from its finger: by the settings, or by a third
                 \* finger, which makes the gesture one for the keyboard

configVars == <<touchMode, mouseMode>>
fingerVars == <<down, tracked, primary, gesture, action>>
hostVars == <<left, aimed, blind>>
vars == <<configVars, fingerVars, hostVars, abandoned>>

\* Before TOUCH_AS_CLICK_MIN_TIME_MS, up to TOUCH_AS_CLICK_MAX_TIME_MS, and later; whether
\* it began over the picture, is over it, is farther than TOUCH_AS_CLICK_MAX_DISTANCE from
\* where it began, mouseMoved and mouseClicked.
Gesture == [age : {"new", "held", "long"}, origin : BOOLEAN, over : BOOLEAN, far : BOOLEAN,
            moved : BOOLEAN, clicked : BOOLEAN]
NoGesture == [age |-> "new", origin |-> FALSE, over |-> FALSE, far |-> FALSE,
              moved |-> FALSE, clicked |-> FALSE]
PlaysMouse == touchMode \in {"mouseRelative", "pointAndDrag"}

TypeOK ==
    /\ touchMode \in {"touch", "mouseRelative", "pointAndDrag"}
    /\ mouseMode \in MouseModes
    /\ down \subseteq Fingers /\ tracked \subseteq down
    /\ primary \in tracked \cup {NoFinger}
    /\ gesture \in Gesture
    /\ action \in {"default", "scroll", "screenKeyboard"}
    /\ left \in {"up", "finger", "mouse"}
    /\ aimed \in BOOLEAN /\ blind \in BOOLEAN /\ abandoned \in BOOLEAN

Init ==
    /\ touchMode = "pointAndDrag" /\ mouseMode \in MouseModes
    /\ down = {} /\ tracked = {}
    /\ primary = NoFinger /\ gesture = NoGesture /\ action = "default"
    /\ left = "up" /\ aimed = FALSE /\ blind = FALSE /\ abandoned = FALSE

\* A click in "pointAndDrag" whose place was not sent, though there was one to send: a
\* touch outside the picture has no position.
Misses(over, sent) == touchMode = "pointAndDrag" /\ ~sent /\ gesture.origin /\ over

\* The second finger of a gesture that has done nothing yet makes it scroll.
Joins(fingers, g) ==
    PlaysMouse /\ Cardinality(fingers) = 2 /\ ~g.moved /\ ~g.clicked

Swipes(fingers) == PlaysMouse /\ Cardinality(fingers) = 3

\* onTouchStart
TouchStart(f, over) ==
    LET fingers == tracked \cup {f}
        first == PlaysMouse /\ primary = NoFinger
        g == IF first THEN [NoGesture EXCEPT !.origin = over, !.over = over] ELSE gesture
        joins == (first \/ primary # NoFinger) /\ Joins(fingers, g)
    IN /\ f \notin down
       /\ down' = down \cup {f}
       /\ tracked' = fingers
       /\ primary' = IF first THEN f ELSE primary
       /\ gesture' = [g EXCEPT !.moved = @ \/ (joins /\ touchMode = "pointAndDrag")]
       /\ action' = CASE joins -> "scroll"
                      [] Swipes(fingers) -> "screenKeyboard"
                      [] ~joins /\ ~Swipes(fingers) /\ first -> "default"
                      [] ~joins /\ ~Swipes(fingers) /\ ~first -> action
       /\ aimed' = (aimed /\ ~first)
       /\ abandoned' = (abandoned \/ (Swipes(fingers) /\ left = "finger"))
       /\ UNCHANGED <<configVars, left, blind>>

Stays == /\ touchMode = "pointAndDrag" /\ primary # NoFinger /\ action = "default"
         /\ ~gesture.moved /\ gesture.age # "new"

\* onTouchUpdate, once a frame: the cursor goes to where a finger that stays has begun.
TouchUpdate ==
    /\ Stays
    /\ gesture' = [gesture EXCEPT !.moved = TRUE]
    /\ aimed' = (aimed \/ gesture.origin)
    /\ UNCHANGED <<configVars, down, tracked, primary, action, left, blind, abandoned>>

\* Time passes, whether or not the page draws meanwhile.
Tick ==
    /\ primary # NoFinger /\ gesture.age # "long"
    /\ gesture' = [gesture EXCEPT !.age = IF @ = "new" THEN "held" ELSE "long"]
    /\ UNCHANGED <<configVars, down, tracked, primary, action, hostVars, abandoned>>

\* The primary finger has come so far that it cannot be a click: it starts to drag.
Drags(far) == touchMode = "pointAndDrag" /\ action = "default" /\ far /\ ~gesture.clicked

\* The button goes down where the finger began, after the cursor was sent there.
Drag(over) ==
    LET sent == aimed \/ gesture.origin \/ (~gesture.moved /\ over)
    IN /\ gesture' = [gesture EXCEPT !.over = over, !.far = TRUE, !.moved = TRUE,
                                     !.clicked = TRUE]
       /\ left' = "finger"
       /\ aimed' = sent
       /\ blind' = (blind \/ Misses(over, sent))
       /\ abandoned' = FALSE

\* onTouchMove of a finger, to a place over the picture or not, far from its origin or not.
\* A finger that was forgotten is tracked again, but is not the primary one any more.
TouchMove(f, over, far) ==
    /\ f \in down
    /\ tracked' = tracked \cup {f}
    /\ IF PlaysMouse /\ f = primary
       THEN IF Drags(far)
            THEN Drag(over)
            ELSE /\ gesture' = [gesture EXCEPT !.over = over, !.far = far]
                 /\ UNCHANGED <<hostVars, abandoned>>
       ELSE ~over /\ ~far /\ UNCHANGED <<gesture, hostVars, abandoned>>
    /\ UNCHANGED <<configVars, down, primary, action>>

\* What the end of the primary finger does, by its age and distance: the left button goes
\* down, unless it is, and up again; or the right one does.
Taps == action = "default" /\ ~gesture.far /\ (gesture.age # "long" \/ gesture.clicked)
Holds == action = "default" /\ ~gesture.far /\ gesture.age = "long" /\ ~gesture.clicked
Drops == action = "default" /\ gesture.far /\ touchMode = "pointAndDrag"

\* A tap that came before any frame takes the cursor along; a long press does not.
TapAims == Taps /\ ~gesture.moved /\ gesture.over

Releases == Taps \/ Drops

\* onTouchEnd and onTouchCancel
TouchEnd(f) ==
    /\ f \in down
    /\ down' = down \ {f} /\ tracked' = tracked \ {f}
    /\ IF PlaysMouse /\ f = primary
       THEN /\ primary' = NoFinger /\ gesture' = NoGesture /\ aimed' = FALSE
            /\ left' = IF Releases THEN "up" ELSE left
            /\ abandoned' = (abandoned /\ ~Releases)
            /\ blind' = (blind \/ (/\ Releases \/ (Holds /\ gesture.moved)
                                   /\ Misses(gesture.over, aimed \/ TapAims)))
       ELSE UNCHANGED <<primary, gesture, hostVars, abandoned>>
    /\ UNCHANGED <<configVars, action>>

\* setConfig, from the settings in the sidebar
SetConfig(touch, mouse) ==
    /\ touchMode' = touch /\ mouseMode' = mouse
    /\ primary' = NoFinger /\ tracked' = {}
    /\ gesture' = NoGesture /\ aimed' = FALSE
    /\ abandoned' = (abandoned \/ left = "finger")
    /\ UNCHANGED <<down, action, left, blind>>

\* onMouseDown with the left button: "pointAndDrag" has to send the position first, and
\* presses nothing where there is none.
MouseDown(over) ==
    /\ left' = IF mouseMode # "pointAndDrag" \/ over THEN "mouse" ELSE left
    /\ abandoned' = (abandoned /\ left' # "mouse")
    /\ UNCHANGED <<configVars, fingerVars, aimed, blind>>

\* onMouseUp, over the page
MouseUp ==
    /\ left' = "up"
    /\ abandoned' = FALSE
    /\ UNCHANGED <<configVars, fingerVars, aimed, blind>>

Next ==
    \/ \E f \in Fingers, over \in BOOLEAN : TouchStart(f, over)
    \/ \E f \in Fingers, over, far \in BOOLEAN : TouchMove(f, over, far)
    \/ \E f \in Fingers : TouchEnd(f)
    \/ \E touch \in {"touch", "mouseRelative", "pointAndDrag"}, mouse \in MouseModes :
          SetConfig(touch, mouse)
    \/ \E over \in BOOLEAN : MouseDown(over)
    \/ TouchUpdate \/ Tick \/ MouseUp

Spec == Init /\ [][Next]_vars

-----------------------------------------------------------------------------
(* Properties *)

\* The host holds the left button for a finger only as long as the finger that drags is on
\* the glass.  Two things take a drag from its finger, and the button stays down then until
\* the next click: a third finger, which turns the gesture over to the keyboard of the page,
\* and a change of the settings.
DragIsHeld ==
    left = "finger" /\ ~abandoned =>
        primary # NoFinger /\ gesture.clicked /\ action = "default"

\* A left click, a drag and the right click of a long press go to where the finger is: the
\* position was sent before, at the latest with the click, whatever the age, the distance
\* and the frames in between.  Two kinds go where the cursor happens to be: a touch outside
\* the picture has no position, and a long press for which no frame was drawn in time sends
\* none (input.ts:550).
ClickWhereTouched == ~blind
=============================================================================
