---------------------------- MODULE GamepadInput ----------------------------
(***************************************************************************)
(* The gamepads of the page: StreamInput of web/stream/input.ts from the   *)
(* events of the browser (stream.ts) to the streamer's active_gamepads     *)
(* (main.rs).                                                              *)
(*                                                                         *)
(* The browser numbers pads by a place in navigator.getGamepads(), which   *)
(* it uses again; the page numbers them by a slot of its own, which it     *)
(* uses again as well, and the slot is the id the streamer knows them by.  *)
(* Pads may come and go before the stream is connected, when they are only *)
(* written down.  That a pad comes or goes is sent on a reliable ordered   *)
(* channel, its state on an unreliable one per slot.                       *)
(*                                                                         *)
(* Left out: which buttons and axes a state holds, which actuators a pad   *)
(* has, and sendIntervalOverride, which only makes an update rarer.        *)
(***************************************************************************)
EXTENDS Integers, SequencesExt

CONSTANTS Pads,       \* places in navigator.getGamepads(): 0, 1, ...
          Nobody,     \* null in a slot
          Mapped,     \* the pads whose mapping is "standard"
          MaxMessages \* bound: additions and removals on their way

VARIABLES
    pads,        \* the places of navigator.getGamepads() that hold a pad
    connected,   \* StreamInput.connected
    buffered,    \* bufferedControllers
    slots,       \* gamepads, counted from 1: the pad in the slot, or Nobody
    rumble,      \* gamepadRumbleCurrent[pad]: unset, still or rumbling
    controllers, \* the CONTROLLERS channel
    state,       \* state[i]: the pad whose state is on its way in channel i, or Nobody
    active,      \* active_gamepads of the streamer
    told,        \* the pads this StreamInput was told of and that are still there
    asked,       \* the pads the page was told to rumble since they came
    old,         \* the pads whose rumble the intervals of replaced StreamInputs repeat
    plays        \* the pads whose actuators play an effect

pageVars == <<connected, buffered, slots, rumble, told, asked, old, plays>>
streamerVars == <<controllers, state, active>>
vars == <<pads, pageVars, streamerVars>>

Ids == 0..(Cardinality(Pads) - 1)
Message == [kind : {"add", "remove"}, id : Ids \cup Pads]
Occupied == {i \in DOMAIN slots : slots[i] # Nobody}

TypeOK ==
    /\ pads \subseteq Pads /\ told \subseteq pads /\ asked \subseteq pads
    /\ connected \in BOOLEAN
    /\ buffered \in Seq(Pads)
    /\ slots \in Seq(Pads \cup {Nobody})
    /\ rumble \in [Pads -> {"unset", "still", "rumbling"}]
    /\ controllers \in Seq(Message)
    /\ state \in [Ids -> Pads \cup {Nobody}]
    /\ active \subseteq Ids \cup Pads
    /\ old \subseteq Pads /\ plays \subseteq pads

\* A StreamInput as it is constructed with its Stream.
NewInput ==
    /\ connected = FALSE
    /\ slots = <<>>
    /\ rumble = [p \in Pads |-> "unset"]
    /\ controllers = <<>>
    /\ state = [i \in Ids |-> Nobody]
    /\ active = {}
    /\ asked = {}

\* The page is loaded: it tells the input of every pad that is already there.
Init ==
    /\ pads \in SUBSET Pads
    /\ buffered = SetToSeq(pads)
    /\ told = pads
    /\ old = {} /\ plays = {}
    /\ NewInput

\* Faulty: a pad that is already in a slot gets another one.
FindNobody(s, p) == FALSE

FindPad(s, p) == p \in Range(s)

\* The first empty slot, or a new one at the end.
SlotFor(s) == IF FindPad(s, Nobody) THEN SelectInSeq(s, LAMBDA x : x = Nobody)
                                    ELSE Len(s) + 1

\* "Reset rumble": of place 0, whichever pad has come.
ResetRumble(r) == [q \in Pads |-> IF q = 0 THEN "still" ELSE r[q]]

\* onGamepadConnect of a connected input: s is [slots, controllers, rumble].
Register(s, p) ==
    IF FindPad(s.slots, p) THEN s
    ELSE LET placed == [i \in 1..(IF SlotFor(s.slots) > Len(s.slots) THEN Len(s.slots) + 1
                                                                     ELSE Len(s.slots))
                          |-> IF i = SlotFor(s.slots) THEN p ELSE s.slots[i]]
         IN [slots |-> placed,
             controllers |-> Append(s.controllers, [kind |-> "add", id |-> Len(placed) - 1]),
             rumble |-> ResetRumble(s.rumble)]

Input == [slots |-> slots, controllers |-> controllers, rumble |-> rumble]

Becomes(s) ==
    /\ slots' = s.slots
    /\ controllers' = s.controllers
    /\ rumble' = s.rumble

\* The browser has found a pad: onGamepadConnect.
Connect(p) ==
    /\ p \notin pads
    /\ Len(controllers) < MaxMessages /\ Len(buffered) < MaxMessages
    /\ pads' = pads \cup {p}
    /\ told' = told \cup {p}
    /\ IF connected
       THEN Becomes(Register(Input, p)) /\ UNCHANGED buffered
       ELSE buffered' = Append(buffered, p) /\ UNCHANGED <<slots, controllers, rumble>>
    /\ UNCHANGED <<connected, state, active, asked, old, plays>>

\* A pad has gone: onGamepadDisconnect.  What is removed at the streamer is the place the
\* browser had for the pad, not the slot of the page.
Disconnect(p) ==
    /\ p \in pads
    /\ Len(controllers) < MaxMessages
    /\ pads' = pads \ {p}
    /\ told' = told \ {p} /\ asked' = asked \ {p} /\ plays' = plays \ {p}
    /\ IF FindPad(slots, p)
       THEN /\ slots' = [i \in DOMAIN slots |-> IF slots[i] = p THEN Nobody ELSE slots[i]]
            /\ controllers' = Append(controllers, [kind |-> "remove", id |-> p])
       ELSE UNCHANGED <<slots, controllers>>
    /\ UNCHANGED <<connected, buffered, rumble, state, active, old>>

\* registerBufferedControllers: what was written down may be gone.
RegisterPresent(s, p) == IF p \in pads THEN Register(s, p) ELSE s

\* onStreamStart: takes what was written down, in its order.
StreamStart ==
    /\ ~connected
    /\ connected' = TRUE
    /\ Becomes(FoldLeft(RegisterPresent, Input, buffered))
    /\ buffered' = <<>>
    /\ UNCHANGED <<pads, state, active, told, asked, old, plays>>

\* A reconnect makes a new Stream with a new StreamInput; nobody tells it of the pads.  The
\* interval of the one before is not cleared.
NewStream ==
    /\ connected
    /\ connected' = FALSE
    /\ buffered' = <<>> /\ slots' = <<>> /\ controllers' = <<>>
    /\ rumble' = [p \in Pads |-> "unset"]
    /\ state' = [i \in Ids |-> Nobody]
    /\ active' = {} /\ told' = {} /\ asked' = {}
    /\ old' = old \cup {p \in Range(slots) \ {Nobody} : rumble[p] = "rumbling"}
    /\ UNCHANGED <<pads, plays>>

\* sendController: a channel that still holds a packet drops the next one.
SendController(held, pad) == IF held = Nobody THEN pad ELSE held

\* onGamepadUpdate, once a frame: the loop returns at the first empty slot, so the slots
\* behind it are not looked at.
Update ==
    /\ connected
    /\ LET reached == {i \in DOMAIN slots : \A j \in 1..i : slots[j] # Nobody}
       IN state' = [id \in Ids |->
              IF id + 1 \in reached /\ slots[id + 1] \in Mapped
              THEN SendController(state[id], slots[id + 1]) ELSE state[id]]
    /\ UNCHANGED <<pads, pageVars, controllers, active>>

\* on_packet: ControllerConnected and ControllerDisconnected.
TakeMessage ==
    /\ controllers # <<>>
    /\ controllers' = Tail(controllers)
    /\ active' = IF Head(controllers).kind = "add" THEN active \cup {Head(controllers).id}
                                                   ELSE active \ {Head(controllers).id}
    /\ UNCHANGED <<pads, pageVars, state>>

\* on_packet: ControllerState reaches the host if the gamepad is active, and is dropped with
\* a warning if it is not; or the packet is lost.  The streamer keeps nothing of it.
TakeState(id) ==
    /\ state[id] # Nobody
    /\ state' = [state EXCEPT ![id] = Nobody]
    /\ UNCHANGED <<pads, pageVars, controllers, active>>

\* controller_rumble of the host for one of its gamepads, and onControllerData of the page.
\* Object.assign throws if nothing was ever set for the pad.
Rumble(id) ==
    /\ id \in active
    /\ id + 1 \in Occupied
    /\ LET p == slots[id + 1]
       IN /\ rumble[p] # "unset"
          /\ rumble' = [rumble EXCEPT ![p] = "rumbling"]
          /\ asked' = asked \cup {p}
    /\ UNCHANGED <<pads, connected, buffered, slots, told, old, plays, streamerVars>>

\* The host ends the rumble.
RumbleEnds(id) ==
    /\ id \in active
    /\ id + 1 \in Occupied
    /\ rumble[slots[id + 1]] = "rumbling"
    /\ rumble' = [rumble EXCEPT ![slots[id + 1]] = "still"]
    /\ UNCHANGED <<pads, connected, buffered, slots, told, asked, old, plays, streamerVars>>

\* refreshGamepadRumble: every actuator plays what is set for the pad, for a little longer
\* than an interval; nothing is played with no strength.
RefreshGamepadRumble(p) == IF rumble[p] = "rumbling" THEN plays \cup {p} ELSE plays \ {p}

\* onGamepadRumbleInterval, of the StreamInput in use and of one that was replaced.
RumbleInterval ==
    /\ \/ \E i \in Occupied :
            slots[i] \in pads /\ plays' = RefreshGamepadRumble(slots[i])
       \/ \E p \in old \cap pads : plays' = plays \cup {p}
    /\ UNCHANGED <<pads, connected, buffered, slots, rumble, told, asked, old, streamerVars>>

\* An effect that is not refreshed is over.
EffectEnds(p) ==
    /\ p \in plays
    /\ plays' = plays \ {p}
    /\ UNCHANGED <<pads, connected, buffered, slots, rumble, told, asked, old, streamerVars>>

Next ==
    \/ \E p \in Pads : Connect(p) \/ Disconnect(p) \/ EffectEnds(p)
    \/ StreamStart \/ NewStream \/ Update \/ TakeMessage \/ RumbleInterval
    \/ \E id \in Ids : TakeState(id) \/ Rumble(id) \/ RumbleEnds(id)

Spec == Init /\ [][Next]_vars

-----------------------------------------------------------------------------
(* Properties *)

\* However pads come and go before and after the stream is connected, every pad the input
\* was told of has exactly one slot, and no slot is kept for a pad that is gone.
SlotsFollowPads ==
    connected =>
        /\ Range(slots) \ {Nobody} = told
        /\ \A i, j \in Occupied : slots[i] = slots[j] => i = j

\* A pad never rumbles because of what the pad before it in the same place was told: what
\* is set for it was asked for since it came, and what it plays is that, but for the
\* intervals that replaced streams have left running.
NoRumbleLeftOver ==
    connected => \A p \in told :
        /\ rumble[p] = "rumbling" => p \in asked
        /\ p \in plays => p \in asked \cup old
=============================================================================
