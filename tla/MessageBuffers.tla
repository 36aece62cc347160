--------------------------- MODULE MessageBuffers ---------------------------
(***************************************************************************)
(* The byte buffers messages are put together and taken apart in: the      *)
(* ByteBuffer of web/stream/buffer.ts, the one StreamInput writes all its  *)
(* packets into and reads the messages for the gamepads in, and            *)
(* BIG_BUFFER, which every channel of the Web Socket transport and the     *)
(* statistics share, also while a message is being given to its listeners. *)
(*                                                                         *)
(* A message is a sequence of fields, whatever their width.  A packet that *)
(* is given up half-way (a touch outside the picture, a position while the *)
(* last one still waits, a channel that is not there yet, a text too long  *)
(* for the buffer) leaves the buffer as it is, and so does a message for   *)
(* the gamepads that has been read; all but sendText begin with reset().   *)
(***************************************************************************)
EXTENDS Integers, Sequences

CONSTANTS Texts,      \* [units, chars, fits]: UTF-16 units, characters, room in the buffer
          Deltas,     \* what a wheel is turned by
          MaxFields,  \* bound: fields in the buffer of StreamInput
          Listeners   \* how many listen to a channel

VARIABLES
    small,    \* buffer of StreamInput
    channels, \* setTransport has been called
    unsent,   \* what the buffer was last used for was not sent: a packet that was given
              \* up, or a message for the gamepads
    sent,     \* the packet that was sent last, and what the streamer makes of it
    big,      \* BIG_BUFFER
    hearing,  \* a message that is being given to the listeners of its channel
    heard     \* what each of them was given

vars == <<small, channels, unsent, sent, big, hearing, heard>>

\* The fields of a message: each is known by what it belongs to and by its place.
Fields(kind, n) == [i \in 1..n |-> <<kind, i>>]
Length == [key |-> 4, text |-> 3, move |-> 3, position |-> 5, button |-> 3, wheel |-> 3,
           touch |-> 8, rumble |-> 4]
Message(kind) == Fields(kind, Length[kind])

EmptyBuffer == [fields |-> <<>>, position |-> 0, limit |-> 0]

Buffers == [fields : Seq({"key", "text", "move", "position", "button", "wheel", "touch",
                          "rumble", "id", "in", "out"} \X (1..8)),
            position : 0..MaxFields, limit : 0..MaxFields]

TypeOK ==
    /\ small \in Buffers /\ big \in Buffers
    /\ channels \in BOOLEAN /\ unsent \in BOOLEAN
    /\ sent.kind \in DOMAIN Length \cup {"none"} /\ sent.afterUnsent \in BOOLEAN
    /\ Len(sent.fields) <= MaxFields
    /\ hearing.left \in 0..Listeners
    /\ Len(heard) = (IF hearing.data = <<>> THEN 0 ELSE Listeners - hearing.left)

\* ByteBuffer: the put functions, reset, flip and getRemainingBuffer.  What lies behind the
\* field put last is never read, as flip ends the message there.
Put(b, fields) ==
    [b EXCEPT !.fields = SubSeq(@, 1, b.position) \o fields, !.position = @ + Len(fields)]
Reset(b) == [b EXCEPT !.position = 0, !.limit = 0]
Flip(b) == [b EXCEPT !.limit = b.position, !.position = 0]
Remaining(b) == SubSeq(b.fields, b.position + 1, b.limit)

\* putI8 and putU8 keep the lowest eight bits.
Int8(n) == ((n + 128) % 256) - 128
UInt8(n) == n % 256

Nothing == [kind |-> "none", fields |-> <<>>, value |-> 0, meant |-> 0, afterUnsent |-> FALSE]

Init ==
    /\ small = EmptyBuffer /\ channels = FALSE /\ unsent = FALSE
    /\ sent = Nothing
    /\ big = EmptyBuffer
    /\ hearing = [data |-> <<>>, left |-> 0] /\ heard = <<>>

-----------------------------------------------------------------------------
(* The packets of StreamInput *)

SetTransport ==
    /\ ~channels /\ channels' = TRUE
    /\ UNCHANGED <<small, unsent, sent, big, hearing, heard>>

\* A packet that is given up: what was put is still in the buffer.
GiveUp(b) ==
    /\ small' = b
    /\ unsent' = TRUE
    /\ UNCHANGED <<channels, sent, big, hearing, heard>>

\* trySendChannel
TrySendChannel(b, kind, value, meant) ==
    IF ~channels
    THEN GiveUp(b)
    ELSE /\ small' = Flip(b)
         /\ sent' = [kind |-> kind, fields |-> Remaining(Flip(b)), value |-> value,
                     meant |-> meant, afterUnsent |-> unsent]
         /\ unsent' = FALSE
         /\ UNCHANGED <<channels, big, hearing, heard>>

Prepared(kind) == Put(Reset(small), Message(kind))

\* sendKey, sendMouseMove, sendMouseButton
SendSimple == \E kind \in {"key", "move", "button"} :
    TrySendChannel(Prepared(kind), kind, 0, 0)

WheelSent(delta, mode) == IF mode = "highres" THEN delta ELSE Int8(delta)

\* onMouseWheel with sendMouseWheelHighRes and sendMouseWheel
OnMouseWheel == \E delta \in Deltas, mode \in {"highres", "normal"} :
    TrySendChannel(Prepared("wheel"), "wheel", WheelSent(delta, mode), delta)

\* sendMousePosition: an unreliable one is given up while another one waits.
SendMousePosition == \E waits \in BOOLEAN :
    IF waits THEN GiveUp(Prepared("position"))
             ELSE TrySendChannel(Prepared("position"), "position", 0, 0)

\* sendTouch: the type and the identifier are put before the place is looked at.
SendTouch == \E over \in BOOLEAN :
    IF over THEN TrySendChannel(Prepared("touch"), "touch", 0, 0)
            ELSE GiveUp(Put(Reset(small), Fields("touch", 2)))

\* What the streamer reads: so many characters as the length says, if there are so many.
Typed(t) == LET length == UInt8(t.units) IN IF length <= t.chars THEN length ELSE 0

\* sendText
SendText == \E t \in Texts :
    /\ small.position + Length["text"] <= MaxFields
    /\ LET b == Put(small, Message("text"))
       IN IF t.fits THEN TrySendChannel(b, "text", Typed(t), t) ELSE GiveUp(b)

\* onControllerData: a rumble message is put into the same buffer and read to its end,
\* which is where the position stays.
OnControllerData ==
    /\ channels
    /\ small' = [Flip(Prepared("rumble")) EXCEPT !.position = Length["rumble"]]
    /\ unsent' = TRUE
    /\ UNCHANGED <<channels, sent, big, hearing, heard>>

-----------------------------------------------------------------------------
(* BIG_BUFFER *)

Idle == hearing.left = 0

\* onMessage of a channel up to its listeners; the other channels of the socket look at the
\* id of the message in the same way.
OnMessage ==
    /\ Idle
    /\ LET read == Flip(Put(Reset(big), Fields("id", 1) \o Fields("in", 3)))
       IN /\ big' = [read EXCEPT !.position = 1]
          /\ hearing' = [data |-> Remaining(big'), left |-> Listeners]
    /\ heard' = <<>>
    /\ UNCHANGED <<small, channels, unsent, sent>>

\* The copy getRemainingBuffer made.
Given(h) == h.data

Hear ==
    /\ ~Idle
    /\ hearing' = [hearing EXCEPT !.left = @ - 1]
    /\ heard' = Append(heard, Given(hearing))
    /\ UNCHANGED <<small, channels, unsent, sent>>

\* onRawData of the statistics takes the message apart in BIG_BUFFER again.
OnRawData ==
    /\ Hear
    /\ big' = [Flip(Put(Reset(big), Given(hearing))) EXCEPT !.position = Len(hearing.data)]

\* Any other listener, with a buffer of its own.
OnTouchData == Hear /\ big' = big

\* send of a channel, also by what a listener does.
Send ==
    /\ big' = Flip(Put(Reset(big), Fields("id", 1) \o Fields("out", 3)))
    /\ UNCHANGED <<small, channels, unsent, sent, hearing, heard>>

Next ==
    \/ SetTransport
    \/ SendSimple \/ OnMouseWheel \/ SendMousePosition \/ SendTouch \/ SendText
    \/ OnControllerData
    \/ OnMessage \/ OnRawData \/ OnTouchData \/ Send

Spec == Init /\ [][Next]_vars

-----------------------------------------------------------------------------
(* Properties *)

EndsWithText(fields) == \E before \in 0..MaxFields :
    /\ Len(fields) = before + Length["text"]
    /\ SubSeq(fields, before + 1, Len(fields)) = Message("text")

\* A packet is one message from its first field to its last, although all of them are put
\* into the same buffer.  A text alone need not be: sendText (input.ts:216) puts it behind
\* what is in the buffer, so it is whole if the buffer was last used for a packet that was
\* sent, and ends with the text whatever was in front.  Behind a packet that was given up,
\* or behind a message for the gamepads, the streamer is given the fields of that first.
PacketsAreWhole ==
    /\ sent.kind # "none" /\ ~(sent.kind = "text" /\ sent.afterUnsent)
           => sent.fields = Message(sent.kind)
    /\ sent.kind = "text" => EndsWithText(sent.fields)

\* The host scrolls the way the wheel was turned, as long as a byte can say how far, and
\* types the text, if its units are its characters and a byte can count them.
MeansTheSame ==
    /\ sent.kind = "wheel" /\ sent.meant \in -128..127 => sent.value = sent.meant
    /\ sent.kind = "text" /\ sent.meant.units = sent.meant.chars /\ sent.meant.units < 256
           => sent.value = sent.meant.units

\* Whatever a listener does, the next one is given the message the channel received.
ListenersHearAll == \A i \in DOMAIN heard : heard[i] = Fields("in", 3)

MessagesSurvive == PacketsAreWhole /\ MeansTheSame /\ ListenersHearAll
=============================================================================
