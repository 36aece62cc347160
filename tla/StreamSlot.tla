------------------------------ MODULE StreamSlot ------------------------------
(***************************************************************************)
(* What moonlight-common promises about Moonlight connections, without     *)
(* saying how: the process has one slot.  A start attempt takes the slot   *)
(* when it is free and is refused when another attempt has it; the slot    *)
(* becomes free again only when the attempt that has it gives it back.     *)
(***************************************************************************)
CONSTANTS Handles,    \* start attempts; each one becomes at most one MoonlightStream
          NoHandle    \* nobody

VARIABLES owner,      \* the attempt that has the slot
          refused,    \* attempts answered with ConnectionAlreadyExists
          finished    \* attempts that had the slot and gave it back

slotVars == <<owner, refused, finished>>

Init ==
    /\ owner = NoHandle
    /\ refused = {}
    /\ finished = {}

Fresh(h) == h # owner /\ h \notin refused \cup finished

Take(h) ==
    /\ Fresh(h)
    /\ owner = NoHandle
    /\ owner' = h
    /\ UNCHANGED <<refused, finished>>

Refuse(h) ==
    /\ Fresh(h)
    /\ owner # NoHandle
    /\ refused' = refused \cup {h}
    /\ UNCHANGED <<owner, finished>>

Release(h) ==
    /\ owner = h
    /\ owner' = NoHandle
    /\ finished' = finished \cup {h}
    /\ UNCHANGED refused

Next == \E h \in Handles : Take(h) \/ Refuse(h) \/ Release(h)

Spec == Init /\ [][Next]_slotVars
===============================================================================
