------------------------ MODULE ConnectionTimerProofs ------------------------
(***************************************************************************)
(* Proofs about MoonlightConnection for every set of start attempts, and   *)
(* about the behaviours MCConnectionTimer checks, of which                 *)
(* TerminateTimerProofs is the other half.                                 *)
(*                                                                         *)
(* OneOwner alone is not inductive.  That a start cannot collide with a    *)
(* drop needs the flag to tell whether somebody owns the connection, and   *)
(* that a callback finds its listener needs what `step` says about the     *)
(* slots while they are installed and cleared one by one.  What is said of *)
(* the detached thread needs how far its connection must have come.        *)
(* ConnectionInv adds all three.                                           *)
(***************************************************************************)
EXTENDS MCConnectionTimer, TerminateTimerProofs

\* The mutex is held exactly by the handle inside the critical part of Drop.
GuardHeldByDrop ==
    \A h \in Handles : guard = h <=> phase[h] \in {"stopping", "clearing"}

\* What `step` says about the slots already installed or already cleared.
StepCountsSlots ==
    \A h \in Handles :
        /\ phase[h] \in {"new", "stranded"} => step[h] = 0
        /\ phase[h] = "claimed" => \A i \in Slots : i <= step[h] => listener[i] = h
        /\ phase[h] = "clearing" => \A i \in Slots : i <= step[h] => listener[i] = NoHandle

\* A slot the library's threads may call, or are calling, belongs to the owner.
NativeHasListener ==
    \A i \in Slots : native[i] # "off" =>
        \E h \in Handles : phase[h] \in NativePhases /\ listener[i] = h

\* The detached thread of a connection that was established: in time, or late.
EndingInTime ==
    \A h \in Handles :
        /\ ending[h] # "none" => phase[h] \in NativePhases \cup {"clearing", "closed"}
        /\ phase[h] \in NativePhases => listener[1] = h
        /\ ending[h] = "panicked" => phase[h] \in {"clearing", "closed"}
        /\ ending[h] = "calling" /\ phase[h] # "closed" => listener[1] = h

ConnectionInv ==
    /\ TypeOK
    /\ OneOwner
    /\ FlagMeansOwned
    /\ NoStaleListener
    /\ GuardHeldByDrop
    /\ StepCountsSlots
    /\ NativeHasListener
    /\ EndingInTime
    /\ ~panicked

-------------------------------------------------------------------------------
\* Nobody owns the connection at the start.
LEMMA InitConnection == Init => ConnectionInv
<1> SUFFICES ASSUME Init PROVE ConnectionInv OBVIOUS
<1> USE DEF Init, Owning, OwningPhases, Phases, Slots
<1>1. TypeOK
  <2>1. exists \in BOOLEAN /\ panicked \in BOOLEAN OBVIOUS
  <2>2. 0 \in 0..3 OBVIOUS
  <2> QED BY <2>1, <2>2, Zenon DEF TypeOK
<1>2. OneOwner /\ FlagMeansOwned BY DEF OneOwner, FlagMeansOwned
<1>3. NoStaleListener BY DEF NoStaleListener
<1>4. GuardHeldByDrop BY NoHandleIsNoHandle DEF GuardHeldByDrop
<1>5. StepCountsSlots BY DEF StepCountsSlots
<1>6. NativeHasListener BY DEF NativeHasListener
<1>7. EndingInTime BY DEF EndingInTime, NativePhases
<1> QED BY <1>1, <1>2, <1>3, <1>4, <1>5, <1>6, <1>7 DEF ConnectionInv

\* Every step of a start attempt or a drop keeps the invariant.
LEMMA HandleStepKeeps ==
    ASSUME ConnectionInv, NEW h \in Handles, HandleStep(h)
    PROVE  ConnectionInv'
<1> USE NoHandleIsNoHandle
    DEF ConnectionInv, TypeOK, OneOwner, FlagMeansOwned, NoStaleListener, GuardHeldByDrop,
        StepCountsSlots, NativeHasListener, EndingInTime, SlotFree, Owning, OwningPhases,
        NativePhases, Phases, Slots, Decoders
<1>1. CASE Claim(h) BY <1>1 DEF Claim
<1>2. CASE Install(h) BY <1>2 DEF Install
<1>10. CASE StringRefused(h) BY <1>10 DEF StringRefused
<1>3. CASE StartConnection(h) BY <1>3 DEF StartConnection
<1>4. CASE StartReturns(h) BY <1>4 DEF StartReturns
<1>5. CASE Stop(h) BY <1>5 DEF Stop
<1>6. CASE StopConnection(h) BY <1>6 DEF StopConnection
<1>7. CASE StopReturns(h) BY <1>7 DEF StopReturns
<1>8. CASE Clear(h) BY <1>8 DEF Clear
<1>9. CASE Release(h)
  <2> USE <1>9 DEF Release
  <2>1. TypeOK' OBVIOUS
  <2>2. \A g \in Handles : Owning(g)' <=> Owning(g) /\ g # h OBVIOUS
  <2>3. OneOwner' /\ FlagMeansOwned'
    <3>1. \A g \in Handles : ~Owning(g)' BY <2>2
    <3> QED BY <3>1
  <2>4. NoStaleListener' OBVIOUS
  <2>5. GuardHeldByDrop' OBVIOUS
  <2>6. StepCountsSlots' OBVIOUS
  <2>7. NativeHasListener' OBVIOUS
  <2>8. EndingInTime' OBVIOUS
  <2> QED BY <2>1, <2>3, <2>4, <2>5, <2>6, <2>7, <2>8
<1> QED
    BY <1>1, <1>2, <1>3, <1>4, <1>5, <1>6, <1>7, <1>8, <1>9, <1>10 DEF HandleStep

\* Every step of the C library keeps the invariant.
LEMMA NativeStepKeeps ==
    ASSUME ConnectionInv, NEW i \in Slots, NativeStep(i)
    PROVE  ConnectionInv'
<1> USE NoHandleIsNoHandle
    DEF ConnectionInv, TypeOK, OneOwner, FlagMeansOwned, NoStaleListener, GuardHeldByDrop,
        StepCountsSlots, NativeHasListener, EndingInTime, SlotFree, Owning, OwningPhases,
        NativePhases, Phases, Slots, Decoders
<1>1. CASE CallbackEnter(i) BY <1>1 DEF CallbackEnter
<1>2. CASE CallbackReturn(i) BY <1>2 DEF CallbackReturn
<1>3. CASE Cleanup(i) BY <1>3 DEF Cleanup
<1> QED BY <1>1, <1>2, <1>3 DEF NativeStep

\* So does every step of a detached thread.
LEMMA EndStepKeeps ==
    ASSUME ConnectionInv, NEW h \in Handles, EndStep(h)
    PROVE  ConnectionInv'
<1> USE NoHandleIsNoHandle
    DEF ConnectionInv, TypeOK, OneOwner, FlagMeansOwned, NoStaleListener, GuardHeldByDrop,
        StepCountsSlots, NativeHasListener, EndingInTime, SlotFree, Owning, OwningPhases,
        NativePhases, Phases, Slots, Decoders
<1>1. CASE Terminate(h) BY <1>1 DEF Terminate
<1>2. CASE TerminatedEnter(h) BY <1>2 DEF TerminatedEnter
<1>3. CASE TerminatedReturn(h) BY <1>3 DEF TerminatedReturn
<1> QED BY <1>1, <1>2, <1>3 DEF EndStep

\* ConnectionInv is inductive and holds in every reachable state.
THEOREM ConnectionInductive == Spec => []ConnectionInv
<1>1. ASSUME ConnectionInv, [Next]_vars
      PROVE  ConnectionInv'
  <2>1. CASE \E h \in Handles : HandleStep(h) BY <1>1, <2>1, HandleStepKeeps
  <2>2. CASE \E i \in Slots : NativeStep(i) BY <1>1, <2>2, NativeStepKeeps
  <2>3. CASE UNCHANGED vars
    BY <1>1, <2>3
    DEF vars, ConnectionInv, TypeOK, OneOwner, FlagMeansOwned, NoStaleListener, GuardHeldByDrop,
        StepCountsSlots, NativeHasListener, EndingInTime, Owning
  <2>4. CASE \E h \in Handles : EndStep(h) BY <1>1, <2>4, EndStepKeeps
  <2> QED BY <1>1, <2>1, <2>2, <2>3, <2>4 DEF Next
<1> QED BY InitConnection, <1>1, PTL DEF Spec

\* The type invariant, for every set of start attempts.
THEOREM TypeCorrect == Spec => []TypeOK
<1>1. ConnectionInv => TypeOK BY DEF ConnectionInv
<1> QED BY ConnectionInductive, <1>1, PTL

\* Start and drop are never two handles' business at once, for any number of
\* start attempts (mod.rs:51, "start / stop Connection is not thread safe").
THEOREM OneOwnerAlways == Spec => []OneOwner
<1>1. ConnectionInv => OneOwner BY DEF ConnectionInv
<1> QED BY ConnectionInductive, <1>1, PTL

\* The flag never outlives its owner and never disappears under one.
THEOREM FlagAlwaysOwned == Spec => []FlagMeansOwned
<1>1. ConnectionInv => FlagMeansOwned BY DEF ConnectionInv
<1> QED BY ConnectionInductive, <1>1, PTL

\* A closed or refused handle leaves none of its listeners behind for the next start.
THEOREM HandedOverClean == Spec => []NoStaleListener
<1>1. ConnectionInv => NoStaleListener BY DEF ConnectionInv
<1> QED BY ConnectionInductive, <1>1, PTL

\* A callback reaches the listener of the connection it is about, for any number of
\* start attempts; the detached report of a connection's end alone can come too late
\* for that, and only once LiStopConnection has returned.
THEOREM CallbacksSafe == Spec => []CallbacksReachOwner
<1>1. ConnectionInv => CallbacksReachOwner
  BY DEF ConnectionInv, CallbacksReachOwner, NativeHasListener, EndingInTime
<1> QED BY ConnectionInductive, <1>1, PTL

\* The four together: however starts, drops and callbacks interleave, the C library
\* has one owner, and its callbacks go to that owner unless they outlive the drop.
THEOREM ConnectionAlwaysSafe == Spec => []ConnectionIsSafe
<1>1. OneOwner /\ FlagMeansOwned /\ NoStaleListener /\ CallbacksReachOwner
        => ConnectionIsSafe
  BY DEF ConnectionIsSafe
<1> QED BY OneOwnerAlways, FlagAlwaysOwned, HandedOverClean, CallbacksSafe, <1>1, PTL

-------------------------------------------------------------------------------
(* Implementation of the one-slot specification. *)

LEMMA OwnerIsSlotOwner ==
    ASSUME OneOwner, NEW h \in Handles, Owning(h)
    PROVE  slotOwner = h
BY DEF OneOwner, slotOwner

LEMMA NoOwnerIsNoHandle ==
    ASSUME \A h \in Handles : ~Owning(h)
    PROVE  slotOwner = NoHandle
BY DEF slotOwner

\* The two lemmas again, for the state after a step.
LEMMA OwnerIsSlotOwnerNext ==
    ASSUME OneOwner', NEW h \in Handles, Owning(h)'
    PROVE  slotOwner' = h
BY DEF OneOwner, slotOwner

LEMMA NoOwnerIsNoHandleNext ==
    ASSUME \A h \in Handles : ~Owning(h)'
    PROVE  slotOwner' = NoHandle
BY DEF slotOwner

\* A step that changes no phase, or moves inside the owning phases, stutters.
LEMMA SameOwners ==
    ASSUME OneOwner, OneOwner',
           \A h \in Handles : Owning(h)' <=> Owning(h),
           \A h \in Handles : phase'[h] = "refused" <=> phase[h] = "refused",
           \A h \in Handles : phase'[h] = "closed" <=> phase[h] = "closed"
    PROVE  UNCHANGED Slot!slotVars
<1>1. slotOwner' = slotOwner
  <2>1. CASE \E h \in Handles : Owning(h)
    BY <2>1, OwnerIsSlotOwner, OwnerIsSlotOwnerNext
  <2>2. CASE \A h \in Handles : ~Owning(h)
    BY <2>2, NoOwnerIsNoHandle, NoOwnerIsNoHandleNext
  <2> QED BY <2>1, <2>2
<1>2. {h \in Handles : phase'[h] = "refused"} = {h \in Handles : phase[h] = "refused"}
  OBVIOUS
<1>3. {h \in Handles : phase'[h] = "closed"} = {h \in Handles : phase[h] = "closed"}
  OBVIOUS
<1> QED BY <1>1, <1>2, <1>3 DEF Slot!slotVars

\* Every step of the wrapper is a step of the one-slot specification or a stutter.
LEMMA StepSimulation ==
    ASSUME ConnectionInv, ConnectionInv', [Next]_vars
    PROVE  [Slot!Next]_(Slot!slotVars)
<1> USE NoHandleIsNoHandle DEF ConnectionInv, TypeOK
<1> USE DEF Owning, OwningPhases
<1>1. ASSUME NEW h \in Handles, Claim(h) PROVE [Slot!Next]_(Slot!slotVars)
  <2> USE <1>1 DEF Claim
  <2>1. CASE exists
    <3>1. PICK g \in Handles : Owning(g) BY <2>1 DEF FlagMeansOwned
    <3>2. g # h /\ Owning(g)' BY <3>1, <2>1
    <3>3. slotOwner = g /\ slotOwner' = g
      BY <3>1, <3>2, OwnerIsSlotOwner, OwnerIsSlotOwnerNext
    <3>4. {k \in Handles : phase'[k] = "refused"}
             = {k \in Handles : phase[k] = "refused"} \cup {h}
      BY <2>1
    <3>5. {k \in Handles : phase'[k] = "closed"} = {k \in Handles : phase[k] = "closed"}
      BY <2>1
    <3>6. Slot!Fresh(h) BY <3>2, <3>3 DEF Slot!Fresh
    <3>7. Slot!Refuse(h) BY <3>3, <3>4, <3>5, <3>6 DEF Slot!Refuse
    <3> QED BY <3>7 DEF Slot!Next
  <2>2. CASE ~exists
    <3>1. \A g \in Handles : ~Owning(g) BY <2>2 DEF FlagMeansOwned
    <3>2. Owning(h)' BY <2>2
    <3>3. slotOwner = NoHandle /\ slotOwner' = h
      BY <3>1, <3>2, NoOwnerIsNoHandle, OwnerIsSlotOwnerNext
    <3>4. {k \in Handles : phase'[k] = "refused"} = {k \in Handles : phase[k] = "refused"}
      BY <2>2
    <3>5. {k \in Handles : phase'[k] = "closed"} = {k \in Handles : phase[k] = "closed"}
      BY <2>2
    <3>6. Slot!Fresh(h) BY <3>3 DEF Slot!Fresh
    <3>7. Slot!Take(h) BY <3>3, <3>4, <3>5, <3>6 DEF Slot!Take
    <3> QED BY <3>7 DEF Slot!Next
  <2> QED BY <2>1, <2>2
<1>2. ASSUME NEW h \in Handles, Release(h) PROVE [Slot!Next]_(Slot!slotVars)
  <2> USE <1>2 DEF Release
  <2>1. Owning(h) /\ slotOwner = h BY OwnerIsSlotOwner
  <2>2. \A g \in Handles : ~Owning(g)' BY <2>1 DEF OneOwner
  <2>3. slotOwner' = NoHandle BY <2>2, NoOwnerIsNoHandleNext
  <2>4. {k \in Handles : phase'[k] = "refused"} = {k \in Handles : phase[k] = "refused"}
    OBVIOUS
  <2>5. {k \in Handles : phase'[k] = "closed"}
           = {k \in Handles : phase[k] = "closed"} \cup {h}
    OBVIOUS
  <2>6. Slot!Release(h) BY <2>1, <2>3, <2>4, <2>5 DEF Slot!Release
  <2> QED BY <2>6 DEF Slot!Next
<1>3. ASSUME NEW h \in Handles,
             \/ StringRefused(h) \/ Install(h) \/ StartConnection(h) \/ StartReturns(h)
             \/ Stop(h) \/ StopConnection(h) \/ StopReturns(h) \/ Clear(h)
      PROVE  UNCHANGED Slot!slotVars
  <2>1. /\ \A g \in Handles : Owning(g)' <=> Owning(g)
        /\ \A g \in Handles : phase'[g] = "refused" <=> phase[g] = "refused"
        /\ \A g \in Handles : phase'[g] = "closed" <=> phase[g] = "closed"
    BY <1>3 DEF StringRefused, Install, StartConnection, StartReturns, Stop, StopConnection,
                StopReturns, Clear
  <2> QED BY <2>1, SameOwners
<1>4. ASSUME phase' = phase PROVE UNCHANGED Slot!slotVars
  BY <1>4, SameOwners
<1>5. ASSUME NEW i \in Slots, NativeStep(i) PROVE UNCHANGED Slot!slotVars
  BY <1>4, <1>5 DEF NativeStep, CallbackEnter, CallbackReturn, Cleanup
<1>6. ASSUME UNCHANGED vars PROVE UNCHANGED Slot!slotVars
  BY <1>4, <1>6 DEF vars
<1>7. ASSUME NEW h \in Handles, EndStep(h) PROVE UNCHANGED Slot!slotVars
  BY <1>4, <1>7 DEF EndStep, Terminate, TerminatedEnter, TerminatedReturn
<1> QED BY <1>1, <1>2, <1>3, <1>5, <1>6, <1>7 DEF Next, HandleStep

\* The wrapper implements the one-slot specification: a start is refused only
\* while another handle has the connection, and takes it only when it is free.
THEOREM Refinement == Spec => ImplementsSlot
<1>1. Init => Slot!Init
  <2> SUFFICES ASSUME Init PROVE Slot!Init OBVIOUS
  <2>1. \A h \in Handles : ~Owning(h) BY DEF Init, Owning, OwningPhases
  <2>2. slotOwner = NoHandle BY <2>1, NoOwnerIsNoHandle
  <2> QED BY <2>2 DEF Init, Slot!Init
<1>2. ConnectionInv /\ ConnectionInv' /\ [Next]_vars => [Slot!Next]_(Slot!slotVars)
  BY StepSimulation
<1> QED BY ConnectionInductive, <1>1, <1>2, PTL DEF Spec, ImplementsSlot, Slot!Spec

-------------------------------------------------------------------------------
(* The connection and the timer beside each other. *)

\* A behaviour of both is one of each: the other one's steps are stutters.
THEOREM EachBehavesAlone == BothSpec => Spec /\ TimerSpec
<1>1. BothInit => Init /\ TimerInit BY DEF BothInit
<1>2. [BothNext]_allVars => [Next]_vars /\ [TimerNext]_timerVars
  BY Zenon DEF BothNext, ConnectionNext, TimeoutNext, allVars
<1> QED BY <1>1, <1>2, PTL DEF BothSpec, Spec, TimerSpec

\* Every variable of the connection and of the timer keeps its type.
THEOREM BothTypes == BothSpec => []TypesOK
<1>1. ConnectionInv /\ TimerInv => TypesOK BY DEF ConnectionInv, TimerInv, TypesOK
<1> QED BY EachBehavesAlone, ConnectionInductive, TimerInductive, <1>1, PTL
===============================================================================
