-------------------------- MODULE MoonlightConnection --------------------------
(***************************************************************************)
(* moonlight-common's wrapper around the moonlight-common-c library:       *)
(* MoonlightStream::start, Drop for MoonlightStream and the three global   *)
(* callback listeners (connection, video, audio).                          *)
(*                                                                         *)
(* The C library has one connection per process and is not thread safe.    *)
(* `exists` is the boolean behind Handle::connection_exists and `guard`    *)
(* the holder of the mutex around it.  start holds the mutex only while it *)
(* tests and sets the flag; Drop holds it while LiStopConnection runs and  *)
(* the listeners are cleared.  The listeners are installed by start        *)
(* WITHOUT the mutex, so only the flag keeps a starting handle and a       *)
(* dropping handle apart.                                                  *)
(*                                                                         *)
(* The library's own threads call the listeners (native); LiStopConnection *)
(* joins them.  connection_terminated alone is called on a thread of its   *)
(* own which the library detaches and nobody joins (ending), so it may     *)
(* come after Drop, and find the slot empty or with the next listener.     *)
(* A panic in an extern "C" callback aborts the process.                   *)
(***************************************************************************)
EXTENDS Naturals

CONSTANTS Handles,    \* start attempts; each one becomes at most one MoonlightStream
          NoHandle    \* "no handle": an empty Option

ASSUME NoHandleIsNoHandle == NoHandle \notin Handles

(***************************************************************************)
(* The global listeners in the order start installs and Drop clears them:  *)
(* 1 is GLOBAL_CONNECTION_LISTENER, 2 the video, 3 the audio decoder.      *)
(***************************************************************************)
Slots == 1..3
Decoders == {2, 3}

VARIABLES
    exists,     \* *connection_exists
    guard,      \* who holds the connection_exists mutex across a step
    phase,      \* phase[h]: how far the start attempt or its handle has come
    step,       \* step[h]: listeners already installed (start) or cleared (drop)
    listener,   \* listener[i]: whose listener is in the global slot i
    native,     \* native[i]: may the library's threads call slot i, are they doing so
    ending,     \* ending[h]: the detached thread that reports the end of h's connection
    panicked    \* a thread of the library found its slot empty and panicked

vars == <<exists, guard, phase, step, listener, native, ending, panicked>>

Phases == {"new", "refused", "claimed", "stranded", "starting", "running",
           "dropping", "stopping", "clearing", "closed"}

\* The phases in which the connection belongs to the handle; a stranded attempt
\* keeps it although it has no handle to give it back with.
OwningPhases ==
    {"claimed", "stranded", "starting", "running", "dropping", "stopping", "clearing"}

\* The phases in which the C library holds the callbacks of the handle.
NativePhases == {"starting", "running", "dropping", "stopping"}

TypeOK ==
    /\ exists \in BOOLEAN
    /\ guard \in Handles \cup {NoHandle}
    /\ phase \in [Handles -> Phases]
    /\ step \in [Handles -> 0..3]
    /\ listener \in [Slots -> Handles \cup {NoHandle}]
    /\ native \in [Slots -> {"off", "idle", "calling"}]
    /\ ending \in [Handles -> {"none", "detached", "calling", "panicked", "over"}]
    /\ panicked \in BOOLEAN

Init ==
    /\ exists = FALSE
    /\ guard = NoHandle
    /\ phase = [h \in Handles |-> "new"]
    /\ step = [h \in Handles |-> 0]
    /\ listener = [i \in Slots |-> NoHandle]
    /\ native = [i \in Slots |-> "off"]
    /\ ending = [h \in Handles |-> "none"]
    /\ panicked = FALSE

\* A callback that panics takes the process with it.
Aborted == panicked \/ \E h \in Handles : ending[h] = "panicked"

\* The mutex of slot i is free: no callback is inside its listener.
SlotFree(i) ==
    /\ native[i] # "calling"
    /\ i = 1 => \A h \in Handles : ending[h] # "calling"

-------------------------------------------------------------------------------
(* MoonlightStream::start *)

\* The test and set under the mutex, and the early ConnectionAlreadyExists.
Claim(h) ==
    /\ phase[h] = "new"
    /\ guard = NoHandle
    /\ phase' = [phase EXCEPT ![h] = IF exists THEN "refused" ELSE "claimed"]
    /\ exists' = TRUE
    /\ UNCHANGED <<guard, step, listener, native, ending, panicked>>

(***************************************************************************)
(* A C string cannot be built (mod.rs:149-153): start returns before there *)
(* is a `this` to drop, and the flag stays set.  What start_stream passes  *)
(* comes from parsed XML and an address that has just answered, and holds  *)
(* no NUL; the wrapper does not know that.                                 *)
(***************************************************************************)
StringRefused(h) ==
    /\ phase[h] = "claimed"
    /\ step[h] = 0
    /\ phase' = [phase EXCEPT ![h] = "stranded"]
    /\ UNCHANGED <<exists, guard, step, listener, native, ending, panicked>>

\* set_global of the next listener; it waits for a callback that has the slot.
Install(h) ==
    /\ phase[h] = "claimed"
    /\ step[h] < 3
    /\ SlotFree(step[h] + 1)
    /\ listener' = [listener EXCEPT ![step[h] + 1] = h]
    /\ step' = [step EXCEPT ![h] = @ + 1]
    /\ UNCHANGED <<exists, guard, phase, native, ending, panicked>>

\* LiStartConnection gets the callbacks and may use them before it returns.
StartConnection(h) ==
    /\ phase[h] = "claimed"
    /\ step[h] = 3
    /\ phase' = [phase EXCEPT ![h] = "starting"]
    /\ native' = [i \in Slots |-> "idle"]
    /\ UNCHANGED <<exists, guard, step, listener, ending, panicked>>

\* Faulty: the error return leaves the handle in a state of its own.
StartReturnsFailed(h) ==
    /\ phase[h] = "starting"
    /\ phase' \in {[phase EXCEPT ![h] = p] : p \in {"running", "failed"}}
    /\ UNCHANGED <<exists, guard, step, listener, native, ending, panicked>>

(***************************************************************************)
(* LiStartConnection returns; a result other than 0 drops `this` on the    *)
(* way out.  The library cleans a decoder up only in a start that fails.   *)
(***************************************************************************)
StartReturns(h) ==
    /\ phase[h] = "starting"
    /\ \/ /\ \A i \in Slots : native[i] # "off"
          /\ phase' = [phase EXCEPT ![h] = "running"]
       \/ phase' = [phase EXCEPT ![h] = "dropping"]
    /\ UNCHANGED <<exists, guard, step, listener, native, ending, panicked>>

-------------------------------------------------------------------------------
(* MoonlightStream::stop and Drop *)

Stop(h) ==
    /\ phase[h] = "running"
    /\ phase' = [phase EXCEPT ![h] = "dropping"]
    /\ UNCHANGED <<exists, guard, step, listener, native, ending, panicked>>

\* Faulty: the connection listener is cleared before LiStopConnection.
ClearThenStopConnection(h) ==
    /\ phase[h] = "dropping"
    /\ guard = NoHandle
    /\ guard' = h
    /\ phase' = [phase EXCEPT ![h] = "stopping"]
    /\ listener' = [listener EXCEPT ![1] = NoHandle]
    /\ UNCHANGED <<exists, step, native, ending, panicked>>

\* Faulty: the flag is reset before LiStopConnection, and the mutex not kept.
FreeThenStopConnection(h) ==
    /\ phase[h] = "dropping"
    /\ guard = NoHandle
    /\ exists' = FALSE
    /\ phase' = [phase EXCEPT ![h] = "stopping"]
    /\ UNCHANGED <<guard, step, listener, native, ending, panicked>>

\* Drop takes the mutex and calls LiStopConnection.
StopConnection(h) ==
    /\ phase[h] = "dropping"
    /\ guard = NoHandle
    /\ guard' = h
    /\ phase' = [phase EXCEPT ![h] = "stopping"]
    /\ UNCHANGED <<exists, step, listener, native, ending, panicked>>

(***************************************************************************)
(* LiStopConnection returns once it has joined the library's threads; the  *)
(* detached one may not have begun yet, or be inside the listener.         *)
(***************************************************************************)
StopReturns(h) ==
    /\ phase[h] = "stopping"
    /\ \A i \in Slots : native[i] # "calling"
    /\ phase' = [phase EXCEPT ![h] = "clearing"]
    /\ step' = [step EXCEPT ![h] = 0]
    /\ native' = [i \in Slots |-> "off"]
    /\ UNCHANGED <<exists, guard, listener, ending, panicked>>

\* Faulty: clear_global takes the connection_exists mutex again.
ClearLocked(h) ==
    /\ phase[h] = "clearing"
    /\ guard = NoHandle
    /\ step[h] < 3
    /\ listener' = [listener EXCEPT ![step[h] + 1] = NoHandle]
    /\ step' = [step EXCEPT ![h] = @ + 1]
    /\ UNCHANGED <<exists, guard, phase, native, ending, panicked>>

\* clear_global of the next listener, which also waits for a running callback.
Clear(h) ==
    /\ phase[h] = "clearing"
    /\ step[h] < 3
    /\ SlotFree(step[h] + 1)
    /\ listener' = [listener EXCEPT ![step[h] + 1] = NoHandle]
    /\ step' = [step EXCEPT ![h] = @ + 1]
    /\ UNCHANGED <<exists, guard, phase, native, ending, panicked>>

\* The flag is reset and the mutex released.
Release(h) ==
    /\ phase[h] = "clearing"
    /\ step[h] = 3
    /\ exists' = FALSE
    /\ guard' = NoHandle
    /\ phase' = [phase EXCEPT ![h] = "closed"]
    /\ UNCHANGED <<step, listener, native, ending, panicked>>

-------------------------------------------------------------------------------
(* The C library (external). *)

\* A callback of one of its threads locks its slot, and panics when that is empty.
CallbackEnter(i) ==
    /\ native[i] = "idle"
    /\ SlotFree(i)
    /\ native' = [native EXCEPT ![i] = "calling"]
    /\ panicked' = (listener[i] = NoHandle)
    /\ UNCHANGED <<exists, guard, phase, step, listener, ending>>

CallbackReturn(i) ==
    /\ native[i] = "calling"
    /\ native' = [native EXCEPT ![i] = "idle"]
    /\ UNCHANGED <<exists, guard, phase, step, listener, ending, panicked>>

\* The decoder's cleanup callback clears its slot; the library calls it last.
Cleanup(i) ==
    /\ i \in Decoders
    /\ native[i] = "idle"
    /\ \E h \in Handles : phase[h] \in {"starting", "stopping"}
    /\ native' = [native EXCEPT ![i] = "off"]
    /\ listener' = [listener EXCEPT ![i] = NoHandle]
    /\ UNCHANGED <<exists, guard, phase, step, ending, panicked>>

\* An established connection is ended by the host, or lost: the library detaches
\* the thread that reports so, once per connection.
Terminate(h) ==
    /\ phase[h] = "running"
    /\ ending[h] = "none"
    /\ ending' = [ending EXCEPT ![h] = "detached"]
    /\ UNCHANGED <<exists, guard, phase, step, listener, native, panicked>>

\* connection_terminated, whenever that thread gets to run: it locks slot 1 and
\* calls whoever is there, or panics.
TerminatedEnter(h) ==
    /\ ending[h] = "detached"
    /\ SlotFree(1)
    /\ ending' = [ending EXCEPT ![h] = IF listener[1] = NoHandle THEN "panicked" ELSE "calling"]
    /\ UNCHANGED <<exists, guard, phase, step, listener, native, panicked>>

TerminatedReturn(h) ==
    /\ ending[h] = "calling"
    /\ ending' = [ending EXCEPT ![h] = "over"]
    /\ UNCHANGED <<exists, guard, phase, step, listener, native, panicked>>

-------------------------------------------------------------------------------
HandleStep(h) ==
    \/ Claim(h) \/ StringRefused(h) \/ Install(h) \/ StartConnection(h) \/ StartReturns(h)
    \/ Stop(h) \/ StopConnection(h) \/ StopReturns(h) \/ Clear(h) \/ Release(h)

NativeStep(i) == CallbackEnter(i) \/ CallbackReturn(i) \/ Cleanup(i)

EndStep(h) == Terminate(h) \/ TerminatedEnter(h) \/ TerminatedReturn(h)

Next ==
    /\ ~Aborted
    /\ \/ \E h \in Handles : HandleStep(h) \/ EndStep(h)
       \/ \E i \in Slots : NativeStep(i)

(***************************************************************************)
(* start and Drop are straight-line code that never waits for anything but *)
(* the mutexes, so its steps are fair (strongly where a mutex or the       *)
(* library's threads make the step wait); a listener returns, and the      *)
(* library shuts its decoder threads down when it stops or gives up.       *)
(* Nobody has to start a connection or to stop a running one, and when the *)
(* detached thread gets to run is left open.                               *)
(***************************************************************************)
Going(A) == ~Aborted /\ A

Fairness ==
    /\ \A h \in Handles :
          /\ WF_vars(Going(Install(h)))
          /\ WF_vars(Going(StartConnection(h)))
          /\ WF_vars(Going(StartReturns(h)))
          /\ SF_vars(Going(StopConnection(h)))
          /\ SF_vars(Going(StopReturns(h)))
          /\ WF_vars(Going(Clear(h)))
          /\ WF_vars(Going(Release(h)))
          /\ WF_vars(Going(TerminatedReturn(h)))
    /\ \A i \in Slots : WF_vars(Going(CallbackReturn(i)))
    /\ \A i \in Decoders : SF_vars(Going(Cleanup(i)))

Spec == Init /\ [][Next]_vars
FairSpec == Spec /\ Fairness

-------------------------------------------------------------------------------
(* Properties *)

Owning(h) == phase[h] \in OwningPhases

\* "start / stop Connection is not thread safe": two handles never own the
\* library at the same time, not even one starting while another is dropped.
OneOwner == \A g, h \in Handles : Owning(g) /\ Owning(h) => g = h

\* The flag is set exactly while some attempt owns the connection: a start that
\* fails in the library gives it back, and no drop resets it under another handle.
\* An attempt stranded on its strings (mod.rs:149-153) owns it for good: from then
\* on every start is refused.
FlagMeansOwned == exists <=> \E h \in Handles : Owning(h)

\* A callback of a thread that LiStopConnection joins never finds its slot empty,
\* and the slots such a thread may call hold the listener of the connection it is
\* about.  The detached thread reaches that listener too, unless it comes late: only
\* after LiStopConnection has returned can it panic on the empty slot (connection.rs:106
\* expects a listener), and only after the drop is over can it be another connection's
\* listener that is told.  The code does both, and that says when.
CallbacksReachOwner ==
    /\ ~panicked
    /\ \A i \in Slots : native[i] = "idle" =>
          \E h \in Handles : phase[h] \in NativePhases /\ listener[i] = h
    /\ \A h \in Handles :
          /\ ending[h] = "panicked" => phase[h] \in {"clearing", "closed"}
          /\ ending[h] = "calling" /\ phase[h] # "closed" => listener[1] = h

\* The slot is handed over clean: a handle closes with every listener cleared,
\* so a later start never finds the listener of an earlier connection.
NoStaleListener ==
    \A i \in Slots : listener[i] # NoHandle => Owning(listener[i])

\* The C library, which knows one connection only, is never used by two handles,
\* its callbacks reach the handle they are about unless they come after its drop, and
\* the flag that guards it tells the truth: the four above together.
ConnectionIsSafe == OneOwner /\ FlagMeansOwned /\ NoStaleListener /\ CallbacksReachOwner

\* A handle that is dropped, or whose start failed, ends up closed, and the
\* connection can then be started again, unless a late report of the connection's
\* end took the process away first.
DropCompletes ==
    \A h \in Handles : phase[h] = "dropping" ~> phase[h] = "closed" \/ Aborted

(***************************************************************************)
(* The wrapper implements the one-slot specification.                      *)
(***************************************************************************)
slotOwner ==
    IF \E h \in Handles : Owning(h)
    THEN CHOOSE h \in Handles : Owning(h)
    ELSE NoHandle

Slot == INSTANCE StreamSlot WITH
            owner <- slotOwner,
            refused <- {h \in Handles : phase[h] = "refused"},
            finished <- {h \in Handles : phase[h] = "closed"}

\* Every behaviour of start and Drop is a behaviour of the one-slot
\* specification: refused only while another has it, free only after release.
ImplementsSlot == Slot!Spec
===============================================================================
