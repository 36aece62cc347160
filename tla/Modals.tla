------------------------------- MODULE Modals -------------------------------
(***************************************************************************)
(* The one place for dialogs of the page: showModal of                     *)
(* web/component/modal/index.ts, the modals it mounts and the code that    *)
(* waits for their answers (web/stream.ts, api.ts, admin.ts).              *)
(*                                                                         *)
(* There is one abort controller, one overlay and one mounted modal.  A    *)
(* call of showModal aborts the modal before it, mounts its own and waits; *)
(* what comes after the wait runs as a microtask, after everything the     *)
(* current task still does, and acts on whatever is current by then.  A    *)
(* message takes an abort for an answer; a form, the information about the *)
(* connection and the dialog of a lost stream just stop listening.         *)
(***************************************************************************)
EXTENDS Sequences

CONSTANTS Modals,    \* calls of showModal
          Kind,      \* Kind[m]: "message", "form", "info" or "dialog"
          NoModal    \* null

VARIABLES
    modalAbort,  \* the call whose controller is the current one, or NoModal
    mounted,     \* previousModal
    visible,     \* the overlay is shown
    phase,       \* phase[m]: how far a call is
    microtasks   \* the calls whose wait is over, in the order in which they go on

vars == <<modalAbort, mounted, visible, phase, microtasks>>

TypeOK ==
    /\ modalAbort \in Modals \cup {NoModal}
    /\ mounted \in Modals \cup {NoModal}
    /\ visible \in BOOLEAN
    /\ phase \in [Modals -> {"new", "open", "deaf", "finished", "returned", "threw"}]
    /\ microtasks \in Seq(Modals)

Init ==
    /\ modalAbort = NoModal /\ mounted = NoModal /\ visible = FALSE
    /\ phase = [m \in Modals |-> "new"]
    /\ microtasks = <<>>

\* onFinish: a message finishes when it is aborted, a form only stops to listen.
FinishesOnAbort(m) == Kind[m] = "message"

\* The abort event of the current controller, whose modal may be over already.
Aborted ==
    IF modalAbort = NoModal \/ phase[modalAbort] # "open" THEN phase
    ELSE [phase EXCEPT ![modalAbort] = IF FinishesOnAbort(modalAbort) THEN "finished"
                                                                      ELSE "deaf"]

\* A message that is aborted goes on as soon as the current task is over.
Resumed ==
    IF modalAbort # NoModal /\ phase[modalAbort] = "open" /\ FinishesOnAbort(modalAbort)
    THEN Append(microtasks, modalAbort) ELSE microtasks

\* showModal(m) up to its wait
Show(m) ==
    /\ microtasks = <<>>
    /\ phase[m] = "new"
    /\ phase' = [Aborted EXCEPT ![m] = "open"]
    /\ microtasks' = Resumed
    /\ modalAbort' = m /\ mounted' = m /\ visible' = TRUE

\* showModal(null): the button for the full screen closes what is open.
Close ==
    /\ microtasks = <<>>
    /\ modalAbort # NoModal
    /\ phase' = Aborted
    /\ microtasks' = Resumed
    /\ modalAbort' = NoModal /\ visible' = FALSE
    /\ UNCHANGED mounted

\* The user answers the modal on the screen, or what it tells of has come about: a message
\* may have a signal, the information ends with the connection.
Answer(m) ==
    /\ microtasks = <<>>
    /\ phase[m] = "open"
    /\ Kind[m] \in {"form", "dialog"} => visible /\ mounted = m
    /\ phase' = [phase EXCEPT ![m] = "finished"]
    /\ microtasks' = Append(microtasks, m)
    /\ UNCHANGED <<modalAbort, mounted, visible>>

\* showModal after its wait: the overlay is hidden and the current controller is aborted,
\* whoever it belongs to by now; without one modalAbort.abort() throws.
GoOn ==
    /\ microtasks # <<>>
    /\ visible' = FALSE
    /\ LET m == Head(microtasks)
       IN IF modalAbort = NoModal
          THEN /\ phase' = [phase EXCEPT ![m] = "threw"]
               /\ microtasks' = Tail(microtasks)
          ELSE /\ phase' = [Aborted EXCEPT ![m] = "returned"]
               /\ microtasks' = Tail(Resumed)
    /\ modalAbort' = NoModal
    /\ UNCHANGED mounted

Next ==
    \/ \E m \in Modals : Show(m) \/ Answer(m)
    \/ Close \/ GoOn

Spec == Init /\ [][Next]_vars

-----------------------------------------------------------------------------
(* Properties *)

\* Between two tasks the overlay shows a modal exactly when somebody waits for its answer:
\* a dialog on the screen can be answered, and no answer is waited for that is not on it.
\* It does not say that a dialog stays on the screen until it is answered: one that takes the
\* place of a message is closed by the call of that message (StuckAndLostAsks of module
\* LeavingPage says what becomes of a page that is lost meanwhile).
ShownIsAwaited ==
    microtasks = <<>> =>
        /\ visible <=> modalAbort # NoModal
        /\ visible => mounted = modalAbort /\ phase[mounted] = "open"
        /\ \A m \in Modals : phase[m] = "open" => m = modalAbort
=============================================================================
