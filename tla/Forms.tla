-------------------------------- MODULE Forms --------------------------------
(***************************************************************************)
(* The forms of the pages: the dialogs that log in, add a user and send a  *)
(* key (FormModal of web/component/modal/form.ts, modal/login.ts,          *)
(* user/add_modal.ts, SendKeycodeModal of stream.ts) and the page of one   *)
(* user (user/detailed_page.ts), built from InputComponent and             *)
(* SelectComponent of component/input.ts.                                  *)
(*                                                                         *)
(* An input may have a box that enables it, and what it stands for without *)
(* is its placeholder.  A browser changes the value as the user types and  *)
(* tells of it with "change" when the user leaves the input, at the latest *)
(* when the form is submitted.  A file that is chosen is read in the       *)
(* background; reads may end in another order.                             *)
(*                                                                         *)
(* Left out: sliders and number inputs, which only the settings have.      *)
(***************************************************************************)
EXTENDS Naturals, FiniteSets, Sequences

CONSTANTS Texts, Empty,   \* what can be typed, and ""
          Unchanged,      \* null: the password stays as it is
          MaxReads        \* bound: files that are being read

VARIABLES
    form,      \* the form on the page, or "none"
    inputs,    \* its inputs
    unfired,   \* the inputs whose change the browser has not told of
    reading,   \* what is in the files that are being read
    sent       \* the answer of the form; what is not in it stays as it is

vars == <<form, inputs, unfired, reading, sent>>

Roles == {"User", "Admin"}
KeyNames == {"VK_A", "VK_B"}
NoKey == "NaN"
Values == Texts \cup {Empty, Unchanged, NoKey} \cup Roles \cup KeyNames

Fields == [none    |-> {},
           login   |-> {"name", "password"},
           addUser |-> {"name", "password", "role", "client_unique_id"},
           user    |-> {"name", "password", "role", "client_unique_id"},
           keycode |-> {"key"}]

Input == [value : Values, disabled : BOOLEAN, hasBox : BOOLEAN, checked : BOOLEAN,
          placeholder : Values]

TypeOK ==
    /\ form \in DOMAIN Fields
    /\ inputs \in [Fields[form] -> Input]
    /\ unfired \subseteq Fields[form]
    /\ \A i \in DOMAIN reading : reading[i] \in Texts
    /\ \A f \in DOMAIN sent : f \in Fields[form] /\ sent[f] \in Values

\* setEnabled
SetEnabled(i, enabled) == [i EXCEPT !.checked = i.hasBox /\ enabled, !.disabled = ~enabled]

\* The constructor of InputComponent: an input with a box begins disabled.
NewInput(value, hasBox, placeholder) ==
    LET input == [value |-> value, disabled |-> FALSE, hasBox |-> hasBox, checked |-> FALSE,
                  placeholder |-> placeholder]
    IN IF hasBox THEN SetEnabled(input, FALSE) ELSE input

Plain(value) == NewInput(value, FALSE, Empty)

\* reset of InputComponent.
ResetInput(i) == [i EXCEPT !.value = Empty]

\* SelectComponent: a select has the value of its option, and goes back to the one that was
\* selected before; a datalist is a text, whose option is looked up by its name.
NewSelect(preSelectedOption) == NewInput(preSelectedOption, FALSE, preSelectedOption)
ResetSelect(i) == [i EXCEPT !.value = i.placeholder]
Chosen(text) == IF text \in KeyNames THEN text ELSE NoKey

\* createSelectRoleInput
SelectRoleInput(preselected) == NewSelect(preselected)

NewLogin == [name |-> Plain(Empty), password |-> Plain(Empty)]

NewAddUser == [name |-> Plain(Empty), password |-> Plain(Empty),
               role |-> SelectRoleInput("User"),
               client_unique_id |-> NewInput(Empty, TRUE, Empty)]

\* reset of the forms, when they are mounted: the id of the client is not reset.
ResetLogin(new) == [f \in DOMAIN new |-> ResetInput(new[f])]
ResetAddUser(new) ==
    [new EXCEPT !.name = ResetInput(@), !.password = ResetInput(@), !.role = ResetSelect(@)]

\* DetailedUserPage of a user: the name cannot be changed, the password need not.
NewUserPage(user) ==
    [name |-> SetEnabled(Plain(user.name), FALSE),
     password |-> SetEnabled(NewInput(Empty, TRUE, Unchanged), FALSE),
     role |-> SelectRoleInput(user.role),
     client_unique_id |-> Plain(user.id)]

SendKeycode == [key |-> ResetInput(Plain(Empty))]

Becomes(kind, new) ==
    /\ form' = kind
    /\ inputs' = new
    /\ unfired' = {} /\ reading' = <<>> /\ sent' = <<>>

Init ==
    /\ form = "none" /\ inputs = <<>>
    /\ unfired = {} /\ reading = <<>> /\ sent = <<>>

\* A form is built for every use of it.
OpenLogin == Becomes("login", ResetLogin(NewLogin))
OpenAddUser == Becomes("addUser", ResetAddUser(NewAddUser))
OpenUserPage ==
    \E name, id \in Texts, role \in Roles :
        Becomes("user", NewUserPage([name |-> name, id |-> id, role |-> role]))
OpenSendKeycode == Becomes("keycode", SendKeycode)

Choices(f) == CASE f = "role" -> Roles
                [] f = "key" -> KeyNames \cup Texts
                [] OTHER -> Texts \cup {Empty}

\* The user types or chooses.
Type(f, v) ==
    /\ ~inputs[f].disabled
    /\ inputs' = [inputs EXCEPT ![f].value = v]
    /\ unfired' = unfired \cup {f}
    /\ UNCHANGED <<form, reading, sent>>

\* Faulty: the proposal is not brought up to date.
UpdateNothing(changed) == changed

\* updateClientUniqueId, for a new user whose name was changed.
UpdateClientUniqueId(changed) ==
    IF form = "addUser" THEN [changed EXCEPT !.client_unique_id.placeholder = changed.name.value]
                        ELSE changed

\* "change" of the input.
Change(f) ==
    /\ f \in unfired
    /\ unfired' = unfired \ {f}
    /\ inputs' = IF f = "name" THEN UpdateClientUniqueId(inputs) ELSE inputs
    /\ UNCHANGED <<form, reading, sent>>

\* "change" of the box that enables an input.
Tick(f) ==
    /\ inputs[f].hasBox
    /\ inputs' = [inputs EXCEPT ![f] = SetEnabled(@, ~inputs[f].checked)]
    /\ UNCHANGED <<form, unfired, reading, sent>>

\* setFilePassword up to the wait for the text of the file.
ChooseFile(text) ==
    /\ form = "login" /\ Len(reading) < MaxReads
    /\ reading' = Append(reading, text)
    /\ UNCHANGED <<form, inputs, unfired, sent>>

\* ... and after it; the password of the form is replaced, whatever it is by then.
FileRead(i) ==
    /\ inputs' = [inputs EXCEPT !.password.value = reading[i]]
    /\ reading' = SubSeq(reading, 1, i - 1) \o SubSeq(reading, i + 1, Len(reading))
    /\ UNCHANGED <<form, unfired, sent>>

\* "required": the browser asks for these first, unless they are disabled.
Complete ==
    \A f \in Fields[form] \ {"role", "key"} :
        (f = "client_unique_id" => form = "addUser") /\ ~inputs[f].disabled
            => inputs[f].value # Empty

\* submit of ApiUserPasswordPrompt, AddUserModal and SendKeycodeModal, and apply.
LoginAnswer == [name |-> inputs.name.value, password |-> inputs.password.value]

AddUserAnswer ==
    [name |-> inputs.name.value, password |-> inputs.password.value,
     role |-> inputs.role.value,
     client_unique_id |-> IF ~inputs.client_unique_id.disabled
                          THEN inputs.client_unique_id.value ELSE inputs.name.value]

ApplyRequest ==
    [password |-> IF ~inputs.password.disabled THEN inputs.password.value ELSE Unchanged,
     role |-> inputs.role.value,
     client_unique_id |-> inputs.client_unique_id.value]

KeycodeAnswer == [key |-> Chosen(inputs.key.value)]

\* "submit" of a form.  A dialog is over with it; the page of a user stays.
Submit ==
    /\ form # "none" /\ unfired = {} /\ Complete
    /\ form # "user" => sent = <<>>
    /\ sent' = CASE form = "login" -> LoginAnswer
                 [] form = "addUser" -> AddUserAnswer
                 [] form = "user" -> ApplyRequest
                 [] form = "keycode" -> KeycodeAnswer
    /\ UNCHANGED <<form, inputs, unfired, reading>>

\* "Cancel", and every way out of a dialog.
Leave ==
    /\ form # "none"
    /\ Becomes("none", <<>>)

Edit ==
    /\ form = "user" \/ sent = <<>>
    /\ \/ \E f \in DOMAIN inputs : Change(f) \/ Tick(f) \/ \E v \in Choices(f) : Type(f, v)
       \/ \E t \in Texts : ChooseFile(t)
       \/ \E i \in DOMAIN reading : FileRead(i)

Next ==
    \/ form = "none" /\ (OpenLogin \/ OpenAddUser \/ OpenUserPage \/ OpenSendKeycode)
    \/ Edit \/ Submit \/ Leave

Spec == Init /\ [][Next]_vars

-----------------------------------------------------------------------------
(* Properties *)

\* What the user sees in an input: its text, or what it stands for while its box is empty.
Shown(i) == IF i.hasBox /\ ~i.checked THEN i.placeholder ELSE i.value

\* What is sent is what the form shows when it is submitted: an id that was proposed is the
\* one the user gets, an optional password changes only if its box is ticked, and a key is
\* the one that was named.
SentAsShown ==
    [][sent' # sent => \A f \in DOMAIN sent' :
        sent'[f] = IF f = "key" THEN Chosen(inputs.key.value) ELSE Shown(inputs[f])]_vars
=============================================================================
