----------------------------- MODULE JsonStorage -----------------------------
(***************************************************************************)
(* How the web server keeps its users and hosts: the maps in memory, the   *)
(* file, and the one task that writes the file (storage/json/mod.rs).      *)
(*                                                                         *)
(* An operation changes a map and then calls force_write, which puts a     *)
(* token into a channel of capacity one and does not care whether one is   *)
(* there already.  The writer takes the token, copies the maps entry by    *)
(* entry and overwrites the file.  While it copies it holds read locks on  *)
(* both maps, so entries can be modified but neither added nor removed.    *)
(*                                                                         *)
(* The content of a user is a version number, so that old and new content  *)
(* can be told apart; identifiers are random and taken to be fresh.  Of a  *)
(* host only the owner is kept.                                            *)
(***************************************************************************)
EXTENDS Naturals

CONSTANTS Users, Hosts,  \* identifiers
          NoUser,        \* the owner of a global host
          Requests,      \* requests the server works on at a time
          MaxVersion     \* bound: how often a user is changed, the creation included

ASSUME StorageAssumption == MaxVersion \in Nat \ {0} /\ NoUser \notin Users

VARIABLES
    up,         \* the process runs
    users,      \* users[u]: version of user u, 0 before it is added
    owner,      \* owner[h]: owner of host h
    request,    \* request[r]: "changed" between a change and its force_write
    token,      \* the channel holds ()
    writer,     \* file_writer: "idle", "copy", "open", "write"
    left,       \* entries still to be copied
    copyUsers,  \* the users copied so far
    copyOwner,  \* the hosts copied so far
    fileUsers,  \* the users in the file
    fileOwner,  \* the hosts in the file
    torn,       \* the file has been truncated but not been written
    failed      \* the last attempt to write the file failed

memory == <<users, owner>>
copy == <<left, copyUsers, copyOwner>>
file == <<fileUsers, fileOwner, torn, failed>>
vars == <<up, memory, request, token, writer, copy, file>>

\* A removed user has the last version, one that no modification gives.
Removed == MaxVersion + 1
Versions == 0..Removed
Owners == Users \cup {NoUser}
Entries == Users \cup Hosts

TypeOK ==
    /\ up \in BOOLEAN
    /\ users \in [Users -> Versions] /\ owner \in [Hosts -> Owners]
    /\ request \in [Requests -> {"idle", "changed"}]
    /\ token \in BOOLEAN
    /\ writer \in {"idle", "copy", "open", "write"}
    /\ left \subseteq Entries
    /\ copyUsers \in [Users -> Versions] /\ copyOwner \in [Hosts -> Owners]
    /\ fileUsers \in [Users -> Versions] /\ fileOwner \in [Hosts -> Owners]
    /\ torn \in BOOLEAN /\ failed \in BOOLEAN

\* No file yet; the hosts were there before the first user.
Init ==
    /\ up = TRUE
    /\ users = [u \in Users |-> 0] /\ owner = [h \in Hosts |-> NoUser]
    /\ request = [r \in Requests |-> "idle"]
    /\ token = FALSE
    /\ writer = "idle"
    /\ left = {}
    /\ copyUsers = users /\ copyOwner = owner
    /\ fileUsers = users /\ fileOwner = owner
    /\ torn = FALSE /\ failed = FALSE

-------------------------------------------------------------------------------
(* The operations *)

Exists(u) == users[u] \in 1..MaxVersion

\* The write lock of a map is not to be had while the writer copies.
Unlocked == writer # "copy"

\* The operations on users leave force_write for after the locks are dropped.
ChangeUser(r, u, version) ==
    /\ up
    /\ request[r] = "idle"
    /\ users' = [users EXCEPT ![u] = version]
    /\ request' = [request EXCEPT ![r] = "changed"]
    /\ UNCHANGED <<up, owner, token, writer, copy, file>>

\* Faulty: the map is not locked.
AddUserUnlocked(r, u) == users[u] = 0 /\ ChangeUser(r, u, 1)

AddUser(r, u) == users[u] = 0 /\ Unlocked /\ ChangeUser(r, u, 1)

ModifyUser(r, u) == users[u] \in 1..MaxVersion - 1 /\ ChangeUser(r, u, users[u] + 1)

RemoveUser(r, u) == Exists(u) /\ Unlocked /\ ChangeUser(r, u, Removed)

\* force_write: try_send, whether the channel is full or not.
ForceWrite(r) ==
    /\ up
    /\ request[r] = "changed"
    /\ request' = [request EXCEPT ![r] = "idle"]
    /\ token' = TRUE
    /\ UNCHANGED <<up, memory, writer, copy, file>>

\* modify_host calls force_write before it unlocks.  A host is given to a user
\* that exists; try_add_first_login does so right after it added the user.
ModifyHost(h, u) ==
    /\ up
    /\ Exists(u)
    /\ owner' = [owner EXCEPT ![h] = u]
    /\ token' = TRUE
    /\ UNCHANGED <<up, users, request, writer, copy, file>>

-------------------------------------------------------------------------------
(* file_writer and store *)

Receive ==
    /\ up
    /\ writer = "idle" /\ token
    /\ token' = FALSE
    /\ writer' = "copy"
    /\ left' = Entries
    /\ UNCHANGED <<up, memory, request, copyUsers, copyOwner, file>>

CopyEntry(e) ==
    /\ up
    /\ writer = "copy" /\ e \in left
    /\ left' = left \ {e}
    /\ copyUsers' = IF e \in Users THEN [copyUsers EXCEPT ![e] = users[e]] ELSE copyUsers
    /\ copyOwner' = IF e \in Hosts THEN [copyOwner EXCEPT ![e] = owner[e]] ELSE copyOwner
    /\ UNCHANGED <<up, memory, request, token, writer, file>>

Copied ==
    /\ up
    /\ writer = "copy" /\ left = {}
    /\ writer' = "open"
    /\ UNCHANGED <<up, memory, request, token, copy, file>>

\* fs::write truncates the file, or cannot even open it.
Open ==
    /\ up
    /\ writer = "open"
    /\ \/ writer' = "write" /\ torn' = TRUE /\ UNCHANGED failed
       \/ writer' = "idle" /\ failed' = TRUE /\ UNCHANGED torn
    /\ UNCHANGED <<up, memory, request, token, copy, fileUsers, fileOwner>>

\* Faulty: requests made while the file was written are dropped.
WrittenAndDrained ==
    /\ up
    /\ writer = "write"
    /\ fileUsers' = copyUsers /\ fileOwner' = copyOwner
    /\ torn' = FALSE /\ failed' = FALSE
    /\ writer' = "idle"
    /\ token' = FALSE
    /\ UNCHANGED <<up, memory, request, copy>>

Written ==
    /\ up
    /\ writer = "write"
    /\ fileUsers' = copyUsers /\ fileOwner' = copyOwner
    /\ torn' = FALSE /\ failed' = FALSE
    /\ writer' = "idle"
    /\ UNCHANGED <<up, memory, request, token, copy>>

\* An error is logged; nothing tries again.
WriteFails ==
    /\ up
    /\ writer = "write"
    /\ writer' = "idle"
    /\ failed' = TRUE
    /\ UNCHANGED <<up, memory, request, token, copy, fileUsers, fileOwner, torn>>

-------------------------------------------------------------------------------
Crash ==
    /\ up
    /\ up' = FALSE
    /\ UNCHANGED <<memory, request, token, writer, copy, file>>

\* Faulty: a file that cannot be parsed counts as an empty one.
RestartEmpty ==
    /\ ~up
    /\ up' = TRUE
    /\ users' = IF torn THEN [u \in Users |-> 0] ELSE fileUsers
    /\ owner' = IF torn THEN [h \in Hosts |-> NoUser] ELSE fileOwner
    /\ request' = [r \in Requests |-> "idle"]
    /\ token' = FALSE
    /\ writer' = "idle"
    /\ left' = {}
    /\ failed' = FALSE
    /\ UNCHANGED <<copyUsers, copyOwner, fileUsers, fileOwner, torn>>

\* load: a file that cannot be parsed keeps the server from starting.
Restart ==
    /\ ~up
    /\ ~torn
    /\ up' = TRUE
    /\ users' = fileUsers /\ owner' = fileOwner
    /\ request' = [r \in Requests |-> "idle"]
    /\ token' = FALSE
    /\ writer' = "idle"
    /\ left' = {}
    /\ failed' = FALSE
    /\ UNCHANGED <<copyUsers, copyOwner, fileUsers, fileOwner, torn>>

Operation(r) ==
    \/ \E u \in Users : AddUser(r, u) \/ ModifyUser(r, u) \/ RemoveUser(r, u)
    \/ ForceWrite(r)

FileWriter ==
    Receive \/ (\E e \in Entries : CopyEntry(e)) \/ Copied \/ Open \/ Written \/ WriteFails

Next ==
    \/ \E r \in Requests : Operation(r)
    \/ \E h \in Hosts, u \in Users : ModifyHost(h, u)
    \/ FileWriter
    \/ Crash \/ Restart

Spec == Init /\ [][Next]_vars

\* The runtime polls the writer and lets a request go on to its force_write.
Fairness == WF_vars(FileWriter) /\ \A r \in Requests : WF_vars(ForceWrite(r))

FairSpec == Spec /\ Fairness

-------------------------------------------------------------------------------
(* Properties *)

\* What the file will hold once the writer has done what it is doing.
ComingUsers(u) ==
    IF writer = "idle" THEN fileUsers[u]
    ELSE IF writer = "copy" /\ u \in left THEN users[u] ELSE copyUsers[u]
ComingOwner(h) ==
    IF writer = "idle" THEN fileOwner[h]
    ELSE IF writer = "copy" /\ h \in left THEN owner[h] ELSE copyOwner[h]

\* No change is forgotten: what the file will not hold has been announced to the
\* writer, or the request that made the change is about to do so, also when the
\* change falls into the middle of a copy.  Only a failed write leaves a change
\* behind, until the next one.
DirtyIsAnnounced ==
    up /\ ~failed =>
        \/ token \/ \E r \in Requests : request[r] = "changed"
        \/ /\ \A u \in Users : ComingUsers(u) = users[u]
           /\ \A h \in Hosts : ComingOwner(h) = owner[h]

\* Although entries change while they are copied, the file never shows a host
\* given to a user it does not know (one that was removed since is known).
FileConsistent ==
    \A h \in Hosts : fileOwner[h] # NoUser => fileUsers[fileOwner[h]] # 0

\* The file keeps up with the storage: everything keeps its type, a change that
\* is not in the file has a notice or a write behind it, and what is in the file
\* belongs together.
FileKeepsUp == TypeOK /\ DirtyIsAnnounced /\ FileConsistent

\* The file is never overwritten with older content.
FileNeverGoesBack ==
    [][\A u \in Users : fileUsers'[u] >= fileUsers[u]]_vars

\* Every change reaches the file, unless the process dies or the disk fails.
EventuallySaved ==
    \A u \in Users : \A v \in 1..Removed :
        up /\ users[u] >= v ~> fileUsers[u] >= v \/ ~up \/ failed
===============================================================================
