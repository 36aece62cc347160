-------------------------- MODULE JsonStorageProofs --------------------------
(***************************************************************************)
(* Proofs about JsonStorage: no change of the maps is forgotten, the file  *)
(* is consistent although it is a copy made entry by entry, and it never   *)
(* goes back to older content.                                             *)
(***************************************************************************)
EXTENDS JsonStorage, TLAPS

\* DirtyIsAnnounced without the exception for a write that failed before the
\* writer started again: what it copies now is what the maps hold.
Announced ==
    up /\ (~failed \/ writer # "idle") =>
        \/ token \/ \E r \in Requests : request[r] = "changed"
        \/ /\ \A u \in Users : ComingUsers(u) = users[u]
           /\ \A h \in Hosts : ComingOwner(h) = owner[h]

\* A host in memory belongs to a user that is known.
OwnerKnown == \A h \in Hosts : owner[h] # NoUser => users[owner[h]] # 0

\* So it does in the copy: the owner has been copied, or is still to be copied.
\* The owner of a host still to be copied may have been copied already, but not
\* before it was known, since nobody is added meanwhile.
CopyConsistent ==
    up /\ writer # "idle" =>
        /\ \A h \in Hosts :
             \/ h \in left
             \/ copyOwner[h] = NoUser
             \/ ComingUsers(copyOwner[h]) # 0
        /\ \A u \in Users : writer = "copy" /\ users[u] # 0 => ComingUsers(u) # 0

\* What will be written is at least as new as the file and at most as new as
\* the maps; only while entries are copied may there be some left.
CopyBetween ==
    up =>
        /\ \A u \in Users : fileUsers[u] <= ComingUsers(u) /\ ComingUsers(u) <= users[u]
        /\ writer \in {"open", "write"} => left = {}

-------------------------------------------------------------------------------
(* The types *)

LEMMA TypeStep == TypeOK /\ [Next]_vars => TypeOK'
<1> SUFFICES ASSUME TypeOK, [Next]_vars
             PROVE  TypeOK'
    OBVIOUS
<1> USE StorageAssumption DEF TypeOK, Versions, Removed, Owners, Entries, memory, copy, file
<1>1. ASSUME NEW r \in Requests, NEW u \in Users, AddUser(r, u)
      PROVE  TypeOK'
    BY <1>1 DEF AddUser, ChangeUser, Unlocked
<1>2. ASSUME NEW r \in Requests, NEW u \in Users, ModifyUser(r, u)
      PROVE  TypeOK'
    BY <1>2 DEF ModifyUser, ChangeUser
<1>3. ASSUME NEW r \in Requests, NEW u \in Users, RemoveUser(r, u)
      PROVE  TypeOK'
    BY <1>3 DEF RemoveUser, ChangeUser, Unlocked, Exists
<1>4. ASSUME NEW r \in Requests, ForceWrite(r)
      PROVE  TypeOK'
    BY <1>4 DEF ForceWrite
<1>5. ASSUME NEW h \in Hosts, NEW u \in Users, ModifyHost(h, u)
      PROVE  TypeOK'
    BY <1>5 DEF ModifyHost, Exists
<1>6. CASE Receive
    BY <1>6 DEF Receive
<1>7. ASSUME NEW e \in Entries, CopyEntry(e)
      PROVE  TypeOK'
    BY <1>7 DEF CopyEntry
<1>8. CASE Copied
    BY <1>8 DEF Copied
<1>9. CASE Open
    BY <1>9 DEF Open
<1>10. CASE Written
    BY <1>10 DEF Written
<1>11. CASE WriteFails
    BY <1>11 DEF WriteFails
<1>12. CASE Crash
    BY <1>12 DEF Crash
<1>13. CASE Restart
    BY <1>13 DEF Restart
<1>14. CASE UNCHANGED vars
    BY <1>14 DEF vars
<1> QED
    BY <1>1, <1>2, <1>3, <1>4, <1>5, <1>6, <1>7, <1>8, <1>9,
       <1>10, <1>11, <1>12, <1>13, <1>14
    DEF Next, Operation, FileWriter

-------------------------------------------------------------------------------
(* Nothing is forgotten.  A change leaves its request "changed", or a token    *)
(* behind; what the writer takes the token for it copies after that.           *)

LEMMA AnnouncedStep == TypeOK /\ Announced /\ [Next]_vars => Announced'
<1> SUFFICES ASSUME TypeOK, Announced, [Next]_vars
             PROVE  Announced'
    OBVIOUS
<1> USE StorageAssumption
    DEF TypeOK, Announced, ComingUsers, ComingOwner, Entries, memory, copy, file
<1>1. ASSUME NEW r \in Requests, NEW u \in Users, AddUser(r, u)
      PROVE  Announced'
    BY <1>1 DEF AddUser, ChangeUser, Unlocked
<1>2. ASSUME NEW r \in Requests, NEW u \in Users, ModifyUser(r, u)
      PROVE  Announced'
    BY <1>2 DEF ModifyUser, ChangeUser
<1>3. ASSUME NEW r \in Requests, NEW u \in Users, RemoveUser(r, u)
      PROVE  Announced'
    BY <1>3 DEF RemoveUser, ChangeUser, Unlocked, Exists
<1>4. ASSUME NEW r \in Requests, ForceWrite(r)
      PROVE  Announced'
    BY <1>4 DEF ForceWrite
<1>5. ASSUME NEW h \in Hosts, NEW u \in Users, ModifyHost(h, u)
      PROVE  Announced'
    BY <1>5 DEF ModifyHost, Exists
<1>6. CASE Receive
    BY <1>6 DEF Receive
<1>7. ASSUME NEW e \in Entries, CopyEntry(e)
      PROVE  Announced'
    BY <1>7 DEF CopyEntry
<1>8. CASE Copied
    BY <1>8 DEF Copied
<1>9. CASE Open
    BY <1>9 DEF Open
<1>10. CASE Written
    BY <1>10 DEF Written
<1>11. CASE WriteFails
    BY <1>11 DEF WriteFails
<1>12. CASE Crash
    BY <1>12 DEF Crash
<1>13. CASE Restart
    BY <1>13 DEF Restart
<1>14. CASE UNCHANGED vars
    BY <1>14 DEF vars
<1> QED
    BY <1>1, <1>2, <1>3, <1>4, <1>5, <1>6, <1>7, <1>8, <1>9,
       <1>10, <1>11, <1>12, <1>13, <1>14
    DEF Next, Operation, FileWriter

-------------------------------------------------------------------------------
(* A copy made entry by entry is consistent, and newer than the file.          *)

CopyInv == OwnerKnown /\ FileConsistent /\ CopyConsistent /\ CopyBetween

LEMMA CopyStep == TypeOK /\ CopyInv /\ [Next]_vars => CopyInv'
<1> SUFFICES ASSUME TypeOK, CopyInv, [Next]_vars
             PROVE  CopyInv'
    OBVIOUS
<1>0. TypeOK'
    BY TypeStep
<1> USE <1>0, StorageAssumption
    DEF TypeOK, CopyInv, OwnerKnown, FileConsistent, CopyConsistent, CopyBetween,
        ComingUsers, Versions, Removed, Owners, Entries, memory, copy, file
<1>1. ASSUME NEW r \in Requests, NEW u \in Users, AddUser(r, u)
      PROVE  CopyInv'
    BY <1>1 DEF AddUser, ChangeUser, Unlocked
<1>2. ASSUME NEW r \in Requests, NEW u \in Users, ModifyUser(r, u)
      PROVE  CopyInv'
    BY <1>2 DEF ModifyUser, ChangeUser
<1>3. ASSUME NEW r \in Requests, NEW u \in Users, RemoveUser(r, u)
      PROVE  CopyInv'
    BY <1>3 DEF RemoveUser, ChangeUser, Unlocked, Exists
<1>4. ASSUME NEW r \in Requests, ForceWrite(r)
      PROVE  CopyInv'
    BY <1>4 DEF ForceWrite
<1>5. ASSUME NEW h \in Hosts, NEW u \in Users, ModifyHost(h, u)
      PROVE  CopyInv'
    BY <1>5 DEF ModifyHost, Exists
<1>6. CASE Receive
    BY <1>6 DEF Receive
<1>7. ASSUME NEW e \in Entries, CopyEntry(e)
      PROVE  CopyInv'
    BY <1>7 DEF CopyEntry
<1>8. CASE Copied
    BY <1>8 DEF Copied
<1>9. CASE Open
    BY <1>9 DEF Open
<1>10. CASE Written
    BY <1>10 DEF Written
<1>11. CASE WriteFails
    BY <1>11 DEF WriteFails
<1>12. CASE Crash
    BY <1>12 DEF Crash
<1>13. CASE Restart
    BY <1>13 DEF Restart
<1>14. CASE UNCHANGED vars
    BY <1>14 DEF vars
<1> QED
    BY <1>1, <1>2, <1>3, <1>4, <1>5, <1>6, <1>7, <1>8, <1>9,
       <1>10, <1>11, <1>12, <1>13, <1>14
    DEF Next, Operation, FileWriter

-------------------------------------------------------------------------------
IInv == TypeOK /\ Announced /\ CopyInv

LEMMA InitIInv == Init => IInv
<1> SUFFICES ASSUME Init
             PROVE  IInv
    OBVIOUS
<1> USE StorageAssumption DEF Init
<1>1. TypeOK
  <2>1. 0 \in Versions /\ NoUser \in Owners
      BY DEF Versions, Removed, Owners
  <2>2. users \in [Users -> Versions] /\ owner \in [Hosts -> Owners]
      BY <2>1
  <2>3. request \in [Requests -> {"idle", "changed"}]
      OBVIOUS
  <2> QED
      BY <2>2, <2>3 DEF TypeOK
<1>2. Announced
    BY DEF Announced, ComingUsers, ComingOwner
<1>3. CopyInv
  <2>1. OwnerKnown /\ FileConsistent /\ CopyConsistent
      BY DEF OwnerKnown, FileConsistent, CopyConsistent
  <2>2. CopyBetween
      BY DEF CopyBetween, ComingUsers
  <2> QED
      BY <2>1, <2>2 DEF CopyInv
<1> QED
    BY <1>1, <1>2, <1>3 DEF IInv

LEMMA InvariantIInv == Spec => []IInv
<1>1. IInv /\ [Next]_vars => IInv'
    BY TypeStep, AnnouncedStep, CopyStep DEF IInv
<1> QED
    BY InitIInv, <1>1, PTL DEF Spec

\* No change of the maps is forgotten: force_write announces what the file will
\* not hold, or a request is about to, unless the last write failed.
THEOREM NothingForgotten == Spec => []DirtyIsAnnounced
<1>1. IInv => DirtyIsAnnounced
    BY DEF IInv, Announced, DirtyIsAnnounced
<1> QED
    BY InvariantIInv, <1>1, PTL

\* The file names no owner it does not know, whatever changes during the copy.
THEOREM FileAlwaysConsistent == Spec => []FileConsistent
<1>1. IInv => FileConsistent
    BY DEF IInv, CopyInv
<1> QED
    BY InvariantIInv, <1>1, PTL

\* No step overwrites the file with older content, crashes and restarts included.
THEOREM FileOnlyAdvances == Spec => FileNeverGoesBack
<1>1. IInv /\ [Next]_vars => [\A u \in Users : fileUsers'[u] >= fileUsers[u]]_vars
  <2> SUFFICES ASSUME IInv, Next
               PROVE  \A u \in Users : fileUsers'[u] >= fileUsers[u]
      OBVIOUS
  <2> USE DEF IInv, TypeOK, Versions, Removed
  <2>1. CASE Written
      BY <2>1, StorageAssumption DEF Written, CopyInv, CopyBetween, ComingUsers
  <2>2. CASE ~Written
    <3>1. fileUsers' = fileUsers
        BY <2>2 DEF Next, Operation, FileWriter, AddUser, ModifyUser, RemoveUser, ChangeUser,
           ForceWrite, ModifyHost, Receive, CopyEntry, Copied, Open, WriteFails, Crash,
           Restart, memory, copy, file
    <3> QED
        BY <3>1, StorageAssumption
  <2> QED
      BY <2>1, <2>2
<1> QED
    BY InvariantIInv, <1>1, PTL DEF Spec, FileNeverGoesBack

\* The storage and its file never fall apart: types, notices and content together.
THEOREM FileAlwaysKeepsUp == Spec => []FileKeepsUp
<1>1. IInv /\ DirtyIsAnnounced => FileKeepsUp
    BY DEF IInv, CopyInv, FileKeepsUp
<1> QED
    BY InvariantIInv, NothingForgotten, <1>1, PTL
===============================================================================
