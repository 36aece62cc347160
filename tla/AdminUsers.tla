------------------------------ MODULE AdminUsers ------------------------------
(***************************************************************************)
(* The users on the page of an administrator: ListComponent                *)
(* (web/component/list.ts), FetchListComponent (fetch_list.ts), UserList   *)
(* and User (component/user/), the page of one user (detailed_page.ts) and *)
(* AdminApp (web/admin.ts).                                                *)
(*                                                                         *)
(* The list is asked for once.  What the administrator adds and deletes is *)
(* entered in it by the page itself, when the server has answered or, for  *)
(* a deletion from the list, before it has.  Answers come in any order.    *)
(*                                                                         *)
(* A component is the user it shows.  Left out: names but for the search,  *)
(* passwords and roles, and the classes that animate an element.           *)
(***************************************************************************)
EXTENDS SequencesExt

CONSTANTS Users, Initial,  \* the users there can be, and those there are at first
          Nobody           \* null

VARIABLES
    server,          \* the users the server has
    fetched,         \* the answer of forceFetch: "asked", "onItsWay" or "done"
    snapshot,        \*     and what is in it
    unfilteredList, list,
    matching,        \* currentFilter: the users that match the search
    liElements,      \* what is mounted in every li
    listElement,     \* the ul: which li are in it, by their index
    adding,          \* adding[u]: "no", "asked" or "added", with the answer on its way
    deleting,        \* deleting[u]: how the deletion of u was asked for: "list" or "page"
    deleted,         \* the users whose deletion from their page the server has to answer
    opening,         \* the users that were clicked and are to be shown
    info,            \* userInfoPage
    crossed          \* the users whose change was asked for before the list came

requests == <<adding, deleting, deleted, opening>>
lists == <<unfilteredList, list, liElements, listElement>>
vars == <<server, fetched, snapshot, lists, matching, requests, info, crossed>>

TypeOK ==
    /\ server \subseteq Users /\ snapshot \subseteq Users /\ matching \subseteq Users
    /\ fetched \in {"asked", "onItsWay", "done"}
    /\ unfilteredList \in Seq(Users) /\ list \in Seq(Users)
    /\ \A i \in DOMAIN liElements : liElements[i] \in Seq(Users)
    /\ \A i \in DOMAIN listElement : listElement[i] \in DOMAIN liElements
    /\ adding \in [Users -> {"no", "asked", "added"}]
    /\ deleting \in [Users -> {"no", "list", "page"}]
    /\ deleted \subseteq Users /\ opening \subseteq Users
    /\ info \in Users \cup {Nobody}
    /\ crossed \subseteq Users

Init ==
    /\ server = Initial /\ snapshot = {} /\ fetched = "asked"
    /\ unfilteredList = <<>> /\ list = <<>> /\ liElements = <<>> /\ listElement = <<>>
    /\ matching = Users
    /\ adding = [u \in Users |-> "no"] /\ deleting = [u \in Users |-> "no"]
    /\ deleted = {} /\ opening = {} /\ info = Nobody
    /\ crossed = {}

\* Array.filter: what of all is in the filter, in its order
Matches(all, filter) ==
    LET kept[n \in 0..Len(all)] ==
            IF n = 0 THEN <<>>
            ELSE IF all[n] \in filter THEN Append(kept[n - 1], all[n]) ELSE kept[n - 1]
    IN kept[Len(all)]

\* elementAt: an li is made when it is needed first, and kept.
ElementAt(i) == IF i \in DOMAIN liElements THEN liElements[i] ELSE <<>>

\* Faulty: an li that shows nobody any more stays in the list.
RemainingStay(old, new) == listElement

\* The li that stay in the ul when the list gets shorter
Remaining(old, new) == Matches(listElement, DOMAIN liElements \ ((Len(new) + 1)..Len(old)))

\* syncLists: everybody is taken out of its li and the new list put in, by the index.
SyncLists(all, filter) ==
    LET new == Matches(all, filter)
        Emptied(i) == IF i <= Len(list) THEN Matches(ElementAt(i), Users \ {list[i]})
                                        ELSE ElementAt(i)
        many == IF Len(new) > Len(liElements) THEN Len(new) ELSE Len(liElements)
    IN /\ unfilteredList' = all
       /\ list' = new
       /\ liElements' = [i \in 1..many |-> IF i <= Len(new) THEN Append(Emptied(i), new[i])
                                                            ELSE Emptied(i)]
       /\ listElement' = Remaining(list, new) \o [i \in 1..(Len(new) - Len(list)) |-> Len(list) + i]

\* External: the server answers GET /users.
Listed ==
    /\ fetched = "asked"
    /\ fetched' = "onItsWay" /\ snapshot' = server
    /\ UNCHANGED <<server, lists, matching, requests, info, crossed>>

\* updateCache: who is not in the answer is removed, and who is new is added.
UpdateCache ==
    /\ fetched = "onItsWay"
    /\ fetched' = "done"
    /\ SyncLists(Matches(unfilteredList, snapshot)
                     \o SetToSeq({u \in snapshot : ~Contains(unfilteredList, u)}), matching)
    /\ UNCHANGED <<server, snapshot, matching, requests, info, crossed>>

\* onUserSearchChange
Search(filter) ==
    /\ matching' = filter
    /\ SyncLists(unfilteredList, filter)
    /\ UNCHANGED <<server, fetched, snapshot, requests, info, crossed>>

\* A change of u is asked for.
Crossed(u) == IF fetched = "done" THEN crossed ELSE crossed \cup {u}

\* The button that adds a user: the form is confirmed, the server adds it or does not, and
\* its answer comes.
AskAdd(u) ==
    /\ u \notin server /\ adding[u] = "no" /\ deleting[u] = "no"
    /\ adding' = [adding EXCEPT ![u] = "asked"]
    /\ crossed' = Crossed(u)
    /\ UNCHANGED <<server, fetched, snapshot, lists, matching, deleting, deleted, opening, info>>

AddOnServer(u) ==
    /\ adding[u] = "asked"
    /\ \/ adding' = [adding EXCEPT ![u] = "added"] /\ server' = server \cup {u}
       \/ adding' = [adding EXCEPT ![u] = "no"] /\ UNCHANGED server
    /\ UNCHANGED <<fetched, snapshot, lists, matching, deleting, deleted, opening, info, crossed>>

Added(u) ==
    /\ adding[u] = "added"
    /\ adding' = [adding EXCEPT ![u] = "no"]
    /\ SyncLists(Append(unfilteredList, u), matching)
    /\ UNCHANGED <<server, fetched, snapshot, matching, deleting, deleted, opening, info, crossed>>

\* A user is clicked, and the answer that describes it opens its page, whatever has happened
\* since.
Click(u) ==
    /\ Contains(list, u)
    /\ opening' = opening \cup {u}
    /\ UNCHANGED <<server, fetched, snapshot, lists, matching, adding, deleting, deleted, info,
                   crossed>>

SetUserInfo(u) ==
    /\ u \in opening
    /\ opening' = opening \ {u}
    /\ info' = u
    /\ UNCHANGED <<server, fetched, snapshot, lists, matching, adding, deleting, deleted, crossed>>

\* AdminApp.onUserDeleted
OnUserDeleted(u, all) ==
    /\ info' = IF info = u THEN Nobody ELSE info
    /\ SyncLists(RemoveFirst(all, u), matching)

\* "Delete" in the context menu of the list does not wait for the server.
OnDelete(u) ==
    /\ Contains(list, u)
    /\ deleting[u] = "no"
    /\ deleting' = [deleting EXCEPT ![u] = "list"]
    /\ OnUserDeleted(u, RemoveFirst(unfilteredList, u))
    /\ crossed' = Crossed(u)
    /\ UNCHANGED <<server, fetched, snapshot, matching, adding, deleted, opening>>

\* The button of the page waits.
DeleteOnPage(u) ==
    /\ info = u
    /\ deleting[u] = "no"
    /\ deleting' = [deleting EXCEPT ![u] = "page"]
    /\ crossed' = Crossed(u)
    /\ UNCHANGED <<server, fetched, snapshot, lists, matching, adding, deleted, opening, info>>

\* External: the server deletes the user; a deletion that fails is not modelled further.
DeleteOnServer(u) ==
    /\ deleting[u] # "no"
    /\ u \in server
    /\ server' = server \ {u}
    /\ deleted' = IF deleting[u] = "page" THEN deleted \cup {u} ELSE deleted
    /\ UNCHANGED <<fetched, snapshot, lists, matching, adding, deleting, opening, info, crossed>>

DeletedOnPage(u) ==
    /\ u \in deleted
    /\ deleted' = deleted \ {u}
    /\ OnUserDeleted(u, unfilteredList)
    /\ UNCHANGED <<server, fetched, snapshot, matching, adding, deleting, opening, crossed>>

Next ==
    \/ Listed \/ UpdateCache
    \/ \E filter \in SUBSET Users : Search(filter)
    \/ \E u \in Users : \/ AskAdd(u) \/ AddOnServer(u) \/ Added(u)
                        \/ Click(u) \/ SetUserInfo(u)
                        \/ OnDelete(u) \/ DeleteOnPage(u) \/ DeleteOnServer(u) \/ DeletedOnPage(u)

Spec == Init /\ [][Next]_vars

-----------------------------------------------------------------------------
(* Properties *)

\* On the screen are the users that match the search, in the order of the list, each in an li
\* of its own and no empty li.  When the list has come it has every user of the server once
\* but for those that are being added or were deleted; a user whose own change was asked for
\* before that may be missing, stay or be there twice, and nobody else is.
OnScreen ==
    /\ list = Matches(unfilteredList, matching)
    /\ listElement = [i \in DOMAIN list |-> i]
    /\ \A i \in DOMAIN liElements : liElements[i] = IF i \in DOMAIN list THEN <<list[i]>> ELSE <<>>
Known == {u \in server : adding[u] # "added" /\ deleting[u] # "list"} \cup deleted
Listings(u) == {i \in DOMAIN unfilteredList : unfilteredList[i] = u}
ListIsRight ==
    /\ OnScreen
    /\ fetched = "done" =>
          \A u \in Users \ crossed : /\ u \in Known <=> Listings(u) # {}
                                    /\ \A i, j \in Listings(u) : i = j
=============================================================================
