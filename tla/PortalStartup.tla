---------------------------- MODULE PortalStartup ----------------------------
(***************************************************************************)
(* How the start page gets from nothing to the page of the stream:         *)
(* startApp of web/index.ts, getApi, tryLogin and apiAuthenticate of       *)
(* web/api.ts, against authenticate, login and the middleware for sessions *)
(* of web-server/src/api/auth.rs.                                          *)
(*                                                                         *)
(* startApp tries for ever: whatever fails throws, waits and starts from   *)
(* the beginning.  The server keeps its sessions in memory only, so a      *)
(* cookie may be left from one it does not know any more; authenticate     *)
(* takes any cookie for a session, and only the answer to another request  *)
(* says that it is none, and takes the cookie away.                        *)
(***************************************************************************)
EXTENDS Integers

CONSTANTS LastDelay,   \* the index of the last of RETRY_DELAYS
          MaxTroubles  \* bound: how often the server goes down, restarts or changes its hosts

VARIABLES
    pc,         \* what startApp waits for
    attempt,    \* attempt, up to the last delay
    cookie,     \* the session cookie: "none", "valid", or "stale"
    autoLogin,  \* the server logs in who has no cookie
    account,    \* the account it does this for exists
    up,         \* the server answers
    hosts,      \* how many hosts the user has
    desktop,    \* the host is online and has the application
    troubles

server == <<autoLogin, account, up, hosts, desktop, troubles>>
vars == <<pc, attempt, cookie, server>>

Requests == {"authenticate", "login", "loginAuthenticate", "hosts", "apps"}

TypeOK ==
    /\ pc \in Requests \cup {"prompt", "invalid", "sleep", "opened"}
    /\ attempt \in 0..LastDelay
    /\ cookie \in {"none", "valid", "stale"}
    /\ autoLogin \in BOOLEAN /\ account \in BOOLEAN /\ up \in BOOLEAN /\ desktop \in BOOLEAN
    /\ hosts \in 0..2 /\ troubles \in 0..MaxTroubles

Init ==
    /\ pc = "authenticate" /\ attempt = 0
    /\ cookie \in {"none", "valid", "stale"}
    /\ autoLogin \in BOOLEAN /\ account \in BOOLEAN /\ up \in BOOLEAN /\ desktop \in BOOLEAN
    /\ hosts \in 0..2 /\ troubles = 0

\* Something has thrown: catch in startApp.
Throws == pc' = "sleep"

\* Faulty: only the logout takes a cookie away.
KeepsCookie == cookie

\* auth_middleware: the cookie of an unknown session is removed with the answer.
WithRemovalCookie == IF cookie = "stale" THEN "none" ELSE cookie

\* apiAuthenticate(api) in getApi.
\* Without the account the automatic login is "not found", which getApi does not answer with
\* a prompt but throws.
Authenticate ==
    /\ pc = "authenticate"
    /\ IF ~up THEN Throws /\ UNCHANGED cookie
       ELSE IF cookie # "none" THEN pc' = "hosts" /\ UNCHANGED cookie
       ELSE IF ~autoLogin THEN pc' = "prompt" /\ UNCHANGED cookie
       ELSE IF account THEN pc' = "hosts" /\ cookie' = "valid"
       ELSE Throws /\ UNCHANGED cookie
    /\ UNCHANGED <<attempt, server>>

\* The viewer fills in the form, which tryLogin sends; it asks until it is answered.
Prompted ==
    /\ pc = "prompt"
    /\ pc' = "login"
    /\ UNCHANGED <<attempt, cookie, server>>

\* apiLogin: credentials that are wrong and a server that does not answer are the same.
LoggedIn ==
    /\ pc = "login"
    /\ up
    /\ pc' = "loginAuthenticate" /\ cookie' = "valid"
    /\ UNCHANGED <<attempt, server>>

NotLoggedIn ==
    /\ pc = "login"
    /\ pc' = "invalid"
    /\ UNCHANGED <<attempt, cookie, server>>

\* "Credentials are not Valid" is confirmed.
Confirmed ==
    /\ pc = "invalid"
    /\ pc' = "prompt"
    /\ UNCHANGED <<attempt, cookie, server>>

LoginAuthenticate ==
    /\ pc = "loginAuthenticate"
    /\ IF up THEN pc' = "hosts" ELSE Throws
    /\ UNCHANGED <<attempt, cookie, server>>

\* A request that needs a user, and goes on if what it asks for is there.
Request(at, found, next) ==
    /\ pc = at
    /\ IF up /\ cookie = "valid" /\ found THEN pc' = next ELSE Throws
    /\ cookie' = IF up THEN WithRemovalCookie ELSE cookie
    /\ UNCHANGED <<attempt, server>>

\* hostList.forceFetch and apiGetApps
FetchHosts == Request("hosts", hosts = 1, "apps")
FetchApps == Request("apps", hosts = 1 /\ desktop, "opened")

\* Faulty: the count runs past the last delay.
NextAttemptUncapped == attempt + 1

NextAttempt == IF attempt < LastDelay THEN attempt + 1 ELSE attempt

\* sleep(delay)
Slept ==
    /\ pc = "sleep"
    /\ pc' = "authenticate"
    /\ attempt' = NextAttempt
    /\ UNCHANGED <<cookie, server>>

Trouble ==
    /\ troubles < MaxTroubles
    /\ troubles' = troubles + 1
    /\ UNCHANGED <<pc, attempt, autoLogin, account>>

\* The server goes and comes back without its sessions, or a session has expired.
Down == up /\ Trouble /\ up' = FALSE /\ UNCHANGED <<cookie, hosts, desktop>>
Up == ~up /\ up' = TRUE /\ cookie' = (IF cookie = "valid" THEN "stale" ELSE cookie)
          /\ UNCHANGED <<pc, attempt, autoLogin, account, hosts, desktop, troubles>>
Expires == cookie = "valid" /\ Trouble /\ cookie' = "stale" /\ UNCHANGED <<up, hosts, desktop>>
HostsChange ==
    /\ Trouble
    /\ hosts' \in 0..2 /\ desktop' \in BOOLEAN
    /\ UNCHANGED <<up, cookie>>

Page == Authenticate \/ LoginAuthenticate \/ FetchHosts \/ FetchApps \/ Slept

Next ==
    \/ Page \/ Prompted \/ LoggedIn \/ NotLoggedIn \/ Confirmed
    \/ Down \/ Up \/ Expires \/ HostsChange

Spec == Init /\ [][Next]_vars

\* A request is over at the latest after API_TIMEOUT, and a delay passes.
Fairness == WF_vars(Page)

-----------------------------------------------------------------------------
(* Properties *)

\* Where the server logs in by itself nobody is asked for a password, whatever cookie is left.
AsksOnlyWhoMust == autoLogin /\ account => pc \notin {"prompt", "login", "invalid"}

\* Once the server is up for good and has one host with the application, the page of the stream
\* is opened: a session the server has forgotten does not keep the page from it.
Ready == up /\ hosts = 1 /\ desktop /\ autoLogin /\ account
Opens == <>[]Ready => <>(pc = "opened")
=============================================================================
