------------------------------- MODULE Sessions ------------------------------
(***************************************************************************)
(* The sessions of logged-in users (SessionManager.go) with the requests   *)
(* of their browsers, which overlap, and the handlers that log a user out  *)
(* (Api.go); and the presigned URLs (presign.go), which only logged-in     *)
(* users can download from.  A step is one access to the database, to the  *)
(* map of presigned URLs, or to the cookie of a browser.                   *)
(***************************************************************************)
EXTENDS Integers

CONSTANTS
    Accounts,     \* users that can be reset and deleted
    Browsers,
    Owner,        \* Owner[b]: the user who logs in with browser b
    Requests,     \* slots for requests that overlap
    BrowserOf,    \* BrowserOf[r]: the browser that sends them
    Admins,       \* calls of apiResetPassword or apiDeleteUser
    Urls,         \* presigned URLs that may be created
    RenewAfter,   \* ticks after which a session is replaced when used: 12 hours
    Lifetime,     \* cookieLifeAdmin, or the interval OAuthRecheckInterval
    PresignLife,  \* ticks that a presigned URL is valid: 30 seconds
    Schedules     \* Schedules[n]: what may happen in a behaviour, and how often

ASSUME SessionsAssumption ==
    /\ Accounts # {} /\ Urls # {}
    /\ Owner \in [Browsers -> Accounts] /\ BrowserOf \in [Requests -> Browsers]
    /\ \A n \in DOMAIN Schedules :
          /\ Schedules[n].operations \subseteq {"page", "login", "logout", "change", "presigned"}
          /\ Schedules[n].admin \subseteq {"reset", "delete"}
          /\ {Schedules[n].maxNow, Schedules[n].maxRequests, Schedules[n].maxFaults} \subseteq Nat
    /\ {RenewAfter, Lifetime, PresignLife} \subseteq Nat

VARIABLES
    schedule,  \* the entry of Schedules of this behaviour
    now,
    account,   \* table Users
    saved,     \* number of sessions that were ever saved
    session,   \* session[s]: the session with number s; table Sessions has the live ones
    cookie,    \* cookie[b]: the cookie session_token of browser b
    request,   \* requests and their handlers
    admin,     \* the calls that log a user out
    url,       \* presignedUrls, and history: how often a URL was served, whether by
               \* requests that were between Get and Delete at the same time
    file,      \* whether GetFile finds the file of the presigned URLs
    asked,     \* number of requests so far
    losses,    \* number of lost answers and restarts so far
    evicted,   \* browsers whose session was ended by something but its expiry
    out,       \* browsers that have shown the answer to a logout, and no login since
    raced,     \* browsers with another request or session under way during a logout
    revived    \* users that a handler has saved after their deletion

data == <<account, saved, session, url, file>>
ghosts == <<evicted, out, raced, revived>>
sessionsVars == <<schedule, now, account, saved, session, cookie, request, admin, url, file, asked, losses, evicted, out, raced, revived>>

NoSession == 0     \* no cookie
Keep == -1         \* an answer that does not set the cookie

Bounds == Schedules[schedule]
PCs == {"idle", "session", "user", "use", "drop", "handle", "verify", "create",
        "save", "file", "delete", "serve", "logout", "answer"}
Idle == [pc |-> "idle", op |-> "page", cookie |-> NoSession,
         set |-> Keep, late |-> FALSE, reset |-> FALSE, url |-> CHOOSE k \in Urls : TRUE]

Live(s) == s \in 1..saved /\ session[s].live

(* The variables have their types, and a cookie names a session that was saved. *)
SessionsTypeOK ==
    /\ schedule \in DOMAIN Schedules
    /\ now \in 0..Bounds.maxNow
    /\ account \in [Accounts -> [live : BOOLEAN, reset : BOOLEAN]]
    /\ saved \in Nat
    /\ session \in [1..saved -> [live : BOOLEAN, account : Accounts, browser : Browsers, renewAt : Nat,
                                validUntil : Nat]]
    /\ cookie \in [Browsers -> 0..saved]
    /\ request \in [Requests -> [pc : PCs, op : Bounds.operations \cup {"page"}, cookie : 0..saved,
                                 set : -1..saved, late : BOOLEAN, reset : BOOLEAN, url : Urls]]
    /\ admin \in [Admins -> [pc : {"idle", "sessions", "save", "done"}, op : {"reset", "delete"}, account : Accounts]]
    /\ url \in [Urls -> [state : {"none", "live", "used", "expired"}, expiry : Nat, served : Nat,
                      shared : BOOLEAN]]
    /\ file \in BOOLEAN /\ asked \in 0..Bounds.maxRequests /\ losses \in 0..Bounds.maxFaults
    /\ evicted \subseteq Browsers /\ out \subseteq Browsers /\ raced \subseteq Browsers /\ revived \subseteq Accounts

SessionsInit ==
    /\ schedule \in DOMAIN Schedules
    /\ now = 0 /\ asked = 0 /\ losses = 0 /\ file = TRUE
    /\ account \in [Accounts -> [live : {TRUE}, reset : BOOLEAN]]
    /\ saved = 0 /\ session = [s \in 1..0 |-> 0]
    /\ cookie = [b \in Browsers |-> NoSession]
    /\ request = [r \in Requests |-> Idle]
    /\ admin = [a \in Admins |-> [pc |-> "idle", op |-> "reset", account |-> CHOOSE u \in Accounts : TRUE]]
    /\ url = [k \in Urls |-> [state |-> "none", expiry |-> 0, served |-> 0,
                             shared |-> FALSE]]
    /\ evicted = {} /\ out = {} /\ raced = {} /\ revived = {}

-----------------------------------------------------------------------------
(* The tables *)
Delete(ids) ==
    /\ session' = [s \in 1..saved |-> IF s \in ids THEN [session[s] EXCEPT !.live = FALSE] ELSE session[s]]
    /\ saved' = saved
DeleteSession(s) == Delete({s})
DeleteAllSessionsByUser(u) == Delete({s \in 1..saved : session[s].account = u})

(* INSERT OR REPLACE of a row that was read before: it brings a deleted user back. *)
SaveAccount(u, reset) ==
    /\ account' = [account EXCEPT ![u] = [live |-> TRUE, reset |-> reset]]
    /\ revived' = IF account[u].live THEN revived ELSE revived \cup {u}

(* The steps of a handler *)
At(r, pc) == request[r].pc = pc
Goes(r, pc) == request' = [request EXCEPT ![r].pc = pc]

(* An answer that leaves the cookie alone just ends the request. *)
Returns(r) == request' = [request EXCEPT ![r] = IF @.set = Keep THEN Idle ELSE [@ EXCEPT !.pc = "answer"]]
InFlight(b) == {r \in Requests : ~At(r, "idle") /\ BrowserOf[r] = b}

CreateSession(r, u, pc) ==
    /\ saved' = saved + 1
    /\ session' = [s \in 1..saved + 1 |->
                     IF s <= saved THEN session[s]
                     ELSE [live |-> TRUE, account |-> u, browser |-> BrowserOf[r], renewAt |-> now + RenewAfter,
                           validUntil |-> now + Lifetime]]
    /\ request' = [request EXCEPT ![r].pc = pc, ![r].set = saved + 1]

-----------------------------------------------------------------------------
(* A browser sends its cookie unless that has expired. *)
Send(r, op, k) ==
    /\ At(r, "idle") /\ asked < Bounds.maxRequests /\ op \in Bounds.operations /\ r \in Bounds.requests
    /\ IF op = "presigned" THEN url[k].state # "none" ELSE k = Idle.url
    /\ LET b == BrowserOf[r]
           s == IF cookie[b] # NoSession /\ session[cookie[b]].validUntil > now THEN cookie[b] ELSE NoSession IN
       request' = [request EXCEPT ![r] =
                     [Idle EXCEPT !.pc = IF op = "logout" THEN "logout" ELSE "session", !.op = op,
                                  !.cookie = s, !.late = ~account[Owner[b]].live, !.url = k]]
    /\ asked' = asked + 1
    /\ UNCHANGED <<schedule, now, data, cookie, admin, losses, ghosts>>

(* IsValidSession.  Who is refused on the login page logs in there. *)
Refused(r) == IF request[r].op = "login" THEN Goes(r, "verify") ELSE Returns(r)

(* changePassword and downloadPresigned go on, all others answer. *)
Granted(r) == IF request[r].op \in {"change", "presigned"} THEN Goes(r, "handle") ELSE Returns(r)

GetSession(r) ==
    /\ At(r, "session")
    /\ IF Live(request[r].cookie) THEN Goes(r, "user") ELSE Refused(r)
    /\ UNCHANGED <<schedule, now, data, cookie, admin, asked, losses, ghosts>>

(* Mutant of GetUser: the user of the session is not looked for. *)
GetUserUnchecked(r) ==
    /\ At(r, "user") /\ Goes(r, "use")
    /\ UNCHANGED <<schedule, now, data, cookie, admin, asked, losses, ghosts>>

GetUser(r) ==
    /\ At(r, "user")
    /\ LET u == session[request[r].cookie].account IN
       IF account[u].live THEN request' = [request EXCEPT ![r].pc = "use", ![r].reset = account[u].reset] ELSE Refused(r)
    /\ UNCHANGED <<schedule, now, data, cookie, admin, asked, losses, ghosts>>

useSession(r) ==
    /\ At(r, "use")
    /\ LET s == session[request[r].cookie] IN
       \/ s.validUntil < now /\ DeleteSession(request[r].cookie) /\ Refused(r)
       \/ s.validUntil >= now /\ s.renewAt < now /\ CreateSession(r, s.account, "drop")
       \/ s.validUntil >= now /\ s.renewAt >= now /\ Granted(r) /\ UNCHANGED <<saved, session>>
    /\ UNCHANGED <<schedule, now, account, url, file, cookie, admin, asked, losses, ghosts>>

DropRenewed(r) ==
    /\ At(r, "drop")
    /\ DeleteSession(request[r].cookie) /\ Granted(r)
    /\ UNCHANGED <<schedule, now, account, url, file, cookie, admin, asked, losses, ghosts>>

(* showLogin, of a user who knows the password *)
VerifyPassword(r) ==
    /\ At(r, "verify")
    /\ IF account[Owner[BrowserOf[r]]].live THEN Goes(r, "create") ELSE Returns(r)
    /\ UNCHANGED <<schedule, now, data, cookie, admin, asked, losses, ghosts>>

Login(r) ==
    /\ At(r, "create") /\ CreateSession(r, Owner[BrowserOf[r]], "answer")
    /\ UNCHANGED <<schedule, now, account, url, file, cookie, admin, asked, losses, ghosts>>

LogoutSession(r) ==
    /\ At(r, "logout")
    /\ DeleteSession(request[r].cookie)
    /\ request' = [request EXCEPT ![r].pc = "answer", ![r].set = NoSession]
    /\ evicted' = evicted \cup {BrowserOf[r]}
    /\ UNCHANGED <<schedule, now, account, url, file, cookie, admin, asked, losses, out, raced, revived>>

(* changePassword saves the user it was given by requireLogin. *)
ShowChangePassword(r) ==
    /\ At(r, "handle") /\ request[r].op = "change"
    /\ \/ Returns(r)
       \/ request[r].reset /\ Goes(r, "save")
    /\ UNCHANGED <<schedule, now, data, cookie, admin, asked, losses, ghosts>>

SavePassword(r) ==
    /\ At(r, "save")
    /\ SaveAccount(session[request[r].cookie].account, FALSE) /\ Returns(r)
    /\ UNCHANGED <<schedule, now, saved, session, url, file, cookie, admin, asked, losses, evicted, out, raced>>

(* The browser gets the answer, which may set the cookie.  A logout is raced *)
(* if another session or a request past GetSession is under way.            *)
Answer(r) ==
    /\ At(r, "answer")
    /\ LET b == BrowserOf[r]
           set == request[r].set
           others == {request[o] : o \in InFlight(b) \ {r}} IN
       /\ cookie' = [cookie EXCEPT ![b] = set]
       /\ evicted' = IF Live(set) /\ InFlight(b) = {r} THEN evicted \ {b} ELSE evicted
       /\ out' = IF request[r].op = "logout" THEN out \cup {b}
                 ELSE IF request[r].op = "login" THEN out \ {b} ELSE out
       /\ raced' = IF request[r].op # "logout" THEN raced
                   ELSE IF \/ cookie[b] # request[r].cookie
                           \/ \E o \in others : o.pc \notin {"session", "logout"} \/ o.cookie # request[r].cookie
                        THEN raced \cup {b} ELSE raced \ {b}
    /\ request' = [request EXCEPT ![r] = Idle]
    /\ UNCHANGED <<schedule, now, data, admin, asked, losses, revived>>

-----------------------------------------------------------------------------
(* createAndOutputPresignedUrl, of a user whose page has an API token; Save *)
Presign(k) ==
    /\ "presigned" \in Bounds.operations /\ url[k].state = "none" /\ file
    /\ url' = [url EXCEPT ![k] = [@ EXCEPT !.state = "live", !.expiry = now + PresignLife]]
    /\ UNCHANGED <<schedule, now, account, saved, session, file, cookie, request, admin, asked, losses, ghosts>>

(* downloadPresigned: Get, GetFile, Delete, ServeFile *)
GetPresigned(r) ==
    /\ At(r, "handle") /\ request[r].op = "presigned"
    /\ LET k == request[r].url IN
       IF url[k].state = "live" /\ url[k].expiry >= now
       THEN /\ Goes(r, "file")
            /\ url' = [url EXCEPT ![k].shared =
                         @ \/ \E o \in Requests : request[o].pc \in {"file", "delete"} /\ request[o].url = k]
       ELSE Returns(r) /\ UNCHANGED url
    /\ UNCHANGED <<schedule, now, account, saved, session, file, cookie, admin, asked, losses, ghosts>>

GetFile(r) ==
    /\ At(r, "file") /\ IF file THEN Goes(r, "delete") ELSE Returns(r)
    /\ UNCHANGED <<schedule, now, data, cookie, admin, asked, losses, ghosts>>

(* Mutant of DeletePresigned: the URL is not deleted. *)
KeepPresigned(r) ==
    /\ At(r, "delete") /\ Goes(r, "serve")
    /\ UNCHANGED <<schedule, now, data, cookie, admin, asked, losses, ghosts>>

DeletePresigned(r) ==
    /\ At(r, "delete") /\ Goes(r, "serve")
    /\ url' = [url EXCEPT ![request[r].url].state = IF @ = "live" THEN "used" ELSE @]
    /\ UNCHANGED <<schedule, now, account, saved, session, file, cookie, admin, asked, losses, ghosts>>

(* The source can be gone or its decryption fail, in ServeFilesAsZip after a *)
(* part of the files: the URL has been used up by a download that failed.    *)
ServeFile(r) ==
    /\ At(r, "serve") /\ Returns(r)
    /\ \/ url' = [url EXCEPT ![request[r].url].served = @ + 1]
       \/ UNCHANGED url
    /\ UNCHANGED <<schedule, now, account, saved, session, file, cookie, admin, asked, losses, ghosts>>

-----------------------------------------------------------------------------
(* apiResetPassword and apiDeleteUser: read the user, end all sessions, and *)
(* save or delete the row.                                                  *)
isValidUserForEditing(a, op, u) ==
    /\ admin[a].pc = "idle" /\ account[u].live
    /\ admin' = [admin EXCEPT ![a] = [pc |-> "sessions", op |-> op, account |-> u]]
    /\ UNCHANGED <<schedule, now, data, cookie, request, asked, losses, ghosts>>

EndSessions(a) ==
    /\ admin[a].pc = "sessions" /\ DeleteAllSessionsByUser(admin[a].account)
    /\ admin' = [admin EXCEPT ![a].pc = "save"]
    /\ evicted' = evicted \cup {b \in Browsers : Owner[b] = admin[a].account}
    /\ UNCHANGED <<schedule, now, account, url, file, cookie, request, asked, losses, out, raced, revived>>

SaveReset(a) ==
    /\ admin[a].pc = "save" /\ admin[a].op = "reset"
    /\ SaveAccount(admin[a].account, TRUE)
    /\ admin' = [admin EXCEPT ![a].pc = "done"]
    /\ UNCHANGED <<schedule, now, saved, session, url, file, cookie, request, asked, losses, evicted, out, raced>>

DeleteUser(a) ==
    /\ admin[a].pc = "save" /\ admin[a].op = "delete"
    /\ account' = [account EXCEPT ![admin[a].account].live = FALSE]
    /\ admin' = [admin EXCEPT ![a].pc = "done"]
    /\ UNCHANGED <<schedule, now, saved, session, url, file, cookie, request, asked, losses, ghosts>>

-----------------------------------------------------------------------------
(* The garbage collections of CleanUp and of presign *)

(* Mutant of cleanExpiredSessions: a session goes when it is to be renewed. *)
cleanAged ==
    /\ Delete({s \in 1..saved : session[s].renewAt < now})
    /\ session' # session
    /\ UNCHANGED <<schedule, now, account, url, file, cookie, request, admin, asked, losses, ghosts>>

cleanExpiredSessions ==
    /\ Delete({s \in 1..saved : session[s].validUntil < now})
    /\ session' # session
    /\ UNCHANGED <<schedule, now, account, url, file, cookie, request, admin, asked, losses, ghosts>>

cleanUp ==
    /\ url' = [k \in Urls |-> IF url[k].state = "live" /\ url[k].expiry < now
                              THEN [url[k] EXCEPT !.state = "expired"] ELSE url[k]]
    /\ url' # url
    /\ UNCHANGED <<schedule, now, account, saved, session, file, cookie, request, admin, asked, losses, ghosts>>

FileExpires ==
    /\ file /\ file' = FALSE /\ \E k \in Urls : url[k].state = "live"
    /\ UNCHANGED <<schedule, now, account, saved, session, url, cookie, request, admin, asked, losses, ghosts>>

SessionTick == now < Bounds.maxNow /\ now' = now + 1 /\ UNCHANGED <<schedule, data, cookie, request, admin, asked, losses, ghosts>>

(* A browser that never sees the answer keeps its old cookie. *)
AnswerLost(r) ==
    /\ At(r, "answer") /\ losses < Bounds.maxFaults /\ losses' = losses + 1
    /\ request' = [request EXCEPT ![r] = Idle]
    /\ evicted' = evicted \cup {BrowserOf[r]}
    /\ UNCHANGED <<schedule, now, data, cookie, admin, asked, out, raced, revived>>

(* A restart ends the handlers and forgets the presigned URLs. *)
Restart ==
    /\ losses < Bounds.maxFaults /\ losses' = losses + 1
    /\ request' = [r \in Requests |-> Idle]
    /\ evicted' = evicted \cup {BrowserOf[r] : r \in {o \in Requests : request[o].set # Keep}}
    /\ url' = [k \in Urls |-> IF url[k].state = "none" THEN url[k] ELSE [url[k] EXCEPT !.state = "expired"]]
    /\ admin' = [a \in Admins |-> IF admin[a].pc = "idle" THEN admin[a] ELSE [admin[a] EXCEPT !.pc = "done"]]
    /\ UNCHANGED <<schedule, now, account, saved, session, file, cookie, asked, out, raced, revived>>

Handler(r) ==
    \/ GetSession(r) \/ GetUser(r) \/ useSession(r) \/ DropRenewed(r)
    \/ VerifyPassword(r) \/ Login(r) \/ LogoutSession(r) \/ ShowChangePassword(r) \/ SavePassword(r)
    \/ GetPresigned(r) \/ GetFile(r) \/ DeletePresigned(r) \/ ServeFile(r)

SessionsNext ==
    \/ \E r \in Requests, op \in Bounds.operations, k \in Urls : Send(r, op, k)
    \/ \E r \in Requests : Handler(r) \/ Answer(r) \/ AnswerLost(r)
    \/ \E a \in Admins, op \in Bounds.admin, u \in Accounts : isValidUserForEditing(a, op, u)
    \/ \E a \in Admins : EndSessions(a) \/ SaveReset(a) \/ DeleteUser(a)
    \/ \E k \in Urls : Presign(k)
    \/ cleanExpiredSessions \/ cleanUp \/ FileExpires \/ SessionTick \/ Restart

SessionsSpec == SessionsInit /\ [][SessionsNext]_sessionsVars

-----------------------------------------------------------------------------
(* A browser with a cookie that has not expired has the session in the       *)
(* table, or is about to be answered with one, however its requests renew    *)
(* the session at the same time (useSession), whatever the garbage           *)
(* collection removes and whoever else logs out; until the user logs out, is *)
(* reset or deleted, or an answer that sets the cookie is lost.              *)
StaysLoggedIn ==
    \A b \in Browsers \ evicted :
       cookie[b] # NoSession /\ session[cookie[b]].validUntil >= now
         => \/ Live(cookie[b])
            \/ \E r \in InFlight(b) : Live(request[r].set)

(* No request that was sent after the deletion of the user (apiDeleteUser)   *)
(* is granted, although a renewal or a login that was under way may leave a  *)
(* session of that user; unless a handler that had read the user before has  *)
(* saved the row again.                                                      *)
DeletedUserStaysOut ==
    \A r \in Requests :
       request[r].late /\ request[r].pc \in {"use", "drop", "handle", "create", "save", "file", "delete", "serve"}
         => Owner[BrowserOf[r]] \in revived

(* Once a browser has shown the answer to a logout (LogoutSession) its       *)
(* cookie stays removed until the next login, whatever answers come later,   *)
(* unless another request had found the session before the logout deleted it. *)
LoggedOutStaysOut == \A b \in out \ raced : cookie[b] = NoSession

(* A presigned URL is valid for one download (downloadPresigned, and         *)
(* openapi.json says so), whatever requests ask for it, also after it was    *)
(* lost in a restart or cleaned up: only requests that found it at the same  *)
(* time, before one of them deleted it, are all served.                      *)
DownloadedOnce == \A k \in Urls : url[k].served > 1 => url[k].shared

(* Who is out stays out: users that were deleted and browsers that have     *)
(* logged out, see DeletedUserStaysOut and LoggedOutStaysOut.                *)
OutStaysOut == DeletedUserStaysOut /\ LoggedOutStaysOut
=============================================================================
