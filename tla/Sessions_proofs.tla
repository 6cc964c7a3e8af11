---------------------------- MODULE Sessions_proofs --------------------------
(* Proofs about Sessions.tla, for any users, browsers, overlapping requests, *)
(* calls of administrators, presigned URLs and scenarios.                    *)
EXTENDS Sessions, TLAPS

(* What a handler has at hand at each of its steps. *)
Shape(q) ==
    /\ q.pc \in {"user", "use", "drop", "handle", "save", "file", "delete", "serve"} => q.cookie # NoSession
    /\ q.pc \in {"idle", "session", "user", "use", "verify", "create", "logout"} => q.set = Keep
    /\ q.pc \in {"drop", "answer"} => q.set # Keep
    /\ q.set = NoSession => q.pc = "answer" /\ q.op = "logout"
    /\ q.op = "logout" => q.pc \in {"logout", "answer"} /\ q.set \in {Keep, NoSession}
    /\ q.pc = "logout" => q.op = "logout"

HandlerShape == \A r \in Requests : Shape(request[r])

TypeInv == SessionsTypeOK /\ HandlerShape

-----------------------------------------------------------------------------
(* Types *)
Row == [live : BOOLEAN, account : Accounts, browser : Browsers, renewAt : Nat, validUntil : Nat]
Req == [pc : PCs, op : Bounds.operations \cup {"page"}, cookie : 0..saved,
        set : -1..saved, late : BOOLEAN, reset : BOOLEAN, url : Urls]

ScenarioType == schedule \in DOMAIN Schedules /\ now \in 0..Bounds.maxNow
                /\ asked \in 0..Bounds.maxRequests /\ losses \in 0..Bounds.maxFaults
SessionsType == saved \in Nat /\ session \in [1..saved -> Row]
CookiesType == cookie \in [Browsers -> 0..saved]
RequestsType == request \in [Requests -> Req]
UsersType == account \in [Accounts -> [live : BOOLEAN, reset : BOOLEAN]]
AdminsType == admin \in [Admins -> [pc : {"idle", "sessions", "save", "done"}, op : {"reset", "delete"}, account : Accounts]]
UrlsType == [Urls -> [state : {"none", "live", "used", "expired"}, expiry : Nat, served : Nat,
                      shared : BOOLEAN]]
KeysType == /\ url \in UrlsType
            /\ file \in BOOLEAN
GhostsType == evicted \subseteq Browsers /\ out \subseteq Browsers /\ raced \subseteq Browsers /\ revived \subseteq Accounts

LEMMA TypeParts ==
  SessionsTypeOK <=> /\ ScenarioType /\ SessionsType /\ CookiesType /\ RequestsType
                     /\ UsersType /\ AdminsType /\ KeysType /\ GhostsType
BY Zenon DEF SessionsTypeOK, ScenarioType, SessionsType, CookiesType, RequestsType, UsersType, AdminsType,
             KeysType, UrlsType, GhostsType, Row, Req

LEMMA Constants ==
  /\ Accounts # {} /\ Urls # {}
  /\ \A b \in Browsers : Owner[b] \in Accounts
  /\ \A r \in Requests : BrowserOf[r] \in Browsers
  /\ RenewAfter \in Nat /\ Lifetime \in Nat /\ PresignLife \in Nat
<1>1. Owner \in [Browsers -> Accounts] /\ BrowserOf \in [Requests -> Browsers]
  BY SessionsAssumption
<1>2. {RenewAfter, Lifetime, PresignLife} \subseteq Nat
  BY SessionsAssumption
<1> QED BY <1>1, <1>2, SessionsAssumption

LEMMA NowType ==
  ASSUME ScenarioType
  PROVE  now \in Nat /\ Bounds.maxNow \in Nat /\ Bounds.maxRequests \in Nat /\ Bounds.maxFaults \in Nat
<1>1. {Bounds.maxNow, Bounds.maxRequests, Bounds.maxFaults} \subseteq Nat
  BY SessionsAssumption DEF ScenarioType, Bounds
<1> QED BY <1>1 DEF ScenarioType

LEMMA IdleGood ==
  ASSUME SessionsType
  PROVE  Idle \in Req /\ Shape(Idle) /\ Idle.url \in Urls /\ Idle.pc = "idle" /\ Idle.set = Keep /\ Idle.op = "page"
         /\ Idle.cookie = NoSession
<1>1. (CHOOSE k \in Urls : TRUE) \in Urls
  BY Constants
<1>2. Idle \in Req /\ Idle.url \in Urls
  BY <1>1 DEF SessionsType, Idle, Req, PCs, NoSession, Keep
<1> QED BY <1>2 DEF Idle, Shape, NoSession, Keep

(* One request changes, and the sessions get at most more. *)
LEMMA OneChanges ==
  ASSUME RequestsType, HandlerShape, NEW r \in Requests, NEW q, saved \in Nat,
         saved' \in Nat, saved' >= saved, schedule' = schedule,
         request' = [request EXCEPT ![r] = q], q \in Req', Shape(q)
  PROVE  /\ RequestsType' /\ HandlerShape'
         /\ request'[r] = q /\ \A o \in Requests : o # r => request'[o] = request[o]
<1>1. Req \subseteq Req'
  <2> SUFFICES ASSUME NEW p \in Req PROVE p \in Req'
    OBVIOUS
  <2>1. 0..saved \subseteq 0..saved' /\ -1..saved \subseteq -1..saved'
    OBVIOUS
  <2> QED BY <2>1 DEF Req, Bounds
<1>2. /\ request \in [Requests -> Req']
      /\ request' \in [Requests -> Req']
      /\ request'[r] = q /\ \A o \in Requests : o # r => request'[o] = request[o]
  BY <1>1 DEF RequestsType
<1>3. \A o \in Requests : Shape(request'[o])
  BY <1>2 DEF HandlerShape
<1> QED BY <1>2, <1>3 DEF RequestsType, HandlerShape

(* The sessions are left alone, or lose some rows. *)
LEMMA RowsKept ==
  ASSUME SessionsType, \/ UNCHANGED <<saved, session>>
                       \/ \E ids : Delete(ids)
  PROVE  saved' = saved /\ SessionsType'
<1>1. ASSUME NEW ids, Delete(ids) PROVE SessionsType'
  BY <1>1 DEF Delete, Row, SessionsType
<1> QED BY <1>1 DEF Delete, SessionsType


-----------------------------------------------------------------------------
(* The next state of one request: what the lemmas below conclude for it. *)
Good(r, q) == q \in Req' /\ Shape(q) /\ request' = [request EXCEPT ![r] = q]

LEMMA GoesGood ==
  ASSUME TypeInv, NEW r \in Requests, saved' = saved, schedule' = schedule,
         NEW pc \in PCs \ {"idle", "drop", "answer"}, Goes(r, pc), request[r].op # "logout",
         pc \in {"user", "use", "handle", "save", "file", "delete", "serve"} => request[r].cookie # NoSession,
         pc \in {"session", "user", "use", "verify", "create"} => request[r].set = Keep,
         pc # "logout"
  PROVE  \E q : Good(r, q)
<1> DEFINE q == [request[r] EXCEPT !.pc = pc]
<1>1. request[r] \in Req /\ Shape(request[r]) /\ request \in [Requests -> Req]
  BY TypeParts DEF TypeInv, HandlerShape, RequestsType
<1>2. /\ q.pc = pc /\ q.op = request[r].op /\ q.cookie = request[r].cookie /\ q.set = request[r].set
      /\ q \in Req
  BY <1>1 DEF Req
<1>3. Shape(q)
  BY <1>1, <1>2 DEF Shape
<1>4. request' = [request EXCEPT ![r] = q]
  BY <1>1 DEF Goes
<1>5. Req' = Req
  BY DEF Req, Bounds
<1> HIDE DEF q
<1> QED BY <1>2, <1>3, <1>4, <1>5 DEF Good

LEMMA AnsweredGood ==
  ASSUME TypeInv, NEW r \in Requests, saved' = saved, schedule' = schedule, Returns(r), ~At(r, "idle")
  PROVE  \E q : Good(r, q)
<1>1. request[r] \in Req /\ Shape(request[r]) /\ request \in [Requests -> Req] /\ SessionsType
  BY TypeParts DEF TypeInv, HandlerShape, RequestsType
<1>2. Req' = Req
  BY DEF Req, Bounds
<1>3. CASE request[r].set = Keep
  <2>1. request' = [request EXCEPT ![r] = Idle]
    BY <1>1, <1>3 DEF Returns
  <2> QED BY <1>1, <1>2, <2>1, IdleGood DEF Good
<1>4. CASE request[r].set # Keep
  <2> DEFINE q == [request[r] EXCEPT !.pc = "answer"]
  <2>1. request' = [request EXCEPT ![r] = q]
    BY <1>1, <1>4 DEF Returns
  <2>2. /\ q.pc = "answer" /\ q.op = request[r].op /\ q.cookie = request[r].cookie /\ q.set = request[r].set
        /\ q \in Req
    BY <1>1 DEF Req, PCs
  <2>3. Shape(q)
    BY <1>1, <1>4, <2>2 DEF Shape
  <2> HIDE DEF q
  <2> QED BY <1>2, <2>1, <2>2, <2>3 DEF Good
<1> QED BY <1>3, <1>4

LEMMA RefusedGood ==
  ASSUME TypeInv, NEW r \in Requests, saved' = saved, schedule' = schedule, Refused(r),
         ~At(r, "idle"), request[r].set = Keep, request[r].op # "logout"
  PROVE  \E q : Good(r, q)
<1>1. "verify" \in PCs \ {"idle", "drop", "answer"}
  BY DEF PCs
<1>2. CASE request[r].op = "login"
  <2>1. Goes(r, "verify")
    BY <1>2 DEF Refused
  <2> QED BY <1>1, <2>1, GoesGood
<1>3. CASE request[r].op # "login"
  BY <1>3, AnsweredGood DEF Refused
<1> QED BY <1>2, <1>3

LEMMA GrantedGood ==
  ASSUME TypeInv, NEW r \in Requests, saved' = saved, schedule' = schedule, Granted(r),
         ~At(r, "idle"), request[r].cookie # NoSession, request[r].op # "logout"
  PROVE  \E q : Good(r, q)
<1>1. "handle" \in PCs \ {"idle", "drop", "answer"}
  BY DEF PCs
<1>2. CASE request[r].op \in {"change", "presigned"}
  <2>1. Goes(r, "handle")
    BY <1>2 DEF Granted
  <2> QED BY <1>1, <2>1, GoesGood
<1>3. CASE request[r].op \notin {"change", "presigned"}
  BY <1>3, AnsweredGood DEF Granted
<1> QED BY <1>2, <1>3

LEMMA CreateGood ==
  ASSUME TypeInv, NEW r \in Requests, schedule' = schedule, NEW u \in Accounts,
         NEW pc \in {"drop", "answer"}, CreateSession(r, u, pc), request[r].op # "logout",
         pc = "drop" => request[r].cookie # NoSession
  PROVE  /\ \E q : Good(r, q)
         /\ saved' = saved + 1 /\ SessionsType'
         /\ request' = [request EXCEPT ![r] = [request[r] EXCEPT !.pc = pc, !.set = saved + 1]]
<1> DEFINE q == [request[r] EXCEPT !.pc = pc, !.set = saved + 1]
<1>1. /\ request[r] \in Req /\ Shape(request[r]) /\ request \in [Requests -> Req]
      /\ SessionsType /\ saved \in Nat /\ session \in [1..saved -> Row] /\ now \in Nat
  BY TypeParts, NowType DEF TypeInv, HandlerShape, RequestsType, SessionsType
<1>2. request' = [request EXCEPT ![r] = q]
  BY <1>1 DEF CreateSession
<1>3. saved' = saved + 1
  BY DEF CreateSession
<1>4. /\ q.pc = pc /\ q.op = request[r].op /\ q.cookie = request[r].cookie /\ q.set = saved + 1
  BY <1>1 DEF Req
<1>5. q \in Req'
  <2>1. request[r].cookie \in 0..saved + 1 /\ saved + 1 \in -1..saved + 1
    BY <1>1 DEF Req
  <2>2. Req' = [pc : PCs, op : Bounds.operations \cup {"page"}, cookie : 0..saved + 1,
                set : -1..saved + 1, late : BOOLEAN, reset : BOOLEAN, url : Urls]
    BY <1>3 DEF Req, Bounds
  <2>3. pc \in PCs
    BY DEF PCs
  <2> QED BY <1>1, <2>1, <2>2, <2>3 DEF Req
<1>6. Shape(q)
  <2>1. saved + 1 # Keep /\ saved + 1 # NoSession
    BY <1>1 DEF Keep, NoSession
  <2> HIDE DEF q
  <2> QED BY <1>4, <2>1 DEF Shape
<1>7. SessionsType'
  <2> DEFINE new == [live |-> TRUE, account |-> u, browser |-> BrowserOf[r], renewAt |-> now + RenewAfter,
                     validUntil |-> now + Lifetime]
  <2>1. new \in Row
    BY <1>1, Constants DEF Row
  <2>2. session' = [s \in 1..saved + 1 |-> IF s <= saved THEN session[s] ELSE new]
    BY DEF CreateSession
  <2>3. \A s \in 1..saved + 1 : s <= saved => session[s] \in Row
    BY <1>1
  <2> HIDE DEF new
  <2> QED BY <1>1, <1>3, <2>1, <2>2, <2>3 DEF SessionsType, Row
<1> HIDE DEF q
<1>8. Good(r, q)
  BY <1>2, <1>5, <1>6 DEF Good
<1> QED BY <1>2, <1>3, <1>7, <1>8 DEF q

LEMMA HandlerGood ==
  ASSUME TypeInv, NEW r \in Requests, Handler(r)
  PROVE  /\ schedule' = schedule /\ SessionsType' /\ saved' \in {saved, saved + 1}
         /\ \E q : Good(r, q)
<1>0. /\ SessionsType /\ RequestsType /\ UsersType /\ Shape(request[r]) /\ request[r] \in Req
      /\ request[r].pc \in {"session", "user", "use", "drop", "verify", "create", "handle", "save", "file",
                            "delete", "serve"} => request[r].op # "logout"
      /\ saved \in Nat
  BY TypeParts DEF TypeInv, HandlerShape, RequestsType, Shape, SessionsType
<1>01. {"user", "use", "create", "save", "file", "delete", "serve"} \subseteq PCs \ {"idle", "drop", "answer"}
  BY DEF PCs
<1>1. CASE GetSession(r)
  <2>1. /\ UNCHANGED <<schedule, saved, session>> /\ request[r].set = Keep /\ ~At(r, "idle")
        /\ At(r, "session")
    BY <1>0, <1>1 DEF GetSession, data, At, Shape
  <2>2. ASSUME Live(request[r].cookie), Goes(r, "user") PROVE \E q : Good(r, q)
    <3>1. request[r].cookie # NoSession
      BY <1>0, <2>2 DEF Live, NoSession
    <3> QED BY <1>0, <1>01, <2>1, <2>2, <3>1, GoesGood DEF At
  <2>3. ASSUME Refused(r) PROVE \E q : Good(r, q)
    BY <1>0, <2>1, <2>3, RefusedGood DEF At
  <2> QED BY <1>0, <1>1, <2>1, <2>2, <2>3, RowsKept DEF GetSession
<1>2. CASE GetUser(r)
  <2> DEFINE u == session[request[r].cookie].account
             q == [request[r] EXCEPT !.pc = "use", !.reset = account[u].reset]
  <2>1. /\ UNCHANGED <<schedule, saved, session>> /\ request[r].set = Keep /\ ~At(r, "idle")
        /\ request[r].cookie # NoSession /\ At(r, "user")
    BY <1>0, <1>2 DEF GetUser, data, At, Shape
  <2>2. account[u].reset \in BOOLEAN
    <3>1. request[r].cookie \in 1..saved
      BY <1>0, <2>1 DEF Req, NoSession
    <3>2. u \in Accounts
      BY <1>0, <3>1 DEF SessionsType, Row
    <3> QED BY <1>0, <3>2 DEF UsersType
  <2>3. ASSUME request' = [request EXCEPT ![r].pc = "use", ![r].reset = account[u].reset] PROVE \E p : Good(r, p)
    <3> HIDE DEF u
    <3>1. request' = [request EXCEPT ![r] = q]
      BY <1>0, <2>3 DEF RequestsType
    <3>2. /\ q.pc = "use" /\ q.op = request[r].op /\ q.cookie = request[r].cookie /\ q.set = request[r].set
          /\ q \in Req
      BY <1>0, <1>01, <2>2 DEF Req
    <3>3. Shape(q)
      BY <1>0, <2>1, <3>2 DEF Shape, At
    <3>4. Req' = Req
      BY <2>1 DEF Req, Bounds
    <3> HIDE DEF q
    <3> QED BY <3>1, <3>2, <3>3, <3>4 DEF Good
  <2>4. ASSUME Refused(r) PROVE \E p : Good(r, p)
    BY <1>0, <2>1, <2>4, RefusedGood DEF At
  <2> QED BY <1>0, <1>2, <2>1, <2>3, <2>4, RowsKept DEF GetUser
<1>3. CASE useSession(r)
  <2>1. /\ schedule' = schedule /\ request[r].set = Keep /\ ~At(r, "idle")
        /\ request[r].cookie # NoSession /\ At(r, "use") /\ request[r].op # "logout"
    BY <1>0, <1>3 DEF useSession, At, Shape
  <2>2. /\ request[r].cookie \in 1..saved
        /\ session[request[r].cookie].account \in Accounts
    <3>1. request[r].cookie \in 1..saved
      BY <1>0, <2>1 DEF Req, NoSession
    <3> QED BY <1>0, <3>1 DEF SessionsType, Row
  <2>3. CASE DeleteSession(request[r].cookie) /\ Refused(r)
    <3>1. saved' = saved /\ SessionsType'
      BY <1>0, <2>3, RowsKept DEF DeleteSession
    <3> QED BY <2>1, <2>3, <3>1, RefusedGood
  <2>4. CASE CreateSession(r, session[request[r].cookie].account, "drop")
    BY <2>1, <2>2, <2>4, CreateGood
  <2>5. CASE Granted(r) /\ UNCHANGED <<saved, session>>
    <3>1. saved' = saved /\ SessionsType'
      BY <1>0, <2>5, RowsKept
    <3> QED BY <2>1, <2>5, <3>1, GrantedGood
  <2> QED BY <1>3, <2>1, <2>3, <2>4, <2>5 DEF useSession
<1>4. CASE DropRenewed(r)
  <2>1. /\ schedule' = schedule /\ ~At(r, "idle") /\ request[r].cookie # NoSession
        /\ request[r].op # "logout" /\ Granted(r)
    BY <1>0, <1>4 DEF DropRenewed, At, Shape
  <2>2. saved' = saved /\ SessionsType'
    BY <1>0, <1>4, RowsKept DEF DropRenewed, DeleteSession
  <2> QED BY <2>1, <2>2, GrantedGood
<1>5. CASE VerifyPassword(r)
  <2>1. /\ UNCHANGED <<schedule, saved, session>> /\ request[r].set = Keep /\ ~At(r, "idle")
        /\ request[r].op # "logout" /\ (Goes(r, "create") \/ Returns(r))
    BY <1>0, <1>5 DEF VerifyPassword, data, At, Shape
  <2> QED BY <1>0, <1>01, <2>1, RowsKept, GoesGood, AnsweredGood
<1>6. CASE Login(r)
  <2>1. /\ schedule' = schedule /\ request[r].op # "logout"
        /\ CreateSession(r, Owner[BrowserOf[r]], "answer")
    BY <1>0, <1>6 DEF Login, At
  <2>2. Owner[BrowserOf[r]] \in Accounts /\ now \in Nat
    BY Constants, NowType, TypeParts DEF TypeInv
  <2> QED BY <2>1, <2>2, CreateGood
<1>7. CASE LogoutSession(r)
  <2> DEFINE q == [request[r] EXCEPT !.pc = "answer", !.set = NoSession]
  <2>1. schedule' = schedule /\ saved' = saved /\ SessionsType'
    BY <1>0, <1>7, RowsKept DEF LogoutSession, DeleteSession
  <2>2. request' = [request EXCEPT ![r] = q]
    BY <1>0, <1>7 DEF LogoutSession, RequestsType
  <2>3. /\ q.pc = "answer" /\ q.op = request[r].op /\ q.set = NoSession /\ q \in Req
    <3>1. NoSession \in -1..saved /\ "answer" \in PCs /\ request[r] \in Req
      BY <1>0 DEF NoSession, PCs
    <3> HIDE <1>0
    <3> QED BY <3>1 DEF Req
  <2>4. Shape(q)
    <3>1. request[r].op = "logout"
      BY <1>0, <1>7 DEF LogoutSession, At, Shape
    <3> HIDE DEF q
    <3> QED BY <2>3, <3>1 DEF Shape, Keep, NoSession
  <2>5. Req' = Req
    BY <2>1 DEF Req, Bounds
  <2> HIDE DEF q
  <2> QED BY <2>1, <2>2, <2>3, <2>4, <2>5 DEF Good
<1>8. CASE ShowChangePassword(r)
  <2>1. /\ UNCHANGED <<schedule, saved, session>> /\ ~At(r, "idle") /\ request[r].cookie # NoSession
        /\ request[r].op # "logout" /\ (Goes(r, "save") \/ Returns(r))
    BY <1>0, <1>8 DEF ShowChangePassword, data, At, Shape
  <2> QED BY <1>0, <1>01, <2>1, RowsKept, GoesGood, AnsweredGood
<1>9. CASE SavePassword(r)
  <2>1. UNCHANGED <<schedule, saved, session>> /\ ~At(r, "idle") /\ Returns(r)
    BY <1>9 DEF SavePassword, At
  <2> QED BY <1>0, <2>1, RowsKept, AnsweredGood
<1>10. CASE GetPresigned(r)
  <2>1. /\ UNCHANGED <<schedule, saved, session>> /\ ~At(r, "idle") /\ request[r].cookie # NoSession
        /\ request[r].op # "logout" /\ (Goes(r, "file") \/ Returns(r))
    BY <1>0, <1>10 DEF GetPresigned, data, At, Shape
  <2> QED BY <1>0, <1>01, <2>1, RowsKept, GoesGood, AnsweredGood
<1>11. CASE GetFile(r)
  <2>1. /\ UNCHANGED <<schedule, saved, session>> /\ ~At(r, "idle") /\ request[r].cookie # NoSession
        /\ request[r].op # "logout" /\ (Goes(r, "delete") \/ Returns(r))
    BY <1>0, <1>11 DEF GetFile, data, At, Shape
  <2> QED BY <1>0, <1>01, <2>1, RowsKept, GoesGood, AnsweredGood
<1>12. CASE DeletePresigned(r)
  <2>1. /\ UNCHANGED <<schedule, saved, session>> /\ ~At(r, "idle") /\ request[r].cookie # NoSession
        /\ request[r].op # "logout" /\ Goes(r, "serve")
    BY <1>0, <1>12 DEF DeletePresigned, At, Shape
  <2> QED BY <1>0, <1>01, <2>1, RowsKept, GoesGood
<1>13. CASE ServeFile(r)
  <2>1. UNCHANGED <<schedule, saved, session>> /\ ~At(r, "idle") /\ Returns(r)
    BY <1>13 DEF ServeFile, At
  <2> QED BY <1>0, <2>1, RowsKept, AnsweredGood
<1> QED
  BY <1>1, <1>2, <1>3, <1>4, <1>5, <1>6, <1>7, <1>8, <1>9, <1>10, <1>11, <1>12, <1>13 DEF Handler

LEMMA SaveUserType ==
  ASSUME UsersType, revived \subseteq Accounts, NEW u \in Accounts, NEW reset \in BOOLEAN, SaveAccount(u, reset)
  PROVE  UsersType' /\ revived' \subseteq Accounts
BY DEF UsersType, SaveAccount

(* What a handler does besides. *)
LEMMA HandlerFrame ==
  ASSUME TypeInv, NEW r \in Requests, Handler(r)
  PROVE  /\ UNCHANGED <<schedule, now, cookie, admin, file, asked, losses, out, raced>>
         /\ UsersType' /\ KeysType' /\ GhostsType'
<1>0. /\ SessionsType /\ RequestsType /\ UsersType /\ KeysType /\ GhostsType /\ Shape(request[r])
      /\ BrowserOf[r] \in Browsers /\ request[r].url \in Urls
      /\ request[r].cookie # NoSession => session[request[r].cookie].account \in Accounts
  <2>1. /\ SessionsType /\ RequestsType /\ UsersType /\ KeysType /\ GhostsType /\ Shape(request[r])
    BY TypeParts DEF TypeInv, HandlerShape
  <2>2. BrowserOf[r] \in Browsers /\ request[r] \in Req
    BY <2>1, Constants DEF RequestsType
  <2>3. request[r].url \in Urls /\ request[r].cookie \in 0..saved
    BY <2>2 DEF Req
  <2>4. request[r].cookie # NoSession => session[request[r].cookie].account \in Accounts
    BY <2>1, <2>3 DEF SessionsType, Row, NoSession
  <2> QED BY <2>1, <2>2, <2>3, <2>4
<1>1. UNCHANGED <<schedule, now, cookie, admin, file, asked, losses, out, raced>>
  BY DEF Handler, GetSession, GetUser, useSession, DropRenewed, VerifyPassword, Login, LogoutSession,
         ShowChangePassword, SavePassword, GetPresigned, GetFile, DeletePresigned, ServeFile, data, ghosts
<1>2. UNCHANGED account \/ SavePassword(r)
  BY DEF Handler, GetSession, GetUser, useSession, DropRenewed, VerifyPassword, Login, LogoutSession,
         ShowChangePassword, GetPresigned, GetFile, DeletePresigned, ServeFile, data
<1>3. UNCHANGED url \/ GetPresigned(r) \/ DeletePresigned(r) \/ ServeFile(r)
  BY DEF Handler, GetSession, GetUser, useSession, DropRenewed, VerifyPassword, Login, LogoutSession,
         ShowChangePassword, SavePassword, GetFile, data
<1>4. UNCHANGED <<evicted, revived>> \/ LogoutSession(r) \/ SavePassword(r)
  BY DEF Handler, GetSession, GetUser, useSession, DropRenewed, VerifyPassword, Login,
         ShowChangePassword, GetPresigned, GetFile, DeletePresigned, ServeFile, ghosts
<1>5. ASSUME SavePassword(r) PROVE UsersType' /\ revived' \subseteq Accounts /\ evicted' = evicted
  <2>1. request[r].cookie # NoSession /\ SaveAccount(session[request[r].cookie].account, FALSE) /\ evicted' = evicted
    BY <1>0, <1>5 DEF SavePassword, At, Shape
  <2> QED BY <1>0, <2>1, SaveUserType DEF GhostsType
<1>6. ASSUME LogoutSession(r) PROVE revived' = revived /\ evicted' \subseteq Browsers
  BY <1>0, <1>6 DEF LogoutSession, GhostsType
<1>7. ASSUME DeletePresigned(r) PROVE url' \in UrlsType
  BY <1>0, <1>7 DEF DeletePresigned, KeysType, UrlsType
<1>8. ASSUME ServeFile(r) PROVE url' \in UrlsType
  BY <1>0, <1>8 DEF ServeFile, KeysType, UrlsType
<1>12. ASSUME GetPresigned(r) PROVE url' \in UrlsType
  <2> DEFINE again == \E o \in Requests : request[o].pc \in {"file", "delete"} /\ request[o].url = request[r].url
             k == request[r].url
  <2>1. UNCHANGED url \/ url' = [url EXCEPT ![k].shared = @ \/ again]
    BY <1>12 DEF GetPresigned
  <2>2. url[k].shared \in BOOLEAN /\ url \in UrlsType
    BY <1>0 DEF KeysType, UrlsType
  <2>3. (url[k].shared \/ again) \in BOOLEAN
    OBVIOUS
  <2> HIDE DEF again, k
  <2>4. [url[k] EXCEPT !.shared = @ \/ again] \in [state : {"none", "live", "used", "expired"}, expiry : Nat, served : Nat,
                                                  shared : BOOLEAN]
    BY <1>0, <2>2, <2>3 DEF UrlsType, k
  <2> QED BY <2>1, <2>2, <2>4 DEF UrlsType
<1>9. UsersType'
  BY <1>0, <1>2, <1>5 DEF UsersType
<1>10. KeysType'
  BY <1>0, <1>1, <1>3, <1>7, <1>8, <1>12 DEF KeysType
<1>11. GhostsType'
  BY <1>0, <1>1, <1>4, <1>5, <1>6 DEF GhostsType
<1> QED BY <1>1, <1>9, <1>10, <1>11

LEMMA HandlerTypes ==
  ASSUME TypeInv, NEW r \in Requests, Handler(r)
  PROVE  TypeInv'
<1>1. /\ ScenarioType /\ SessionsType /\ CookiesType /\ RequestsType /\ UsersType /\ AdminsType
      /\ saved \in Nat /\ HandlerShape
  BY TypeParts DEF TypeInv, SessionsType
<1>2. /\ SessionsType' /\ saved' \in {saved, saved + 1}
      /\ UNCHANGED <<schedule, now, cookie, admin, file, asked, losses, out, raced>>
      /\ UsersType' /\ KeysType' /\ GhostsType'
  BY HandlerGood, HandlerFrame
<1>3. RequestsType' /\ HandlerShape'
  <2>1. PICK q : Good(r, q)
    BY HandlerGood
  <2>2. q \in Req' /\ Shape(q) /\ request' = [request EXCEPT ![r] = q]
    BY <2>1 DEF Good
  <2>3. saved' \in Nat /\ saved' >= saved /\ schedule' = schedule
    BY <1>1, <1>2
  <2> QED BY <1>1, <2>2, <2>3, OneChanges
<1>4. CookiesType'
  <2>1. 0..saved \subseteq 0..saved'
    BY <1>1, <1>2
  <2> QED BY <1>1, <1>2, <2>1 DEF CookiesType
<1>5. ScenarioType' /\ AdminsType'
  BY <1>1, <1>2 DEF ScenarioType, AdminsType, Bounds
<1>6. SessionsTypeOK'
  BY <1>2, <1>3, <1>4, <1>5, TypeParts, PTL
<1> QED BY <1>3, <1>6 DEF TypeInv

(* All other steps leave the sessions alone, or delete some. *)
LEMMA SendGood ==
  ASSUME TypeInv, NEW r \in Requests, NEW op \in Bounds.operations, NEW k \in Urls, Send(r, op, k)
  PROVE  /\ \E q : Good(r, q) /\ q.pc \in {"logout", "session"} /\ q.op = op /\ q.set = Keep
                   /\ q.cookie \in {NoSession, cookie[BrowserOf[r]]}
                   /\ q.late = ~account[Owner[BrowserOf[r]]].live
         /\ ScenarioType'
<1> DEFINE s == IF cookie[BrowserOf[r]] # NoSession /\ session[cookie[BrowserOf[r]]].validUntil > now
                THEN cookie[BrowserOf[r]] ELSE NoSession
           q == [Idle EXCEPT !.pc = IF op = "logout" THEN "logout" ELSE "session", !.op = op,
                             !.cookie = s, !.late = ~account[Owner[BrowserOf[r]]].live, !.url = k]
<1>1. /\ Idle \in Req /\ Idle.set = Keep /\ CookiesType /\ ScenarioType /\ saved \in Nat /\ SessionsType
  BY IdleGood, TypeParts DEF TypeInv, SessionsType
<1>2. s \in 0..saved /\ s \in {NoSession, cookie[BrowserOf[r]]}
  BY <1>1, Constants DEF CookiesType, NoSession
<1>3. (~account[Owner[BrowserOf[r]]].live) \in BOOLEAN
  OBVIOUS
<1>4. request' = [request EXCEPT ![r] = q]
  BY DEF Send
<1> HIDE DEF s
<1>5. /\ q.pc = IF op = "logout" THEN "logout" ELSE "session"
      /\ q.op = op /\ q.cookie = s /\ q.set = Keep /\ q.late = ~account[Owner[BrowserOf[r]]].live
  BY <1>1 DEF Req
<1>6. q \in Req
  <2>1. {"logout", "session"} \subseteq PCs
    BY DEF PCs
  <2> QED BY <1>1, <1>2, <1>3, <2>1 DEF Req
<1>7. Req' = Req
  BY DEF Send, data, Req, Bounds
<1> HIDE DEF q
<1>8. Shape(q)
  BY <1>5 DEF Shape, Keep, NoSession
<1>9. ScenarioType'
  BY <1>1, NowType DEF Send, ScenarioType, Bounds
<1> QED BY <1>2, <1>4, <1>5, <1>6, <1>7, <1>8, <1>9 DEF Good

LEMMA IdleGoes ==
  ASSUME TypeInv, NEW r \in Requests, saved' = saved, schedule' = schedule,
         request' = [request EXCEPT ![r] = Idle]
  PROVE  Good(r, Idle)
<1>1. Idle \in Req /\ Shape(Idle)
  BY IdleGood, TypeParts DEF TypeInv
<1>2. Req' = Req
  BY DEF Req, Bounds
<1> QED BY <1>1, <1>2 DEF Good

LEMMA AnswerTypes ==
  ASSUME TypeInv, NEW r \in Requests, Answer(r)
  PROVE  CookiesType' /\ GhostsType' /\ request[r].set \in 0..saved
<1>1. CookiesType /\ GhostsType /\ request[r] \in Req /\ Shape(request[r]) /\ BrowserOf[r] \in Browsers /\ saved \in Nat
  BY TypeParts, Constants DEF TypeInv, RequestsType, HandlerShape, SessionsType
<1>2. request[r].set \in 0..saved
  BY <1>1 DEF Answer, At, Shape, Req, Keep
<1>3. CookiesType'
  BY <1>1, <1>2 DEF Answer, data, CookiesType
<1>4. GhostsType'
  BY <1>1 DEF Answer, GhostsType
<1> QED BY <1>2, <1>3, <1>4

LEMMA AdminTypes ==
  ASSUME TypeInv, NEW a \in Admins,
         \/ \E op \in Bounds.admin, u \in Accounts : isValidUserForEditing(a, op, u)
         \/ EndSessions(a) \/ SaveReset(a) \/ DeleteUser(a)
  PROVE  SessionsType' /\ saved' = saved /\ UsersType' /\ AdminsType' /\ GhostsType'
<1>1. /\ SessionsType /\ UsersType /\ AdminsType /\ GhostsType /\ ScenarioType
      /\ admin[a].account \in Accounts
  BY TypeParts DEF TypeInv, AdminsType
<1>2. CASE \E op \in Bounds.admin, u \in Accounts : isValidUserForEditing(a, op, u)
  <2>1. PICK op \in Bounds.admin, u \in Accounts : isValidUserForEditing(a, op, u)
    BY <1>2
  <2>2. op \in {"reset", "delete"}
    BY <1>1, SessionsAssumption DEF ScenarioType, Bounds
  <2>3. AdminsType'
    BY <1>1, <2>1, <2>2 DEF isValidUserForEditing, AdminsType
  <2>4. UNCHANGED <<saved, session, account, evicted, out, raced, revived>>
    BY <2>1 DEF isValidUserForEditing, data, ghosts
  <2> QED BY <1>1, <2>3, <2>4, RowsKept DEF UsersType, GhostsType
<1>3. CASE EndSessions(a)
  <2>1. SessionsType' /\ saved' = saved
    BY <1>1, <1>3, RowsKept DEF EndSessions, DeleteAllSessionsByUser
  <2>2. AdminsType' /\ UsersType' /\ GhostsType'
    BY <1>1, <1>3 DEF EndSessions, AdminsType, UsersType, GhostsType
  <2> QED BY <2>1, <2>2
<1>4. CASE SaveReset(a)
  <2>1. UsersType' /\ revived' \subseteq Accounts
    BY <1>1, <1>4, SaveUserType DEF SaveReset, GhostsType
  <2>2. AdminsType'
    BY <1>1, <1>4 DEF SaveReset, AdminsType
  <2>3. UNCHANGED <<saved, session, evicted, out, raced>>
    BY <1>4 DEF SaveReset
  <2> QED BY <1>1, <2>1, <2>2, <2>3, RowsKept DEF GhostsType
<1>5. CASE DeleteUser(a)
  <2>1. UsersType'
    BY <1>1, <1>5 DEF DeleteUser, UsersType
  <2>2. AdminsType'
    BY <1>1, <1>5 DEF DeleteUser, AdminsType
  <2>3. UNCHANGED <<saved, session, evicted, out, raced, revived>>
    BY <1>5 DEF DeleteUser, ghosts
  <2> QED BY <1>1, <2>1, <2>2, <2>3, RowsKept DEF GhostsType
<1> QED BY <1>2, <1>3, <1>4, <1>5

LEMMA NextTypes == TypeInv /\ [SessionsNext]_sessionsVars => TypeInv'
<1> SUFFICES ASSUME TypeInv, [SessionsNext]_sessionsVars PROVE TypeInv'
  OBVIOUS
<1>0. /\ ScenarioType /\ SessionsType /\ CookiesType /\ RequestsType /\ UsersType /\ AdminsType /\ KeysType
      /\ GhostsType /\ saved \in Nat /\ HandlerShape
  BY TypeParts DEF TypeInv, SessionsType
(* what is left to show when the parts hold *)
<1>a. ASSUME ScenarioType', SessionsType', CookiesType', RequestsType', UsersType', AdminsType', KeysType',
             GhostsType', HandlerShape'
      PROVE  TypeInv'
  <2>1. SessionsTypeOK'
    BY <1>a, TypeParts, PTL
  <2> QED BY <1>a, <2>1 DEF TypeInv
<1>b. ASSUME NEW r \in Requests, NEW q, Good(r, q), saved' = saved, schedule' = schedule
      PROVE  RequestsType' /\ HandlerShape'
  <2>1. q \in Req' /\ Shape(q) /\ request' = [request EXCEPT ![r] = q]
    BY <1>b DEF Good
  <2>2. saved' \in Nat /\ saved' >= saved
    BY <1>0, <1>b
  <2> QED BY <1>0, <1>b, <2>1, <2>2, OneChanges
<1>c. saved' = saved /\ schedule' = schedule /\ request' = request => RequestsType' /\ HandlerShape'
  BY <1>0 DEF RequestsType, HandlerShape, Req, Bounds
<1>1. ASSUME NEW r \in Requests, NEW op \in Bounds.operations, NEW k \in Urls, Send(r, op, k) PROVE TypeInv'
  <2>1. /\ UNCHANGED <<schedule, saved, session, account, url, file, cookie, admin, evicted, out, raced, revived>>
    BY <1>1 DEF Send, data, ghosts
  <2>2. RequestsType' /\ HandlerShape' /\ ScenarioType'
    BY <1>1, <1>b, <2>1, SendGood
  <2>3. SessionsType' /\ CookiesType' /\ UsersType' /\ AdminsType' /\ KeysType' /\ GhostsType'
    BY <1>0, <2>1 DEF SessionsType, CookiesType, UsersType, AdminsType, KeysType, GhostsType
  <2> QED BY <1>a, <2>2, <2>3
<1>2. ASSUME NEW r \in Requests, Handler(r) PROVE TypeInv'
  BY <1>2, HandlerTypes
<1>3. ASSUME NEW r \in Requests, Answer(r) PROVE TypeInv'
  <2>1. /\ UNCHANGED <<schedule, now, saved, session, account, url, file, admin, asked, losses>>
        /\ request' = [request EXCEPT ![r] = Idle]
    BY <1>3 DEF Answer, data
  <2>2. RequestsType' /\ HandlerShape' /\ CookiesType' /\ GhostsType'
    BY <1>3, <1>b, <2>1, IdleGoes, AnswerTypes
  <2>3. ScenarioType' /\ SessionsType' /\ UsersType' /\ AdminsType' /\ KeysType'
    BY <1>0, <2>1 DEF ScenarioType, SessionsType, UsersType, AdminsType, KeysType, Bounds
  <2> QED BY <1>a, <2>2, <2>3
<1>4. ASSUME NEW r \in Requests, AnswerLost(r) PROVE TypeInv'
  <2>1. /\ UNCHANGED <<schedule, now, saved, session, account, url, file, cookie, admin, asked, out, raced, revived>>
        /\ request' = [request EXCEPT ![r] = Idle]
    BY <1>4 DEF AnswerLost, data
  <2>2. RequestsType' /\ HandlerShape'
    BY <1>b, <2>1, IdleGoes
  <2>3. SessionsType' /\ CookiesType' /\ UsersType' /\ AdminsType' /\ KeysType'
    BY <1>0, <2>1 DEF SessionsType, CookiesType, UsersType, AdminsType, KeysType
  <2>4. ScenarioType'
    BY <1>0, <1>4, <2>1, NowType DEF AnswerLost, ScenarioType, Bounds
  <2>5. GhostsType'
    BY <1>0, <1>4, <2>1, Constants DEF AnswerLost, GhostsType
  <2> QED BY <1>a, <2>2, <2>3, <2>4, <2>5
<1>5. ASSUME NEW a \in Admins, \/ \E op \in Bounds.admin, u \in Accounts : isValidUserForEditing(a, op, u)
                               \/ EndSessions(a) \/ SaveReset(a) \/ DeleteUser(a)
      PROVE  TypeInv'
  <2>1. UNCHANGED <<schedule, now, url, file, cookie, request, asked, losses>>
    BY <1>5 DEF isValidUserForEditing, EndSessions, SaveReset, DeleteUser, data
  <2>2. SessionsType' /\ saved' = saved /\ UsersType' /\ AdminsType' /\ GhostsType'
    BY <1>5, AdminTypes
  <2>3. ScenarioType' /\ CookiesType' /\ KeysType'
    BY <1>0, <2>1, <2>2 DEF ScenarioType, CookiesType, KeysType, Bounds
  <2> QED BY <1>a, <1>c, <2>1, <2>2, <2>3
<1>6. ASSUME NEW k \in Urls, Presign(k) PROVE TypeInv'
  <2>1. UNCHANGED <<schedule, now, account, saved, session, file, cookie, request, admin, asked, losses,
                    evicted, out, raced, revived>>
    BY <1>6 DEF Presign, ghosts
  <2>2. now + PresignLife \in Nat
    BY <1>0, NowType, Constants
  <2>3. KeysType'
    BY <1>0, <1>6, <2>1, <2>2 DEF Presign, KeysType, UrlsType
  <2>4. ScenarioType' /\ SessionsType' /\ CookiesType' /\ UsersType' /\ AdminsType' /\ GhostsType'
    BY <1>0, <2>1 DEF ScenarioType, SessionsType, CookiesType, UsersType, AdminsType, GhostsType, Bounds
  <2> QED BY <1>a, <1>c, <2>1, <2>3, <2>4
<1>7. CASE cleanExpiredSessions
  <2>1. UNCHANGED <<schedule, now, account, url, file, cookie, request, admin, asked, losses,
                    evicted, out, raced, revived>>
    BY <1>7 DEF cleanExpiredSessions, ghosts
  <2>2. SessionsType' /\ saved' = saved
    BY <1>0, <1>7, RowsKept DEF cleanExpiredSessions
  <2>3. ScenarioType' /\ CookiesType' /\ UsersType' /\ AdminsType' /\ KeysType' /\ GhostsType'
    BY <1>0, <2>1, <2>2 DEF ScenarioType, CookiesType, UsersType, AdminsType, KeysType, GhostsType, Bounds
  <2> QED BY <1>a, <1>c, <2>1, <2>2, <2>3
<1>8. CASE cleanUp \/ FileExpires
  <2>1. UNCHANGED <<schedule, now, account, saved, session, cookie, request, admin, asked, losses,
                    evicted, out, raced, revived>>
    BY <1>8 DEF cleanUp, FileExpires, ghosts
  <2>2. KeysType'
    BY <1>0, <1>8 DEF cleanUp, FileExpires, KeysType, UrlsType
  <2>3. ScenarioType' /\ SessionsType' /\ CookiesType' /\ UsersType' /\ AdminsType' /\ GhostsType'
    BY <1>0, <2>1 DEF ScenarioType, SessionsType, CookiesType, UsersType, AdminsType, GhostsType, Bounds
  <2> QED BY <1>a, <1>c, <2>1, <2>2, <2>3
<1>9. CASE SessionTick
  <2>1. UNCHANGED <<schedule, account, saved, session, url, file, cookie, request, admin, asked, losses,
                    evicted, out, raced, revived>>
    BY <1>9 DEF SessionTick, data, ghosts
  <2>2. ScenarioType'
    BY <1>0, <1>9, <2>1, NowType DEF SessionTick, ScenarioType, Bounds
  <2>3. SessionsType' /\ CookiesType' /\ UsersType' /\ AdminsType' /\ KeysType' /\ GhostsType'
    BY <1>0, <2>1 DEF SessionsType, CookiesType, UsersType, AdminsType, KeysType, GhostsType
  <2> QED BY <1>a, <1>c, <2>1, <2>2, <2>3
<1>10. CASE Restart
  <2>1. UNCHANGED <<schedule, now, account, saved, session, file, cookie, asked, out, raced, revived>>
    BY <1>10 DEF Restart
  <2>2. RequestsType' /\ HandlerShape'
    <3>1. Idle \in Req /\ Shape(Idle) /\ Req' = Req
      BY <1>0, <2>1, IdleGood DEF Req, Bounds
    <3>2. request' = [r \in Requests |-> Idle]
      BY <1>10 DEF Restart
    <3> QED BY <3>1, <3>2 DEF RequestsType, HandlerShape
  <2>3. KeysType' /\ AdminsType'
    BY <1>0, <1>10, <2>1 DEF Restart, KeysType, UrlsType, AdminsType
  <2>4. ScenarioType'
    BY <1>0, <1>10, <2>1, NowType DEF Restart, ScenarioType, Bounds
  <2>5. GhostsType'
    BY <1>0, <1>10, <2>1, Constants DEF Restart, GhostsType
  <2>6. SessionsType' /\ CookiesType' /\ UsersType'
    BY <1>0, <2>1 DEF SessionsType, CookiesType, UsersType
  <2> QED BY <1>a, <2>2, <2>3, <2>4, <2>5, <2>6
<1>11. CASE UNCHANGED sessionsVars
  <2>1. ScenarioType' /\ SessionsType' /\ CookiesType' /\ UsersType' /\ AdminsType' /\ KeysType' /\ GhostsType'
    BY <1>0, <1>11 DEF sessionsVars, ScenarioType, SessionsType, CookiesType, UsersType, AdminsType, KeysType, GhostsType, Bounds
  <2> QED BY <1>a, <1>c, <1>11, <2>1 DEF sessionsVars
<1> QED BY <1>1, <1>2, <1>3, <1>4, <1>5, <1>6, <1>7, <1>8, <1>9, <1>10, <1>11 DEF SessionsNext

LEMMA InitTypes == SessionsInit => TypeInv
<1> SUFFICES ASSUME SessionsInit PROVE TypeInv
  OBVIOUS
<1>1. saved = 0 /\ SessionsType
  BY DEF SessionsInit, SessionsType
<1>2. RequestsType /\ HandlerShape
  BY <1>1, IdleGood DEF SessionsInit, RequestsType, HandlerShape
<1>3. ScenarioType
  <2>1. schedule \in DOMAIN Schedules /\ now = 0 /\ asked = 0 /\ losses = 0
    BY DEF SessionsInit
  <2>2. {Bounds.maxNow, Bounds.maxRequests, Bounds.maxFaults} \subseteq Nat
    BY <2>1, SessionsAssumption DEF Bounds
  <2> QED BY <2>1, <2>2 DEF ScenarioType
<1>4. CookiesType /\ GhostsType
  BY <1>1 DEF SessionsInit, CookiesType, NoSession, GhostsType
<1>5. UsersType
  BY DEF SessionsInit, UsersType
<1>6. AdminsType
  <2>1. (CHOOSE u \in Accounts : TRUE) \in Accounts
    BY Constants
  <2> QED BY <2>1 DEF SessionsInit, AdminsType
<1>7. KeysType
  BY DEF SessionsInit, KeysType, UrlsType
<1> QED BY <1>1, <1>2, <1>3, <1>4, <1>5, <1>6, <1>7, TypeParts DEF TypeInv

LEMMA TypesHold == SessionsSpec => []TypeInv
BY InitTypes, NextTypes, PTL DEF SessionsSpec

(* The variables keep their types, whatever is renewed, lost or restarted    *)
(* (all handlers): a cookie always names a session that was saved.           *)
THEOREM TypeCorrect == SessionsSpec => []SessionsTypeOK
BY TypesHold, PTL DEF TypeInv

LEMMA OthersStay ==
  ASSUME TypeInv, NEW r \in Requests, Handler(r)
  PROVE  \A o \in Requests : o # r => request'[o] = request[o]
<1>1. PICK q : Good(r, q)
  BY HandlerGood
<1>2. RequestsType
  BY TypeParts DEF TypeInv
<1> QED BY <1>1, <1>2 DEF Good, RequestsType

-----------------------------------------------------------------------------
(* Presigned URLs: while no two requests share a URL, at most one has found   *)
(* it, and it has been deleted before it is served.                          *)
UrlGone(k) == url[k].state \in {"used", "expired"}
Holds(r, k) == request[r].pc \in {"file", "delete", "serve"} /\ request[r].url = k
FoundOnce(k) ==
    /\ \A r, o \in Requests : Holds(r, k) /\ Holds(o, k) => r = o
    /\ \A r \in Requests : Holds(r, k) =>
          url[k].served = 0 /\ url[k].state # "none" /\ (At(r, "serve") => UrlGone(k))
    /\ url[k].served <= 1 /\ (url[k].served = 1 => UrlGone(k))
PresignInv == \A k \in Urls : ~url[k].shared => FoundOnce(k)

(* A step after which no request has come closer to serving k. *)
LEMMA FoundKept ==
  ASSUME KeysType, NEW k \in Urls, FoundOnce(k), url'[k].served = url[k].served,
         UrlGone(k) => url'[k].state \in {"used", "expired"},
         \A r \in Requests : Holds(r, k)' => /\ Holds(r, k) /\ url'[k].state # "none"
                                             /\ At(r, "serve")' => url'[k].state \in {"used", "expired"}
  PROVE  FoundOnce(k)'
BY DEF FoundOnce, UrlGone, KeysType, UrlsType

LEMMA Returned ==
  ASSUME NEW r \in Requests, request \in [Requests -> Req], Returns(r)
  PROVE  request'[r].pc \in {"idle", "answer"}
<1>1. request'[r] = IF request[r].set = Keep THEN Idle ELSE [request[r] EXCEPT !.pc = "answer"]
  BY DEF Returns
<1>2. Idle.pc = "idle" /\ request[r] \in Req
  BY DEF Idle
<1> QED BY <1>1, <1>2 DEF Req

LEMMA PresignNext == TypeInv /\ PresignInv /\ [SessionsNext]_sessionsVars => PresignInv'
<1> SUFFICES ASSUME TypeInv, PresignInv, [SessionsNext]_sessionsVars, NEW k \in Urls, ~url'[k].shared
             PROVE  FoundOnce(k)'
  BY DEF PresignInv
<1>0. /\ RequestsType /\ KeysType /\ url \in UrlsType
      /\ \A r \in Requests : request[r].url \in Urls
      /\ "idle" \notin {"file", "delete", "serve"} /\ Idle.pc = "idle"
  BY TypeParts DEF TypeInv, RequestsType, Req, KeysType, Idle
<1>a. ASSUME url'[k] = url[k], \A r \in Requests : Holds(r, k)' => Holds(r, k) /\ (At(r, "serve")' => At(r, "serve"))
      PROVE  FoundOnce(k)'
  <2>1. FoundOnce(k)
    BY <1>a DEF PresignInv
  <2> QED BY <1>0, <1>a, <2>1, FoundKept DEF FoundOnce, UrlGone
<1>b. ASSUME url'[k] = url[k], NEW r \in Requests, Holds(r, k)' => Holds(r, k) /\ ~At(r, "serve")',
             \A o \in Requests : o # r => request'[o] = request[o]
      PROVE  FoundOnce(k)'
  BY <1>a, <1>b DEF Holds, At
<1>1. ASSUME NEW r \in Requests, Handler(r) PROVE FoundOnce(k)'
  <2>0. /\ \A o \in Requests : o # r => request'[o] = request[o]
        /\ request \in [Requests -> Req]
    BY <1>0, <1>1, OthersStay DEF RequestsType
  <2>1. CASE GetPresigned(r)
    <3>1. CASE url[request[r].url].state = "live" /\ url[request[r].url].expiry >= now
      <4>1. /\ request'[r].pc = "file" /\ request'[r].url = request[r].url
            /\ \A l \in Urls : l # request[r].url => url'[l] = url[l]
        BY <1>0, <2>0, <2>1, <3>1 DEF GetPresigned, Goes, UrlsType, Req
      <4>2. CASE k # request[r].url
        BY <1>b, <2>0, <4>1, <4>2 DEF Holds
      <4>3. CASE k = request[r].url
        <5>1. /\ url'[k].served = url[k].served /\ url'[k].state = "live" /\ url[k].state = "live"
              /\ ~url[k].shared
              /\ \A o \in Requests : ~(request[o].pc \in {"file", "delete"} /\ request[o].url = k)
          <6>1. url' = [url EXCEPT ![k].shared =
                          @ \/ \E o \in Requests : request[o].pc \in {"file", "delete"} /\ request[o].url = k]
            BY <2>1, <3>1, <4>3 DEF GetPresigned
          <6>2. url'[k].shared = (url[k].shared \/ \E o \in Requests : request[o].pc \in {"file", "delete"} /\ request[o].url = k)
            BY <1>0, <6>1 DEF UrlsType
          <6> QED BY <1>0, <3>1, <4>3, <6>1, <6>2 DEF UrlsType
        <5>2. FoundOnce(k)
          BY <5>1 DEF PresignInv
        <5>3. \A o \in Requests : ~Holds(o, k)
          BY <5>1, <5>2 DEF FoundOnce, Holds, At, UrlGone
        <5>4. url'[k].served = 0
          BY <1>0, <5>1, <5>2 DEF FoundOnce, UrlGone, UrlsType
        <5>5. ~At(r, "serve")'
          BY <4>1 DEF At
        <5>6. \A o \in Requests : Holds(o, k)' => o = r
          BY <2>0, <5>3 DEF Holds
        <5> QED BY <5>1, <5>4, <5>5, <5>6 DEF FoundOnce
      <4> QED BY <4>2, <4>3
    <3>2. CASE ~(url[request[r].url].state = "live" /\ url[request[r].url].expiry >= now)
      <4>0. Returns(r) /\ url' = url
        BY <2>1, <3>2 DEF GetPresigned
      <4>1. request'[r].pc \in {"idle", "answer"}
        BY <2>0, <4>0, Returned
      <4> QED BY <1>b, <2>0, <4>0, <4>1 DEF Holds
    <3> QED BY <3>1, <3>2
  <2>2. CASE DeletePresigned(r)
    <3>1. /\ Holds(r, request[r].url) /\ request'[r].pc = "serve" /\ request'[r].url = request[r].url
          /\ \A l \in Urls : l # request[r].url => url'[l] = url[l]
          /\ url'[k].served = url[k].served /\ url'[k].shared = url[k].shared
          /\ url'[k].state = IF k = request[r].url /\ url[k].state = "live" THEN "used" ELSE url[k].state
      BY <1>0, <2>0, <2>2 DEF DeletePresigned, Goes, UrlsType, Req, Holds, At
    <3>2. FoundOnce(k)
      BY <3>1 DEF PresignInv
    <3>3. \A o \in Requests : Holds(o, k)' => Holds(o, k)
      BY <2>0, <3>1 DEF Holds
    <3>4. \A o \in Requests : Holds(o, k)' => url'[k].state # "none"
      BY <3>1, <3>2, <3>3 DEF FoundOnce
    <3>5. \A o \in Requests : Holds(o, k)' /\ At(o, "serve")' => url'[k].state \in {"used", "expired"}
      <4> SUFFICES ASSUME NEW o \in Requests, Holds(o, k)', At(o, "serve")'
                   PROVE  url'[k].state \in {"used", "expired"}
        OBVIOUS
      <4>1. url[k].state \in {"none", "live", "used", "expired"}
        BY <1>0 DEF UrlsType
      <4>2. CASE o = r
        <5>1. k = request[r].url
          BY <3>1, <4>2 DEF Holds
        <5> QED BY <3>1, <3>2, <4>1, <5>1 DEF FoundOnce
      <4>3. CASE o # r
        <5>1. UrlGone(k)
          BY <2>0, <3>2, <3>3, <4>3 DEF FoundOnce, At
        <5> QED BY <3>1, <5>1 DEF UrlGone
      <4> QED BY <4>2, <4>3
    <3>6. UrlGone(k) => url'[k].state \in {"used", "expired"}
      BY <3>1 DEF UrlGone
    <3> QED BY <1>0, <3>1, <3>2, <3>3, <3>4, <3>5, <3>6, FoundKept
  <2>3. CASE ServeFile(r)
    <3>0. /\ At(r, "serve") /\ Returns(r)
          /\ url' = url \/ url' = [url EXCEPT ![request[r].url].served = @ + 1]
      BY <2>3 DEF ServeFile
    <3>1. /\ Holds(r, request[r].url) /\ At(r, "serve") /\ request'[r].pc \in {"idle", "answer"}
          /\ \A l \in Urls : l # request[r].url => url'[l] = url[l]
          /\ url'[k].state = url[k].state /\ url'[k].shared = url[k].shared
          /\ url'[k].served \in {url[k].served, url[k].served + 1}
      BY <1>0, <2>0, <3>0, Returned DEF UrlsType, Holds, At
    <3>2. CASE k # request[r].url
      BY <1>b, <2>0, <3>1, <3>2 DEF Holds
    <3>3. CASE k = request[r].url
      <4>1. FoundOnce(k)
        BY <3>1 DEF PresignInv
      <4>2. url[k].served = 0 /\ UrlGone(k) /\ \A o \in Requests : Holds(o, k) => o = r
        BY <3>1, <3>3, <4>1 DEF FoundOnce
      <4>3. \A o \in Requests : ~Holds(o, k)'
        BY <2>0, <3>1, <4>2 DEF Holds
      <4>4. url'[k].served \in {0, 1} /\ UrlGone(k)'
        BY <3>1, <4>2 DEF UrlGone
      <4> QED BY <4>3, <4>4 DEF FoundOnce
    <3> QED BY <3>2, <3>3
  <2>4. CASE GetFile(r)
    <3>1. /\ url' = url /\ request[r].pc = "file" /\ request'[r].pc \in {"delete", "idle", "answer"}
          /\ request'[r].pc = "delete" => request'[r].url = request[r].url
      BY <1>0, <2>0, <2>4 DEF GetFile, Goes, Returns, Req, At, data
    <3> QED BY <1>b, <2>0, <3>1 DEF Holds, At
  <2>5. CASE ~GetPresigned(r) /\ ~DeletePresigned(r) /\ ~ServeFile(r) /\ ~GetFile(r)
    <3>1. url' = url
      BY <1>1, <2>5 DEF Handler, GetSession, GetUser, useSession, DropRenewed, VerifyPassword, Login,
         LogoutSession, ShowChangePassword, SavePassword, data
    <3>2. request'[r].pc \notin {"file", "delete", "serve"}
      <4>1. \/ \E pc \in {"user", "verify", "handle", "create", "save"} : Goes(r, pc)
            \/ \E pc \in {"drop", "answer"} : \E u : CreateSession(r, u, pc)
            \/ GetUser(r) \/ LogoutSession(r) \/ Returns(r)
        BY <1>1, <2>5 DEF Handler, GetSession, useSession, DropRenewed, VerifyPassword, Login,
           ShowChangePassword, SavePassword, Refused, Granted
      <4>2. GetUser(r) => Goes(r, "verify") \/ Returns(r) \/ request' = [request EXCEPT ![r].pc = "use", ![r].reset = request'[r].reset]
        BY <2>0 DEF GetUser, Refused
      <4>3. ASSUME NEW pc \in {"user", "verify", "handle", "create", "save"}, Goes(r, pc) PROVE request'[r].pc = pc
        BY <2>0, <4>3 DEF Goes, Req
      <4>4. ASSUME NEW pc, NEW u, CreateSession(r, u, pc) PROVE request'[r].pc = pc
        BY <2>0, <4>4 DEF CreateSession, Req
      <4>5. LogoutSession(r) => request'[r].pc = "answer"
        BY <2>0 DEF LogoutSession, Req
      <4>6. GetUser(r) => request'[r].pc \in {"verify", "idle", "answer", "use"}
        BY <2>0, <4>2, <4>3, Returned DEF Req
      <4>7. Returns(r) => request'[r].pc \in {"idle", "answer"}
        BY <2>0, Returned
      <4>8. CASE \E pc \in {"user", "verify", "handle", "create", "save"} : Goes(r, pc)
        BY <4>3, <4>8
      <4>9. CASE \E pc \in {"drop", "answer"} : \E u : CreateSession(r, u, pc)
        BY <4>4, <4>9
      <4> QED BY <4>1, <4>5, <4>6, <4>7, <4>8, <4>9
    <3> QED BY <1>b, <2>0, <3>1, <3>2 DEF Holds
  <2> QED BY <2>1, <2>2, <2>3, <2>4, <2>5
<1>2. ASSUME NEW r \in Requests, NEW op \in Bounds.operations, NEW l \in Urls, Send(r, op, l) PROVE FoundOnce(k)'
  <2>1. /\ url' = url /\ \A o \in Requests : o # r => request'[o] = request[o]
        /\ request'[r].pc \in {"logout", "session"}
    BY <1>0, <1>2 DEF Send, data, RequestsType, Idle
  <2> QED BY <1>b, <2>1 DEF Holds
<1>3. ASSUME NEW r \in Requests, Answer(r) \/ AnswerLost(r) PROVE FoundOnce(k)'
  <2>1. /\ url' = url /\ \A o \in Requests : o # r => request'[o] = request[o]
        /\ request'[r].pc = "idle"
    BY <1>0, <1>3 DEF Answer, AnswerLost, data, RequestsType
  <2> QED BY <1>b, <2>1 DEF Holds
<1>4. ASSUME NEW a \in Admins, \/ \E op \in Bounds.admin, u \in Accounts : isValidUserForEditing(a, op, u)
                               \/ EndSessions(a) \/ SaveReset(a) \/ DeleteUser(a)
      PROVE  FoundOnce(k)'
  <2>1. url' = url /\ request' = request
    BY <1>4 DEF isValidUserForEditing, EndSessions, SaveReset, DeleteUser, data
  <2> QED BY <1>a, <2>1 DEF Holds, At
<1>5. CASE (\E l \in Urls : Presign(l)) \/ cleanUp
  <2>1. /\ request' = request /\ url'[k].served = url[k].served /\ url'[k].shared = url[k].shared
        /\ url'[k].state = url[k].state \/ url[k].state = "none" \/ url'[k].state = "expired"
    <3>1. ASSUME NEW l \in Urls, Presign(l)
          PROVE  request' = request /\ url[l].state = "none"
                 /\ url' = [url EXCEPT ![l] = [@ EXCEPT !.state = "live", !.expiry = now + PresignLife]]
      BY <3>1 DEF Presign
    <3>2. ASSUME NEW l \in Urls, Presign(l)
          PROVE  /\ url'[k].served = url[k].served /\ url'[k].shared = url[k].shared
                 /\ url'[k].state = url[k].state \/ url[k].state = "none"
      <4>1. CASE l = k
        <5>1. url'[k] = [url[k] EXCEPT !.state = "live", !.expiry = now + PresignLife] /\ url[k].state = "none"
          BY <1>0, <3>1, <3>2, <4>1 DEF UrlsType
        <5>2. url[k] \in [state : {"none", "live", "used", "expired"}, expiry : Nat, served : Nat, shared : BOOLEAN]
          BY <1>0 DEF UrlsType
        <5> QED BY <5>1, <5>2
      <4>2. CASE l # k
        BY <1>0, <3>1, <3>2, <4>2 DEF UrlsType
      <4> QED BY <4>1, <4>2
    <3>3. ASSUME cleanUp
          PROVE  /\ request' = request /\ url'[k].served = url[k].served /\ url'[k].shared = url[k].shared
                 /\ url'[k].state = url[k].state \/ url'[k].state = "expired"
      BY <1>0, <3>3 DEF cleanUp, UrlsType
    <3> QED BY <1>5, <3>1, <3>2, <3>3
  <2>2. FoundOnce(k)
    BY <2>1 DEF PresignInv
  <2>3. \A r \in Requests : Holds(r, k)' => Holds(r, k) /\ url[k].state # "none" /\ (At(r, "serve")' => UrlGone(k))
    BY <2>1, <2>2 DEF Holds, At, FoundOnce
  <2> QED BY <1>0, <2>1, <2>2, <2>3, FoundKept DEF UrlGone
<1>6. CASE Restart
  <2>1. /\ \A r \in Requests : request'[r].pc = "idle"
        /\ url'[k].served = url[k].served /\ url'[k].shared = url[k].shared
        /\ url'[k].state = url[k].state \/ url'[k].state = "expired"
    BY <1>0, <1>6 DEF Restart, UrlsType
  <2>2. FoundOnce(k)
    BY <2>1 DEF PresignInv
  <2>3. \A r \in Requests : ~Holds(r, k)'
    BY <2>1 DEF Holds
  <2> QED BY <1>0, <2>1, <2>2, <2>3, FoundKept DEF UrlGone
<1>7. CASE cleanExpiredSessions \/ FileExpires \/ SessionTick \/ UNCHANGED sessionsVars
  <2>1. url' = url /\ request' = request
    BY <1>7 DEF cleanExpiredSessions, FileExpires, SessionTick, sessionsVars, data
  <2> QED BY <1>a, <2>1 DEF Holds, At
<1> QED BY <1>1, <1>2, <1>3, <1>4, <1>5, <1>6, <1>7 DEF SessionsNext

(* However many requests ask for a presigned URL (downloadPresigned), and in *)
(* whatever order their steps come: the URL is served once, unless a request *)
(* found it before another one that had found it had deleted it.  That it is *)
(* served at all is not said: a download can fail after the deletion.        *)
THEOREM ServedOnce == SessionsSpec => []DownloadedOnce
<1>1. SessionsInit => PresignInv
  <2> SUFFICES ASSUME SessionsInit, NEW k \in Urls PROVE FoundOnce(k)
    BY DEF PresignInv
  <2>1. url[k].served = 0 /\ \A r \in Requests : request[r].pc = "idle"
    BY DEF SessionsInit, Idle
  <2> QED BY <2>1 DEF FoundOnce, Holds
<1>2. TypeInv /\ PresignInv /\ [SessionsNext]_sessionsVars => (TypeInv /\ PresignInv)'
  BY NextTypes, PresignNext
<1>3. TypeInv /\ PresignInv => DownloadedOnce
  BY TypeParts DEF PresignInv, DownloadedOnce, FoundOnce, TypeInv, KeysType, UrlsType
<1> QED BY <1>1, <1>2, <1>3, InitTypes, PTL DEF SessionsSpec

-----------------------------------------------------------------------------
(* What a step does to a request and to the sessions *)
Same(r) == /\ request'[r].cookie = request[r].cookie /\ request'[r].set = request[r].set
           /\ request'[r].op = request[r].op /\ request'[r].late = request[r].late

Moves(r) == Same(r) \/ (request'[r] = Idle /\ request[r].set = Keep)

LEMMA Moved ==
  ASSUME TypeInv, NEW r \in Requests, Returns(r) \/ (\E pc \in PCs : Goes(r, pc))
  PROVE  Moves(r) /\ (Returns(r) /\ request'[r] # Idle => request'[r].pc = "answer")
<1>0. request \in [Requests -> Req] /\ request[r] \in Req
  BY TypeParts DEF TypeInv, RequestsType
<1>1. ASSUME NEW pc \in PCs, Goes(r, pc) PROVE Same(r) /\ request'[r].pc = pc
  BY <1>0, <1>1 DEF Goes, Same, Req
<1>2. CASE Returns(r)
  <2>1. CASE request[r].set = Keep
    BY <1>0, <1>2, <2>1 DEF Returns, Moves
  <2>2. CASE request[r].set # Keep
    <3>1. request' = [request EXCEPT ![r] = [request[r] EXCEPT !.pc = "answer"]]
      BY <1>0, <1>2, <2>2 DEF Returns
    <3> QED BY <1>0, <2>2, <3>1 DEF Moves, Same, Req, PCs
  <2> QED BY <2>1, <2>2
<1> QED BY <1>1, <1>2 DEF Moves

(* A session is added for the browser of r, with user u. *)
Added(r, u) ==
    /\ saved' = saved + 1 /\ request'[r].set = saved + 1
    /\ request'[r].cookie = request[r].cookie /\ request'[r].op = request[r].op /\ request'[r].late = request[r].late
    /\ session'[saved + 1].live
    /\ session'[saved + 1].account = u /\ session'[saved + 1].browser = BrowserOf[r]
    /\ session'[saved + 1].validUntil = now + Lifetime
    /\ \A s \in 1..saved : session'[s] = session[s]

LEMMA CreateAdds ==
  ASSUME TypeInv, NEW r \in Requests, NEW u, NEW pc, CreateSession(r, u, pc)
  PROVE  Added(r, u) /\ request'[r].pc = pc
<1>0. request \in [Requests -> Req] /\ request[r] \in Req /\ saved \in Nat
  BY TypeParts DEF TypeInv, RequestsType, SessionsType
<1>1. /\ request'[r].set = saved + 1 /\ request'[r].pc = pc /\ request'[r].cookie = request[r].cookie
      /\ request'[r].op = request[r].op /\ request'[r].late = request[r].late
  BY <1>0 DEF CreateSession, Req
<1>2. /\ saved' = saved + 1
      /\ session'[saved + 1] = [live |-> TRUE, account |-> u, browser |-> BrowserOf[r], renewAt |-> now + RenewAfter,
                                validUntil |-> now + Lifetime]
      /\ \A s \in 1..saved : session'[s] = session[s]
  BY <1>0 DEF CreateSession
<1> QED BY <1>1, <1>2 DEF Added

(* Sessions only lose their row. *)
RowsFixed ==
    /\ saved' = saved
    /\ \A s \in 1..saved : /\ session'[s].account = session[s].account /\ session'[s].browser = session[s].browser
                           /\ session'[s].validUntil = session[s].validUntil
                           /\ session'[s].live => session[s].live

LEMMA DeleteFixes ==
  ASSUME TypeInv, UNCHANGED <<saved, session>> \/ (\E ids : Delete(ids))
  PROVE  RowsFixed
<1>0. \A s \in 1..saved : session[s] \in Row
  BY TypeParts DEF TypeInv, SessionsType
<1>1. ASSUME NEW ids, Delete(ids) PROVE RowsFixed
  <2>1. ASSUME NEW s \in 1..saved
        PROVE  session'[s] = IF s \in ids THEN [session[s] EXCEPT !.live = FALSE] ELSE session[s]
    BY <1>1 DEF Delete
  <2> QED BY <1>0, <1>1, <2>1 DEF Delete, RowsFixed, Row
<1> QED BY <1>1 DEF RowsFixed

(* Three kinds of steps of a handler *)
LEMMA HandlerKinds ==
  ASSUME TypeInv, NEW r \in Requests, Handler(r)
  PROVE  \/ RowsFixed /\ Moves(r)
         \/ /\ RowsFixed /\ LogoutSession(r) /\ request[r].op = "logout"
            /\ request'[r].pc = "answer" /\ request'[r].set = NoSession
            /\ request'[r].cookie = request[r].cookie /\ request'[r].op = request[r].op /\ request'[r].late = request[r].late
         \/ Login(r) /\ Added(r, Owner[BrowserOf[r]]) /\ request'[r].pc = "answer"
         \/ /\ useSession(r) /\ Added(r, session[request[r].cookie].account) /\ request'[r].pc = "drop"
            /\ session[request[r].cookie].validUntil >= now
<1>0. request \in [Requests -> Req] /\ request[r] \in Req /\ Shape(request[r])
  BY TypeParts DEF TypeInv, RequestsType, HandlerShape
<1>01. {"verify", "user", "use", "handle", "create", "save", "file", "delete", "serve"} \subseteq PCs
  BY DEF PCs
<1>02. Refused(r) \/ Granted(r) => Returns(r) \/ \E pc \in PCs : Goes(r, pc)
  BY <1>01 DEF Refused, Granted
<1>1. CASE GetSession(r) \/ VerifyPassword(r) \/ ShowChangePassword(r) \/ SavePassword(r) \/ GetPresigned(r)
           \/ GetFile(r) \/ DeletePresigned(r) \/ ServeFile(r)
  <2>1. UNCHANGED <<saved, session>>
    BY <1>1 DEF GetSession, VerifyPassword, ShowChangePassword, SavePassword, GetPresigned, GetFile, DeletePresigned,
                ServeFile, data
  <2>2. Returns(r) \/ (\E pc \in PCs : Goes(r, pc))
    BY <1>01, <1>02, <1>1 DEF GetSession, VerifyPassword, ShowChangePassword, SavePassword, GetPresigned, GetFile,
                DeletePresigned, ServeFile
  <2> QED BY <2>1, <2>2, Moved, DeleteFixes
<1>2. CASE GetUser(r)
  <2>1. UNCHANGED <<saved, session>>
    BY <1>2 DEF GetUser, data
  <2>2. CASE Refused(r)
    BY <1>02, <2>1, <2>2, Moved, DeleteFixes
  <2>3. CASE request' = [request EXCEPT ![r].pc = "use", ![r].reset = account[session[request[r].cookie].account].reset]
    <3>1. Same(r)
      BY <1>0, <2>3 DEF Same, Req
    <3> QED BY <2>1, <3>1, DeleteFixes DEF Moves
  <2> QED BY <1>2, <2>2, <2>3 DEF GetUser
<1>3. CASE useSession(r)
  <2>1. CASE DeleteSession(request[r].cookie) /\ Refused(r)
    BY <1>02, <2>1, Moved, DeleteFixes DEF DeleteSession
  <2>2. CASE /\ CreateSession(r, session[request[r].cookie].account, "drop")
             /\ session[request[r].cookie].validUntil >= now
    BY <1>3, <2>2, CreateAdds
  <2>3. CASE Granted(r) /\ UNCHANGED <<saved, session>>
    BY <1>02, <2>3, Moved, DeleteFixes
  <2> QED BY <1>3, <2>1, <2>2, <2>3 DEF useSession
<1>4. CASE DropRenewed(r)
  BY <1>02, <1>4, Moved, DeleteFixes DEF DropRenewed, DeleteSession
<1>5. CASE Login(r)
  BY <1>5, CreateAdds DEF Login
<1>6. CASE LogoutSession(r)
  <2>1. RowsFixed
    BY <1>6, DeleteFixes DEF LogoutSession, DeleteSession
  <2>2. request[r].op = "logout"
    BY <1>0, <1>6 DEF LogoutSession, At, Shape
  <2>3. /\ request'[r].pc = "answer" /\ request'[r].set = NoSession
        /\ request'[r].cookie = request[r].cookie /\ request'[r].op = request[r].op /\ request'[r].late = request[r].late
    BY <1>0, <1>6 DEF LogoutSession, Req
  <2> QED BY <1>6, <2>1, <2>2, <2>3
<1> QED BY <1>1, <1>2, <1>3, <1>4, <1>5, <1>6 DEF Handler

-----------------------------------------------------------------------------
(* A session stays with the browser it was made for. *)
SessionsOwned ==
    /\ \A s \in 1..saved : session[s].account = Owner[session[s].browser]
    /\ \A b \in Browsers : cookie[b] # NoSession => session[cookie[b]].browser = b
    /\ \A r \in Requests :
          /\ request[r].cookie # NoSession => session[request[r].cookie].browser = BrowserOf[r]
          /\ request[r].set \in 1..saved => session[request[r].set].browser = BrowserOf[r]

(* All steps that add no session *)
LEMMA OthersFix ==
  ASSUME TypeInv, [SessionsNext]_sessionsVars, \A r \in Requests : ~Handler(r)
  PROVE  RowsFixed
<1>1. \/ UNCHANGED <<saved, session>> \/ (\E ids : Delete(ids))
  <2>1. CASE UNCHANGED sessionsVars
    BY <2>1 DEF sessionsVars
  <2>2. CASE \/ \E r \in Requests, op \in Bounds.operations, k \in Urls : Send(r, op, k)
             \/ \E r \in Requests : Answer(r) \/ AnswerLost(r)
             \/ \E k \in Urls : Presign(k)
             \/ cleanUp \/ FileExpires \/ SessionTick \/ Restart
    BY <2>2 DEF Send, Answer, AnswerLost, Presign, cleanUp, FileExpires, SessionTick, Restart, data
  <2>3. CASE \/ \E a \in Admins, op \in Bounds.admin, u \in Accounts : isValidUserForEditing(a, op, u)
             \/ \E a \in Admins : EndSessions(a) \/ SaveReset(a) \/ DeleteUser(a)
    BY <2>3 DEF isValidUserForEditing, EndSessions, SaveReset, DeleteUser, DeleteAllSessionsByUser, data
  <2>4. CASE cleanExpiredSessions
    BY <2>4 DEF cleanExpiredSessions
  <2> QED BY <2>1, <2>2, <2>3, <2>4 DEF SessionsNext
<1> QED BY <1>1, DeleteFixes

(* ... and what they do to the requests and cookies *)
Sent(r) ==
    /\ request'[r].set = Keep /\ request'[r].pc \in {"logout", "session"}
    /\ request'[r].cookie \in {NoSession, cookie[BrowserOf[r]]}
    /\ request'[r].late = ~account[Owner[BrowserOf[r]]].live

LEMMA RequestsOf ==
  ASSUME TypeInv, [SessionsNext]_sessionsVars, \A r \in Requests : ~Handler(r)
  PROVE  /\ \A r \in Requests : request'[r] = request[r] \/ request'[r] = Idle \/ Sent(r)
         /\ \/ cookie' = cookie
            \/ \E r \in Requests : Answer(r)
<1>0. request \in [Requests -> Req] /\ SessionsType
  BY TypeParts DEF TypeInv, RequestsType
<1>1. CASE \E r \in Requests, op \in Bounds.operations, k \in Urls : Send(r, op, k)
  <2>1. PICK r \in Requests, op \in Bounds.operations, k \in Urls : Send(r, op, k)
    BY <1>1
  <2>2. PICK q : /\ Good(r, q) /\ q.pc \in {"logout", "session"} /\ q.op = op /\ q.set = Keep
                 /\ q.cookie \in {NoSession, cookie[BrowserOf[r]]} /\ q.late = ~account[Owner[BrowserOf[r]]].live
    BY <2>1, SendGood
  <2>3. request'[r] = q /\ \A o \in Requests : o # r => request'[o] = request[o]
    BY <1>0, <2>2 DEF Good
  <2>4. cookie' = cookie
    BY <2>1 DEF Send
  <2> QED BY <2>2, <2>3, <2>4 DEF Sent
<1>2. CASE \E r \in Requests : Answer(r) \/ AnswerLost(r)
  <2>1. PICK r \in Requests : Answer(r) \/ AnswerLost(r)
    BY <1>2
  <2>2. request' = [request EXCEPT ![r] = Idle]
    BY <2>1 DEF Answer, AnswerLost
  <2>3. cookie' = cookie \/ Answer(r)
    BY <2>1 DEF AnswerLost
  <2> QED BY <1>0, <2>2, <2>3
<1>3. CASE \/ \E a \in Admins, op \in Bounds.admin, u \in Accounts : isValidUserForEditing(a, op, u)
           \/ \E a \in Admins : EndSessions(a) \/ SaveReset(a) \/ DeleteUser(a)
  BY <1>3 DEF isValidUserForEditing, EndSessions, SaveReset, DeleteUser
<1>4. CASE \/ \E k \in Urls : Presign(k)
           \/ cleanExpiredSessions \/ cleanUp \/ FileExpires \/ SessionTick \/ UNCHANGED sessionsVars
  BY <1>4 DEF Presign, cleanExpiredSessions, cleanUp, FileExpires, SessionTick, sessionsVars
<1>5. CASE Restart
  BY <1>5 DEF Restart
<1> QED BY <1>1, <1>2, <1>3, <1>4, <1>5 DEF SessionsNext

LEMMA OwnedNext == TypeInv /\ SessionsOwned /\ [SessionsNext]_sessionsVars => SessionsOwned'
<1> SUFFICES ASSUME TypeInv, SessionsOwned, [SessionsNext]_sessionsVars PROVE SessionsOwned'
  OBVIOUS
<1>0. /\ saved \in Nat /\ request \in [Requests -> Req] /\ cookie \in [Browsers -> 0..saved]
      /\ \A r \in Requests : request[r].cookie \in 0..saved /\ request[r].set \in -1..saved
                             /\ BrowserOf[r] \in Browsers
  BY TypeParts, Constants DEF TypeInv, SessionsType, RequestsType, CookiesType, Req
<1>i. Idle.cookie = NoSession /\ Idle.set = Keep
  BY IdleGood, TypeParts DEF TypeInv
<1>1. ASSUME NEW r \in Requests, Handler(r) PROVE SessionsOwned'
  <2>0. cookie' = cookie /\ \A o \in Requests : o # r => request'[o] = request[o]
    BY <1>1, HandlerFrame, OthersStay
  <2>1. CASE RowsFixed /\ (Moves(r) \/
                 (request'[r].set = NoSession /\ request'[r].cookie = request[r].cookie))
    <3>1. \A s \in 1..saved : session'[s].account = session[s].account /\ session'[s].browser = session[s].browser
      BY <2>1 DEF RowsFixed
    <3>2. saved' = saved
      BY <2>1 DEF RowsFixed
    <3>3. \A s \in 1..saved' : session'[s].account = Owner[session'[s].browser]
      BY <3>1, <3>2 DEF SessionsOwned
    <3>4. \A b \in Browsers : cookie'[b] # NoSession => session'[cookie'[b]].browser = b
      BY <1>0, <2>0, <3>1 DEF SessionsOwned, NoSession
    <3>5. ASSUME NEW o \in Requests, request'[o].cookie # NoSession
          PROVE  session'[request'[o].cookie].browser = BrowserOf[o]
      <4>1. request'[o].cookie = request[o].cookie
        BY <1>i, <2>0, <2>1, <3>5 DEF Moves, Same
      <4> QED BY <1>0, <3>1, <3>5, <4>1 DEF SessionsOwned, NoSession
    <3>6. ASSUME NEW o \in Requests, request'[o].set \in 1..saved'
          PROVE  session'[request'[o].set].browser = BrowserOf[o]
      <4>1. request'[o].set = request[o].set
        BY <1>i, <2>0, <2>1, <3>6 DEF Moves, Same, Keep, NoSession
      <4> QED BY <1>0, <3>1, <3>2, <3>6, <4>1 DEF SessionsOwned
    <3> QED BY <3>3, <3>4, <3>5, <3>6 DEF SessionsOwned
  <2>2. CASE Added(r, Owner[BrowserOf[r]])
    <3>1. /\ saved' = saved + 1 /\ \A s \in 1..saved : session'[s] = session[s]
          /\ session'[saved + 1].account = Owner[BrowserOf[r]] /\ session'[saved + 1].browser = BrowserOf[r]
          /\ request'[r].set = saved + 1 /\ request'[r].cookie = request[r].cookie
      BY <2>2 DEF Added
    <3>2. ASSUME NEW s \in 1..saved' PROVE session'[s].account = Owner[session'[s].browser]
      <4>1. s \in 1..saved \/ s = saved + 1
        BY <1>0, <3>1
      <4> QED BY <3>1, <4>1 DEF SessionsOwned
    <3>3. \A b \in Browsers : cookie'[b] # NoSession => session'[cookie'[b]].browser = b
      BY <1>0, <2>0, <3>1 DEF SessionsOwned, NoSession
    <3>4. ASSUME NEW o \in Requests, request'[o].cookie # NoSession
          PROVE  session'[request'[o].cookie].browser = BrowserOf[o]
      <4>1. request'[o].cookie = request[o].cookie
        BY <2>0, <3>1
      <4> QED BY <1>0, <3>1, <3>4, <4>1 DEF SessionsOwned, NoSession
    <3>5. ASSUME NEW o \in Requests, request'[o].set \in 1..saved'
          PROVE  session'[request'[o].set].browser = BrowserOf[o]
      <4>1. CASE o = r
        BY <3>1, <4>1
      <4>2. CASE o # r
        BY <1>0, <2>0, <3>1, <3>5, <4>2 DEF SessionsOwned
      <4> QED BY <4>1, <4>2
    <3> QED BY <3>2, <3>3, <3>4, <3>5 DEF SessionsOwned
  <2>3. useSession(r) => session[request[r].cookie].account = Owner[BrowserOf[r]]
    <3>1. useSession(r) => request[r].cookie # NoSession
      BY DEF useSession, At, TypeInv, HandlerShape, Shape
    <3> QED BY <1>0, <3>1 DEF SessionsOwned, NoSession
  <2> QED BY <1>1, <2>1, <2>2, <2>3, HandlerKinds
<1>2. CASE \A r \in Requests : ~Handler(r)
  <2>1. /\ saved' = saved
        /\ \A s \in 1..saved : session'[s].account = session[s].account /\ session'[s].browser = session[s].browser
    BY <1>2, OthersFix DEF RowsFixed
  <2>2. \A r \in Requests : request'[r] = request[r] \/ request'[r] = Idle \/ Sent(r)
    BY <1>2, RequestsOf
  <2>3. \A s \in 1..saved' : session'[s].account = Owner[session'[s].browser]
    BY <2>1 DEF SessionsOwned
  <2>4. \A b \in Browsers : cookie'[b] # NoSession => session'[cookie'[b]].browser = b
    <3>1. CASE cookie' = cookie
      BY <1>0, <2>1, <3>1 DEF SessionsOwned, NoSession
    <3>2. CASE \E r \in Requests : Answer(r)
      <4>1. PICK r \in Requests : Answer(r)
        BY <3>2
      <4>2. cookie' = [cookie EXCEPT ![BrowserOf[r]] = request[r].set] /\ request[r].set \in 0..saved
        BY <4>1, AnswerTypes DEF Answer
      <4> QED BY <1>0, <2>1, <4>2 DEF SessionsOwned, NoSession
    <3> QED BY <1>2, <3>1, <3>2, RequestsOf
  <2>5. ASSUME NEW r \in Requests, request'[r].cookie # NoSession
        PROVE  session'[request'[r].cookie].browser = BrowserOf[r]
    <3>1. request'[r].cookie = request[r].cookie \/ request'[r].cookie = cookie[BrowserOf[r]]
      BY <1>i, <2>2, <2>5 DEF Sent
    <3> QED BY <1>0, <2>1, <2>5, <3>1 DEF SessionsOwned, NoSession
  <2>6. ASSUME NEW r \in Requests, request'[r].set \in 1..saved'
        PROVE  session'[request'[r].set].browser = BrowserOf[r]
    <3>1. request'[r].set = request[r].set
      BY <1>i, <2>2, <2>6 DEF Sent, Keep
    <3> QED BY <1>0, <2>1, <2>6, <3>1 DEF SessionsOwned
  <2> QED BY <2>3, <2>4, <2>5, <2>6 DEF SessionsOwned
<1> QED BY <1>1, <1>2

-----------------------------------------------------------------------------
(* Deleted users.  A request that came after the deletion passes no check.   *)
LateRefused ==
    \A r \in Requests : request[r].late =>
       \/ Owner[BrowserOf[r]] \in revived
       \/ /\ ~account[Owner[BrowserOf[r]]].live
          /\ request[r].pc \in {"session", "user", "verify", "logout", "answer"}

DeletedInv == TypeInv /\ SessionsOwned /\ LateRefused

LEMMA Revival ==
  ASSUME TypeInv, [SessionsNext]_sessionsVars
  PROVE  /\ revived \subseteq revived'
         /\ \A u \in Accounts : ~account[u].live => ~account'[u].live \/ u \in revived'
<1>0. UsersType
  BY TypeParts DEF TypeInv
<1>1. ASSUME NEW u \in Accounts, NEW reset, SaveAccount(u, reset)
      PROVE  /\ revived \subseteq revived'
             /\ \A v \in Accounts : ~account[v].live => ~account'[v].live \/ v \in revived'
  BY <1>0, <1>1 DEF SaveAccount, UsersType
<1>2. ASSUME NEW r \in Requests, Handler(r)
      PROVE  UNCHANGED <<account, revived>> \/ \E u \in Accounts : SaveAccount(u, FALSE)
  <2>1. CASE SavePassword(r)
    <3>1. SessionsType /\ request[r].cookie \in 0..saved /\ request[r].cookie # NoSession
      BY <2>1, TypeParts DEF TypeInv, RequestsType, Req, SavePassword, At, HandlerShape, Shape
    <3>2. session[request[r].cookie].account \in Accounts
      BY <3>1 DEF SessionsType, Row, NoSession
    <3> QED BY <2>1, <3>2 DEF SavePassword
  <2>2. CASE ~SavePassword(r)
    BY <1>2, <2>2 DEF Handler, GetSession, GetUser, useSession, DropRenewed, VerifyPassword, Login,
       LogoutSession, ShowChangePassword, GetPresigned, GetFile, DeletePresigned, ServeFile, data, ghosts
  <2> QED BY <2>1, <2>2
<1>3. ASSUME NEW a \in Admins, \/ \E op \in Bounds.admin, u \in Accounts : isValidUserForEditing(a, op, u)
                               \/ EndSessions(a) \/ SaveReset(a) \/ DeleteUser(a)
      PROVE  \/ revived' = revived /\ (account' = account \/ \E u : account' = [account EXCEPT ![u].live = FALSE])
             \/ \E u \in Accounts : SaveAccount(u, TRUE)
  <2>1. admin[a].account \in Accounts
    BY TypeParts DEF TypeInv, AdminsType
  <2> QED BY <1>3, <2>1 DEF isValidUserForEditing, EndSessions, SaveReset, DeleteUser, data, ghosts
<1>4. ASSUME \/ \E r \in Requests, op \in Bounds.operations, k \in Urls : Send(r, op, k)
             \/ \E r \in Requests : Answer(r) \/ AnswerLost(r)
             \/ \E k \in Urls : Presign(k)
             \/ cleanExpiredSessions \/ cleanUp \/ FileExpires \/ SessionTick \/ Restart \/ UNCHANGED sessionsVars
      PROVE  UNCHANGED <<account, revived>>
  BY <1>4 DEF Send, Answer, AnswerLost, Presign, cleanExpiredSessions, cleanUp, FileExpires, SessionTick, Restart,
              sessionsVars, data, ghosts
<1>5. ASSUME NEW u, account' = [account EXCEPT ![u].live = FALSE]
      PROVE  \A v \in Accounts : ~account[v].live => ~account'[v].live
  BY <1>0, <1>5 DEF UsersType
<1> QED BY <1>1, <1>2, <1>3, <1>4, <1>5 DEF SessionsNext

LEMMA LateNext == DeletedInv /\ [SessionsNext]_sessionsVars => LateRefused'
<1> SUFFICES ASSUME TypeInv, SessionsOwned, LateRefused, [SessionsNext]_sessionsVars,
                    NEW r \in Requests, request'[r].late, Owner[BrowserOf[r]] \notin revived'
             PROVE  ~account'[Owner[BrowserOf[r]]].live
                    /\ request'[r].pc \in {"session", "user", "verify", "logout", "answer"}
  BY DEF DeletedInv, LateRefused
<1> DEFINE u == Owner[BrowserOf[r]]
<1>0. /\ u \in Accounts /\ u \notin revived /\ (~account[u].live => ~account'[u].live)
      /\ request \in [Requests -> Req] /\ Shape(request[r]) /\ saved \in Nat
      /\ request[r].cookie \in 0..saved
  BY Revival, Constants, TypeParts DEF TypeInv, RequestsType, HandlerShape, SessionsType, Req
<1>i. ~Idle.late
  BY DEF Idle
<1>l. request[r].late => ~account[u].live /\ request[r].pc \in {"session", "user", "verify", "logout", "answer"}
  BY <1>0 DEF LateRefused
<1>1. CASE request'[r] = request[r]
  BY <1>0, <1>1, <1>l
<1>2. CASE request'[r] = Idle
  BY <1>i, <1>2
<1>3. CASE Sent(r)
  BY <1>0, <1>3 DEF Sent
<1>4. CASE Handler(r) /\ request'[r] # Idle
  <2>1. request'[r].late = request[r].late
    BY <1>4, HandlerKinds DEF Moves, Same, Added
  <2>2. ~account[u].live /\ request[r].pc \in {"session", "user", "verify", "logout", "answer"}
    BY <1>l, <2>1
  <2>3. GetSession(r) \/ GetUser(r) \/ VerifyPassword(r) \/ LogoutSession(r)
    BY <1>4, <2>2 DEF Handler, useSession, DropRenewed, Login, ShowChangePassword, SavePassword, GetPresigned,
       GetFile, DeletePresigned, ServeFile, At
  <2>4. GetUser(r) => Refused(r)
    <3>1. SUFFICES ASSUME GetUser(r) PROVE Refused(r)
      OBVIOUS
    <3>2. request[r].cookie # NoSession
      BY <1>0, <3>1 DEF GetUser, At, Shape
    <3>3. session[request[r].cookie].account = u
      BY <1>0, <3>2 DEF SessionsOwned, NoSession
    <3> HIDE DEF u
    <3> QED BY <2>2, <3>1, <3>3 DEF GetUser
  <2>5. \/ Goes(r, "user") \/ Goes(r, "verify") \/ Returns(r) \/ LogoutSession(r)
    BY <2>2, <2>3, <2>4 DEF GetSession, VerifyPassword, Refused
  <2>6. request'[r].pc \in {"user", "verify", "answer"}
    <3>1. ASSUME NEW pc, Goes(r, pc) PROVE request'[r].pc = pc
      BY <1>0, <3>1 DEF Goes, Req
    <3>2. Returns(r) => request'[r].pc = "answer"
      BY <1>4, Moved
    <3>3. LogoutSession(r) => request'[r].pc = "answer"
      BY <1>0 DEF LogoutSession, Req
    <3> QED BY <2>5, <3>1, <3>2, <3>3
  <2> QED BY <1>0, <2>2, <2>6
<1>5. CASE \A o \in Requests : ~Handler(o)
  BY <1>1, <1>2, <1>3, <1>5, RequestsOf
<1>6. ASSUME NEW o \in Requests, Handler(o), o # r PROVE request'[r] = request[r]
  BY <1>6, OthersStay
<1> QED BY <1>1, <1>2, <1>4, <1>5, <1>6

(* No request that comes after the deletion of its user is granted           *)
(* (IsValidSession, IsCorrectUsernameAndPassword), although renewals and     *)
(* logins that were under way leave sessions of that user; unless a handler  *)
(* has saved the row of the user again.                                      *)
THEOREM DeletedStaysOut == SessionsSpec => []DeletedUserStaysOut
<1>1. SessionsInit => SessionsOwned /\ LateRefused
  <2> SUFFICES ASSUME SessionsInit PROVE SessionsOwned /\ LateRefused
    OBVIOUS
  <2>1. saved = 0 /\ \A b \in Browsers : cookie[b] = NoSession
    BY DEF SessionsInit
  <2>2. \A r \in Requests : request[r].cookie = NoSession /\ request[r].set = Keep /\ ~request[r].late
    BY DEF SessionsInit, Idle
  <2>3. 1..saved = {}
    BY <2>1
  <2> QED BY <2>1, <2>2, <2>3 DEF SessionsOwned, LateRefused
<1>2. DeletedInv /\ [SessionsNext]_sessionsVars => DeletedInv'
  BY NextTypes, OwnedNext, LateNext DEF DeletedInv
<1>3. DeletedInv => DeletedUserStaysOut
  BY DEF DeletedInv, LateRefused, DeletedUserStaysOut
<1> QED BY <1>1, <1>2, <1>3, InitTypes, PTL DEF SessionsSpec, DeletedInv

-----------------------------------------------------------------------------
(* Logouts.  After one that was not raced no request of the browser can be   *)
(* granted, but for a login.                                                 *)
Powerless(r) ==
    \/ request[r].pc \in {"idle", "logout"}
    \/ request[r].pc = "session" /\ ~Live(request[r].cookie)
    \/ request[r].op = "login" /\ request[r].pc \in {"verify", "create", "answer"}
    \/ request[r].op = "logout" /\ request[r].pc = "answer"

LogoutsEnd == \A r \in Requests : request[r].op = "logout" /\ request[r].pc = "answer" => ~Live(request[r].cookie)

OutPowerless == \A b \in out \ raced : /\ cookie[b] = NoSession
                                       /\ \A r \in Requests : BrowserOf[r] = b => Powerless(r)

LoggedOutInv == TypeInv /\ LogoutsEnd /\ OutPowerless

LEMMA DeadStaysDead ==
  ASSUME TypeInv, [SessionsNext]_sessionsVars, NEW s \in 0..saved, ~Live(s)
  PROVE  ~Live(s)'
<1>0. saved \in Nat
  BY TypeParts DEF TypeInv, SessionsType
<1>1. CASE RowsFixed
  BY <1>0, <1>1 DEF RowsFixed, Live
<1>2. ASSUME NEW r, NEW u, Added(r, u) PROVE ~Live(s)'
  BY <1>0, <1>2 DEF Added, Live
<1> QED BY <1>1, <1>2, HandlerKinds, OthersFix

LEMMA LogoutsEndNext == TypeInv /\ LogoutsEnd /\ [SessionsNext]_sessionsVars => LogoutsEnd'
<1> SUFFICES ASSUME TypeInv, LogoutsEnd, [SessionsNext]_sessionsVars,
                    NEW r \in Requests, request'[r].op = "logout", request'[r].pc = "answer"
             PROVE  ~Live(request[r].cookie)' 
  BY DEF LogoutsEnd
<1>0. /\ saved \in Nat /\ request[r].cookie \in 0..saved /\ Shape(request[r])
  BY TypeParts DEF TypeInv, SessionsType, RequestsType, Req, HandlerShape
<1>i. Idle.op = "page"
  BY DEF Idle
<1>1. CASE request'[r] = request[r]
  BY <1>0, <1>1, DeadStaysDead DEF LogoutsEnd
<1>2. CASE Handler(r)
  <2>1. request'[r].cookie = request[r].cookie /\ request[r].op = "logout"
    BY <1>2, <1>i, HandlerKinds DEF Moves, Same, Added
  <2>2. LogoutSession(r)
    BY <1>0, <1>2, <2>1 DEF Handler, Shape, GetSession, GetUser, useSession, DropRenewed, VerifyPassword, Login,
       ShowChangePassword, SavePassword, GetPresigned, GetFile, DeletePresigned, ServeFile, At
  <2> DEFINE s == request[r].cookie
  <2>3. saved' = saved /\ (s \in 1..saved => session'[s] = [session[s] EXCEPT !.live = FALSE])
    BY <2>2 DEF LogoutSession, DeleteSession, Delete
  <2>4. s \in 1..saved => ~session'[s].live
    <3>1. s \in 1..saved => session[s] \in Row
      BY TypeParts DEF TypeInv, SessionsType
    <3> QED BY <2>3, <3>1 DEF Row
  <2> QED BY <2>1, <2>3, <2>4 DEF Live
<1>3. ASSUME NEW o \in Requests, Handler(o), o # r PROVE request'[r] = request[r]
  BY <1>3, OthersStay
<1>4. CASE \A o \in Requests : ~Handler(o)
  BY <1>1, <1>4, <1>i, RequestsOf DEF Sent
<1> QED BY <1>1, <1>2, <1>3, <1>4

(* A browser that was logged out before the step and is so after it *)
LEMMA StillPowerless ==
  ASSUME LoggedOutInv, [SessionsNext]_sessionsVars, NEW b \in out \ raced, NEW r \in Requests, BrowserOf[r] = b
  PROVE  Powerless(r)'
<1>0. /\ TypeInv /\ saved \in Nat /\ request[r].cookie \in 0..saved /\ Shape(request[r]) /\ request \in [Requests -> Req]
      /\ Powerless(r) /\ cookie[b] = NoSession
  BY TypeParts DEF LoggedOutInv, OutPowerless, TypeInv, SessionsType, RequestsType, Req, HandlerShape
<1>i. Idle.pc = "idle"
  BY DEF Idle
<1>1. CASE request'[r] = request[r]
  BY <1>0, <1>1, DeadStaysDead DEF Powerless
<1>2. CASE request'[r] = Idle
  BY <1>i, <1>2 DEF Powerless
<1>3. CASE Sent(r)
  <2>1. ~Live(request[r].cookie)'
    BY <1>0, <1>3 DEF Sent, Live, NoSession
  <2> QED BY <1>3, <2>1 DEF Sent, Powerless
<1>4. CASE Handler(r) /\ request'[r] # Idle
  <2>1. request'[r].op = request[r].op
    BY <1>0, <1>4, HandlerKinds DEF Moves, Same, Added
  <2>2. GetSession(r) \/ VerifyPassword(r) \/ Login(r) \/ LogoutSession(r)
    BY <1>0, <1>4 DEF Powerless, Handler, GetUser, useSession, DropRenewed, ShowChangePassword, SavePassword,
       GetPresigned, GetFile, DeletePresigned, ServeFile, At
  <2>3. ASSUME Returns(r), request[r].set = Keep PROVE FALSE
    BY <1>0, <1>4, <2>3 DEF Returns
  <2>4. ASSUME NEW pc, Goes(r, pc) PROVE request'[r].pc = pc
    BY <1>0, <2>4 DEF Goes, Req
  <2>5. CASE GetSession(r)
    <3>1. Refused(r) /\ request[r].set = Keep
      BY <1>0, <2>5 DEF GetSession, At, Powerless, Shape
    <3> QED BY <2>1, <2>3, <2>4, <3>1 DEF Refused, Powerless
  <2>6. CASE VerifyPassword(r)
    <3>1. request[r].set = Keep /\ request[r].op = "login"
      BY <1>0, <2>6 DEF VerifyPassword, At, Powerless, Shape
    <3> QED BY <2>1, <2>3, <2>4, <2>6, <3>1 DEF VerifyPassword, Powerless
  <2>7. CASE Login(r)
    <3>1. request[r].op = "login"
      BY <1>0, <2>7 DEF Login, At, Powerless
    <3>2. request'[r].pc = "answer"
      BY <1>0, <2>7, CreateAdds DEF Login
    <3> QED BY <2>1, <3>1, <3>2 DEF Powerless
  <2>8. CASE LogoutSession(r)
    <3>1. request[r].op = "logout" /\ request'[r].pc = "answer"
      BY <1>0, <2>8 DEF LogoutSession, At, Shape, Req
    <3> QED BY <2>1, <3>1 DEF Powerless
  <2> QED BY <2>2, <2>5, <2>6, <2>7, <2>8
<1>5. CASE \A o \in Requests : ~Handler(o)
  BY <1>0, <1>1, <1>2, <1>3, <1>5, RequestsOf
<1>6. ASSUME NEW o \in Requests, Handler(o), o # r PROVE request'[r] = request[r]
  BY <1>0, <1>6, OthersStay
<1> QED BY <1>1, <1>2, <1>4, <1>5, <1>6

LEMMA OutFrame ==
  ASSUME TypeInv, [SessionsNext]_sessionsVars, \A r \in Requests : ~Answer(r)
  PROVE  UNCHANGED <<cookie, out, raced>>
<1>1. ASSUME NEW r \in Requests, Handler(r) PROVE UNCHANGED <<cookie, out, raced>>
  BY <1>1, HandlerFrame
<1>2. CASE \/ \E r \in Requests, op \in Bounds.operations, k \in Urls : Send(r, op, k)
           \/ \E r \in Requests : AnswerLost(r)
           \/ \E k \in Urls : Presign(k)
           \/ cleanExpiredSessions \/ cleanUp \/ FileExpires \/ SessionTick \/ Restart \/ UNCHANGED sessionsVars
  BY <1>2 DEF Send, AnswerLost, Presign, cleanExpiredSessions, cleanUp, FileExpires, SessionTick, Restart, sessionsVars, ghosts
<1>3. CASE \/ \E a \in Admins, op \in Bounds.admin, u \in Accounts : isValidUserForEditing(a, op, u)
           \/ \E a \in Admins : EndSessions(a) \/ SaveReset(a) \/ DeleteUser(a)
  BY <1>3 DEF isValidUserForEditing, EndSessions, SaveReset, DeleteUser, ghosts
<1> QED BY <1>1, <1>2, <1>3 DEF SessionsNext

(* The answer to a logout that was not raced *)
LEMMA LogoutAnswered ==
  ASSUME LoggedOutInv, [SessionsNext]_sessionsVars, NEW r \in Requests, Answer(r), request[r].op = "logout",
         BrowserOf[r] \notin raced', NEW o \in Requests, BrowserOf[o] = BrowserOf[r]
  PROVE  cookie'[BrowserOf[r]] = NoSession /\ Powerless(o)'
<1>0. /\ TypeInv /\ saved \in Nat /\ request \in [Requests -> Req] /\ Shape(request[r]) /\ Shape(request[o])
      /\ request[r].cookie \in 0..saved /\ At(r, "answer") /\ ~Live(request[r].cookie)
      /\ cookie \in [Browsers -> 0..saved] /\ BrowserOf[r] \in Browsers
  BY TypeParts, Constants DEF LoggedOutInv, LogoutsEnd, TypeInv, SessionsType, RequestsType, CookiesType, Req,
     HandlerShape, Answer, At
<1>1. request[r].set = NoSession
  BY <1>0 DEF Shape, At
<1>2. cookie'[BrowserOf[r]] = NoSession
  BY <1>0, <1>1 DEF Answer
<1>3. request' = [request EXCEPT ![r] = Idle] /\ saved' = saved /\ session' = session
  BY DEF Answer, data
<1>4. CASE o = r
  <2>1. request'[o] = Idle /\ Idle.pc = "idle"
    BY <1>0, <1>3, <1>4 DEF Idle
  <2> QED BY <1>2, <2>1 DEF Powerless
<1>5. CASE o # r
  <2>1. request'[o] = request[o]
    BY <1>0, <1>3, <1>5
  <2>2. CASE At(o, "idle")
    BY <1>2, <2>1, <2>2 DEF Powerless, At
  <2>3. CASE ~At(o, "idle")
    <3>1. o \in InFlight(BrowserOf[r]) \ {r}
      BY <1>5, <2>3 DEF InFlight
    <3>2. request[o].pc \in {"session", "logout"} /\ request[o].cookie = request[r].cookie
      BY <1>0, <3>1 DEF Answer
    <3>3. ~Live(request[o].cookie)'
      BY <1>0, <1>3, <2>1, <3>2 DEF Live
    <3> QED BY <1>2, <2>1, <3>2, <3>3 DEF Powerless
  <2> QED BY <2>2, <2>3
<1> QED BY <1>4, <1>5

LEMMA OutNext == LoggedOutInv /\ [SessionsNext]_sessionsVars => OutPowerless'
<1> SUFFICES ASSUME LoggedOutInv, [SessionsNext]_sessionsVars, NEW b \in out' \ raced'
             PROVE  cookie'[b] = NoSession /\ \A o \in Requests : BrowserOf[o] = b => Powerless(o)'
  BY DEF OutPowerless
<1>0. /\ TypeInv /\ cookie \in [Browsers -> 0..saved] /\ out \subseteq Browsers
      /\ \A r \in Requests : BrowserOf[r] \in Browsers
  BY TypeParts, Constants DEF LoggedOutInv, TypeInv, CookiesType, GhostsType
<1>1. ASSUME b \in out \ raced, cookie'[b] = cookie[b]
      PROVE  cookie'[b] = NoSession /\ \A o \in Requests : BrowserOf[o] = b => Powerless(o)'
  BY <1>1, StillPowerless DEF LoggedOutInv, OutPowerless
<1>2. ASSUME NEW r \in Requests, Answer(r)
      PROVE  cookie'[b] = NoSession /\ \A o \in Requests : BrowserOf[o] = b => Powerless(o)'
  <2>1. /\ cookie' = [cookie EXCEPT ![BrowserOf[r]] = request[r].set]
        /\ out' = IF request[r].op = "logout" THEN out \cup {BrowserOf[r]}
                  ELSE IF request[r].op = "login" THEN out \ {BrowserOf[r]} ELSE out
        /\ b # BrowserOf[r] => (b \in raced' <=> b \in raced)
        /\ request[r].op # "logout" => raced' = raced
    BY <1>2 DEF Answer
  <2>2. CASE b # BrowserOf[r]
    BY <1>0, <1>1, <2>1, <2>2
  <2>3. CASE b = BrowserOf[r] /\ request[r].op = "logout"
    <3>1. cookie'[b] = NoSession
      BY <1>2, <2>3, LogoutAnswered
    <3> QED BY <1>2, <2>3, <3>1, LogoutAnswered
  <2>4. CASE b = BrowserOf[r] /\ request[r].op # "logout"
    <3>1. b \in out \ raced /\ request[r].op # "login"
      BY <2>1, <2>4
    <3>2. Powerless(r) /\ At(r, "answer")
      BY <1>2, <2>4, <3>1 DEF LoggedOutInv, OutPowerless, Answer
    <3> QED BY <2>4, <3>1, <3>2 DEF Powerless, At
  <2> QED BY <2>2, <2>3, <2>4
<1>3. CASE \A r \in Requests : ~Answer(r)
  BY <1>0, <1>1, <1>3, OutFrame
<1> QED BY <1>2, <1>3

(* Once a logout has been answered the browser has no cookie until the next  *)
(* login (LogoutSession), whatever answers come later, unless another        *)
(* request of the browser had found the session before it was deleted.       *)
THEOREM LoggedOut == SessionsSpec => []LoggedOutStaysOut
<1>1. SessionsInit => LogoutsEnd /\ OutPowerless
  BY DEF SessionsInit, Idle, LogoutsEnd, OutPowerless
<1>2. LoggedOutInv /\ [SessionsNext]_sessionsVars => LoggedOutInv'
  BY NextTypes, LogoutsEndNext, OutNext DEF LoggedOutInv
<1>3. LoggedOutInv => LoggedOutStaysOut
  BY DEF LoggedOutInv, OutPowerless, LoggedOutStaysOut
<1> QED BY <1>1, <1>2, <1>3, InitTypes, PTL DEF SessionsSpec, LoggedOutInv

-----------------------------------------------------------------------------
(* Renewals.  The session of an answer under way is known to nobody else and *)
(* younger than the one it replaces; younger sessions end later.             *)
AnswersFresh ==
    /\ \A r \in Requests : request[r].set \in 1..saved =>
          /\ request[r].cookie < request[r].set
          /\ \A b \in Browsers : cookie[b] # request[r].set
          /\ \A o \in Requests : /\ request[o].cookie # request[r].set
                                 /\ o # r => request[o].set # request[r].set
    /\ \A s \in 1..saved : session[s].validUntil <= now + Lifetime
    /\ \A s, t \in 1..saved : s <= t => session[s].validUntil <= session[t].validUntil

InUse(s) == session[s].live \/ session[s].validUntil < now

(* Until a browser is excused, only a request of its own that brings a new   *)
(* session has removed the old one.                                          *)
Replaced ==
    \A b \in Browsers \ evicted :
       /\ \A r \in Requests : BrowserOf[r] = b /\ request[r].set \in 1..saved => InUse(request[r].set)
       /\ cookie[b] # NoSession =>
             \/ InUse(cookie[b])
             \/ \E r \in Requests : /\ BrowserOf[r] = b /\ request[r].set \in 1..saved
                                    /\ cookie[b] < request[r].set

LoggedInInv == TypeInv /\ SessionsOwned /\ AnswersFresh /\ Replaced

LEMMA TimePasses == ASSUME TypeInv, [SessionsNext]_sessionsVars PROVE now' \in Nat /\ now' >= now
<1>0. now \in Nat
  BY NowType, TypeParts DEF TypeInv
<1>1. ASSUME NEW r \in Requests, Handler(r) PROVE now' = now
  BY <1>1, HandlerFrame
<1>2. CASE SessionTick
  BY <1>0, <1>2 DEF SessionTick
<1>3. CASE \/ \E r \in Requests, op \in Bounds.operations, k \in Urls : Send(r, op, k)
           \/ \E r \in Requests : Answer(r) \/ AnswerLost(r)
           \/ \E k \in Urls : Presign(k)
           \/ cleanExpiredSessions \/ cleanUp \/ FileExpires \/ Restart \/ UNCHANGED sessionsVars
           \/ \E a \in Admins, op \in Bounds.admin, u \in Accounts : isValidUserForEditing(a, op, u)
           \/ \E a \in Admins : EndSessions(a) \/ SaveReset(a) \/ DeleteUser(a)
  <2>1. now' = now
    BY <1>3 DEF Send, AnswerLost, Answer, Presign, cleanExpiredSessions, cleanUp, FileExpires, Restart, sessionsVars,
              isValidUserForEditing, EndSessions, SaveReset, DeleteUser
  <2> QED BY <1>0, <2>1
<1> QED BY <1>0, <1>1, <1>2, <1>3 DEF SessionsNext

(* Steps that add no session *)
LEMMA FreshKept ==
  ASSUME TypeInv, AnswersFresh, now' \in Nat, now' >= now, RowsFixed,
         \A r \in Requests : request'[r].set \in 1..saved =>
             request'[r].set = request[r].set /\ request'[r].cookie = request[r].cookie,
         \A r \in Requests : request'[r].cookie \in {request[r].cookie, NoSession, cookie[BrowserOf[r]]},
         \A b \in Browsers : cookie'[b] # cookie[b] =>
             \/ cookie'[b] = NoSession
             \/ \E r \in Requests : cookie'[b] = request[r].set /\ request'[r].set \notin 1..saved
  PROVE  AnswersFresh'
<1>0. /\ saved \in Nat /\ saved' = saved /\ now \in Nat /\ Lifetime \in Nat
      /\ \A s \in 1..saved : session'[s].validUntil = session[s].validUntil /\ session[s].validUntil \in Nat
      /\ \A r \in Requests : BrowserOf[r] \in Browsers
  BY TypeParts, NowType, Constants DEF TypeInv, SessionsType, Row, RowsFixed
<1>1. ASSUME NEW r \in Requests, request'[r].set \in 1..saved'
      PROVE  /\ request'[r].cookie < request'[r].set
             /\ \A b \in Browsers : cookie'[b] # request'[r].set
             /\ \A o \in Requests : /\ request'[o].cookie # request'[r].set
                                    /\ o # r => request'[o].set # request'[r].set
  <2>1. request'[r].set = request[r].set /\ request'[r].cookie = request[r].cookie /\ request[r].set \in 1..saved
    BY <1>0, <1>1
  <2>2. request'[r].cookie < request'[r].set
    BY <2>1 DEF AnswersFresh
  <2>3. ASSUME NEW b \in Browsers PROVE cookie'[b] # request'[r].set
    <3>1. CASE cookie'[b] = cookie[b]
      BY <2>1, <3>1 DEF AnswersFresh
    <3>2. CASE cookie'[b] = NoSession
      BY <2>1, <3>2 DEF NoSession
    <3>3. ASSUME NEW o \in Requests, cookie'[b] = request[o].set, request'[o].set \notin 1..saved
          PROVE  cookie'[b] # request'[r].set
      <4>1. o # r
        BY <2>1, <3>3
      <4> QED BY <2>1, <3>3, <4>1 DEF AnswersFresh
    <3> QED BY <3>1, <3>2, <3>3
  <2>4. ASSUME NEW o \in Requests PROVE request'[o].cookie # request'[r].set
    <3>1. request[o].cookie # request[r].set /\ cookie[BrowserOf[o]] # request[r].set
      BY <1>0, <2>1 DEF AnswersFresh
    <3>2. NoSession # request[r].set
      BY <2>1 DEF NoSession
    <3> QED BY <2>1, <3>1, <3>2
  <2>5. ASSUME NEW o \in Requests, o # r PROVE request'[o].set # request'[r].set
    <3>1. CASE request'[o].set \in 1..saved
      BY <2>1, <2>5, <3>1 DEF AnswersFresh
    <3>2. CASE request'[o].set \notin 1..saved
      BY <2>1, <3>2
    <3> QED BY <3>1, <3>2
  <2> QED BY <2>2, <2>3, <2>4, <2>5
<1>2. \A s \in 1..saved' : session'[s].validUntil <= now' + Lifetime
  BY <1>0 DEF AnswersFresh
<1>3. \A s, t \in 1..saved' : s <= t => session'[s].validUntil <= session'[t].validUntil
  BY <1>0 DEF AnswersFresh
<1> QED BY <1>1, <1>2, <1>3 DEF AnswersFresh

LEMMA FreshAdded ==
  ASSUME TypeInv, AnswersFresh, NEW r \in Requests, NEW u, Added(r, u), now' = now, cookie' = cookie,
         \A o \in Requests : o # r => request'[o] = request[o]
  PROVE  AnswersFresh'
<1>0. /\ saved \in Nat /\ saved' = saved + 1 /\ now \in Nat /\ Lifetime \in Nat
      /\ \A s \in 1..saved : session'[s] = session[s] /\ session[s].validUntil \in Nat
      /\ session'[saved + 1].validUntil = now + Lifetime
      /\ request'[r].set = saved + 1 /\ request'[r].cookie = request[r].cookie
      /\ \A o \in Requests : request[o].cookie \in 0..saved /\ request[o].set \in -1..saved
      /\ \A b \in Browsers : cookie[b] \in 0..saved
  BY TypeParts, NowType, Constants DEF TypeInv, SessionsType, CookiesType, RequestsType, Req, Row, Added
<1>1. ASSUME NEW q \in Requests, request'[q].set \in 1..saved'
      PROVE  /\ request'[q].cookie < request'[q].set
             /\ \A b \in Browsers : cookie'[b] # request'[q].set
             /\ \A o \in Requests : /\ request'[o].cookie # request'[q].set
                                    /\ o # q => request'[o].set # request'[q].set
  <2>1. \A o \in Requests : request'[o].cookie = request[o].cookie
    BY <1>0
  <2>2. CASE q = r
    <3>1. ASSUME NEW o \in Requests, o # r PROVE request'[o].set # saved + 1
      BY <1>0, <3>1
    <3> QED BY <1>0, <2>1, <2>2, <3>1
  <2>3. CASE q # r
    <3>1. request'[q] = request[q] /\ request[q].set \in 1..saved
      BY <1>0, <1>1, <2>3
    <3>2. ASSUME NEW o \in Requests, o # q PROVE request'[o].set # request[q].set
      BY <1>0, <3>1, <3>2 DEF AnswersFresh
    <3> QED BY <2>1, <3>1, <3>2 DEF AnswersFresh
  <2> QED BY <2>2, <2>3
<1>2. ASSUME NEW s \in 1..saved' PROVE session'[s].validUntil <= now' + Lifetime
  <2>1. s \in 1..saved \/ s = saved + 1
    BY <1>0
  <2> QED BY <1>0, <2>1 DEF AnswersFresh
<1>3. ASSUME NEW s \in 1..saved', NEW t \in 1..saved', s <= t PROVE session'[s].validUntil <= session'[t].validUntil
  <2>1. CASE t = saved + 1
    BY <1>0, <1>2, <2>1
  <2>2. CASE t # saved + 1
    <3>1. s \in 1..saved /\ t \in 1..saved
      BY <1>0, <1>3, <2>2
    <3> QED BY <1>0, <1>3, <3>1 DEF AnswersFresh
  <2> QED BY <2>1, <2>2
<1> QED BY <1>1, <1>2, <1>3 DEF AnswersFresh

LEMMA FreshNext == TypeInv /\ AnswersFresh /\ [SessionsNext]_sessionsVars => AnswersFresh'
<1> SUFFICES ASSUME TypeInv, AnswersFresh, [SessionsNext]_sessionsVars PROVE AnswersFresh'
  OBVIOUS
<1>0. /\ saved \in Nat /\ request \in [Requests -> Req] /\ cookie \in [Browsers -> 0..saved]
      /\ now' \in Nat /\ now' >= now
  BY TimePasses, TypeParts DEF TypeInv, SessionsType, RequestsType, CookiesType
<1>i. Idle.cookie = NoSession /\ Idle.set = Keep /\ Keep \notin 1..saved /\ NoSession \notin 1..saved
  <2>1. Keep \notin 1..saved /\ NoSession \notin 1..saved
    BY <1>0 DEF Keep, NoSession
  <2> QED BY <2>1 DEF Idle
<1>1. ASSUME NEW r \in Requests, Handler(r) PROVE AnswersFresh'
  <2>0. cookie' = cookie /\ now' = now /\ \A o \in Requests : o # r => request'[o] = request[o]
    BY <1>1, HandlerFrame, OthersStay
  <2>1. CASE RowsFixed /\ (Moves(r) \/ (request'[r].set = NoSession /\ request'[r].cookie = request[r].cookie))
    <3>1. /\ request'[r].set \in 1..saved => request'[r].set = request[r].set /\ request'[r].cookie = request[r].cookie
          /\ request'[r].cookie \in {request[r].cookie, NoSession}
      BY <1>i, <2>1 DEF Moves, Same
    <3> QED BY <1>0, <2>0, <2>1, <3>1, FreshKept
  <2>2. ASSUME NEW u, Added(r, u) PROVE AnswersFresh'
    BY <2>0, <2>2, FreshAdded
  <2> QED BY <1>1, <2>1, <2>2, HandlerKinds
<1>2. CASE \A r \in Requests : ~Handler(r)
  <2>1. RowsFixed /\ \A r \in Requests : request'[r] = request[r] \/ request'[r] = Idle \/ Sent(r)
    BY <1>2, OthersFix, RequestsOf
  <2>2. \A r \in Requests :
           /\ request'[r].set \in 1..saved => request'[r] = request[r]
           /\ request'[r].cookie \in {request[r].cookie, NoSession, cookie[BrowserOf[r]]}
    BY <1>i, <2>1 DEF Sent
  <2>3. ASSUME NEW b \in Browsers, cookie'[b] # cookie[b]
        PROVE  \E r \in Requests : cookie'[b] = request[r].set /\ request'[r].set \notin 1..saved
    <3>1. PICK r \in Requests : Answer(r)
      BY <1>2, <2>3, RequestsOf
    <3>2. /\ cookie' = [cookie EXCEPT ![BrowserOf[r]] = request[r].set]
          /\ request' = [request EXCEPT ![r] = Idle]
      BY <3>1 DEF Answer
    <3>3. cookie'[b] = request[r].set /\ request'[r] = Idle
      BY <1>0, <2>3, <3>2
    <3> QED BY <1>i, <3>3
  <2> QED BY <1>0, <2>1, <2>2, <2>3, FreshKept
<1> QED BY <1>1, <1>2

-----------------------------------------------------------------------------
(* Steps that neither answer a request nor renew a session *)
LEMMA ReplacedKept ==
  ASSUME LoggedInInv, RowsFixed, now' \in Nat, now' >= now, cookie' = cookie, evicted \subseteq evicted',
         \A r \in Requests : \/ request'[r].set = request[r].set
                             \/ {request'[r].set, request[r].set} \subseteq {Keep, NoSession},
         \A s \in 1..saved : session[s].browser \notin evicted' /\ InUse(s) => InUse(s)'
  PROVE  Replaced'
<1> SUFFICES ASSUME NEW b \in Browsers \ evicted'
             PROVE  /\ \A r \in Requests : BrowserOf[r] = b /\ request'[r].set \in 1..saved' => InUse(request[r].set)'
                    /\ cookie'[b] # NoSession =>
                          \/ InUse(cookie[b])'
                          \/ \E r \in Requests : /\ BrowserOf[r] = b /\ request'[r].set \in 1..saved'
                                                 /\ cookie'[b] < request'[r].set
  BY DEF Replaced
<1>0. /\ TypeInv /\ saved \in Nat /\ saved' = saved /\ cookie[b] \in 0..saved /\ b \in Browsers \ evicted
      /\ Keep \notin 1..saved /\ NoSession \notin 1..saved
  BY TypeParts DEF LoggedInInv, TypeInv, SessionsType, CookiesType, RowsFixed, Keep, NoSession
<1>1. \A r \in Requests : request'[r].set \in 1..saved \/ request[r].set \in 1..saved => request'[r].set = request[r].set
  BY <1>0
<1>2. ASSUME NEW r \in Requests, BrowserOf[r] = b, request'[r].set \in 1..saved' PROVE InUse(request[r].set)'
  <2>1. request'[r].set = request[r].set /\ request[r].set \in 1..saved
    BY <1>0, <1>1, <1>2
  <2>2. InUse(request[r].set) /\ session[request[r].set].browser = b
    BY <1>0, <1>2, <2>1 DEF LoggedInInv, Replaced, SessionsOwned
  <2>3. \A s \in 1..saved : s = request[r].set => InUse(s)'
    BY <2>2
  <2> QED BY <2>1, <2>3 DEF InUse
<1>3. ASSUME cookie'[b] # NoSession
      PROVE  \/ InUse(cookie[b])'
             \/ \E r \in Requests : /\ BrowserOf[r] = b /\ request'[r].set \in 1..saved'
                                    /\ cookie'[b] < request'[r].set
  <2>1. cookie[b] \in 1..saved /\ session[cookie[b]].browser = b
    BY <1>0, <1>3 DEF LoggedInInv, SessionsOwned, NoSession
  <2>2. CASE InUse(cookie[b])
    <3>1. \A s \in 1..saved : s = cookie[b] => InUse(s)'
      BY <2>1, <2>2
    <3> QED BY <2>1, <3>1 DEF InUse
  <2>3. CASE ~InUse(cookie[b])
    <3>1. PICK r \in Requests : BrowserOf[r] = b /\ request[r].set \in 1..saved /\ cookie[b] < request[r].set
      BY <1>0, <1>3, <2>3 DEF LoggedInInv, Replaced
    <3>2. request'[r].set = request[r].set
      BY <1>1, <3>1
    <3> QED BY <1>0, <3>1, <3>2
  <2> QED BY <2>2, <2>3
<1> QED BY <1>2, <1>3

LEMMA InUseKept ==
  ASSUME TypeInv, now' \in Nat, now' >= now, NEW s \in 1..saved, InUse(s),
         \/ UNCHANGED session
         \/ \E ids : Delete(ids) /\ (s \notin ids \/ session[s].validUntil < now)
  PROVE  InUse(s)'
<1>0. /\ session[s] \in Row /\ now \in Nat /\ session[s].validUntil \in Nat
  BY TypeParts, NowType DEF TypeInv, SessionsType, Row
<1>1. CASE UNCHANGED session
  BY <1>0, <1>1 DEF InUse
<1>2. ASSUME NEW ids, Delete(ids), s \notin ids \/ session[s].validUntil < now PROVE InUse(s)'
  <2>1. session'[s] = IF s \in ids THEN [session[s] EXCEPT !.live = FALSE] ELSE session[s]
    BY <1>2 DEF Delete
  <2>2. CASE s \notin ids
    BY <1>0, <2>1, <2>2 DEF InUse
  <2>3. CASE session[s].validUntil < now
    <3>1. session'[s].validUntil = session[s].validUntil
      BY <1>0, <2>1 DEF Row
    <3> QED BY <1>0, <2>3, <3>1 DEF InUse
  <2> QED BY <1>2, <2>2, <2>3
<1> QED BY <1>1, <1>2

LEMMA ReplacedAdded ==
  ASSUME LoggedInInv, NEW r \in Requests, NEW u, Added(r, u), now' = now, cookie' = cookie, evicted' = evicted,
         request[r].set = Keep, \A o \in Requests : o # r => request'[o] = request[o]
  PROVE  Replaced'
<1> SUFFICES ASSUME NEW b \in Browsers \ evicted
             PROVE  /\ \A o \in Requests : BrowserOf[o] = b /\ request'[o].set \in 1..saved' => InUse(request[o].set)'
                    /\ cookie'[b] # NoSession =>
                          \/ InUse(cookie[b])'
                          \/ \E o \in Requests : /\ BrowserOf[o] = b /\ request'[o].set \in 1..saved'
                                                 /\ cookie'[b] < request'[o].set
  BY DEF Replaced
<1>0. /\ saved \in Nat /\ saved' = saved + 1 /\ cookie[b] \in 0..saved
      /\ \A s \in 1..saved : session'[s] = session[s]
      /\ session'[saved + 1].live /\ request'[r].set = saved + 1 /\ Keep \notin 1..saved
      /\ \A o \in Requests : request[o].set \in -1..saved
  BY TypeParts DEF LoggedInInv, TypeInv, SessionsType, CookiesType, RequestsType, Req, Added, Keep
<1>1. ASSUME NEW o \in Requests, BrowserOf[o] = b, request'[o].set \in 1..saved' PROVE InUse(request[o].set)'
  <2>1. CASE o = r
    BY <1>0, <2>1 DEF InUse
  <2>2. CASE o # r
    <3>1. request'[o].set = request[o].set /\ request[o].set \in 1..saved
      BY <1>0, <1>1, <2>2
    <3>2. InUse(request[o].set)
      BY <1>1, <3>1 DEF LoggedInInv, Replaced
    <3> QED BY <1>0, <3>1, <3>2 DEF InUse
  <2> QED BY <2>1, <2>2
<1>2. ASSUME cookie'[b] # NoSession
      PROVE  \/ InUse(cookie[b])'
             \/ \E o \in Requests : /\ BrowserOf[o] = b /\ request'[o].set \in 1..saved'
                                    /\ cookie'[b] < request'[o].set
  <2>1. cookie[b] \in 1..saved
    BY <1>0, <1>2 DEF NoSession
  <2>2. CASE InUse(cookie[b])
    BY <1>0, <2>1, <2>2 DEF InUse
  <2>3. CASE ~InUse(cookie[b])
    <3>1. PICK o \in Requests : BrowserOf[o] = b /\ request[o].set \in 1..saved /\ cookie[b] < request[o].set
      BY <1>2, <2>3 DEF LoggedInInv, Replaced
    <3>2. o # r
      BY <1>0, <3>1
    <3> QED BY <1>0, <3>1, <3>2
  <2> QED BY <2>2, <2>3
<1> QED BY <1>1, <1>2

(* DropRenewed: the old session goes, and the request brings the new one. *)
LEMMA ReplacedDropped ==
  ASSUME LoggedInInv, [SessionsNext]_sessionsVars, NEW r \in Requests, DropRenewed(r)
  PROVE  Replaced'
<1>0. /\ TypeInv /\ saved \in Nat /\ saved' = saved /\ now' = now /\ cookie' = cookie /\ evicted' = evicted
      /\ request[r] \in Req /\ Shape(request[r]) /\ Keep \notin 1..saved
      /\ now' \in Nat /\ now' >= now
  BY TimePasses, TypeParts
     DEF LoggedInInv, TypeInv, SessionsType, RequestsType, HandlerShape, DropRenewed, DeleteSession, Delete, ghosts, Keep
<1> DEFINE old == request[r].cookie
           new == request[r].set
<1>1. new \in 1..saved /\ old \in 1..saved /\ old < new /\ session[old].browser = BrowserOf[r]
  <2>1. new \in 1..saved /\ old \in 1..saved
    BY <1>0 DEF DropRenewed, At, Shape, Req, Keep, NoSession
  <2> QED BY <2>1 DEF LoggedInInv, AnswersFresh, SessionsOwned, NoSession
<1>2. \A o \in Requests : request'[o].set = request[o].set
  <2>1. Granted(r) /\ Handler(r)
    BY DEF DropRenewed, Handler
  <2>2. Moves(r)
    <3>1. Returns(r) \/ Goes(r, "handle")
      BY <2>1 DEF Granted
    <3>2. "handle" \in PCs
      BY DEF PCs
    <3> QED BY <1>0, <3>1, <3>2, Moved
  <2>3. Same(r)
    BY <1>0, <1>1, <2>2 DEF Moves
  <2> QED BY <1>0, <2>1, <2>3, OthersStay DEF Same
<1>3. \A s \in 1..saved : InUse(s) /\ s # old => InUse(s)'
  <2>1. Delete({old})
    BY DEF DropRenewed, DeleteSession
  <2> HIDE DEF old
  <2> QED BY <1>0, <2>1, InUseKept
<1> SUFFICES ASSUME NEW b \in Browsers \ evicted
             PROVE  /\ \A o \in Requests : BrowserOf[o] = b /\ request'[o].set \in 1..saved' => InUse(request[o].set)'
                    /\ cookie'[b] # NoSession =>
                          \/ InUse(cookie[b])'
                          \/ \E o \in Requests : /\ BrowserOf[o] = b /\ request'[o].set \in 1..saved'
                                                 /\ cookie'[b] < request'[o].set
  BY <1>0 DEF Replaced
<1>4. ASSUME NEW o \in Requests, BrowserOf[o] = b, request'[o].set \in 1..saved' PROVE InUse(request[o].set)'
  <2>1. request[o].set \in 1..saved
    BY <1>0, <1>2, <1>4
  <2>2. InUse(request[o].set) /\ request[o].set # old
    BY <1>4, <2>1 DEF LoggedInInv, Replaced, AnswersFresh
  <2>3. \A s \in 1..saved : s = request[o].set => InUse(s)'
    BY <1>3, <2>2
  <2> QED BY <1>2, <2>1, <2>3 DEF InUse
<1>5. ASSUME cookie'[b] # NoSession
      PROVE  \/ InUse(cookie[b])'
             \/ \E o \in Requests : /\ BrowserOf[o] = b /\ request'[o].set \in 1..saved'
                                    /\ cookie'[b] < request'[o].set
  <2>1. cookie[b] \in 1..saved /\ session[cookie[b]].browser = b
    BY <1>0, <1>5, TypeParts DEF LoggedInInv, TypeInv, CookiesType, SessionsOwned, NoSession
  <2>2. CASE cookie[b] = old
    BY <1>0, <1>1, <1>2, <2>1, <2>2
  <2>3. CASE cookie[b] # old /\ InUse(cookie[b])
    <3>1. \A s \in 1..saved : s = cookie[b] => InUse(s)'
      BY <1>3, <2>3
    <3> QED BY <1>0, <2>1, <3>1 DEF InUse
  <2>4. CASE ~InUse(cookie[b])
    <3>1. PICK o \in Requests : BrowserOf[o] = b /\ request[o].set \in 1..saved /\ cookie[b] < request[o].set
      BY <1>0, <1>5, <2>4 DEF LoggedInInv, Replaced
    <3> QED BY <1>0, <1>2, <3>1
  <2> QED BY <2>2, <2>3, <2>4
<1> QED BY <1>4, <1>5

LEMMA ReplacedHandler ==
  ASSUME LoggedInInv, [SessionsNext]_sessionsVars, NEW r \in Requests, Handler(r)
  PROVE  Replaced'
<1>0. /\ TypeInv /\ now' = now /\ cookie' = cookie /\ now' \in Nat /\ now' >= now
      /\ request[r] \in Req /\ Shape(request[r]) /\ saved \in Nat
      /\ \A o \in Requests : o # r => request'[o] = request[o]
      /\ BrowserOf[r] \in Browsers
  BY HandlerFrame, OthersStay, TimePasses, TypeParts, Constants
     DEF LoggedInInv, TypeInv, RequestsType, HandlerShape, SessionsType
<1>1. CASE DropRenewed(r)
  BY <1>1, ReplacedDropped
<1>2. CASE LogoutSession(r)
  <2>1. RowsFixed /\ evicted' = evicted \cup {BrowserOf[r]} /\ Delete({request[r].cookie})
    BY <1>0, <1>2, DeleteFixes DEF LogoutSession, DeleteSession
  <2>2. request[r].set = Keep /\ request'[r].set = NoSession
    <3>1. request \in [Requests -> Req]
      BY <1>0, TypeParts DEF TypeInv, RequestsType
    <3> QED BY <1>0, <1>2, <3>1 DEF LogoutSession, At, Shape, Req
  <2>3. ASSUME NEW s \in 1..saved, session[s].browser \notin evicted', InUse(s) PROVE InUse(s)'
    <3>1. s # request[r].cookie
      <4>1. s # NoSession
        BY <1>0 DEF NoSession
      <4> QED BY <2>1, <2>3, <4>1 DEF LoggedInInv, SessionsOwned
    <3> QED BY <1>0, <2>1, <2>3, <3>1, InUseKept
  <2>4. \A o \in Requests : \/ request'[o].set = request[o].set
                            \/ {request'[o].set, request[o].set} \subseteq {Keep, NoSession}
    BY <1>0, <2>2
  <2> QED BY <1>0, <2>1, <2>3, <2>4, ReplacedKept
<1>3. CASE ~DropRenewed(r) /\ ~LogoutSession(r)
  <2>1. evicted' = evicted
    BY <1>3 DEF Handler, GetSession, GetUser, useSession, VerifyPassword, Login, ShowChangePassword, SavePassword,
       GetPresigned, GetFile, DeletePresigned, ServeFile, ghosts
  <2>2. CASE RowsFixed /\ Moves(r)
    <3>1. \A o \in Requests : request'[o].set = request[o].set
      <4>1. Idle.set = Keep
        BY DEF Idle
      <4> QED BY <1>0, <2>2, <4>1 DEF Moves, Same
    <3>2. ASSUME NEW s \in 1..saved, InUse(s) PROVE InUse(s)'
      <4>1. CASE useSession(r) /\ session' # session
        <5>1. Delete({request[r].cookie}) /\ session[request[r].cookie].validUntil < now
          <6>1. saved' # saved + 1
            BY <1>0, <2>2 DEF RowsFixed
          <6> QED BY <4>1, <6>1 DEF useSession, CreateSession, DeleteSession
        <5> QED BY <1>0, <3>2, <5>1, InUseKept
      <4>2. CASE UNCHANGED session
        BY <1>0, <3>2, <4>2, InUseKept
      <4>3. CASE ~useSession(r)
        <5>1. saved' # saved + 1
          BY <1>0, <2>2 DEF RowsFixed
        <5>2. UNCHANGED session
          BY <1>3, <4>3, <5>1 DEF Handler, GetSession, GetUser, VerifyPassword, Login, CreateSession,
             ShowChangePassword, SavePassword, GetPresigned, GetFile, DeletePresigned, ServeFile, data
        <5> QED BY <4>2, <5>2
      <4> QED BY <4>1, <4>2, <4>3
    <3> QED BY <1>0, <2>1, <2>2, <3>1, <3>2, ReplacedKept
  <2>3. ASSUME NEW u, Added(r, u), Login(r) \/ useSession(r) PROVE Replaced'
    <3>1. request[r].set = Keep
      BY <1>0, <2>3 DEF Login, useSession, At, Shape
    <3> QED BY <1>0, <2>1, <2>3, <3>1, ReplacedAdded
  <2> QED BY <1>0, <1>3, <2>2, <2>3, HandlerKinds
<1> QED BY <1>1, <1>2, <1>3

(* An answer, or its loss, is about one browser only. *)
LEMMA ReplacedAnswer ==
  ASSUME LoggedInInv, NEW r \in Requests, Answer(r) \/ AnswerLost(r)
  PROVE  Replaced'
<1>0. /\ TypeInv /\ saved \in Nat /\ cookie \in [Browsers -> 0..saved] /\ request \in [Requests -> Req]
      /\ BrowserOf[r] \in Browsers /\ Idle.set = Keep /\ Keep \notin 1..saved
      /\ evicted \subseteq Browsers /\ HandlerShape
  <2>1. TypeInv /\ saved \in Nat /\ cookie \in [Browsers -> 0..saved] /\ request \in [Requests -> Req]
        /\ evicted \subseteq Browsers /\ HandlerShape
    BY TypeParts DEF LoggedInInv, TypeInv, SessionsType, CookiesType, RequestsType, GhostsType
  <2> QED BY <2>1, Constants DEF Idle, Keep
<1>1. /\ saved' = saved /\ session' = session /\ now' = now /\ request' = [request EXCEPT ![r] = Idle]
  BY DEF Answer, AnswerLost, data
<1>2. ASSUME NEW b \in Browsers \ evicted', b # BrowserOf[r]
      PROVE  /\ \A o \in Requests : BrowserOf[o] = b /\ request'[o].set \in 1..saved' => InUse(request[o].set)'
             /\ cookie'[b] # NoSession =>
                   \/ InUse(cookie[b])'
                   \/ \E o \in Requests : /\ BrowserOf[o] = b /\ request'[o].set \in 1..saved'
                                          /\ cookie'[b] < request'[o].set
  <2>1. b \notin evicted /\ cookie'[b] = cookie[b]
    BY <1>0, <1>2 DEF Answer, AnswerLost
  <2>2. \A o \in Requests : BrowserOf[o] = b => request'[o] = request[o]
    BY <1>0, <1>1, <1>2
  <2> QED BY <1>1, <2>1, <2>2 DEF LoggedInInv, Replaced, InUse
<1>3. ASSUME BrowserOf[r] \notin evicted'
      PROVE  LET b == BrowserOf[r] IN
             /\ \A o \in Requests : BrowserOf[o] = b /\ request'[o].set \in 1..saved' => InUse(request[o].set)'
             /\ cookie'[b] # NoSession => InUse(cookie[b])'
  <2> DEFINE b == BrowserOf[r]
  <2>1. Answer(r) /\ cookie'[b] = request[r].set /\ request[r].set \in 0..saved
    BY <1>0, <1>3, AnswerTypes DEF AnswerLost, Answer
  <2>2. CASE b \notin evicted
    <3>1. cookie'[b] # NoSession => InUse(request[r].set)
      BY <1>0, <2>1, <2>2 DEF LoggedInInv, Replaced, NoSession
    <3>2. cookie'[b] # NoSession => InUse(cookie[b])'
      BY <1>1, <2>1, <3>1 DEF InUse
    <3>3. ASSUME NEW o \in Requests, BrowserOf[o] = b, request'[o].set \in 1..saved' PROVE InUse(request[o].set)'
      <4>1. o # r
        BY <1>0, <1>1, <3>3
      <4>2. request'[o] = request[o] /\ request[o].set \in 1..saved
        BY <1>0, <1>1, <3>3, <4>1
      <4> QED BY <1>1, <2>2, <3>3, <4>2, <1>0 DEF LoggedInInv, Replaced, InUse
    <3> QED BY <3>2, <3>3
  <2>3. CASE b \in evicted
    <3>1. Live(request[r].set) /\ InFlight(b) = {r}
      BY <1>3, <2>1, <2>3 DEF Answer
    <3>2. InUse(cookie[b])'
      BY <1>1, <2>1, <3>1 DEF Live, InUse
    <3>3. ASSUME NEW o \in Requests, BrowserOf[o] = b PROVE request'[o].set \notin 1..saved'
      <4>1. CASE o = r
        BY <1>0, <1>1, <4>1
      <4>2. CASE o # r
        <5>1. At(o, "idle")
          BY <3>1, <3>3, <4>2 DEF InFlight
        <5> QED BY <1>0, <1>1, <4>2, <5>1 DEF At, HandlerShape, Shape
      <4> QED BY <4>1, <4>2
    <3> QED BY <3>2, <3>3
  <2> QED BY <2>2, <2>3
<1> QED BY <1>2, <1>3 DEF Replaced

LEMMA ReplacedRestart ==
  ASSUME LoggedInInv, Restart
  PROVE  Replaced'
<1>0. /\ saved \in Nat /\ cookie \in [Browsers -> 0..saved] /\ Idle.set = Keep /\ Keep \notin 1..saved
  BY TypeParts DEF LoggedInInv, TypeInv, SessionsType, CookiesType, Idle, Keep
<1>1. /\ saved' = saved /\ session' = session /\ now' = now /\ cookie' = cookie
      /\ \A o \in Requests : request'[o] = Idle
      /\ \A b \in Browsers \ evicted' :
            b \notin evicted /\ \A o \in Requests : BrowserOf[o] = b => request[o].set = Keep
  BY DEF Restart
<1>2. ASSUME NEW b \in Browsers \ evicted', cookie'[b] # NoSession PROVE InUse(cookie[b])'
  <2>1. InUse(cookie[b])
    BY <1>0, <1>1, <1>2 DEF LoggedInInv, Replaced
  <2> QED BY <1>1, <2>1 DEF InUse
<1>3. \A o \in Requests : request'[o].set \notin 1..saved'
  BY <1>0, <1>1
<1> QED BY <1>2, <1>3 DEF Replaced

LEMMA ReplacedNext == LoggedInInv /\ [SessionsNext]_sessionsVars => Replaced'
<1> SUFFICES ASSUME LoggedInInv, [SessionsNext]_sessionsVars PROVE Replaced'
  OBVIOUS
<1>0. /\ TypeInv /\ now' \in Nat /\ now' >= now /\ saved \in Nat
  BY TimePasses, TypeParts DEF LoggedInInv, TypeInv, SessionsType
<1>1. ASSUME NEW r \in Requests, Handler(r) PROVE Replaced'
  BY <1>1, ReplacedHandler
<1>2. ASSUME NEW r \in Requests, Answer(r) \/ AnswerLost(r) PROVE Replaced'
  BY <1>2, ReplacedAnswer
<1>3. CASE Restart
  BY <1>3, ReplacedRestart
<1>4. ASSUME RowsFixed, cookie' = cookie, evicted \subseteq evicted',
             \A r \in Requests : request'[r].set = request[r].set,
             \A s \in 1..saved : session[s].browser \notin evicted' /\ InUse(s) => InUse(s)'
      PROVE  Replaced'
  BY <1>0, <1>4, ReplacedKept
<1>5. ASSUME NEW r \in Requests, NEW op \in Bounds.operations, NEW k \in Urls, Send(r, op, k) PROVE Replaced'
  <2>1. UNCHANGED <<saved, session, cookie, evicted>>
    BY <1>5 DEF Send, data, ghosts
  <2>2. RowsFixed /\ \A s \in 1..saved : InUse(s) => InUse(s)'
    BY <1>0, <2>1, DeleteFixes, InUseKept
  <2>3. \A o \in Requests : request'[o].set = request[o].set
    <3>1. PICK q : Good(r, q) /\ q.set = Keep
      BY <1>0, <1>5, SendGood
    <3>2. request[r].set = Keep /\ request \in [Requests -> Req]
      BY <1>0, <1>5, TypeParts DEF TypeInv, HandlerShape, Shape, Send, At, RequestsType
    <3> QED BY <3>1, <3>2 DEF Good
  <2> QED BY <1>4, <2>1, <2>2, <2>3
<1>6. ASSUME NEW a \in Admins, EndSessions(a) PROVE Replaced'
  <2>1. /\ Delete({s \in 1..saved : session[s].account = admin[a].account}) /\ cookie' = cookie /\ request' = request
        /\ evicted' = evicted \cup {b \in Browsers : Owner[b] = admin[a].account}
    BY <1>6 DEF EndSessions, DeleteAllSessionsByUser
  <2>2. ASSUME NEW s \in 1..saved, session[s].browser \notin evicted', InUse(s) PROVE InUse(s)'
    <3>1. session[s].browser \in Browsers /\ session[s].account = Owner[session[s].browser]
      BY <1>0, TypeParts DEF LoggedInInv, TypeInv, SessionsType, Row, SessionsOwned
    <3>2. session[s].account # admin[a].account
      BY <2>1, <2>2, <3>1
    <3> QED BY <1>0, <2>1, <2>2, <3>2, InUseKept
  <2>3. RowsFixed
    BY <1>0, <2>1, DeleteFixes
  <2> QED BY <1>4, <2>1, <2>2, <2>3
<1>7. CASE cleanExpiredSessions
  <2>1. /\ Delete({s \in 1..saved : session[s].validUntil < now}) /\ cookie' = cookie /\ request' = request
        /\ evicted' = evicted
    BY <1>7 DEF cleanExpiredSessions, ghosts
  <2>2. ASSUME NEW s \in 1..saved, InUse(s) PROVE InUse(s)'
    BY <1>0, <2>1, <2>2, InUseKept
  <2> QED BY <1>0, <1>4, <2>1, <2>2, DeleteFixes
<1>8. CASE \/ \E a \in Admins, op \in Bounds.admin, u \in Accounts : isValidUserForEditing(a, op, u)
           \/ \E a \in Admins : SaveReset(a) \/ DeleteUser(a)
           \/ \E k \in Urls : Presign(k)
           \/ cleanUp \/ FileExpires \/ SessionTick \/ UNCHANGED sessionsVars
  <2>1. UNCHANGED <<saved, session, cookie, evicted, request>>
    BY <1>8 DEF isValidUserForEditing, SaveReset, DeleteUser, Presign, cleanUp, FileExpires, SessionTick, sessionsVars, data, ghosts
  <2>2. \A s \in 1..saved : InUse(s) => InUse(s)'
    BY <1>0, <2>1, InUseKept
  <2> QED BY <1>0, <1>4, <2>1, <2>2, DeleteFixes
<1> QED BY <1>1, <1>2, <1>3, <1>5, <1>6, <1>7, <1>8 DEF SessionsNext

(* A browser whose cookie has not expired stays logged in (useSession),      *)
(* however many of its requests renew the session at the same time, in       *)
(* whatever order their answers come, whoever else logs out, and whatever    *)
(* the clean-up removes; until it logs out, its user is reset or deleted, or *)
(* an answer that sets its cookie is lost.                                   *)
THEOREM LoggedIn == SessionsSpec => []StaysLoggedIn
<1>1. SessionsInit => SessionsOwned /\ AnswersFresh /\ Replaced
  <2> SUFFICES ASSUME SessionsInit PROVE SessionsOwned /\ AnswersFresh /\ Replaced
    OBVIOUS
  <2>1. saved = 0 /\ \A b \in Browsers : cookie[b] = NoSession
    BY DEF SessionsInit
  <2>2. \A r \in Requests : request[r].cookie = NoSession
    BY DEF SessionsInit, Idle
  <2>3. 1..saved = {}
    BY <2>1
  <2> QED BY <2>1, <2>2, <2>3 DEF SessionsOwned, AnswersFresh, Replaced
<1>2. LoggedInInv /\ [SessionsNext]_sessionsVars => LoggedInInv'
  BY NextTypes, OwnedNext, FreshNext, ReplacedNext DEF LoggedInInv
<1>3. LoggedInInv => StaysLoggedIn
  <2> SUFFICES ASSUME LoggedInInv, NEW b \in Browsers \ evicted, cookie[b] # NoSession,
                      session[cookie[b]].validUntil >= now
               PROVE  Live(cookie[b]) \/ \E r \in InFlight(b) : Live(request[r].set)
    BY DEF StaysLoggedIn
  <2>0. /\ cookie[b] \in 1..saved /\ now \in Nat /\ saved \in Nat /\ HandlerShape
        /\ \A s \in 1..saved : session[s].validUntil \in Nat /\ (InUse(s) /\ session[s].validUntil >= now => Live(s))
    BY TypeParts, NowType DEF LoggedInInv, TypeInv, CookiesType, SessionsType, Row, NoSession, InUse, Live
  <2>1. CASE InUse(cookie[b])
    BY <2>0, <2>1
  <2>2. CASE ~InUse(cookie[b])
    <3>1. PICK r \in Requests : BrowserOf[r] = b /\ request[r].set \in 1..saved /\ cookie[b] < request[r].set
      BY <2>2 DEF LoggedInInv, Replaced
    <3>2. session[request[r].set].validUntil >= session[cookie[b]].validUntil
      BY <2>0, <3>1 DEF LoggedInInv, AnswersFresh
    <3>3. Live(request[r].set)
      <4>1. InUse(request[r].set)
        BY <3>1 DEF LoggedInInv, Replaced
      <4> QED BY <2>0, <3>1, <3>2, <4>1
    <3>4. r \in InFlight(b)
      BY <2>0, <3>1 DEF InFlight, At, HandlerShape, Shape, Keep
    <3> QED BY <3>3, <3>4
  <2> QED BY <2>1, <2>2
<1> QED BY <1>1, <1>2, <1>3, InitTypes, PTL DEF SessionsSpec, LoggedInInv

(* Who is deleted, or has logged out, stays out (LogoutSession,              *)
(* apiDeleteUser), up to the races that the two parts name.                  *)
THEOREM StaysOut == SessionsSpec => []OutStaysOut
BY DeletedStaysOut, LoggedOut, PTL DEF OutStaysOut
=============================================================================
