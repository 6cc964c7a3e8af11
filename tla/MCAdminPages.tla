---------------------------- MODULE MCAdminPages ----------------------------
(* The scenarios of AdminSystem.tla for TLC.                               *)
EXTENDS AdminSystem

CONSTANTS boss, u1, u2, k1, k2, b1, b2, r1, r2, r3

TagOf == [l1 |-> "info", l2 |-> "warning", deletion |-> "warning"]

User(rank, perms) == [live |-> TRUE, rank |-> rank, perms |-> perms, reset |-> FALSE]
Key(owner, perms) == [state |-> "live", owner |-> owner, perms |-> perms, name |-> "a"]

(* operator: who has opened which page; user, key: what is there at first;   *)
(* edited, clicked, keyClicked: what may be clicked; elsewhere: what others  *)
(* may ask of the server                                                     *)
Base == [operator |-> [users |-> boss, keys |-> u1], super |-> boss,
         user |-> (boss :> User("SUPER", UserPermissions)) @@ (u1 :> User("USER", {"PERM_REPLACE"})),
         key |-> (k1 :> Key(u1, {"PERM_VIEW", "PERM_REPLACE"})),
         edited |-> {}, clicked |-> {}, ranks |-> FALSE, resets |-> FALSE, created |-> {},
         keyClicked |-> {}, deletes |-> FALSE, news |-> FALSE, typed |-> {}, elsewhere |-> {},
         grantedByDefault |-> {}, tokensAge |-> FALSE, maxActions |-> 0, maxFaults |-> 0,
         subject |-> "pages", schedules |-> {"tabs"}]
All == [
    Logs |-> [Base EXCEPT !.subject = "log"],
    Sessions |-> [Base EXCEPT !.subject = "sessions", !.schedules = DOMAIN Schedules],
    Users |-> [Base EXCEPT !.edited = {u1}, !.clicked = {"PERM_REPLACE", "PERM_REPLACE_OTHER"},
                           !.maxActions = 3, !.maxFaults = 1],
    Keys |-> [Base EXCEPT !.keyClicked = {"PERM_VIEW"}, !.deletes = TRUE, !.news = TRUE,
                          !.typed = {"b", "c"}, !.maxActions = 3, !.maxFaults = 1],
    Sweep |-> [Base EXCEPT !.edited = {u1}, !.clicked = {"PERM_REPLACE"},
                           !.keyClicked = {"PERM_REPLACE"}, !.deletes = TRUE, !.typed = {"b"},
                           !.maxActions = 3],
    Rank |-> [Base EXCEPT !.user = (u1 :> User("ADMIN", UserPermissions)) @@ @, !.edited = {u1},
                          !.clicked = {"PERM_GUEST_UPLOAD"}, !.ranks = TRUE, !.maxActions = 3,
                          !.keyClicked = {"PERM_MANAGE_FILE_REQUESTS"}, !.typed = {"b"}],
    Reset |-> [Base EXCEPT !.edited = {u1, u2}, !.clicked = {"PERM_REPLACE"}, !.resets = TRUE,
                           !.created = {u2}, !.grantedByDefault = {"PERM_GUEST_UPLOAD"},
                           !.maxActions = 2, !.maxFaults = 1],
    Aged |-> [Base EXCEPT !.edited = {u1}, !.ranks = TRUE, !.keyClicked = {"PERM_VIEW"},
                          !.tokensAge = TRUE, !.maxActions = 2, !.maxFaults = 1],
    Demoted |-> [Base EXCEPT !.operator.users = u2,
                             !.user = @ @@ (u2 :> User("ADMIN", UserPermissions)),
                             !.edited = {u1}, !.clicked = {"PERM_REPLACE"}, !.tokensAge = TRUE,
                             !.elsewhere = {apiUserModify(u2, "PERM_USERS", g) : g \in BOOLEAN},
                             !.maxActions = 3, !.maxFaults = 1]
]
AllScenarios == [name \in DOMAIN All |-> All[name]]

(* The sessions of u1, who has two browsers: r1 and r2 belong to the first,  *)
(* r3 to the second.                                                         *)
OneOwner == [b \in Browsers |-> u1]
BrowserOfSlot == [r \in Requests |-> IF r = r3 THEN b2 ELSE b1]
Interchangeable == Permutations({r1, r2})

Schedule(operations, adminOps, requests, maxNow, maxRequests, maxFaults) ==
    [operations |-> operations, admin |-> adminOps, requests |-> requests,
     maxNow |-> maxNow, maxRequests |-> maxRequests, maxFaults |-> maxFaults]

(* Two tabs that renew and log out, with a lost answer or a restart; two     *)
(* browsers; a user who is reset or deleted; and a presigned URL.            *)
AllSchedules ==
    [tabs |-> Schedule({"page", "login", "logout"}, {}, {r1, r2}, 2, 4, 1),
     browsers |-> Schedule({"page", "login", "logout"}, {}, {r1, r3}, 2, 3, 0),
     admin |-> Schedule({"page", "login", "change"}, {"reset", "delete"}, {r1, r2}, 2, 3, 0),
     download |-> Schedule({"login", "presigned"}, {}, {r1, r2}, 1, 3, 1)]
=============================================================================
