----------------------------- MODULE AdminSystem ----------------------------
(***************************************************************************)
(* The pages of administrators with the server: those of users and of API  *)
(* keys, which change the same tables, and that of the log; and the        *)
(* sessions of users, which administrators end.                            *)
(***************************************************************************)
EXTENDS UsersPage, ApiKeysPage, LogPage, Sessions

pagesVars == <<adminVars, usersPage, keysPage>>
vars == <<pagesVars, logVars, sessionsVars>>

(* Every variable has its type. *)
TypeOK == AdminTypeOK /\ UsersTypeOK /\ KeysTypeOK /\ LogTypeOK /\ SessionsTypeOK

(* A scenario is about the log, about sessions, or about users and keys. *)
Init ==
    /\ scenario \in DOMAIN Scenarios /\ AdminInit /\ UsersInit /\ KeysInit /\ LogInit
    /\ SessionsInit /\ schedule \in Now.schedules
    /\ Now.subject # "sessions" => \A u \in Accounts : ~account[u].reset

AdminNext ==
    \/ (UsersStep \/ (TokenAges("users") /\ UNCHANGED usersPage)) /\ UNCHANGED keysPage
    \/ (KeysStep \/ (TokenAges("keys") /\ UNCHANGED keysPage)) /\ UNCHANGED usersPage
    \/ ServerStep /\ UNCHANGED <<usersPage, keysPage>>

Next ==
    \/ Now.subject = "pages" /\ AdminNext /\ UNCHANGED <<logVars, sessionsVars>>
    \/ Now.subject = "log" /\ LogStep /\ UNCHANGED <<pagesVars, sessionsVars>>
    \/ Now.subject = "sessions" /\ SessionsNext /\ UNCHANGED <<pagesVars, logVars>>

Spec == Init /\ [][Next]_vars

(* What the pages show of users and of keys is what the server has, see      *)
(* UsersTrue and KeysTrue.                                                   *)
PagesTrue == UsersTrue /\ KeysTrue
=============================================================================
