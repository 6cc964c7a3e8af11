------------------------------ MODULE UsersPage -----------------------------
(***************************************************************************)
(* The page on which an administrator changes other users                  *)
(* (admin_ui_users.js, html_users.tmpl).  Its dialog for deletions is not  *)
(* modelled: showDeleteUserModal looks for elements that the template does *)
(* not have, and never shows it.                                           *)
(***************************************************************************)
EXTENDS AdminApi

VARIABLE usersPage

Cells == Users \X UserPermissions
Closed == [state |-> "closed", for |-> {}, password |-> {}, left |-> {}]

(* rows: the users in the table; granted, processing, fixed: the indicators  *)
(* with these classes, where fixed is perm-nochange; next: the rank that the *)
(* button gives, or none when it is disabled; perms, admin: what the script  *)
(* knows of the user whose page it is; form, reset: the two dialogs.         *)
(* reset.for: whose name the dialog shows; reset.password: whose new         *)
(* password; reset.left: whose password is in the hidden clone from which    *)
(* it will be made again.                                                    *)
UsersTypeOK ==
    /\ usersPage.rows \subseteq Users
    /\ usersPage.granted \subseteq Cells /\ usersPage.processing \subseteq Cells
    /\ usersPage.granted \cap usersPage.processing = {}
    /\ usersPage.fixed \subseteq Cells
    /\ usersPage.next \in [Users -> {"ADMIN", "USER", "none"}]
    /\ usersPage.perms \subseteq UserPermissions /\ usersPage.admin \in BOOLEAN
    /\ usersPage.form \in {"idle", "busy"}
    /\ usersPage.reset.state \in {"closed", "open", "sending", "shown"}
    /\ \A s \in {usersPage.reset.for, usersPage.reset.password, usersPage.reset.left} : s \subseteq Users

NotGranted(cell) == cell \notin usersPage.granted \cup usersPage.processing

(* The template, for the user operator *)
RenderedUsers(operator) ==
    LET Untouchable(u) == user[u].rank = "SUPER" \/ u = operator
        IsAdmin(u) == user[u].rank # "USER"
        own == user[operator].perms
    IN [rows |-> {u \in Users : user[u].live},
        granted |-> {x \in Cells : x[2] \in user[x[1]].perms}, processing |-> {},
        fixed |-> {x \in Cells : x[2] \notin own \/ Untouchable(x[1])},
        next |-> [u \in Users |->
                     IF Untouchable(u) \/ (~IsAdmin(u) /\ ~IsAdmin(operator)) THEN "none"
                     ELSE IF IsAdmin(u) THEN "USER" ELSE "ADMIN"],
        perms |-> own, admin |-> IsAdmin(operator), form |-> "idle", reset |-> Closed]

UsersInit == usersPage = RenderedUsers(Now.operator.users)

-----------------------------------------------------------------------------
Changeable(u, perm) ==
    u \in usersPage.rows /\ <<u, perm>> \notin usersPage.fixed \cup usersPage.processing

(* Replacing the files of others is granted together with replacing one's    *)
(* own, and revoked together with it.                                        *)
AlsoChanged(u, perm) ==
    {also \in UserPermissions :
        /\ Changeable(u, also)
        /\ \/ /\ perm = "PERM_REPLACE_OTHER" /\ also = "PERM_REPLACE"
              /\ NotGranted(<<u, perm>>) /\ NotGranted(<<u, also>>)
           \/ /\ perm = "PERM_REPLACE" /\ also = "PERM_REPLACE_OTHER"
              /\ {<<u, perm>>, <<u, also>>} \subseteq usersPage.granted}

changeUserPermission(u, perm) ==
    LET changed == {perm} \cup AlsoChanged(u, perm)
        cells == {u} \X changed
    IN
    /\ Changeable(u, perm)
    /\ Sends("users", {apiUserModify(u, p, NotGranted(<<u, p>>)) : p \in changed})
    /\ usersPage' = [usersPage EXCEPT !.granted = @ \ cells, !.processing = @ \cup cells]

(* Mutant of ModifyUserAnswered: an error is not undone. *)
ErrorTakenForSuccess(c) ==
    LET cell == {<<c.target, c.arg>>} IN
    /\ c.op = "modifyUser"
    /\ usersPage' = [usersPage EXCEPT !.processing = @ \ cell,
                                      !.granted = IF c.grant THEN @ \cup cell ELSE @]

ModifyUserAnswered(c) ==
    LET cell == {<<c.target, c.arg>>} IN
    /\ c.op = "modifyUser"
    /\ usersPage' = [usersPage EXCEPT !.processing = @ \ cell,
                                      !.granted = IF c.grant = (c.pc = "ok") THEN @ \cup cell ELSE @]

changeRank(u) ==
    /\ u \in usersPage.rows /\ usersPage.next[u] # "none"
    /\ Sends("users", {apiUserChangeRank(u, usersPage.next[u])})
    /\ usersPage' = [usersPage EXCEPT !.next[u] = "none"]

RankRefused(c) ==
    /\ c.op = "rank" /\ c.pc = "error"
    /\ usersPage' = [usersPage EXCEPT !.next[c.target] = c.arg]

(* The page is loaded again when a rank has been changed. *)
RankChanged(c) ==
    /\ c.op = "rank" /\ c.pc = "ok"
    /\ usersPage' = RenderedUsers(Now.operator.users)

-----------------------------------------------------------------------------
showResetPwModal(u) ==
    /\ Now.resets /\ usersPage.reset.state = "closed"
    /\ u \in usersPage.rows /\ u # Now.operator.users /\ user[u].rank # "SUPER"
    /\ usersPage' = [usersPage EXCEPT !.reset = [@ EXCEPT !.state = "open", !.for = {u}, !.password = usersPage.reset.left]]
    /\ UNCHANGED adminVars

resetPw ==
    /\ usersPage.reset.state = "open"
    /\ \E u \in usersPage.reset.for, new \in BOOLEAN :
          Sends("users", {apiUserResetPassword(u, new)})
    /\ usersPage' = [usersPage EXCEPT !.reset.state = "sending"]

Hidden == [Closed EXCEPT !.left = usersPage.reset.left]

DismissReset ==
    /\ usersPage.reset.state # "closed"
    /\ usersPage' = [usersPage EXCEPT !.reset = Hidden]
    /\ UNCHANGED adminVars

(* The answer goes to the dialog that is in the document by then: another    *)
(* user's, or the hidden one from which those to come are made.              *)
ResetAnswered(c) ==
    LET another == \E d \in calls \ {c} : d.page = "users" /\ d.op = "reset" /\ d.target = c.target
        dialog == usersPage.reset
    IN
    /\ c.op = "reset"
    /\ \/ /\ c.pc = "ok" /\ c.grant
          /\ usersPage' = [usersPage EXCEPT !.reset =
                IF dialog.state = "closed" THEN [dialog EXCEPT !.left = {c.target}]
                ELSE [dialog EXCEPT !.state = IF dialog.state = "sending" THEN "shown" ELSE dialog.state,
                                    !.password = {c.target}]]
       \/ c.pc = "ok" /\ ~c.grant /\ usersPage' = [usersPage EXCEPT !.reset = Hidden]
       \/ /\ c.pc = "error"
          /\ usersPage' = [usersPage EXCEPT !.reset.state =
                IF dialog.state = "sending" /\ dialog.for = {c.target} /\ ~another THEN "open" ELSE dialog.state]

addNewUser(u) ==
    /\ u \in Now.created /\ usersPage.form = "idle"
    /\ Sends("users", {apiUserCreate(u)})
    /\ usersPage' = [usersPage EXCEPT !.form = "busy"]

(* A row that the script adds has the same indicators as those of the        *)
(* template, and a button that promotes.                                     *)
addRowUser(u, permissions) ==
    [usersPage EXCEPT
        !.form = "idle", !.rows = @ \cup {u},
        !.granted = {x \in @ : x[1] # u} \cup ({u} \X permissions),
        !.fixed = {x \in @ : x[1] # u} \cup {<<u, p>> : p \in UserPermissions \ usersPage.perms},
        !.next[u] = IF usersPage.admin THEN "ADMIN" ELSE "none"]

CreateUserAnswered(c) ==
    /\ c.op = "createUser"
    /\ \/ c.pc = "ok" /\ usersPage' = addRowUser(c.target, c.row[1].perms)
       \/ c.pc = "error" /\ usersPage' = [usersPage EXCEPT !.form = "idle"]

-----------------------------------------------------------------------------
UsersStep ==
    \/ \E u \in Now.edited : /\ \/ \E p \in Now.clicked : changeUserPermission(u, p)
                                \/ Now.ranks /\ changeRank(u)
                                \/ addNewUser(u)
                             /\ UNCHANGED <<scenario, user, key, stored, faults, overtaken, excused>>
    \/ \E u \in Now.edited : showResetPwModal(u)
    \/ resetPw /\ UNCHANGED <<scenario, user, key, stored, faults, overtaken, excused>>
    \/ DismissReset
    \/ \E c \in {c \in calls : c.page = "users" /\ c.pc \in {"ok", "error"}} :
          /\ \/ /\ ModifyUserAnswered(c) \/ RankRefused(c) \/ ResetAnswered(c) \/ CreateUserAnswered(c)
                /\ calls' = calls \ {c} /\ UNCHANGED <<stored, excused>>
             \/ /\ RankChanged(c)
                /\ calls' = Abandoned("users")
                /\ stored' = [stored EXCEPT !.users = [p \in ApiPermissions |-> NoToken]]
                /\ excused' = excused \ CellsOf("users")
          /\ UNCHANGED <<scenario, user, key, actions, faults, overtaken>>

(* What the page shows of the permissions of users is so, once it has its    *)
(* answer, unless something else has changed the permission since the last   *)
(* answer: another administrator, a handler that saves an older row, or a    *)
(* call whose answer was lost.                                               *)
UsersTrue ==
    \A u \in usersPage.rows, p \in UserPermissions :
        \/ (<<u, p>> \in usersPage.granted) = (p \in user[u].perms)
        \/ UserCell(u, p) \in excused
        \/ \E c \in calls : c.page = "users" /\ UserCell(u, p) \in Own(c)
=============================================================================
