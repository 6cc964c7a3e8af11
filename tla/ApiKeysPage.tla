----------------------------- MODULE ApiKeysPage ----------------------------
(***************************************************************************)
(* The page on which a user manages API keys (admin_ui_api.js,             *)
(* html_api.tmpl).                                                         *)
(***************************************************************************)
EXTENDS AdminApi

VARIABLE keysPage

KeyCells == Keys \X ApiPermissions
NewName == "Cle sans nom"

(* rows: the keys in the table; granted, processing, fixed: the indicators   *)
(* with these classes, where fixed is perm-nochange; hidden: those that the  *)
(* template draws as perm-unavailable; name: what the first cell shows;      *)
(* busy: delete buttons that are disabled; new: the button for a new key;    *)
(* can: the permissions that the script knows the user has.                  *)
KeysTypeOK ==
    /\ keysPage.rows \subseteq Keys
    /\ keysPage.granted \subseteq KeyCells /\ keysPage.processing \subseteq KeyCells
    /\ keysPage.granted \cap keysPage.processing = {}
    /\ keysPage.fixed \subseteq Keys \X Gated
    /\ keysPage.hidden \subseteq keysPage.fixed
    /\ keysPage.name \in [Keys -> Names \cup {"", NewName}]
    /\ keysPage.busy \subseteq Keys
    /\ keysPage.new \in {"idle", "busy"}
    /\ keysPage.can \subseteq Gated

RenderedKeys(operator) ==
    LET listed == {k \in Keys : /\ key[k].state = "live"
                                /\ key[k].owner = operator \/ "PERM_API" \in user[operator].perms}
        unavailable == {x \in listed \X Gated : ~Suffices(user[key[x[1]].owner], x[2])}
    IN [rows |-> listed,
        granted |-> {x \in KeyCells : x[2] \in key[x[1]].perms}, processing |-> {},
        fixed |-> unavailable, hidden |-> unavailable,
        name |-> [k \in Keys |-> key[k].name],
        busy |-> {}, new |-> "idle", can |-> {p \in Gated : Suffices(user[operator], p)}]

KeysInit == keysPage = RenderedKeys(Now.operator.keys)

-----------------------------------------------------------------------------
(* Mutant of changeApiPermission: the indicator keeps its class. *)
ChangeKeepsGranted(k, perm) ==
    LET cell == <<k, perm>> IN
    /\ k \in keysPage.rows /\ cell \notin keysPage.fixed \cup keysPage.processing
    /\ Sends("keys", {apiAuthModify(k, perm, cell \notin keysPage.granted)})
    /\ keysPage' = [keysPage EXCEPT !.processing = @ \cup {cell}]

changeApiPermission(k, perm) ==
    LET cell == <<k, perm>> IN
    /\ k \in keysPage.rows /\ cell \notin keysPage.fixed \cup keysPage.processing
    /\ Sends("keys", {apiAuthModify(k, perm, cell \notin keysPage.granted)})
    /\ keysPage' = [keysPage EXCEPT !.granted = @ \ {cell}, !.processing = @ \cup {cell}]

ModifyKeyAnswered(c) ==
    LET cell == {<<c.target, c.arg>>} IN
    /\ c.op = "modifyKey"
    /\ keysPage' = [keysPage EXCEPT !.processing = @ \ cell,
                                    !.granted = IF c.grant = (c.pc = "ok") THEN @ \cup cell ELSE @]

deleteApiKey(k) ==
    /\ k \in keysPage.rows \ keysPage.busy
    /\ Sends("keys", {apiAuthDelete(k)})
    /\ keysPage' = [keysPage EXCEPT !.busy = @ \cup {k}]

(* The row goes; after an error the button stays disabled. *)
DeleteKeyAnswered(c) ==
    /\ c.op = "deleteKey"
    /\ keysPage' = [keysPage EXCEPT !.rows = IF c.pc = "ok" THEN @ \ {c.target} ELSE @]

newApiKey ==
    /\ keysPage.new = "idle" /\ \E k \in Keys : key[k].state = "none"
    /\ Sends("keys", {apiAuthCreate})
    /\ keysPage' = [keysPage EXCEPT !.new = "busy"]

(* The permissions that a new row shows are written down in the script, and  *)
(* so is its name, in another language than that of the server.              *)
addRowApi(k) ==
    [keysPage EXCEPT
        !.rows = @ \cup {k}, !.new = "idle", !.name[k] = NewName,
        !.granted = @ \cup ({k} \X {"PERM_VIEW", "PERM_UPLOAD", "PERM_EDIT", "PERM_DELETE"}),
        !.fixed = @ \cup {<<k, p>> : p \in Gated \ keysPage.can}]

(* After an error the button stays disabled. *)
CreateKeyAnswered(c) ==
    /\ c.op = "createKey"
    /\ \/ c.pc = "ok" /\ keysPage' = addRowApi(c.target)
       \/ c.pc = "error" /\ UNCHANGED keysPage

(* The new name is shown before it has been saved, and stays when it is not. *)
(* A name is not typed again while it is being saved: the calls are a set.   *)
addFriendlyNameChange(k, name) ==
    /\ k \in keysPage.rows
    /\ \A c \in calls : c.op = "rename" => c.arg # name
    /\ Sends("keys", {apiAuthFriendlyName(k, name)})
    /\ keysPage' = [keysPage EXCEPT !.name[k] = name]
    /\ excused' = excused \cup {NameCell(c.target) : c \in {c \in calls : c.op = "rename" /\ c.target = k}}

-----------------------------------------------------------------------------
KeysStep ==
    \/ /\ \/ \E k \in Keys : \/ \E p \in Now.keyClicked : changeApiPermission(k, p)
                             \/ Now.deletes /\ deleteApiKey(k)
          \/ Now.news /\ newApiKey
       /\ UNCHANGED <<scenario, user, key, stored, faults, overtaken, excused>>
    \/ /\ \E k \in Keys, name \in Now.typed : addFriendlyNameChange(k, name)
       /\ UNCHANGED <<scenario, user, key, stored, faults, overtaken>>
    \/ \E c \in {c \in calls : c.page = "keys" /\ c.pc \in {"ok", "error"}} :
          /\ \/ ModifyKeyAnswered(c) \/ DeleteKeyAnswered(c) \/ CreateKeyAnswered(c)
             \/ c.op = "rename" /\ UNCHANGED keysPage
          /\ calls' = calls \ {c}
          /\ excused' = excused \cup (IF c.op = "rename" /\ c.pc = "error" THEN {NameCell(c.target)} ELSE {})
          /\ UNCHANGED <<scenario, user, key, stored, actions, faults, overtaken>>

(* The table of keys, their names and their permissions are so, once the     *)
(* page has its answers, unless something else has changed them: a sweep of  *)
(* updateApiKeyPermsOnUserPermChange, a row that was read before and saved   *)
(* after, renamings that overtake each other, or a call that failed or whose *)
(* answer was lost.  The name of a new key is shown translated.              *)
KeysTrue ==
    LET Pending(cell) == \E c \in calls : c.page = "keys" /\ cell \in Own(c) IN
    \A k \in Keys :
        /\ \/ (k \in keysPage.rows) = (key[k].state = "live")
           \/ key[k].owner # Now.operator.keys \/ RowCell(k) \in excused \/ Pending(RowCell(k))
        /\ k \in keysPage.rows /\ key[k].state = "live" =>
              /\ \/ keysPage.name[k] = key[k].name
                 \/ keysPage.name[k] = NewName /\ key[k].name = "Unnamed key"
                 \/ NameCell(k) \in excused \/ Pending(NameCell(k))
              /\ \A p \in ApiPermissions :
                    \/ (<<k, p>> \in keysPage.granted) = (p \in key[k].perms)
                    \/ <<k, p>> \in keysPage.hidden \/ KeyCell(k, p) \in excused
                    \/ Pending(KeyCell(k, p))
=============================================================================
