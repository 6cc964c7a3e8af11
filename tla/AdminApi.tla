------------------------------- MODULE AdminApi -----------------------------
(***************************************************************************)
(* Users, API keys, the requests with which the pages of an administrator  *)
(* change them (admin_api.js), and the handlers of these requests          *)
(* (Api.go).  A handler reads a row, and saves the whole row later; in     *)
(* between it holds a mutex, or none.                                      *)
(***************************************************************************)
EXTENDS Integers, Sequences, FiniteSets, TLC

CONSTANTS
    Users,      \* users that exist or may be created
    Keys,       \* API keys that exist or may be created
    Tokens,     \* temporary tokens that may be generated, which are API keys too
    NoToken,    \* getToken has none in storedTokens
    Names,      \* names that users give to API keys
    Scenarios   \* what a behaviour starts from, and which events it may see

VARIABLES
    scenario,   \* the scenario of this behaviour, a name in Scenarios
    user,       \* table Users
    key,        \* table ApiKeys
    calls,      \* calls of the API that have not been answered
    stored,     \* stored[page]: storedTokens of the page
    actions,    \* number of things that users have done
    faults,     \* number of connections that have failed
    overtaken,  \* permissions of keys that one of the races below has left
    excused     \* cells of pages that something else has changed, or may have

adminVars == <<scenario, user, key, calls, stored, actions, faults, overtaken, excused>>

Now == Scenarios[scenario]
Pages == {"users", "keys"}

UserPermissions ==
    {"PERM_REPLACE", "PERM_LIST", "PERM_EDIT", "PERM_REPLACE_OTHER", "PERM_DELETE",
     "PERM_LOGS", "PERM_API", "PERM_USERS", "PERM_GUEST_UPLOAD"}
ApiPermDefault == {"PERM_VIEW", "PERM_UPLOAD", "PERM_DELETE", "PERM_EDIT"}

(* The permission that the owner of a key needs for a permission of the key *)
Needs == [PERM_REPLACE |-> "PERM_REPLACE", PERM_MANAGE_USERS |-> "PERM_USERS",
          PERM_MANAGE_LOGS |-> "PERM_LOGS", PERM_MANAGE_FILE_REQUESTS |-> "PERM_GUEST_UPLOAD"]
Gated == DOMAIN Needs
ApiPermissions == ApiPermDefault \cup Gated \cup {"PERM_DOWNLOAD", "PERM_API_MOD"}
Suffices(u, perm) == perm \in Gated => Needs[perm] \in u.perms

AllKeys == Keys \cup Tokens
UserRows == [live : BOOLEAN, rank : {"SUPER", "ADMIN", "USER"}, perms : SUBSET UserPermissions, reset : BOOLEAN]
NoUser == [live |-> FALSE, rank |-> "USER", perms |-> {}, reset |-> FALSE]
KeyStates == {"none", "live", "deleted"}
KeyRows == [state : KeyStates, owner : Users, perms : SUBSET ApiPermissions, name : Names \cup {""}]

(* What the pages or others may ask of the server *)
IsRequest(r) ==
    /\ r.needs \in {"PERM_API_MOD", "PERM_MANAGE_USERS"} /\ r.grant \in BOOLEAN
    /\ \/ r.op = "modifyUser" /\ r.target \in Users /\ r.arg \in UserPermissions
       \/ r.op = "rank" /\ r.target \in Users /\ r.arg \in {"ADMIN", "USER"}
       \/ r.op \in {"createUser", "reset"} /\ r.target \in Users /\ r.arg = ""
       \/ r.op = "modifyKey" /\ r.target \in Keys /\ r.arg \in ApiPermissions
       \/ r.op = "rename" /\ r.target \in Keys /\ r.arg \in Names
       \/ r.op = "deleteKey" /\ r.target \in Keys /\ r.arg = ""
       \/ r.op = "createKey" /\ r.target = NoToken /\ r.arg = ""

(* A behaviour begins with keys that are within the permissions of their     *)
(* owners; only keys that are in use have permissions.                       *)
IsScenario(s) ==
    /\ s.operator \in [Pages -> Users] /\ s.super \in Users
    /\ DOMAIN s.user \subseteq Users /\ s.user \in [DOMAIN s.user -> UserRows]
    /\ DOMAIN s.key \subseteq AllKeys /\ s.key \in [DOMAIN s.key -> KeyRows]
    /\ \A k \in DOMAIN s.key :
          /\ s.key[k].state # "live" => s.key[k].perms = {}
          /\ \A p \in s.key[k].perms \cap Gated :
                s.key[k].owner \in DOMAIN s.user /\ Needs[p] \in s.user[s.key[k].owner].perms
    /\ s.clicked \subseteq UserPermissions /\ s.keyClicked \subseteq ApiPermissions
    /\ s.typed \subseteq Names /\ s.created \subseteq Users /\ s.grantedByDefault \subseteq UserPermissions
    /\ \A r \in s.elsewhere : IsRequest(r)
    /\ s.maxActions \in Nat /\ s.maxFaults \in Nat

ASSUME AdminAssumption ==
    /\ Users # {} /\ Users \cap AllKeys = {} /\ Keys \cap Tokens = {} /\ NoToken \notin Users \cup AllKeys
    /\ "Unnamed key" \in Names
    /\ \A n \in DOMAIN Scenarios : IsScenario(Scenarios[n])

(* A user cell, a key cell, a name or a row of the tables of the pages *)
UserCell(u, perm) == <<"user", u, perm>>
KeyCell(k, perm) == <<"key", k, perm>>
NameCell(k) == <<"name", k>>
RowCell(k) == <<"row", k>>
CellsOf(page) ==
    IF page = "users" THEN {UserCell(u, p) : u \in Users, p \in UserPermissions}
    ELSE {KeyCell(k, p) : k \in Keys, p \in ApiPermissions} \cup {NameCell(k) : k \in Keys}
         \cup {RowCell(k) : k \in Keys}

AdminTypeOK ==
    /\ user \in [Users -> UserRows]
    /\ key \in [AllKeys -> KeyRows]
    /\ \A c \in calls : /\ c.page \in Pages \cup {"gone"}
                        /\ c.pc \in {"token", "generate", "sent", "arrived", "work", "ok", "error"}
                        /\ c.page = "gone" => c.pc \in {"sent", "arrived", "work"}
                        /\ c.token \in Tokens \cup {NoToken}
    /\ stored \in [Pages -> [ApiPermissions -> Tokens \cup {NoToken}]]
    /\ actions \in 0..Now.maxActions
    /\ faults \in 0..Now.maxFaults
    /\ overtaken \subseteq AllKeys \X Gated
    /\ excused \subseteq CellsOf("users") \cup CellsOf("keys")

AdminInit ==
    /\ user = [u \in Users |-> IF u \in DOMAIN Now.user THEN Now.user[u] ELSE NoUser]
    /\ key = [k \in AllKeys |-> IF k \in DOMAIN Now.key THEN Now.key[k]
                                ELSE [state |-> "none", owner |-> CHOOSE u \in Users : TRUE, perms |-> {}, name |-> ""]]
    /\ calls = {}
    /\ stored = [page \in Pages |-> [perm \in ApiPermissions |-> NoToken]]
    /\ actions = 0 /\ faults = 0 /\ overtaken = {} /\ excused = {}

-----------------------------------------------------------------------------
(* What the pages send: the permission that the token must have, and what is *)
(* wanted.                                                                   *)
Request(needs, op, target, arg, grant) ==
    [needs |-> needs, op |-> op, target |-> target, arg |-> arg, grant |-> grant]

apiAuthModify(k, perm, grant) == Request("PERM_API_MOD", "modifyKey", k, perm, grant)
apiAuthFriendlyName(k, name) == Request("PERM_API_MOD", "rename", k, name, FALSE)
apiAuthDelete(k) == Request("PERM_API_MOD", "deleteKey", k, "", FALSE)
apiAuthCreate == Request("PERM_API_MOD", "createKey", NoToken, "", FALSE)
apiUserCreate(u) == Request("PERM_MANAGE_USERS", "createUser", u, "", FALSE)
apiUserModify(u, perm, grant) == Request("PERM_MANAGE_USERS", "modifyUser", u, perm, grant)
apiUserChangeRank(u, rank) == Request("PERM_MANAGE_USERS", "rank", u, rank, FALSE)
apiUserResetPassword(u, new) == Request("PERM_MANAGE_USERS", "reset", u, "", new)

(* A call before a handler has read anything *)
Call(page, by, pc, token, as, r) ==
    [page |-> page, by |-> by, pc |-> pc, token |-> token, as |-> as, row |-> <<>>,
     lock |-> {}, plan |-> <<>>, todo |-> {},
     needs |-> r.needs, op |-> r.op, target |-> r.target, arg |-> r.arg, grant |-> r.grant]

(* getToken: a stored token is used unless it expires within a minute. *)
getToken(page, by, r) ==
    LET token == stored[page][r.needs] IN
    Call(page, by, IF token = NoToken THEN "token" ELSE "sent", token, <<>>, r)

Sends(page, requests) ==
    /\ actions < Now.maxActions /\ actions' = actions + 1
    /\ calls' = calls \cup {getToken(page, Now.operator[page], r) : r \in requests}

TokenAges(page) ==
    /\ Now.tokensAge /\ faults < Now.maxFaults /\ faults' = faults + 1
    /\ \E perm \in ApiPermissions :
          stored[page][perm] # NoToken /\ stored' = [stored EXCEPT ![page][perm] = NoToken]
    /\ UNCHANGED <<scenario, user, key, calls, actions, overtaken, excused>>

-----------------------------------------------------------------------------
(* What a call does to the tables *)
Becomes(c, d) == calls' = (calls \ {c}) \cup {d}

Reply(c, answered) ==
    IF c.page = "gone" THEN calls' = calls \ {c} ELSE Becomes(c, answered)

AnswerTo(c, pc) ==
    [c EXCEPT !.pc = pc, !.token = NoToken, !.as = <<>>, !.row = <<>>, !.lock = {}, !.plan = <<>>, !.todo = {}]
Answered(c, pc) == Reply(c, AnswerTo(c, pc))

Free(lock) == \A d \in calls : lock \notin d.lock

(* The cells that a page shows in accordance with the answer to the call *)
Own(c) ==
    IF c.page = "gone" THEN {}
    ELSE IF c.op = "modifyUser" THEN {UserCell(c.target, c.arg)}
    ELSE IF c.op = "createUser" THEN {UserCell(c.target, p) : p \in UserPermissions}
    ELSE IF c.op = "modifyKey" THEN {KeyCell(c.target, c.arg)}
    ELSE IF c.op = "rename" THEN {NameCell(c.target)}
    ELSE IF c.op = "deleteKey" THEN {RowCell(c.target)}
    ELSE IF c.op = "createKey" /\ c.target \in Keys
         THEN {RowCell(c.target), NameCell(c.target)} \cup {KeyCell(c.target, p) : p \in ApiPermissions}
    ELSE {}

(* A successful answer makes a cell true again, but for a name: the page may *)
(* show a later one by then.                                                 *)
Settled(c, changed) ==
    excused' = (IF c.op = "rename" THEN excused ELSE excused \ Own(c)) \cup (changed \ Own(c))

Refuse(c) == Answered(c, "error") /\ UNCHANGED <<user, key, overtaken, excused>>
NothingToDo(c) == Answered(c, "ok") /\ Settled(c, {}) /\ UNCHANGED <<user, key, overtaken>>
Works(c, lock, row, plan) ==
    /\ Becomes(c, [c EXCEPT !.pc = "work", !.lock = lock, !.row = <<row>>, !.plan = plan])
    /\ UNCHANGED <<user, key, overtaken, excused>>

Differing(s, t) == (s \ t) \cup (t \ s)

(* The handlers that take a permission from a user, and from the user's keys *)
Removing(u, perm) ==
    \E c \in calls : /\ c.pc = "work" /\ c.target = u
                     /\ \/ c.op = "modifyUser" /\ ~c.grant /\ c.arg = perm
                        \/ c.op = "rank" /\ c.arg = "USER"

(* A row that was read before its owner lost a permission may bring back     *)
(* that of the key: apiModifyApiKey and the renaming hold another mutex.     *)
Overtakes(k, row) ==
    {<<k, p>> : p \in {p \in (row.perms \ key[k].perms) \cap Gated :
                          Needs[p] \notin user[row.owner].perms \/ Removing(row.owner, Needs[p])}}

Changed(k, row) ==
    {KeyCell(k, p) : p \in Differing(key[k].perms, row.perms)}
    \cup (IF key[k].name # row.name THEN {NameCell(k)} ELSE {})
    \cup (IF key[k].state # row.state THEN {RowCell(k)} ELSE {})

SaveApiKey(c, k, row) ==
    /\ key' = [key EXCEPT ![k] = row]
    /\ overtaken' = overtaken \cup Overtakes(k, row)
    /\ Settled(c, IF k \in Tokens THEN {} ELSE Changed(k, row))
    /\ UNCHANGED user

(* The permissions that the call is to change *)
Intended(c) ==
    IF c.op = "modifyUser" THEN {c.arg} ELSE IF c.op = "rank" THEN UserPermissions ELSE {}

SaveUser(c, u, row) ==
    /\ user' = [user EXCEPT ![u] = row]
    /\ overtaken' = overtaken \cup
          {x \in AllKeys \X Gated : /\ key[x[1]].owner = u
                                    /\ x[2] \in key[x[1]].perms
                                    /\ Needs[x[2]] \in (user[u].perms \ row.perms) \ Intended(c)}
    /\ Settled(c, {UserCell(u, p) : p \in Differing(user[u].perms, row.perms)})
    /\ UNCHANGED key

Continues(c, plan, todo) ==
    IF plan = <<>> /\ todo = {} THEN Answered(c, "ok")
    ELSE Becomes(c, [c EXCEPT !.plan = plan, !.todo = todo])

-----------------------------------------------------------------------------
(* A token of the page: the permissions of the user are read, then the key   *)
(* is saved, and used for the call that waits for it.                        *)
handleGenerateAuthToken(c) ==
    /\ c.pc = "token"
    /\ \/ Suffices(user[c.by], c.needs) /\ Becomes(c, [c EXCEPT !.pc = "generate"])
       \/ ~Suffices(user[c.by], c.needs) /\ Answered(c, "error")
    /\ UNCHANGED <<user, key, stored, overtaken, excused>>

Generate(c) ==
    LET token == CHOOSE t \in Tokens : key[t].state = "none" IN
    /\ c.pc = "generate" /\ \E t \in Tokens : key[t].state = "none"
    /\ SaveApiKey([c EXCEPT !.page = "gone"], token, [state |-> "live", owner |-> c.by, perms |-> {c.needs}, name |-> ""])
    /\ stored' = [stored EXCEPT ![c.page][c.needs] = token]
    /\ Becomes(c, [c EXCEPT !.pc = "sent", !.token = token])

isAuthorisedForApi(c) ==
    LET apiKey == key[c.token] IN
    /\ c.pc = "sent"
    /\ \/ /\ apiKey.state = "live" /\ c.needs \in apiKey.perms
          /\ Becomes(c, [c EXCEPT !.pc = "arrived", !.as = <<user[apiKey.owner]>>])
       \/ /\ ~(apiKey.state = "live" /\ c.needs \in apiKey.perms)
          /\ Answered(c, "error")
    /\ UNCHANGED <<user, key, overtaken, excused>>

-----------------------------------------------------------------------------
(* The handlers, up to where they have read what they will save *)
NotEditable(c) == ~user[c.target].live \/ user[c.target].rank = "SUPER" \/ c.target = c.by

apiModifyUser(c) ==
    LET row == user[c.target]
        refused == NotEditable(c) \/ (c.grant /\ c.arg \notin c.as[1].perms)
        same == (c.arg \in row.perms) = c.grant
    IN
    /\ c.op = "modifyUser" /\ Free(<<"user", c.target>>)
    /\ \/ refused /\ Refuse(c)
       \/ ~refused /\ same /\ NothingToDo(c)
       \/ /\ ~refused /\ ~same
          /\ \/ c.grant /\ Works(c, {<<"user", c.target>>},
                                 [row EXCEPT !.perms = @ \cup {c.arg}], <<"save">>)
             \/ ~c.grant /\ Works(c, {<<"user", c.target>>},
                                  [row EXCEPT !.perms = @ \ {c.arg}], <<"save", c.arg>>)

(* Mutant of Swept: file requests are forgotten. *)
SweptThree == <<"PERM_REPLACE", "PERM_USERS", "PERM_LOGS">>

(* The permissions that a demotion takes from the keys *)
Swept == <<"PERM_REPLACE", "PERM_USERS", "PERM_LOGS", "PERM_GUEST_UPLOAD">>

(* A promotion grants everything, a demotion takes everything away, also     *)
(* from the keys: before the row of the user is saved.                       *)
apiChangeUserRank(c) ==
    LET row == user[c.target]
        refused == NotEditable(c) \/ (c.arg = "ADMIN" /\ c.as[1].rank = "USER")
    IN
    /\ c.op = "rank" /\ Free(<<"user", c.target>>)
    /\ \/ refused /\ Refuse(c)
       \/ ~refused /\ c.arg = "ADMIN"
          /\ Works(c, {<<"user", c.target>>}, [row EXCEPT !.rank = "ADMIN", !.perms = UserPermissions], <<"save">>)
       \/ ~refused /\ c.arg = "USER"
          /\ Works(c, {<<"user", c.target>>}, [row EXCEPT !.rank = "USER", !.perms = {}],
                   Append(Swept, "save"))

(* No mutex is held.  The sessions of the user are deleted as well. *)
apiResetPassword(c) ==
    /\ c.op = "reset"
    /\ \/ NotEditable(c) /\ Refuse(c)
       \/ ~NotEditable(c) /\ Works(c, {}, [user[c.target] EXCEPT !.reset = TRUE], <<"save">>)

apiCreateUser(c) ==
    /\ c.op = "createUser"
    /\ \/ user[c.target].live /\ Refuse(c)
       \/ /\ ~user[c.target].live
          /\ LET row == [NoUser EXCEPT !.live = TRUE, !.perms = Now.grantedByDefault] IN
             /\ SaveUser(c, c.target, row)
             /\ Reply(c, [AnswerTo(c, "ok") EXCEPT !.row = <<row>>])

MayEdit(c) ==
    /\ key[c.target].state = "live"
    /\ key[c.target].owner = c.by \/ "PERM_API" \in c.as[1].perms

(* The mutex is that of the id in the request, which for the pages is the    *)
(* public one.                                                               *)
apiModifyApiKey(c) ==
    LET row == key[c.target]
        refused == ~MayEdit(c) \/ ~Suffices(user[row.owner], c.arg)
        same == (c.arg \in row.perms) = c.grant
    IN
    /\ c.op = "modifyKey" /\ Free(<<"public", c.target>>)
    /\ \/ refused /\ Refuse(c)
       \/ ~refused /\ same /\ NothingToDo(c)
       \/ ~refused /\ ~same
          /\ Works(c, {<<"public", c.target>>},
                   [row EXCEPT !.perms = IF c.grant THEN @ \cup {c.arg} ELSE @ \ {c.arg}], <<"save">>)

(* The mutex is that of the private id, whatever id the request has. *)
apiChangeFriendlyName(c) ==
    /\ c.op = "rename" /\ Free(<<"private", c.target>>)
    /\ \/ ~MayEdit(c) /\ Refuse(c)
       \/ MayEdit(c) /\ key[c.target].name = c.arg /\ NothingToDo(c)
       \/ MayEdit(c) /\ key[c.target].name # c.arg
          /\ Works(c, {<<"private", c.target>>}, [key[c.target] EXCEPT !.name = c.arg], <<"save">>)

apiDeleteKey(c) ==
    /\ c.op = "deleteKey"
    /\ \/ ~MayEdit(c) /\ Refuse(c)
       \/ MayEdit(c) /\ SaveApiKey(c, c.target, [key[c.target] EXCEPT !.state = "deleted", !.perms = {}])
          /\ Answered(c, "ok")

apiCreateApiKey(c) ==
    LET k == CHOOSE x \in Keys : key[x].state = "none"
        created == [c EXCEPT !.target = k]
    IN
    /\ c.op = "createKey" /\ \E x \in Keys : key[x].state = "none"
    /\ SaveApiKey(created, k, [state |-> "live", owner |-> c.by, perms |-> ApiPermDefault, name |-> "Unnamed key"])
    /\ Reply(c, AnswerTo(created, "ok"))

Handles(c) ==
    /\ c.pc = "arrived"
    /\ \/ apiModifyUser(c) \/ apiChangeUserRank(c) \/ apiResetPassword(c) \/ apiCreateUser(c)
       \/ apiModifyApiKey(c) \/ apiChangeFriendlyName(c) \/ apiDeleteKey(c) \/ apiCreateApiKey(c)

-----------------------------------------------------------------------------
(* What has been read is saved. *)
Saves(c) ==
    /\ c.pc = "work" /\ c.todo = {} /\ c.plan # <<>> /\ Head(c.plan) = "save"
    /\ \/ c.target \in Users /\ SaveUser(c, c.target, c.row[1])
       \/ c.target \in Keys /\ SaveApiKey(c, c.target, c.row[1])
    /\ Continues(c, Tail(c.plan), {})

(* The keys are read together, and those that have a permission that their   *)
(* owner loses are saved without it, one after the other.                    *)
Affected(perm) == {p \in Gated : Needs[p] = perm}

updateApiKeyPermsOnUserPermChange(c) ==
    /\ c.pc = "work" /\ c.todo = {} /\ c.plan # <<>> /\ Head(c.plan) # "save"
    /\ LET lost == Affected(Head(c.plan)) IN
       Continues(c, Tail(c.plan),
                 {<<k, [key[k] EXCEPT !.perms = @ \ lost]>> :
                     k \in {k \in AllKeys : key[k].owner = c.target /\ key[k].perms \cap lost # {}}})
    /\ UNCHANGED <<user, key, overtaken, excused>>

SavesSwept(c) ==
    /\ c.pc = "work"
    /\ \E x \in c.todo :
          /\ SaveApiKey([c EXCEPT !.page = "gone"], x[1], x[2])
          /\ Continues(c, c.plan, c.todo \ {x})

(* A connection fails: the page sees an error, and what has arrived goes on. *)
ConnectionFails(c) ==
    /\ faults < Now.maxFaults /\ faults' = faults + 1
    /\ c.page # "gone" /\ c.pc # "error"
    /\ IF c.pc \in {"arrived", "work"}
       THEN calls' = (calls \ {c}) \cup {AnswerTo(c, "error"), [c EXCEPT !.page = "gone"]}
       ELSE Becomes(c, AnswerTo(c, "error"))
    /\ excused' = excused \cup (IF c.pc \in {"arrived", "work", "ok"} THEN Own(c) ELSE {})
    /\ UNCHANGED <<scenario, user, key, stored, actions, overtaken>>

(* Somebody else, in another browser or through the API, may change a user. *)
Elsewhere ==
    /\ actions < Now.maxActions /\ actions' = actions + 1
    /\ \E r \in Now.elsewhere :
          calls' = calls \cup {Call("gone", Now.super, "arrived", NoToken, <<user[Now.super]>>, r)}
    /\ UNCHANGED <<scenario, user, key, stored, faults, overtaken, excused>>

ServerStep ==
    \/ \E c \in calls :
          /\ \/ (isAuthorisedForApi(c) \/ Handles(c) \/ Saves(c)
                 \/ updateApiKeyPermsOnUserPermChange(c) \/ SavesSwept(c)) /\ UNCHANGED stored
             \/ handleGenerateAuthToken(c) \/ Generate(c)
          /\ UNCHANGED <<scenario, actions, faults>>
    \/ \E c \in calls : ConnectionFails(c)
    \/ Elsewhere

(* A page is loaded again: it does not hear what its calls come to. *)
Abandoned(page) ==
    {c \in calls : c.page # page} \cup
    {[c EXCEPT !.page = "gone"] : c \in {c \in calls : c.page = page /\ c.pc \in {"sent", "arrived", "work"}}}

-----------------------------------------------------------------------------
(* No key, and no temporary token, keeps a permission that its owner does    *)
(* not have any more (Needs), however promotions, demotions and single       *)
(* changes follow each other, when no handler is at work that takes it away. *)
(* But for the races of Overtakes and SaveUser, in which a row is saved that *)
(* was read before.                                                          *)
KeysBounded ==
    \A k \in AllKeys : key[k].state = "live" =>
        \A p \in key[k].perms \cap Gated :
            \/ Needs[p] \in user[key[k].owner].perms
            \/ Removing(key[k].owner, Needs[p])
            \/ <<k, p>> \in overtaken
=============================================================================
