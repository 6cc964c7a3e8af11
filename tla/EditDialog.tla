------------------------------ MODULE EditDialog ----------------------------
(***************************************************************************)
(* The dialog in which the limits of a file are edited (admin_ui_upload.js)*)
(* and the handlers of files/modify and files/replace.  The dialog sends   *)
(* every field, also those the user has not touched, with the values that  *)
(* the row had when it was made.                                           *)
(***************************************************************************)
EXTENDS Integers, Sequences, FiniteSets

CONSTANTS
    Limits,     \* what users type as the number of downloads, 0 included
    Times,      \* points in time at which files expire
    Today,      \* the point in time at which all this happens
    MaxTouched  \* bound: fields that a user changes before saving

ASSUME EditAssumption == Limits \subseteq Nat /\ Times \subseteq Nat \ {0} /\ Today \in Nat

VARIABLES
    row,        \* the file in the database
    item,       \* what the row of the table was made from
    dialog,     \* what editFile waits for
    request,    \* the request that it has sent
    touched,    \* history: the fields that the user has changed
    downloaded  \* number of downloads, and of edits from elsewhere

editVars == <<row, item, dialog, request, touched, downloaded>>

Fields == {"downloads", "expiry", "password"}
Unchanged == "(unchanged)"
FileRows == [remaining : Nat, unlimitedDownloads : BOOLEAN, expireAt : Times \cup {Today + 14},
             unlimitedTime : BOOLEAN, password : {"", "old", "new"}, content : {"own", "other"}]

(* A file that has expired is not listed. *)
Listed(r) == (r.unlimitedDownloads \/ r.remaining > 0) /\ (r.unlimitedTime \/ r.expireAt > Today)

FileRowsAtFirst ==
    [remaining : {1, 2}, unlimitedDownloads : BOOLEAN, expireAt : Times,
     unlimitedTime : BOOLEAN, password : {"", "old"}, content : {"own"}]
AnyRow == CHOOSE r \in FileRowsAtFirst : Listed(r)

(* The value of a field, as users see it *)
Value(r, field) ==
    IF field = "downloads" THEN IF r.unlimitedDownloads THEN -1 ELSE r.remaining
    ELSE IF field = "expiry" THEN IF r.unlimitedTime THEN -1 ELSE r.expireAt
    ELSE <<r.password>>

EditTypeOK ==
    /\ row \in FileRows /\ item \in FileRows
    /\ dialog \in {"closed", "modify", "replace", "failed", "reloaded"}
    /\ touched \subseteq Fields
    /\ downloaded \in 0..1

EditInit(present) ==
    /\ row \in {r \in FileRowsAtFirst : Listed(r) /\ (present \/ r = AnyRow)}
    /\ item = row
    /\ dialog = "closed" /\ request = <<>> /\ touched = {} /\ downloaded = 0

-----------------------------------------------------------------------------
add14DaysIfBeforeCurrentTime(timestamp) ==
    IF timestamp < Today THEN Today + 14 ELSE timestamp

(* Mutant of showEditModal: the password is not marked as unchanged. *)
EmptyPassword(values) ==
    [mc_download |-> ~values.unlimitedDownloads,
     down |-> IF values.unlimitedDownloads THEN 1 ELSE values.remaining,
     mc_expiry |-> ~values.unlimitedTime,
     expiry |-> IF values.unlimitedTime THEN add14DaysIfBeforeCurrentTime(values.expireAt)
                ELSE values.expireAt,
     mc_password |-> values.password # "", pw |-> "", mc_replace |-> FALSE]

(* The edit button hands the values over with which the row was made. *)
showEditModal(values) ==
    [mc_download |-> ~values.unlimitedDownloads,
     down |-> IF values.unlimitedDownloads THEN 1 ELSE values.remaining,
     mc_expiry |-> ~values.unlimitedTime,
     expiry |-> IF values.unlimitedTime THEN add14DaysIfBeforeCurrentTime(values.expireAt)
                ELSE values.expireAt,
     mc_password |-> values.password # "",
     pw |-> IF values.password # "" THEN Unchanged ELSE "",
     mc_replace |-> FALSE]

(* handleEditCheckboxChange, and what is typed: the calendar has no day that *)
(* is over.                                                                  *)
Typable(shown, field) ==
    IF field = "downloads" THEN {shown} \cup Limits
    ELSE IF field = "expiry" THEN {shown} \cup {x \in Times : x > Today} ELSE {"", "new"}

(* downloads, expiry, password: whether the box is checked, and its value *)
Fill(form, downloads, expiry, password, replace) ==
    [form EXCEPT !.mc_download = downloads[1], !.down = downloads[2],
                 !.mc_expiry = expiry[1], !.expiry = expiry[2],
                 !.mc_password = password[1], !.pw = password[2], !.mc_replace = replace]

Entered(fields, field, checked, shown) ==
    IF field \in fields THEN BOOLEAN \X Typable(shown, field) ELSE {<<checked, shown>>}

Filled(form, fields) ==
    {Fill(form, d, e, p, r) : d \in Entered(fields, "downloads", form.mc_download, form.down),
                              e \in Entered(fields, "expiry", form.mc_expiry, form.expiry),
                              p \in Entered(fields, "password", form.mc_password, form.pw),
                              r \in BOOLEAN}

(* The user opens the dialog, changes some fields, and saves.  The fields do *)
(* not interact: with MaxTouched = 1 each is seen beside untouched ones.     *)
editFile ==
    /\ dialog \in {"closed", "failed"}
    /\ \E fields \in {s \in SUBSET Fields : Cardinality(s) <= MaxTouched} : \E form \in Filled(showEditModal(item), fields) :
          /\ touched' = fields
          /\ request' = <<[allowedDownloads |-> IF form.mc_download THEN form.down ELSE 0,
                           expiryTimestamp |-> IF form.mc_expiry THEN form.expiry ELSE 0,
                           password |-> IF form.mc_password THEN form.pw ELSE "",
                           originalPassword |-> form.mc_password /\ form.pw = Unchanged,
                           replace |-> form.mc_replace]>>
    /\ dialog' = "modify"
    /\ UNCHANGED <<row, item, downloaded>>

(* apiEditFile: a zero takes the limit away. *)
Modified(r, q) ==
    [r EXCEPT !.remaining = IF q.allowedDownloads = 0 THEN @ ELSE q.allowedDownloads,
              !.unlimitedDownloads = (q.allowedDownloads = 0),
              !.expireAt = IF q.expiryTimestamp = 0 THEN @ ELSE q.expiryTimestamp,
              !.unlimitedTime = (q.expiryTimestamp = 0),
              !.password = IF q.originalPassword THEN @ ELSE q.password]

(* The page is reloaded, and is as at first, when everything has been saved; *)
(* an error is shown when either request is not answered, or with an error.  *)
apiEditFile ==
    /\ dialog = "modify"
    /\ row' = Modified(row, request[1])
    /\ \/ request[1].replace /\ dialog' = "replace" /\ UNCHANGED item
       \/ ~request[1].replace /\ dialog' = "reloaded" /\ item' = row'
       \/ dialog' = "failed" /\ UNCHANGED item
    /\ request' = <<>> /\ touched' = {} /\ UNCHANGED downloaded

apiReplaceFile ==
    /\ dialog = "replace"
    /\ row' = [row EXCEPT !.content = "other"]
    /\ \/ dialog' = "reloaded" /\ item' = row'
       \/ dialog' = "failed" /\ UNCHANGED item
    /\ UNCHANGED <<request, touched, downloaded>>

EditFails ==
    /\ dialog \in {"modify", "replace"} /\ dialog' = "failed"
    /\ request' = <<>> /\ touched' = {} /\ UNCHANGED <<row, item, downloaded>>

(* A download, or a password that is set in another tab.  setNewDownloadCount *)
(* writes the new count into the cells, and not into what the button has.     *)
Elsewhere ==
    /\ dialog # "reloaded" /\ downloaded < 1 /\ downloaded' = downloaded + 1
    /\ \/ ~row.unlimitedDownloads /\ row.remaining > 0 /\ row' = [row EXCEPT !.remaining = @ - 1]
       \/ row.password # "new" /\ row' = [row EXCEPT !.password = "new"]
    /\ UNCHANGED <<item, dialog, request, touched>>

EditStep ==
    editFile \/ apiEditFile \/ apiReplaceFile \/ EditFails \/ Elsewhere

-----------------------------------------------------------------------------
(* Saving changes no field that the user has not touched, unless it has been *)
(* changed elsewhere since the row was made: such a change is undone.        *)
EditKeepsUntouched ==
    [][apiEditFile => \A field \in Fields \ touched :
           Value(row', field) = Value(row, field) \/ Value(row, field) # Value(item, field)]_editVars
=============================================================================
