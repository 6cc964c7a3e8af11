--------------------------- MODULE FileRequestPage --------------------------
(***************************************************************************)
(* The page on which the owner of a file request sees it                   *)
(* (admin_ui_filerequest.js, html_uploadrequest.tmpl), for one file        *)
(* request: its row, the list of its files, and the undo of a deletion.    *)
(***************************************************************************)
EXTENDS FileRequests

CONSTANTS
    NewLimits,   \* what the owner may type as the limit
    defaultLimits, \* the values of fr_maxfiles that localStorage starts with
    maxCalls     \* bound: calls of the page at a time

ASSUME LimitsAssumption ==
    NewLimits \in SUBSET (1..99) /\ defaultLimits \in SUBSET Limits /\ maxCalls \in Nat

VARIABLES
    row,        \* the row of the file request, and how it came about
    fileRow,    \* fileRow[j]: the list entry of file j
    toast,      \* toastUndoButton.dataset.fileid while the toast is shown, or 0
    form,       \* the dialog: whether it is open, and the limit in it
    frMaxFiles, \* fr_maxfiles of localStorage: the limit that a new request gets
    calls,      \* API calls of the page that it has not seen the end of
    reloads     \* the page is about to be reloaded

ownerVars == <<row, fileRow, toast, form, frMaxFiles, calls, reloads>>

NoToast == 0
FileIds == 1..maxJobs

(* built: by the template, or by createFileRequestRow, whose download button *)
(* has no onclick and whose count cell has no id.  count: what totalFiles-fr *)
(* shows. ids: the files that the onclick of the download button names.      *)
(* asks: the third argument of deleteOrShowModal.                            *)
RowStatesShown == {"shown", "deleting", "gone"}

Calls == [kind : {"delete", "restore", "remove", "save"}, file : FileIds \cup {0},
          limit : Limits, isNew : BOOLEAN, stale : BOOLEAN,
          phase : {"sent", "files", "row", "key", "read", "ok", "failed"}]

Closed == [open |-> "closed", checked |-> FALSE, value |-> 0]

OwnerTypeOK ==
    /\ row \in [state : RowStatesShown, built : {"template", "script"},
                count : Int, ids : SUBSET FileIds, asks : Nat, limit : Limits,
                deletable : BOOLEAN, modal : BOOLEAN]
    /\ fileRow \in [FileIds -> {"absent", "shown", "busy", "deleting", "gone"}]
    /\ toast \in FileIds \cup {NoToast}
    /\ form \in [open : {"closed", "new", "edit"}, checked : BOOLEAN, value : Limits]
    /\ frMaxFiles \in Limits
    /\ calls \subseteq Calls
    /\ reloads \in BOOLEAN

(* The page as the server renders it *)
Rendered ==
    [state |-> IF request.exists THEN "shown" ELSE "gone", built |-> "template",
     count |-> Cardinality(LiveFiles), ids |-> LiveFiles,
     asks |-> Cardinality(LiveFiles), limit |-> request.maxFiles,
     deletable |-> TRUE, modal |-> FALSE]
RenderedFiles == [j \in FileIds |-> IF j \in LiveFiles THEN "shown" ELSE "absent"]

OwnerInit ==
    /\ row = Rendered
    /\ fileRow = RenderedFiles
    /\ toast = NoToast
    /\ form = Closed
    /\ frMaxFiles \in IF Happens("create") THEN defaultLimits ELSE {0}
    /\ calls = {}
    /\ reloads = FALSE

-----------------------------------------------------------------------------
Send1(kind, file, limit) ==
    /\ Cardinality(calls) < maxCalls
    /\ calls' = calls \cup {[kind |-> kind, file |-> file, limit |-> limit,
                             isNew |-> form.open = "new", stale |-> FALSE,
                             phase |-> "sent"]}

Clickable == ~reloads /\ form = Closed /\ row.state = "shown"

(* deleteFileRequest *)
deleteFileRequest ==
    /\ row' = [row EXCEPT !.deletable = FALSE]
    /\ Send1("remove", 0, 0)

(* showDeleteFRequestModal looks for a button `buttonSupprimer', the template *)
(* has `buttonDelete': the modal is shown, and its button does nothing.       *)
showDeleteFRequestModal ==
    /\ row' = [row EXCEPT !.modal = TRUE]
    /\ UNCHANGED calls

(* deleteOrShowModal: without files, by the count in the onclick, the file    *)
(* request is deleted at once.                                                *)
deleteOrShowModal ==
    /\ Happens("deleteRequest") /\ Clickable /\ row.deletable
    /\ IF row.asks = 0 THEN deleteFileRequest ELSE showDeleteFRequestModal
    /\ UNCHANGED <<serverVars, fileRow, toast, form, frMaxFiles, reloads>>

(* deleteFileFr: the call *)
deleteFileFr(j) ==
    /\ Happens("deleteFiles") /\ Clickable /\ fileRow[j] = "shown"
    /\ fileRow' = [fileRow EXCEPT ![j] = "busy"]
    /\ Send1("delete", j, 0)
    /\ UNCHANGED <<serverVars, row, toast, form, frMaxFiles, reloads>>

(* Mutant of removeDownloadFileReference: the last file stays in the button. *)
KeepLastReference(ids, j) == IF ids = {j} THEN ids ELSE ids \ {j}

(* removeDownloadFileReference: the button names the remaining files. *)
removeDownloadFileReference(ids, j) == ids \ {j}

changeFileCountFr(change) == row.count + change

(* deleteFileFr: then.  In a row that the script has built, changeFileCountFr *)
(* does not find its cell and throws: the user is told that the deletion has  *)
(* failed, and the entry stays with its button disabled.                      *)
FileDeleted(j) ==
    IF row.built = "script" THEN UNCHANGED <<row, fileRow, toast, reloads>>
    ELSE /\ row' = [row EXCEPT !.count = changeFileCountFr(-1),
                               !.ids = removeDownloadFileReference(@, j)]
         /\ fileRow' = [fileRow EXCEPT ![j] = "deleting"]
         /\ toast' = j
         /\ UNCHANGED reloads

FileRowRemoved(j) ==
    /\ fileRow[j] = "deleting"
    /\ fileRow' = [fileRow EXCEPT ![j] = "gone"]
    /\ UNCHANGED <<serverVars, row, toast, form, frMaxFiles, calls, reloads>>

(* showToastFileDeletionFr hides the toast after 5 seconds. *)
ToastHides ==
    /\ toast # NoToast
    /\ toast' = NoToast
    /\ UNCHANGED <<serverVars, row, fileRow, form, frMaxFiles, calls, reloads>>

handleUndoFr ==
    /\ Clickable /\ toast # NoToast
    /\ toast' = NoToast
    /\ Send1("restore", toast, 0)
    /\ UNCHANGED <<serverVars, row, fileRow, form, frMaxFiles, reloads>>

-----------------------------------------------------------------------------
(* The dialog, for the limit of files: the limit of the size goes the same   *)
(* way, and the expiry has no upper bound.                                    *)

(* setModalValues: unless the owner is an administrator, a limit is required. *)
setModalValues(open, maxFiles) ==
    LET max == Scenarios[scenario].limitMaxFiles
        value == IF maxFiles = 0 THEN max ELSE maxFiles
    IN  form' = [open |-> open, checked |-> value # 0,
                 value |-> IF value = 0 THEN 1 ELSE value]

loadFileRequestDefaults == setModalValues("new", frMaxFiles)

newFileRequest ==
    /\ Happens("create") /\ ~request.exists /\ calls = {} /\ form = Closed
    /\ loadFileRequestDefaults
    /\ UNCHANGED <<serverVars, row, fileRow, toast, frMaxFiles, calls, reloads>>

(* The edit button has the limit that the row was built with. *)
editFileRequest ==
    /\ Happens("edit") /\ Clickable
    /\ setModalValues("edit", row.limit)
    /\ UNCHANGED <<serverVars, row, fileRow, toast, frMaxFiles, calls, reloads>>

(* checkMaxNumber compares the values of the two attributes, which are        *)
(* strings: 9 is greater than 10, and 30 is not greater than 4.               *)
StringGreater(a, b) ==
    LET Digits(n) == IF n < 10 THEN <<n>> ELSE <<n \div 10, n % 10>>
        x == Digits(a)
        y == Digits(b)
    IN  \/ x[1] > y[1]
        \/ x[1] = y[1] /\ Len(x) > Len(y)
        \/ x[1] = y[1] /\ Len(x) = 2 /\ Len(y) = 2 /\ x[2] > y[2]

checkMaxNumber(limit) ==
    LET max == Scenarios[scenario].limitMaxFiles
    IN  IF max # 0 /\ StringGreater(limit, max) THEN max ELSE limit

(* The owner types a limit, or, as an administrator, unchecks it. *)
TypeLimit(limit) ==
    /\ form.open # "closed" /\ form.checked
    /\ form' = [form EXCEPT !.value = checkMaxNumber(limit)]
    /\ UNCHANGED <<serverVars, row, fileRow, toast, frMaxFiles, calls, reloads>>

CheckLimit ==
    /\ form.open # "closed" /\ Scenarios[scenario].limitMaxFiles = 0
    /\ form' = [form EXCEPT !.checked = ~@]
    /\ UNCHANGED <<serverVars, row, fileRow, toast, frMaxFiles, calls, reloads>>

(* saveFileRequestDefaults *)
saveFileRequestDefaults ==
    frMaxFiles' = IF form.open = "new"
                  THEN IF form.checked THEN form.value ELSE 0
                  ELSE frMaxFiles

(* saveFileRequest: the dialog is hidden before the answer is there. *)
saveFileRequest ==
    /\ form.open # "closed" /\ ~\E c \in calls : c.kind = "save" /\ ~c.stale
    /\ saveFileRequestDefaults
    /\ Send1("save", 0, IF form.checked THEN form.value ELSE 0)
    /\ form' = Closed
    /\ UNCHANGED <<serverVars, row, fileRow, toast, reloads>>

(* insertOrReplaceFileRequest, createFileRequestRow: the counts are those of *)
(* the answer; the list of files stays as it is.                             *)
insertOrReplaceFileRequest ==
    row' = [state |-> "shown", built |-> "script", count |-> Cardinality(LiveFiles),
            ids |-> {}, asks |-> Cardinality(LiveFiles), limit |-> request.maxFiles,
            deletable |-> TRUE, modal |-> FALSE]

RowRemoved ==
    /\ row.state = "deleting"
    /\ row' = [row EXCEPT !.state = "gone"]
    /\ UNCHANGED <<serverVars, fileRow, toast, form, frMaxFiles, calls, reloads>>

-----------------------------------------------------------------------------
(* The server works on a call. *)
Proceeds(c, phase) == calls' = (calls \ {c}) \cup {[c EXCEPT !.phase = phase]}

Refused(c) ==
    \/ c.kind \in {"delete", "restore"} /\ jobs[c.file].row \notin {"live", "pending"}
    \/ c.kind = "remove" /\ ~request.exists
    \/ c.kind = "save" /\ ~isUserAllowedUnlimited(c.limit)
    \/ c.kind = "save" /\ ~request.exists /\ ~c.isNew

HandleCall(c) ==
    /\ \/ /\ c.phase = "sent" /\ Refused(c)
          /\ Proceeds(c, "failed") /\ UNCHANGED serverVars
       \/ /\ c.phase = "sent" /\ c.kind = "delete"
          /\ FileDelete(c.file) /\ Proceeds(c, "ok")
       \/ /\ c.phase = "sent" /\ c.kind = "restore"
          /\ FileRestore(c.file) /\ Proceeds(c, "ok")
       \/ /\ c.phase = "sent" /\ c.kind = "save" /\ ~Refused(c)
          /\ Proceeds(c, "read") /\ UNCHANGED serverVars
       \/ c.phase = "read" /\ SaveFileRequest(c.limit, c.isNew) /\ Proceeds(c, "ok")
       \/ /\ c.phase = "sent" /\ c.kind = "remove" /\ ~Refused(c)
          /\ Proceeds(c, "files") /\ UNCHANGED serverVars
       \/ c.phase = "files" /\ DeleteFilesOfRequest /\ Proceeds(c, "row")
       \/ c.phase = "row" /\ DeleteFileRequest /\ Proceeds(c, "key")
       \/ c.phase = "key" /\ DeleteApiKey /\ Proceeds(c, "ok")
    /\ UNCHANGED <<row, fileRow, toast, form, frMaxFiles, reloads>>

(* A restart of the server ends what it was working on. *)
CallsCut ==
    /\ calls' = {IF c.phase \in {"ok", "failed"} THEN c ELSE [c EXCEPT !.phase = "failed"] : c \in calls}
    /\ UNCHANGED <<row, fileRow, toast, form, frMaxFiles, reloads>>

(* The page sees the answer; after an error it only shows an alert. *)
CallEnds(c) ==
    /\ c.phase \in {"ok", "failed"} /\ ~reloads
    /\ calls' = calls \ {c}
    /\ \/ (c.phase = "failed" \/ c.stale) /\ UNCHANGED <<row, fileRow, toast, reloads>>
       \/ c.phase = "ok" /\ ~c.stale /\ c.kind = "delete" /\ FileDeleted(c.file)
       \/ /\ c.phase = "ok" /\ ~c.stale /\ c.kind = "restore"
          /\ reloads' = TRUE /\ UNCHANGED <<row, fileRow, toast>>
       \/ /\ c.phase = "ok" /\ ~c.stale /\ c.kind = "remove"
          /\ row' = [row EXCEPT !.state = "deleting"]
          /\ fileRow' = [j \in FileIds |-> IF fileRow[j] = "absent" THEN "absent" ELSE "gone"]
          /\ UNCHANGED <<toast, reloads>>
       \/ /\ c.phase = "ok" /\ ~c.stale /\ c.kind = "save"
          /\ insertOrReplaceFileRequest /\ UNCHANGED <<fileRow, toast, reloads>>
    /\ UNCHANGED <<serverVars, form, frMaxFiles>>

(* window.location.reload(): the server goes on with the calls of before. *)
Reload ==
    /\ reloads
    /\ row' = Rendered
    /\ fileRow' = RenderedFiles
    /\ toast' = NoToast
    /\ calls' = {[c EXCEPT !.stale = TRUE] : c \in calls}
    /\ form' = Closed
    /\ reloads' = FALSE
    /\ UNCHANGED <<serverVars, frMaxFiles>>

OwnerStep ==
    \/ deleteOrShowModal \/ handleUndoFr \/ ToastHides \/ RowRemoved \/ Reload
    \/ \E j \in FileIds : deleteFileFr(j) \/ FileRowRemoved(j)
    \/ newFileRequest \/ editFileRequest \/ CheckLimit \/ saveFileRequest
    \/ \E limit \in NewLimits : TypeLimit(limit)
    \/ \E c \in calls : HandleCall(c) \/ CallEnds(c)

-----------------------------------------------------------------------------
(* The list, the count and the download button of a row that the server has  *)
(* rendered agree after any series of deletions, whose answers may come in    *)
(* any order: no button names a file that is being deleted, and none that is *)
(* listed is left out of it.  A file leaves the list only when its deletion   *)
(* is scheduled or done; one that was restored is back with the reload.       *)
ListingConsistent ==
    LET listed == {j \in FileIds : fileRow[j] \in {"shown", "busy"}}
    IN  /\ row.built = "template" /\ row.state = "shown" =>
              row.ids = listed /\ row.count = Cardinality(listed)
        /\ \A j \in FileIds : fileRow[j] \in {"deleting", "gone"} =>
              \/ jobs[j].row \in {"pending", "gone"}
              \/ reloads \/ \E c \in calls : c.kind = "restore" /\ c.file = j
=============================================================================
