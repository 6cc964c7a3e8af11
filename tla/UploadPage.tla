------------------------------ MODULE UploadPage ----------------------------
(***************************************************************************)
(* The tabs in which a user uploads, deletes and restores files            *)
(* (admin_ui_upload.js), with the shared worker of SseWorker.tla and the   *)
(* server of UploadStatus.tla.  A step of a tab is what runs between two   *)
(* events: a click, an answer, a message of the worker, a timer.           *)
(***************************************************************************)
EXTENDS SseWorker, UploadStatus, SequencesExt

CONSTANTS
    NoFile,     \* no file: the undo toast is hidden
    Scenarios   \* what a behaviour starts from, and which events it may see

ASSUME PageAssumption ==
    /\ Notices = [type : {"fileAdded", "fileDeleted"}, file : Files]
    /\ Statuses = StatusEvents
    /\ NoFile \notin Files
    /\ \A name \in DOMAIN Scenarios :
          /\ Scenarios[name].tabs \subseteq Tabs /\ Scenarios[name].uploader \in Tabs
          /\ Scenarios[name].present \subseteq Files
          /\ Scenarios[name].uploads \subseteq Files \ Scenarios[name].present
          /\ Scenarios[name].maxClicks \in Nat /\ Scenarios[name].maxFaults \in Nat

VARIABLES
    scenario,   \* the scenario of this behaviour, a name in Scenarios
    session,    \* the session of the user is valid
    tab,        \* tab[t]: the state of the document
    rows,       \* rows[t][f]: the rows of f in the table, the newest first
    rowCount,   \* rowCount[t]: the variable, which shows in the table's foot
    toast,      \* toast[t]: data-fileid of the visible undo toast
    upload,     \* upload[f]: the container that shows the progress of f
    calls,      \* requests to the API that have not been answered
    clicks,     \* number of deletions and restorations that users have asked for
    faults,     \* number of connections that have failed
    excused     \* tables that one of the races named below has put out of step

pageVars == <<scenario, session, tab, rows, rowCount, toast, upload, calls, clicks, faults, excused>>

Now == Scenarios[scenario]
Happens(event) == event \in Now.events
Uploader == Now.uploader

RowStates == {"shown", "busy", "dying"}   \* busy: its delete button is disabled
Calls == [tab : Tabs, kind : {"complete", "info", "delete", "restore"}, file : Files,
          n : Nat, phase : {"sent", "done", "refused"}]

PageTypeOK ==
    /\ session \in BOOLEAN
    /\ tab \in [Tabs -> {"none", "rendered", "open", "leaving", "gone"}]
    /\ rows \in [Tabs -> [Files -> Seq(RowStates)]]
    /\ rowCount \in [Tabs -> Int]
    /\ toast \in [Tabs -> Files \cup {NoFile}]
    /\ upload \in [Files -> {"none", "sending", "completing", "queued", "error", "removed"}]
    /\ calls \subseteq Calls
    /\ clicks \in 0..Now.maxClicks
    /\ faults \in 0..Now.maxFaults
    /\ excused \subseteq Tabs \X Files

PageInit ==
    /\ session = TRUE
    /\ tab = [t \in Tabs |-> "none"]
    /\ rows = [t \in Tabs |-> [f \in Files |-> <<>>]]
    /\ rowCount = [t \in Tabs |-> -1]
    /\ toast = [t \in Tabs |-> NoFile]
    /\ upload = [f \in Files |-> "none"]
    /\ calls = {} /\ clicks = 0 /\ faults = 0 /\ excused = {}

-----------------------------------------------------------------------------
(* The table *)
Total(numbers) == Cardinality(UNION {{f} \X numbers[f] : f \in Files})
CountRows(t) == Total([f \in Files |-> DOMAIN rows[t][f]])

Known_(t) == IF rowCount[t] = -1 THEN CountRows(t) ELSE rowCount[t]

(* addRow, and changeRowCount(true, row) *)
addRow(t, f) ==
    /\ rows' = [rows EXCEPT ![t][f] = <<"shown">> \o @]
    /\ rowCount' = [rowCount EXCEPT ![t] = Known_(t) + 1]

(* changeRowCount(false, row): getElementById finds the newest row; without  *)
(* one the count is reduced before the exception.                            *)
removeRow(t, f) ==
    /\ rows' = IF rows[t][f] = <<>> THEN rows ELSE [rows EXCEPT ![t][f][1] = "dying"]
    /\ rowCount' = [rowCount EXCEPT ![t] = Known_(t) - 1]

KeepTable == UNCHANGED <<rows, rowCount>>

Visible(t, f) == {i \in DOMAIN rows[t][f] : rows[t][f][i] # "dying"}

(* The timer of changeRowCount *)
RowRemoved(t, f) ==
    /\ \E i \in DOMAIN rows[t][f] :
          rows[t][f][i] = "dying" /\ rows' = [rows EXCEPT ![t][f] = RemoveAt(@, i)]
    /\ UNCHANGED <<workerVars, statusVars, scenario, clicks, session, tab, rowCount, toast, upload,
                   calls, faults, excused>>

-----------------------------------------------------------------------------
(* Notices between tabs, and the races that the code has with them *)
fileAdded(f) == [type |-> "fileAdded", file |-> f]
fileDeleted(f) == [type |-> "fileDeleted", file |-> f]

IsAbout(msg, f) == msg.type = "notice" /\ msg.notice.file = f
Underway(f) == {t \in Tabs : \E msg \in ToSet(outbox[t]) : IsAbout(msg, f)}
Unread(t, f) == \E msg \in ToSet(inbox[t]) : IsAbout(msg, f)

(* Without SharedWorker a tab has a stream of its own, and tells nobody. *)
notifyWorker(t, notice) ==
    IF Now.shared THEN Post(t, Notice(notice)) ELSE UNCHANGED workerVars

Alive(t) == tab[t] \in {"rendered", "open", "leaving"}
Everywhere(f) == Tabs \X {f}

(* A tab acts on f while an earlier action on f is on its way, and the two   *)
(* answers, or their notices, may arrive in another order than the server    *)
(* has acted in; or it acts on a row that is out of step already.            *)
Crossing(t, f) ==
    IF \/ \E c \in calls : c.file = f /\ c.kind # "complete"
       \/ Underway(f) \ {t} # {} \/ Unread(t, f) \/ <<t, f>> \in excused
    THEN Everywhere(f) ELSE {}

(* Requests that are alike in all else are told apart by a number. *)
Unused(numbers) == CHOOSE n \in 1..Cardinality(numbers) + 1 : n \notin numbers

Call(t, kind, f) ==
    LET same == {c.n : c \in {x \in calls : x.tab = t /\ x.kind = kind /\ x.file = f}}
    IN  calls \cup {[tab |-> t, kind |-> kind, file |-> f, n |-> Unused(same), phase |-> "sent"]}

-----------------------------------------------------------------------------
(* The server renders the table; then the script registers with the worker.  *)
Load(t) ==
    /\ t \in Now.tabs /\ tab[t] = "none" /\ session
    /\ tab' = [tab EXCEPT ![t] = "rendered"]
    /\ rows' = [rows EXCEPT ![t] = [f \in Files |-> IF file[f] = "live" THEN <<"shown">> ELSE <<>>]]
    /\ UNCHANGED <<workerVars, statusVars, scenario, clicks, session, rowCount, toast, upload, calls,
                   faults, excused>>

registerChangeHandler(t) ==
    /\ tab[t] = "rendered"
    /\ tab' = [tab EXCEPT ![t] = "open"]
    /\ IF Now.shared THEN Attach(t) ELSE UNCHANGED workerVars
    /\ UNCHANGED <<statusVars, scenario, clicks, session, rows, rowCount, toast, upload, calls,
                   faults, excused>>

(* The document goes away.  What it has asked the server for is still done,  *)
(* but no other tab hears of it.                                             *)
Leaves(t) ==
    LET mine == {c \in calls : c.tab = t}
        unheard == {c.file : c \in {x \in mine : x.kind \in {"delete", "restore"}}}
    IN  /\ tab' = [tab EXCEPT ![t] = "gone"]
        /\ calls' = calls \ {c \in mine : c.phase # "sent"}
        /\ excused' = excused \cup UNION {Everywhere(f) : f \in unheard}

Close(t) ==
    /\ Happens("close") /\ tab[t] = "open"
    /\ Leaves(t) /\ Detach(t)
    /\ UNCHANGED <<statusVars, scenario, clicks, session, rows, rowCount, toast, upload, faults>>

(* doLogout posts, and navigates to ./logout, which ends the session. *)
doLogout(t) ==
    /\ Happens("logout") /\ tab[t] = "open" /\ session
    /\ session' = FALSE
    /\ Leaves(t)
    /\ attached' = attached \ {t}
    /\ outbox' = [outbox EXCEPT ![t] = Append(@, Shutdown)]
    /\ inbox' = [inbox EXCEPT ![t] = <<>>]
    /\ UNCHANGED <<ports, source, timer, streams, statusVars, scenario, clicks, rows, rowCount, toast,
                   upload, faults>>

(* A second after the shutdown message the tab goes to ./login. *)
GoToLogin(t) ==
    /\ tab[t] = "leaving"
    /\ Leaves(t) /\ Detach(t)
    /\ UNCHANGED <<statusVars, scenario, clicks, session, rows, rowCount, toast, upload, faults>>

-----------------------------------------------------------------------------
(* Clicks *)
Container(f) == upload[f] \in {"sending", "completing", "queued", "error"}

(* The `addedfile' event: addFileStatus.  Dropzone then sends the chunks. *)
addFileProgress(f) ==
    /\ f \in Now.uploads /\ upload[f] = "none" /\ tab[Uploader] = "open"
    /\ upload' = [upload EXCEPT ![f] = "sending"]
    /\ UNCHANGED <<workerVars, statusVars, scenario, clicks, session, tab, rows, rowCount, toast,
                   calls, faults, excused>>

(* parallelUploads is 1: until the server has answered, unless the chunks    *)
(* are encrypted, no other file is sent.                                     *)
sendChunkComplete(f) ==
    /\ upload[f] = "sending" /\ tab[Uploader] = "open"
    /\ Now.e2e \/ \A g \in Files : upload[g] # "completing"
    /\ upload' = [upload EXCEPT ![f] = "completing"]
    /\ calls' = Call(Uploader, "complete", f)
    /\ UNCHANGED <<workerVars, statusVars, scenario, clicks, session, tab, rows, rowCount, toast,
                   faults, excused>>

(* The `error' event: a chunk is not accepted. *)
ChunkFails(f) ==
    /\ upload[f] = "sending" /\ faults < Now.maxFaults
    /\ faults' = faults + 1
    /\ upload' = [upload EXCEPT ![f] = "error"]
    /\ UNCHANGED <<workerVars, statusVars, scenario, clicks, session, tab, rows, rowCount, toast,
                   calls, excused>>

Click == clicks < Now.maxClicks /\ clicks' = clicks + 1

deleteFile(t, f) ==
    /\ Click /\ tab[t] = "open" /\ rows[t][f] # <<>> /\ rows[t][f][1] = "shown"
    /\ rows' = [rows EXCEPT ![t][f][1] = "busy"]
    /\ calls' = Call(t, "delete", f)
    /\ excused' = excused \cup Crossing(t, f)
    /\ UNCHANGED <<workerVars, statusVars, scenario, session, tab, rowCount, toast, upload, faults>>

(* The toast hides after 5 seconds, unless showToast, which shares toastId,  *)
(* has cleared its timer: the click may come at any time, or never.          *)
handleUndo(t) ==
    /\ Click /\ tab[t] = "open" /\ toast[t] # NoFile
    /\ toast' = [toast EXCEPT ![t] = NoFile]
    /\ calls' = Call(t, "restore", toast[t])
    /\ excused' = excused \cup Crossing(t, toast[t])
    /\ UNCHANGED <<workerVars, statusVars, scenario, session, tab, rows, rowCount, upload, faults>>

-----------------------------------------------------------------------------
(* The handlers of the server.  A restored file whose deletion has run       *)
(* already is answered with, but stays deleted.                              *)
Answered(c, phase) ==
    calls' = (calls \ {c}) \cup (IF Alive(c.tab) THEN {[c EXCEPT !.phase = phase]} ELSE {})

Accepted(c) ==
    /\ session
    /\ \/ c.kind = "complete"
       \/ c.kind = "info" /\ file[c.file] = "live"
       \/ c.kind \in {"delete", "restore"} /\ file[c.file] # "gone"

Handle(c) ==
    /\ c.phase = "sent"
    /\ IF Accepted(c)
       THEN /\ Answered(c, "done")
            /\ \/ c.kind = "complete" /\ StartJob(c.file) /\ UNCHANGED <<file, excused>>
               \/ c.kind = "info" /\ UNCHANGED <<file, job, excused>>
               \/ c.kind = "delete" /\ DeleteFileSchedule(c.file) /\ UNCHANGED <<job, excused>>
               \/ /\ c.kind = "restore" /\ CancelPendingFileDeletion(c.file)
                  /\ excused' = excused \cup
                        (IF file[c.file] = "expired" THEN Everywhere(c.file) ELSE {})
                  /\ UNCHANGED job
       ELSE Answered(c, "refused") /\ UNCHANGED <<file, job, excused>>
    /\ UNCHANGED <<workerVars, saved, publishers, streamVars, scenario, clicks, session, tab, rows,
                   rowCount, toast, upload, faults>>

(* The connection fails before or after the request was handled. *)
ConnectionFails(c) ==
    /\ faults < Now.maxFaults /\ c.phase \in {"sent", "done"}
    /\ faults' = faults + 1
    /\ Answered(c, "refused")
    /\ excused' = excused \cup (IF c.phase = "done" /\ c.kind \in {"delete", "restore"}
                                THEN Everywhere(c.file) ELSE {})
    /\ UNCHANGED <<workerVars, statusVars, scenario, clicks, session, tab, rows, rowCount, toast, upload>>

-----------------------------------------------------------------------------
(* What answers do *)
ShowError(f) == upload' = [upload EXCEPT ![f] = IF Container(f) THEN "error" ELSE @]

CompleteAnswered(c) ==
    /\ c.kind = "complete"
    /\ IF c.phase = "done" THEN upload' = [upload EXCEPT ![c.file] = IF @ = "completing" THEN "queued" ELSE @]
                           ELSE ShowError(c.file)
    /\ KeepTable /\ UNCHANGED <<workerVars, toast>>

(* For a file that is encrypted end-to-end the status goes later, see        *)
(* EndToEndPage.tla.                                                         *)
requestFileInfo(c) ==
    /\ c.kind = "info" /\ c.phase = "done"
    /\ addRow(c.tab, c.file)
    /\ notifyWorker(c.tab, fileAdded(c.file))
    /\ IF Now.e2e THEN UNCHANGED upload
                  ELSE upload' = [upload EXCEPT ![c.file] = "removed"]
    /\ UNCHANGED toast

InfoRefused(c) ==
    /\ c.kind = "info" /\ c.phase = "refused"
    /\ ShowError(c.file)
    /\ KeepTable /\ UNCHANGED <<workerVars, toast>>

(* Mutant of DeleteAnswered: other tabs are not told. *)
DeletedSilently(c) ==
    /\ c.kind = "delete" /\ c.phase = "done"
    /\ removeRow(c.tab, c.file)
    /\ toast' = [toast EXCEPT ![c.tab] = c.file]
    /\ UNCHANGED <<upload, workerVars>>

(* Without a row the exception ends the handler before the toast and the     *)
(* notice.                                                                   *)
DeleteAnswered(c) ==
    /\ c.kind = "delete" /\ c.phase = "done"
    /\ removeRow(c.tab, c.file)
    /\ IF rows[c.tab][c.file] = <<>> THEN UNCHANGED <<toast, workerVars>>
       ELSE /\ toast' = [toast EXCEPT ![c.tab] = c.file]
            /\ notifyWorker(c.tab, fileDeleted(c.file))
    /\ UNCHANGED upload

RestoreAnswered(c) ==
    /\ c.kind = "restore" /\ c.phase = "done"
    /\ addRow(c.tab, c.file)
    /\ notifyWorker(c.tab, fileAdded(c.file))
    /\ UNCHANGED <<upload, toast>>

(* An alert; the delete button stays disabled. *)
ChangeRefused(c) ==
    /\ c.kind \in {"delete", "restore"} /\ c.phase = "refused"
    /\ KeepTable /\ UNCHANGED <<workerVars, upload, toast>>

Answer(c) ==
    /\ Alive(c.tab)
    /\ calls' = calls \ {c}
    /\ \/ CompleteAnswered(c) \/ requestFileInfo(c) \/ InfoRefused(c)
       \/ DeleteAnswered(c) \/ RestoreAnswered(c) \/ ChangeRefused(c)
    /\ UNCHANGED <<statusVars, scenario, clicks, session, tab, faults, excused>>

-----------------------------------------------------------------------------
(* worker.port.onmessage *)

(* parseProgressStatus.  The server may tell twice that a file is ready, by  *)
(* its goroutine and by the saved statuses: while the first is being handled *)
(* the second asks again, and a second row comes.                            *)
parseProgressStatus(t, event) ==
    LET f == event.file
        asks == t = Uploader /\ Container(f) /\ event.status = StatusFinished
    IN  /\ calls' = IF asks THEN Call(t, "info", f) ELSE calls
        /\ excused' = IF ~asks THEN excused
                      ELSE excused \cup Crossing(t, f) \cup (IF rows[t][f] # <<>> THEN {<<t, f>>} ELSE {})
        /\ KeepTable /\ UNCHANGED tab

(* A row that is being removed keeps the file from being added: the row goes *)
(* away after 290 milliseconds, and the file is not listed.                  *)
NoticeReceived(t, notice) ==
    LET f == notice.file
    IN  /\ IF notice.type = "fileAdded"
           THEN IF rows[t][f] = <<>> THEN addRow(t, f) ELSE KeepTable
           ELSE IF rows[t][f] # <<>> THEN removeRow(t, f) ELSE KeepTable
        /\ excused' = IF notice.type = "fileAdded" /\ rows[t][f] # <<>> /\ Visible(t, f) = {}
                      THEN excused \cup {<<t, f>>} ELSE excused
        /\ UNCHANGED <<calls, tab>>

TabReceives(t) ==
    /\ tab[t] \in {"open", "leaving"}
    /\ Receive(t)
    /\ LET msg == Head(inbox[t]) IN
       \/ msg.type = "message" /\ parseProgressStatus(t, msg.data)
       \/ msg.type = "notice" /\ NoticeReceived(t, msg.notice)
       \/ /\ msg.type = "shutdown" /\ tab' = [tab EXCEPT ![t] = "leaving"]
          /\ KeepTable /\ UNCHANGED <<calls, excused>>
    /\ UNCHANGED <<statusVars, scenario, clicks, session, toast, upload, faults>>

(* The stream of _registerDirectSSE, which carries a status as soon as it is *)
(* published                                                                 *)
DirectMessage(t) ==
    /\ ~Now.shared /\ tab[t] = "open" /\ session
    /\ \E event \in publishers :
          /\ publishers' = publishers \ {event}
          /\ parseProgressStatus(t, event)
    /\ UNCHANGED <<workerVars, file, job, saved, streamVars, scenario, clicks, session, toast,
                   upload, faults>>

-----------------------------------------------------------------------------
(* The worker, and the connection to the server *)

(* A notice misses the tabs that the server has already given their table    *)
(* and that the worker does not know yet.                                    *)
Missed(t) ==
    LET msg == Head(outbox[t])
        late == {x \in Tabs \ ports : Alive(x) /\ x # t}
    IN  IF msg.type = "notice" THEN late \X {msg.notice.file} ELSE {}

(* A stream that is closed ends the request on the server. *)
StreamFollows == IF source /\ ~source' THEN removeListener ELSE UNCHANGED statusVars

WorkerHears(t) ==
    /\ \/ onmessage(t) /\ excused' = excused \cup Missed(t)
       \/ removePort(t) /\ UNCHANGED excused
    /\ StreamFollows
    /\ UNCHANGED <<scenario, clicks, session, tab, rows, rowCount, toast, upload, calls, faults>>

WorkerReconnects == Reconnect /\ UNCHANGED <<statusVars, pageVars>>

StreamBreaks ==
    /\ faults < Now.maxFaults /\ faults' = faults + 1
    /\ onerror /\ StreamFollows
    /\ UNCHANGED <<scenario, clicks, session, tab, rows, rowCount, toast, upload, calls, excused>>

(* GetStatusSSE returns after maxConnection, two hours, in which everything  *)
(* that was on its way has arrived, or refuses a session that has ended.     *)
ConnectionEnds ==
    /\ onerror
    /\ \/ /\ listener = "open" /\ Pending = <<>>
          /\ publishers = {} /\ calls = {} /\ \A t \in Tabs : inbox[t] = <<>> /\ outbox[t] = <<>>
       \/ ~session
    /\ Happens("maxConnection") \/ ~session
    /\ removeListener
    /\ UNCHANGED pageVars

JobActs(f) == JobStep(f, Happens("stored")) /\ UNCHANGED <<workerVars, pageVars>>
Publishes(event) ==
    Now.shared /\ PublishNewStatus(event) /\ UNCHANGED <<workerVars, pageVars>>
StreamOpens ==
    /\ Happens("stream") /\ source /\ session /\ (addListener \/ ReadSaved)
    /\ UNCHANGED <<workerVars, pageVars>>
StreamSends == Written /\ StreamMessage(Head(Pending)) /\ UNCHANGED pageVars

(* What may happen on the server, and need not *)
ServerMay ==
    /\ \E f \in Files : (Happens("expiry") /\ ScheduledDeletion(f)) \/ (Happens("jobFails") /\ JobFails(f))
    /\ UNCHANGED <<workerVars, pageVars>>
=============================================================================
