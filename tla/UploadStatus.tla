---------------------------- MODULE UploadStatus ----------------------------
(***************************************************************************)
(* How the server tells a user's browser how far an upload is              *)
(* (ProcessingStatus.go, PStatusDb.go, Sse.go): every status is saved, and *)
(* published by a goroutine of its own to the connections that listen; a   *)
(* new connection first gets all that is saved.  One user with one event   *)
(* stream; the statuses are kept for 24 hours, which no behaviour exceeds. *)
(***************************************************************************)
EXTENDS Integers, Sequences, FiniteSets

CONSTANTS
    Files,      \* files that are uploaded or there from the start
    bufferSize  \* bound of replyChannel, 64 in the code

ASSUME FilesAssumption == IsFiniteSet(Files) /\ bufferSize \in Nat

VARIABLES
    file,       \* file[f]: its row in the database
    job,        \* job[f]: doBlockingPartCompleteChunk of its upload
    saved,      \* saved[f]: pstatusdb.statusMap, -1 for no entry
    publishers, \* goroutines of processingstatus.Set that have not run
    listener,   \* GetStatusSSE of the connection, if there is one
    replay,     \* saved statuses that it writes before anything else
    queue       \* its replyChannel

statusVars == <<file, job, saved, publishers, listener, replay, queue>>
streamVars == <<listener, replay, queue>>

StatusHashingOrEncrypting == 0
StatusUploading == 1
StatusFinished == 2

(* live, then pending (deletion is scheduled), expired (DeleteFile has run), *)
(* and gone (CleanUp has removed the row)                                    *)
FileStates == {"none", "live", "pending", "expired", "gone"}
JobStates == {"none", "hash", "move", "save", "finish", "done", "failed"}
StatusEvents == [file : Files, status : 0..2]

StatusTypeOK ==
    /\ file \in [Files -> FileStates]
    /\ job \in [Files -> JobStates]
    /\ saved \in [Files -> -1..2]
    /\ publishers \subseteq StatusEvents
    /\ listener \in {"none", "registered", "open"}
    /\ replay \in Seq(StatusEvents) /\ queue \in Seq(StatusEvents)

(* present: files that are there when the behaviour begins *)
StatusInit(present) ==
    /\ file = [f \in Files |-> IF f \in present THEN "live" ELSE "none"]
    /\ job = [f \in Files |-> "none"]
    /\ saved = [f \in Files |-> -1]
    /\ publishers = {}
    /\ listener = "none"
    /\ replay = <<>> /\ queue = <<>>

-----------------------------------------------------------------------------
(* pstatusdb.Set keeps the highest status; what is published is the new one. *)
Set(f, status) ==
    /\ saved' = [saved EXCEPT ![f] = IF @ > status THEN @ ELSE status]
    /\ publishers' = publishers \cup {[file |-> f, status |-> status]}

(* apiChunkComplete starts the goroutine, and answers. *)
StartJob(f) == job' = [job EXCEPT ![f] = "hash"]

Goes(f, pc) == job' = [job EXCEPT ![f] = pc]

(* NewFileFromChunk.  stored: content that is there already is not moved.    *)
(* An error ends it without a status: StatusError is never set.              *)
JobStep(f, stored) ==
    /\ \/ job[f] = "hash" /\ Set(f, StatusHashingOrEncrypting) /\ UNCHANGED file
          /\ Goes(f, IF stored THEN "save" ELSE "move")
       \/ job[f] = "move" /\ Set(f, StatusUploading) /\ Goes(f, "save") /\ UNCHANGED file
       \/ job[f] = "save" /\ Goes(f, "finish")
          /\ file' = [file EXCEPT ![f] = "live"] /\ UNCHANGED <<saved, publishers>>
       \/ job[f] = "finish" /\ Set(f, StatusFinished) /\ Goes(f, "done") /\ UNCHANGED file
    /\ UNCHANGED streamVars

JobFails(f) ==
    /\ job[f] \in {"hash", "move"}
    /\ Goes(f, "failed")
    /\ UNCHANGED <<file, saved, publishers, streamVars>>

(* PublishNewStatus, in any order.  A listener whose channel is full loses   *)
(* the message.                                                              *)
PublishNewStatus(event) ==
    /\ publishers' = publishers \ {event}
    /\ queue' = IF listener # "none" /\ Len(queue) < bufferSize
                THEN Append(queue, event) ELSE queue
    /\ UNCHANGED <<file, job, saved, listener, replay>>

-----------------------------------------------------------------------------
(* GetStatusSSE: the listener is registered before the saved statuses are    *)
(* read, so that what is set in between comes twice rather than never.       *)
addListener ==
    /\ listener = "none"
    /\ listener' = "registered"
    /\ UNCHANGED <<file, job, saved, publishers, replay, queue>>

(* Mutant of GetAllForUser: a new connection gets only what comes. *)
NothingForUser == {<<>>}

(* The events of the statuses in the map, in any order *)
Known == {f \in Files : saved[f] >= 0}
GetAllForUser ==
    {[i \in DOMAIN p |-> [file |-> p[i], status |-> saved[p[i]]]] :
        p \in {q \in [1..Cardinality(Known) -> Known] : \A f \in Known : \E i \in DOMAIN q : q[i] = f}}

ReadSaved ==
    /\ listener = "registered"
    /\ listener' = "open"
    /\ replay' \in GetAllForUser
    /\ UNCHANGED <<file, job, saved, publishers, queue>>

(* The next event that the connection carries, and what is left *)
Pending == replay \o queue
Written ==
    /\ listener = "open" /\ Pending # <<>>
    /\ IF replay # <<>> THEN replay' = Tail(replay) /\ UNCHANGED queue
                        ELSE queue' = Tail(queue) /\ UNCHANGED replay
    /\ UNCHANGED <<file, job, saved, publishers, listener>>

(* removeListener: after maxConnection, or when the connection is gone *)
removeListener ==
    /\ listener' = "none" /\ replay' = <<>> /\ queue' = <<>>
    /\ UNCHANGED <<file, job, saved, publishers>>

(* The server's share of apiFilesDelete and apiFilesRestore, see Storage.tla *)
DeleteFileSchedule(f) == file' = [file EXCEPT ![f] = IF @ = "live" THEN "pending" ELSE @]
CancelPendingFileDeletion(f) == file' = [file EXCEPT ![f] = IF @ = "pending" THEN "live" ELSE @]

(* The goroutine of DeleteFileSchedule, and CleanUp *)
ScheduledDeletion(f) ==
    /\ \/ file[f] = "pending" /\ file' = [file EXCEPT ![f] = "expired"]
       \/ file[f] = "expired" /\ file' = [file EXCEPT ![f] = "gone"]
    /\ UNCHANGED <<job, saved, publishers, streamVars>>
=============================================================================
