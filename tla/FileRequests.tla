---------------------------- MODULE FileRequests ----------------------------
(***************************************************************************)
(* One file request on the server: its limit, the reservations of uploads, *)
(* the chunk files, and the goroutines that turn a chunk file into a       *)
(* stored file (Api.go, ChunkReservation.go, Chunking.go, FileServing.go,  *)
(* Filerequest.go).  Clients put requests on `wire'; a handler that reads, *)
(* decides and writes in calls of its own is as many steps as calls.       *)
(* Storage is local and not encrypted, and no two uploads are equal.       *)
(***************************************************************************)
EXTENDS Integers, Sequences, FiniteSets

CONSTANTS
    Entries,     \* files that may be selected for upload
    Clients,     \* who sends requests: the pages that upload
    numChunks,   \* chunks of a file; they are 1..numChunks by offset
    NoFile,      \* there is no file of that name
    Scenarios,   \* Scenarios[n]: who takes part, see Scenario
    maxUuids,    \* bound: reservations made
    maxJobs      \* bound: completion goroutines started

ASSUME ChunksAssumption ==
    /\ numChunks \in Nat \ {0} /\ maxUuids \in Nat /\ maxJobs \in Nat
    /\ \A S \in SUBSET (1..numChunks) : NoFile # S

VARIABLES
    scenario,    \* the scenario of this behaviour, which never changes
    request,     \* the row of the file request, and its API key
    issued,      \* number of uuids generated so far: they are 1..issued
    reservation, \* reservation[u]: chunkreservation.reservedChunks
    chunkFile,   \* chunkFile[u]: the chunks in the file chunk-<u>, or NoFile
    jobs,        \* goroutines of doBlockingPartCompleteChunk, and their files
    wire,        \* requests of clients that have not been answered
    exceptions,  \* history: what has happened that breaks the quota
    late         \* history: uploads written to by a request that its client
                 \* had given up

serverVars == <<scenario, request, issued, reservation, chunkFile, jobs, wire,
                exceptions, late>>

Chunks == 1..numChunks
Uuids == 1..maxUuids
NoUuid == 0
Limits == 0..99   \* bound: limits of the number of files
Chunked == {NoFile} \cup SUBSET Chunks

(* phase: the part of the handler that comes next. waiting: the client     *)
(* still waits for the answer.                                             *)
Requests ==
    [kind : {"reserve", "unreserve", "add", "complete"}, client : Clients,
     uuid : Uuids \cup {NoUuid}, chunk : Chunks \cup {0},
     phase : {"sent", "checked"}, waiting : BOOLEAN]

(* missing, missed: the goroutine found no chunk file. broken, failed: its   *)
(* processing failed, or a restart has ended it.                            *)
JobStates == {"open", "move", "save", "release", "done",
              "missing", "missed", "broken", "failed"}
RowStates == {"none", "live", "pending", "gone"}
Jobs == [uuid : Uuids \cup {NoUuid}, pc : JobStates, row : RowStates,
         content : Chunked]

ServerTypeOK ==
    /\ scenario \in DOMAIN Scenarios
    /\ request \in [exists : BOOLEAN, key : BOOLEAN, expired : BOOLEAN,
                    maxFiles : Limits]
    /\ issued \in 0..maxUuids
    /\ reservation \in [Uuids -> {"none", "reserved", "uploading", "expired"}]
    /\ chunkFile \in [Uuids -> Chunked]
    /\ jobs \in Seq(Jobs)
    /\ wire \subseteq Requests
    /\ exceptions \subseteq {"overbooked", "unreserved", "restored", "edited"}
    /\ late \subseteq Uuids

(* maxFiles of the file request, 0 for no limit; the files it has already;   *)
(* the files that are selected for upload; which of the events happen that   *)
(* do not come with every upload; and MaxFilesGuestUpload of the server, or  *)
(* 0 where the owner is an administrator.                                    *)
Events == {"remove", "close", "expiry", "requestExpiry", "failure", "restart",
           "deleteFiles", "deleteRequest", "edit", "create"}
Scenario == [maxFiles : Limits, present : 0..maxJobs, entries : SUBSET Entries,
             maxFaults : Nat, events : SUBSET Events, limitMaxFiles : Limits]

ASSUME ScenariosAssumption ==
    \A n \in DOMAIN Scenarios :
        /\ Scenarios[n] \in Scenario
        /\ Scenarios[n].maxFiles # 0 => Scenarios[n].present <= Scenarios[n].maxFiles

Happens(event) == event \in Scenarios[scenario].events

ServerInit ==
    /\ scenario \in DOMAIN Scenarios
    /\ request = [exists |-> ~Happens("create"), key |-> ~Happens("create"),
                  expired |-> FALSE, maxFiles |-> Scenarios[scenario].maxFiles]
    /\ issued = 0
    /\ reservation = [u \in Uuids |-> "none"]
    /\ chunkFile = [u \in Uuids |-> NoFile]
    /\ jobs = [j \in 1..Scenarios[scenario].present |-> [uuid |-> NoUuid, pc |-> "done",
                                     row |-> "live", content |-> Chunks]]
    /\ wire = {}
    /\ exceptions = {}
    /\ late = {}

-----------------------------------------------------------------------------
(* Populate: files pending for deletion are not counted, reservations that  *)
(* have expired are, until cleanUp drops them.                              *)
LiveFiles == {j \in DOMAIN jobs : jobs[j].row = "live"}
Reserved == {u \in Uuids : reservation[u] # "none"}
IsUnlimitedFiles == request.maxFiles = 0

(* Mutant of FilesRemaining: reservations are not taken off. *)
RemainingUnreserved == request.maxFiles - Cardinality(LiveFiles)

FilesRemaining ==
    LET result == request.maxFiles - Cardinality(LiveFiles) - Cardinality(Reserved)
    IN  IF result < 0 THEN 0 ELSE result

(* The key is looked up first (isAuthorisedForApi), then                    *)
(* checkFileRequestAndApiKey.                                               *)
CheckStatus ==
    IF ~request.key THEN 401
    ELSE IF ~request.exists THEN 404
    ELSE IF request.expired THEN 401
    ELSE IF ~IsUnlimitedFiles /\ Cardinality(LiveFiles) >= request.maxFiles THEN 401
    ELSE 200

(* The request leaves the wire; the client, if it still waits, gets the     *)
(* answer: Answer(r, status, uuid) of the module that models the client.    *)
Answered(r) == wire' = wire \ {r}
Continue(r) == wire' = (wire \ {r}) \cup {[r EXCEPT !.phase = "checked"]}

SetComplete(u) == [reservation EXCEPT ![u] = "none"]

DeleteChunk(u) == [chunkFile EXCEPT ![u] = NoFile]

-----------------------------------------------------------------------------
(* apiChunkReserve: the count is read, and the reservation made later.  The *)
(* rate limiter may refuse a reservation when the files are not limited.    *)
ReserveStatuses ==
    IF CheckStatus # 200 THEN {CheckStatus}
    ELSE IF IsUnlimitedFiles THEN {200, 429}
    ELSE IF FilesRemaining <= 0 THEN {400}
    ELSE {200}

ReserveCheck(r) ==
    /\ r.kind = "reserve" /\ r.phase = "sent"
    /\ 200 \in ReserveStatuses
    /\ Continue(r)
    /\ UNCHANGED <<scenario, request, issued, reservation, chunkFile, jobs, exceptions, late>>

ReserveRefuse(r, status) ==
    /\ r.kind = "reserve" /\ r.phase = "sent"
    /\ status \in ReserveStatuses \ {200}
    /\ Answered(r)
    /\ UNCHANGED <<scenario, request, issued, reservation, chunkFile, jobs, exceptions, late>>

(* chunkreservation.New *)
ReserveNew(r) ==
    /\ r.kind = "reserve" /\ r.phase = "checked"
    /\ issued < maxUuids
    /\ issued' = issued + 1
    /\ reservation' = [reservation EXCEPT ![issued + 1] = "reserved"]
    /\ exceptions' = IF ~IsUnlimitedFiles /\ FilesRemaining <= 0
                     THEN exceptions \cup {"overbooked"} ELSE exceptions
    /\ Answered(r)
    /\ UNCHANGED <<scenario, request, chunkFile, jobs, late>>

(* apiChunkUnreserve: SetComplete, then DeleteChunk *)
UnreserveCheck(r) ==
    /\ r.kind = "unreserve" /\ r.phase = "sent"
    /\ CheckStatus = 200
    /\ reservation' = SetComplete(r.uuid)
    /\ Continue(r)
    /\ UNCHANGED <<scenario, request, issued, chunkFile, jobs, exceptions, late>>

UnreserveDelete(r) ==
    /\ r.kind = "unreserve" /\ r.phase = "checked"
    /\ chunkFile' = DeleteChunk(r.uuid)
    /\ Answered(r)
    /\ UNCHANGED <<scenario, request, issued, reservation, jobs, exceptions, late>>

(* apiChunkUploadRequestAdd: SetUploading extends a reservation that has    *)
(* not expired, then NewChunk creates the file if it is missing and writes. *)
AddCheck(r) ==
    /\ r.kind = "add" /\ r.phase = "sent"
    /\ CheckStatus = 200
    /\ reservation[r.uuid] \in {"reserved", "uploading"}
    /\ reservation' = [reservation EXCEPT ![r.uuid] = "uploading"]
    /\ Continue(r)
    /\ UNCHANGED <<scenario, request, issued, chunkFile, jobs, exceptions, late>>

NewChunk(r) ==
    /\ r.kind = "add" /\ r.phase = "checked"
    /\ chunkFile' = [chunkFile EXCEPT ![r.uuid] =
                        (IF @ = NoFile THEN {} ELSE @) \cup {r.chunk}]
    /\ late' = IF r.waiting THEN late ELSE late \cup {r.uuid}
    /\ Answered(r)
    /\ UNCHANGED <<scenario, request, issued, reservation, jobs, exceptions>>

(* apiChunkUploadRequestComplete starts a goroutine and answers at once.  It *)
(* does not look at the reservation.                                         *)
CompleteStart(r) ==
    /\ r.kind = "complete" /\ r.phase = "sent"
    /\ CheckStatus = 200
    /\ Len(jobs) < maxJobs
    /\ jobs' = Append(jobs, [uuid |-> r.uuid, pc |-> "open", row |-> "none",
                             content |-> NoFile])
    /\ Answered(r)
    /\ UNCHANGED <<scenario, request, issued, reservation, chunkFile, exceptions, late>>

(* The error answers of the four handlers *)
Refuse(r, status) ==
    /\ r.kind # "reserve" /\ r.phase = "sent"
    /\ \/ CheckStatus # 200 /\ status = CheckStatus
       \/ /\ CheckStatus = 200 /\ status = 400
          /\ r.kind = "add" /\ reservation[r.uuid] \in {"none", "expired"}
    /\ Answered(r)
    /\ UNCHANGED <<scenario, request, issued, reservation, chunkFile, jobs, exceptions, late>>

-----------------------------------------------------------------------------
(* doBlockingPartCompleteChunk and NewFileFromChunk *)

SetJob(j, pc, row, content) ==
    jobs' = [jobs EXCEPT ![j] = [uuid |-> @.uuid, pc |-> pc, row |-> row,
                                 content |-> content]]

(* GetFileByChunkId, validateChunkInfo: the size is that of the whole file  *)
(* from the first chunk on.                                                 *)
JobOpen(j) ==
    /\ jobs[j].pc = "open"
    /\ chunkFile[jobs[j].uuid] # NoFile
    /\ SetJob(j, "move", "none", NoFile)
    /\ UNCHANGED <<scenario, request, issued, reservation, chunkFile, wire, exceptions, late>>

(* Mutant of JobMove: the chunk file is copied. *)
JobCopy(j) ==
    /\ jobs[j].pc = "move"
    /\ chunkFile[jobs[j].uuid] # NoFile
    /\ SetJob(j, "save", "none", chunkFile[jobs[j].uuid])
    /\ UNCHANGED <<scenario, request, issued, reservation, chunkFile, wire, exceptions, late>>

(* FileExists and Remove, or MoveToFilesystem: either takes the file of that *)
(* name away, whichever file that is by now.                                 *)
JobMove(j) ==
    /\ jobs[j].pc = "move"
    /\ chunkFile[jobs[j].uuid] # NoFile
    /\ SetJob(j, "save", "none", chunkFile[jobs[j].uuid])
    /\ chunkFile' = DeleteChunk(jobs[j].uuid)
    /\ UNCHANGED <<scenario, request, issued, reservation, wire, exceptions, late>>

(* The file cannot be opened or moved because it is gone. *)
JobMisses(j) ==
    /\ jobs[j].pc \in {"open", "move"}
    /\ chunkFile[jobs[j].uuid] = NoFile
    /\ SetJob(j, "missing", "none", NoFile)
    /\ UNCHANGED <<scenario, request, issued, reservation, chunkFile, wire, exceptions, late>>

(* The size, the hash, the encryption, the disk or the move is at fault. *)
JobFails(j) ==
    /\ Happens("failure") /\ jobs[j].pc \in {"open", "move"}
    /\ chunkFile[jobs[j].uuid] # NoFile
    /\ SetJob(j, "broken", "none", NoFile)
    /\ UNCHANGED <<scenario, request, issued, reservation, chunkFile, wire, exceptions, late>>

(* The error path of doBlockingPartCompleteChunk removes the chunk file, by  *)
(* its name; the reservation stays, and nobody is told.                      *)
JobDiscards(j) ==
    /\ jobs[j].pc \in {"missing", "broken"}
    /\ SetJob(j, IF jobs[j].pc = "missing" THEN "missed" ELSE "failed", "none", NoFile)
    /\ chunkFile' = DeleteChunk(jobs[j].uuid)
    /\ UNCHANGED <<scenario, request, issued, reservation, wire, exceptions, late>>

(* SaveMetaData *)
JobSave(j) ==
    /\ jobs[j].pc = "save"
    /\ SetJob(j, "release", "live", jobs[j].content)
    /\ exceptions' =
         IF \/ reservation[jobs[j].uuid] = "none"
            \/ \E k \in DOMAIN jobs : /\ jobs[k].uuid = jobs[j].uuid
                                      /\ jobs[k].row # "none"
         THEN exceptions \cup {"unreserved"} ELSE exceptions
    /\ UNCHANGED <<scenario, request, issued, reservation, chunkFile, wire, late>>

JobRelease(j) ==
    /\ jobs[j].pc = "release"
    /\ SetJob(j, "done", jobs[j].row, jobs[j].content)
    /\ reservation' = SetComplete(jobs[j].uuid)
    /\ UNCHANGED <<scenario, request, issued, chunkFile, wire, exceptions, late>>

JobStep(j) ==
    \/ JobOpen(j) \/ JobMove(j) \/ JobSave(j) \/ JobRelease(j)
    \/ JobMisses(j) \/ JobFails(j) \/ JobDiscards(j)

(* A restart ends the handlers and goroutines and forgets the reservations;  *)
(* a source that was moved and has no row yet stays without one.             *)
Ended(job) ==
    [job EXCEPT !.pc = IF @ = "release" THEN "done" ELSE IF @ = "missing" THEN "missed"
                       ELSE IF @ \in {"open", "move", "save", "broken"} THEN "failed" ELSE @]

ServerRestart ==
    /\ Happens("restart")
    /\ reservation' = [u \in Uuids |-> "none"]
    /\ jobs' = [j \in DOMAIN jobs |-> Ended(jobs[j])]
    /\ wire' = {}
    /\ UNCHANGED <<scenario, request, issued, chunkFile, exceptions, late>>

-----------------------------------------------------------------------------
(* Time: a reservation that is not used for 4 minutes, or 23 hours after the *)
(* last chunk, expires; cleanUp drops it at most 5 minutes later.            *)
ReservationExpires(u) ==
    /\ Happens("expiry") /\ reservation[u] \in {"reserved", "uploading"}
    /\ reservation' = [reservation EXCEPT ![u] = "expired"]
    /\ UNCHANGED <<scenario, request, issued, chunkFile, jobs, wire, exceptions, late>>

(* Mutant of cleanUp: reservations with an upload are left. *)
cleanUpUnused ==
    /\ \E u \in Uuids : reservation[u] = "expired" /\ chunkFile[u] = NoFile
    /\ reservation' = [u \in Uuids |->
            IF reservation[u] = "expired" /\ chunkFile[u] = NoFile
            THEN "none" ELSE reservation[u]]
    /\ UNCHANGED <<scenario, request, issued, chunkFile, jobs, wire, exceptions, late>>

cleanUp ==
    /\ \E u \in Uuids : reservation[u] = "expired"
    /\ reservation' = [u \in Uuids |-> IF reservation[u] = "expired"
                                       THEN "none" ELSE reservation[u]]
    /\ UNCHANGED <<scenario, request, issued, chunkFile, jobs, wire, exceptions, late>>

RequestExpires ==
    /\ Happens("requestExpiry") /\ request.exists /\ ~request.expired
    /\ request' = [request EXCEPT !.expired = TRUE]
    /\ UNCHANGED <<scenario, issued, reservation, chunkFile, jobs, wire, exceptions, late>>

(* The deletion of a file becomes due (DeleteFileSchedule, CleanUp). *)
PendingFileRemoved(j) ==
    /\ jobs[j].row = "pending"
    /\ SetJob(j, jobs[j].pc, "gone", jobs[j].content)
    /\ UNCHANGED <<scenario, request, issued, reservation, chunkFile, wire, exceptions, late>>

(* A request that its client has given up is lost before it is handled. *)
LoseRequest(r) ==
    /\ ~r.waiting /\ r.phase = "sent"
    /\ wire' = wire \ {r}
    /\ UNCHANGED <<scenario, request, issued, reservation, chunkFile, jobs, exceptions, late>>

-----------------------------------------------------------------------------
(* The handlers that the owner of the file request calls *)

(* apiDeleteFile with a delay of 10 seconds *)
FileDelete(j) ==
    /\ jobs[j].row \in {"live", "pending"}
    /\ SetJob(j, jobs[j].pc, "pending", jobs[j].content)
    /\ UNCHANGED <<scenario, request, issued, reservation, chunkFile, wire, exceptions, late>>

(* apiRestoreFile *)
FileRestore(j) ==
    /\ jobs[j].row \in {"live", "pending"}
    /\ SetJob(j, jobs[j].pc, "live", jobs[j].content)
    /\ exceptions' = exceptions \cup {"restored"}
    /\ UNCHANGED <<scenario, request, issued, reservation, chunkFile, wire, late>>

(* filerequest.Delete: the files, then the row, then the API key.  A file    *)
(* saved after the first of these steps stays without its file request.      *)
DeleteFilesOfRequest ==
    /\ jobs' = [j \in DOMAIN jobs |->
                  IF jobs[j].row = "none" THEN jobs[j] ELSE [jobs[j] EXCEPT !.row = "gone"]]
    /\ UNCHANGED <<scenario, request, issued, reservation, chunkFile, wire, exceptions, late>>

DeleteFileRequest ==
    /\ request' = [request EXCEPT !.exists = FALSE]
    /\ UNCHANGED <<scenario, issued, reservation, chunkFile, jobs, wire, exceptions, late>>

DeleteApiKey ==
    /\ request' = [request EXCEPT !.key = FALSE]
    /\ UNCHANGED <<scenario, issued, reservation, chunkFile, jobs, wire, exceptions, late>>

isUserAllowedUnlimited(limit) ==
    LET max == Scenarios[scenario].limitMaxFiles
    IN  max # 0 => limit \in 1..max

(* apiURequestSave: SaveFileRequest of the row that was read before, which   *)
(* brings a row back that was deleted in between, or of a new row and key.   *)
SaveFileRequest(limit, isNewRequest) ==
    /\ request' = [request EXCEPT !.exists = TRUE, !.maxFiles = limit,
                                  !.key = @ \/ isNewRequest]
    /\ exceptions' = exceptions \cup {"edited"}
    /\ UNCHANGED <<scenario, issued, reservation, chunkFile, jobs, wire, late>>

-----------------------------------------------------------------------------
(* Every stored file has all its chunks, although the server only compares  *)
(* the size that the first chunk has set: it relies on the page to send     *)
(* each chunk before it completes the upload.  Up to a chunk request that   *)
(* comes after the page has given it up.                                    *)
StoredFilesWhole ==
    \A j \in DOMAIN jobs :
        jobs[j].row # "none" /\ jobs[j].uuid \notin late => jobs[j].content = Chunks

(* A completion that is repeated because its answer was lost does not store *)
(* the upload twice.                                                        *)
StoredOnce ==
    \A j, k \in {i \in DOMAIN jobs : jobs[i].row # "none"} :
        j # k /\ jobs[j].uuid = jobs[k].uuid => jobs[j].uuid \in late \cup {NoUuid}

(* A file request never has more files than its limit, whatever the order of *)
(* reservations, uploads and completions, until two reservations pass the    *)
(* check at once, a file is stored without its reservation, a deletion is    *)
(* taken back or the limit is edited.                                        *)
QuotaKept ==
    exceptions = {} /\ ~IsUnlimitedFiles
        => Cardinality(LiveFiles) <= request.maxFiles
=============================================================================
