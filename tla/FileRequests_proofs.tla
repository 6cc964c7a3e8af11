------------------------- MODULE FileRequests_proofs ------------------------
(* Proofs about FileRequestSystem.tla, for any guests, files, scenarios and *)
(* bounds: types, pages that settle, and the quota.                         *)
EXTENDS FileRequestSystem, FiniteSetTheorems, SequenceTheorems, TLAPS

(* What the handlers rely on: a chunk request names a chunk, and every       *)
(* request but that for a reservation an upload.                             *)
RequestsNamed ==
    \A r \in wire : /\ r.kind = "add" => r.chunk \in Chunks
                    /\ r.kind # "reserve" => r.uuid # NoUuid

(* A goroutine that is not done works on an upload. *)
JobsNamed ==
    /\ Len(jobs) <= maxJobs
    /\ \A j \in DOMAIN jobs : jobs[j].pc # "done" => jobs[j].uuid # NoUuid

ServerInv == ServerTypeOK /\ RequestsNamed /\ JobsNamed

-----------------------------------------------------------------------------
(* Facts about the constants *)
LEMMA ScenarioType ==
  ASSUME ServerTypeOK
  PROVE  /\ Scenarios[scenario] \in Scenario
         /\ Scenarios[scenario].maxFiles # 0
               => Scenarios[scenario].present <= Scenarios[scenario].maxFiles
  BY ScenariosAssumption DEF ServerTypeOK

(* The files and the reservations can be counted. *)
LEMMA Counts ==
  ASSUME ServerTypeOK
  PROVE  /\ IsFiniteSet(LiveFiles) /\ Cardinality(LiveFiles) \in Nat
         /\ IsFiniteSet(Reserved) /\ Cardinality(Reserved) \in Nat
         /\ request.maxFiles \in Nat
<1>1. IsFiniteSet(DOMAIN jobs)
  <2>1. DOMAIN jobs = 1..Len(jobs) /\ Len(jobs) \in Int
    BY DEF ServerTypeOK
  <2> QED BY <2>1, FS_Interval
<1>2. IsFiniteSet(Uuids)
  BY ChunksAssumption, FS_Interval DEF Uuids
<1>3. LiveFiles \in SUBSET DOMAIN jobs /\ Reserved \in SUBSET Uuids
  BY DEF LiveFiles, Reserved
<1>4. request.maxFiles \in Nat
  <2>1. request.maxFiles \in Limits
    BY DEF ServerTypeOK
  <2> QED BY <2>1 DEF Limits
<1>5. IsFiniteSet(LiveFiles) /\ IsFiniteSet(Reserved)
  BY <1>1, <1>2, <1>3, FS_Subset
<1> QED BY <1>4, <1>5, FS_CardinalityType

(* A job is changed in place: the others stay, and so does its upload. *)
LEMMA SetJobType ==
  ASSUME ServerInv, NEW j, NEW pc \in JobStates, NEW row1 \in RowStates,
         NEW content \in Chunked, SetJob(j, pc, row1, content),
         pc = "done" \/ (j \in DOMAIN jobs => jobs[j].uuid # NoUuid)
  PROVE  jobs' \in Seq(Jobs) /\ JobsNamed'
<1>1. jobs \in Seq(Jobs) /\ JobsNamed
  BY DEF ServerInv, ServerTypeOK
<1> DEFINE new == [uuid |-> jobs[j].uuid, pc |-> pc, row |-> row1, content |-> content]
<1>2. jobs' = [jobs EXCEPT ![j] = new]
  BY DEF SetJob
<1>3. CASE j \in DOMAIN jobs
  <2>1. jobs[j] \in Jobs
    BY <1>1, <1>3
  <2>2. new \in Jobs /\ new.pc = pc /\ new.uuid = jobs[j].uuid
    BY <2>1 DEF Jobs
  <2> HIDE DEF new
  <2>3. jobs' \in Seq(Jobs) /\ Len(jobs') = Len(jobs)
    BY <1>1, <1>2, <1>3, <2>2, ExceptSeq
  <2>4. \A k \in DOMAIN jobs' : jobs'[k] = IF k = j THEN new ELSE jobs[k]
    BY <1>1, <1>2
  <2> QED BY <1>1, <1>3, <2>2, <2>3, <2>4 DEF JobsNamed
<1>4. CASE j \notin DOMAIN jobs
  <2>1. jobs' = jobs
    BY <1>1, <1>2, <1>4
  <2> QED BY <1>1, <2>1 DEF JobsNamed
<1> QED BY <1>3, <1>4

(* A request that leaves the wire, or goes to its second phase, leaves wire *)
(* with requests that name what they are about.                             *)
LEMMA WireType ==
  ASSUME ServerInv, NEW r \in wire, Answered(r) \/ Continue(r)
  PROVE  wire' \subseteq Requests /\ RequestsNamed'
<1>1. wire \subseteq Requests /\ RequestsNamed
  BY DEF ServerInv, ServerTypeOK
<1>2. CASE Answered(r)
  BY <1>1, <1>2 DEF Answered, RequestsNamed
<1>3. CASE Continue(r)
  <2> DEFINE new == [r EXCEPT !.phase = "checked"]
  <2>1. new \in Requests /\ new.kind = r.kind /\ new.uuid = r.uuid /\ new.chunk = r.chunk
    BY <1>1 DEF Requests
  <2>2. wire' = (wire \ {r}) \cup {new}
    BY <1>3 DEF Continue
  <2> HIDE DEF new
  <2> QED BY <1>1, <2>1, <2>2 DEF RequestsNamed
<1> QED BY <1>2, <1>3

-----------------------------------------------------------------------------
(* Every handler keeps the types. *)
LEMMA ReserveInv ==
  ASSUME ServerInv, NEW r \in wire, NEW status,
         ReserveCheck(r) \/ ReserveRefuse(r, status) \/ Refuse(r, status) \/ ReserveNew(r)
  PROVE  ServerInv'
<1>1. Answered(r) \/ Continue(r)
  BY DEF ReserveCheck, ReserveRefuse, Refuse, ReserveNew
<1>2. wire' \subseteq Requests /\ RequestsNamed'
  BY <1>1, WireType
<1>3. ServerTypeOK /\ JobsNamed
  BY DEF ServerInv
<1>4. CASE ReserveCheck(r) \/ ReserveRefuse(r, status) \/ Refuse(r, status)
  <2>1. UNCHANGED <<scenario, request, issued, reservation, chunkFile, jobs, exceptions, late>>
    BY <1>4 DEF ReserveCheck, ReserveRefuse, Refuse
  <2> QED BY <1>2, <1>3, <2>1 DEF ServerInv, ServerTypeOK, JobsNamed
<1>5. CASE ReserveNew(r)
  <2>1. issued' \in 0..maxUuids
    BY <1>3, <1>5, ChunksAssumption DEF ServerTypeOK, ReserveNew
  <2>2. reservation' \in [Uuids -> {"none", "reserved", "uploading", "expired"}]
    BY <1>3, <1>5 DEF ServerTypeOK, ReserveNew
  <2>3. exceptions' \subseteq {"overbooked", "unreserved", "restored", "edited"}
    BY <1>3, <1>5 DEF ServerTypeOK, ReserveNew
  <2>4. UNCHANGED <<scenario, request, chunkFile, jobs, late>>
    BY <1>5 DEF ReserveNew
  <2> QED BY <1>2, <1>3, <2>1, <2>2, <2>3, <2>4 DEF ServerInv, ServerTypeOK, JobsNamed
<1> QED BY <1>4, <1>5

LEMMA UnreserveInv ==
  ASSUME ServerInv, NEW r \in wire, UnreserveCheck(r) \/ UnreserveDelete(r)
  PROVE  ServerInv'
<1>1. Answered(r) \/ Continue(r)
  BY DEF UnreserveCheck, UnreserveDelete
<1>2. wire' \subseteq Requests /\ RequestsNamed'
  BY <1>1, WireType
<1>3. ServerTypeOK /\ JobsNamed
  BY DEF ServerInv
<1>4. /\ reservation' \in [Uuids -> {"none", "reserved", "uploading", "expired"}]
      /\ chunkFile' \in [Uuids -> Chunked]
  BY <1>3 DEF UnreserveCheck, UnreserveDelete, SetComplete, DeleteChunk, ServerTypeOK, Chunked
<1>5. UNCHANGED <<scenario, request, issued, jobs, exceptions, late>>
  BY DEF UnreserveCheck, UnreserveDelete
<1> QED BY <1>2, <1>3, <1>4, <1>5 DEF ServerInv, ServerTypeOK, JobsNamed

LEMMA AddInv ==
  ASSUME ServerInv, NEW r \in wire, AddCheck(r) \/ NewChunk(r)
  PROVE  ServerInv'
<1>1. Answered(r) \/ Continue(r)
  BY DEF AddCheck, NewChunk
<1>2. wire' \subseteq Requests /\ RequestsNamed'
  BY <1>1, WireType
<1>3. ServerTypeOK /\ JobsNamed
  BY DEF ServerInv
<1>4. r \in Requests /\ r.chunk \in Chunks /\ r.uuid \in Uuids
  BY DEF ServerInv, ServerTypeOK, RequestsNamed, AddCheck, NewChunk, Requests
<1>5. reservation' \in [Uuids -> {"none", "reserved", "uploading", "expired"}]
  BY <1>3 DEF AddCheck, NewChunk, ServerTypeOK
<1>6. chunkFile' \in [Uuids -> Chunked] /\ late' \subseteq Uuids
  BY <1>3, <1>4 DEF AddCheck, NewChunk, ServerTypeOK, Chunked
<1>7. UNCHANGED <<scenario, request, issued, jobs, exceptions>>
  BY DEF AddCheck, NewChunk
<1> QED BY <1>2, <1>3, <1>5, <1>6, <1>7 DEF ServerInv, ServerTypeOK, JobsNamed

LEMMA CompleteInv ==
  ASSUME ServerInv, NEW r \in wire, CompleteStart(r)
  PROVE  ServerInv'
<1>1. Answered(r)
  BY DEF CompleteStart
<1>2. wire' \subseteq Requests /\ RequestsNamed'
  BY <1>1, WireType
<1>3. ServerTypeOK /\ JobsNamed
  BY DEF ServerInv
<1> DEFINE job == [uuid |-> r.uuid, pc |-> "open", row |-> "none", content |-> NoFile]
<1>4. job \in Jobs /\ job.uuid # NoUuid
  BY DEF ServerInv, ServerTypeOK, RequestsNamed, CompleteStart, Requests, Jobs, JobStates,
         RowStates, Chunked
<1>5. jobs' = Append(jobs, job) /\ Len(jobs) < maxJobs
  BY DEF CompleteStart
<1> HIDE DEF job
<1>6. jobs \in Seq(Jobs)
  BY <1>3 DEF ServerTypeOK
<1>7. jobs' \in Seq(Jobs) /\ JobsNamed'
  BY <1>3, <1>4, <1>5, <1>6, AppendProperties, ChunksAssumption DEF JobsNamed
<1>8. UNCHANGED <<scenario, request, issued, reservation, chunkFile, exceptions, late>>
  BY DEF CompleteStart
<1> QED BY <1>2, <1>3, <1>7, <1>8 DEF ServerInv, ServerTypeOK

(* So does every step of a completion. *)
LEMMA JobStepInv ==
  ASSUME ServerInv, NEW j \in DOMAIN jobs, JobStep(j)
  PROVE  ServerInv'
<1>1. ServerTypeOK /\ JobsNamed
  BY DEF ServerInv
<1>2. jobs[j] \in Jobs
  BY <1>1 DEF ServerTypeOK
<1>3. /\ reservation' \in [Uuids -> {"none", "reserved", "uploading", "expired"}]
      /\ chunkFile' \in [Uuids -> Chunked]
      /\ exceptions' \subseteq {"overbooked", "unreserved", "restored", "edited"}
  BY <1>1 DEF JobStep, JobOpen, JobMove, JobMisses, JobFails, JobDiscards, JobSave, JobRelease,
              SetComplete, DeleteChunk, ServerTypeOK, Chunked
<1>4. UNCHANGED <<scenario, request, issued, wire, late>>
  BY DEF JobStep, JobOpen, JobMove, JobMisses, JobFails, JobDiscards, JobSave, JobRelease
<1>5. jobs[j].pc # "done" /\ jobs[j].uuid # NoUuid /\ jobs[j].uuid \in Uuids
  BY <1>1, <1>2 DEF JobStep, JobOpen, JobMove, JobMisses, JobFails, JobDiscards, JobSave,
                    JobRelease, JobsNamed, Jobs
<1>6. chunkFile[jobs[j].uuid] \in Chunked /\ NoFile \in Chunked
      /\ jobs[j].row \in RowStates /\ jobs[j].content \in Chunked
  BY <1>1, <1>2, <1>5 DEF ServerTypeOK, Jobs, Chunked
<1>7. \E pc \in JobStates, row1 \in RowStates, content \in Chunked :
          SetJob(j, pc, row1, content)
  BY <1>6 DEF JobStep, JobOpen, JobMove, JobMisses, JobFails, JobDiscards, JobSave, JobRelease,
              JobStates, RowStates
<1>8. jobs' \in Seq(Jobs) /\ JobsNamed'
  BY <1>5, <1>7, SetJobType
<1> QED BY <1>1, <1>3, <1>4, <1>8 DEF ServerInv, ServerTypeOK, RequestsNamed

(* So do the clock and the owner's handlers. *)
LEMMA TimeInv ==
  ASSUME ServerInv,
         \/ \E u \in Uuids : ReservationExpires(u)
         \/ cleanUp \/ RequestExpires
         \/ \E j \in DOMAIN jobs : PendingFileRemoved(j)
         \/ \E r \in wire : LoseRequest(r)
  PROVE  ServerInv'
<1>1. ServerTypeOK /\ JobsNamed /\ RequestsNamed
  BY DEF ServerInv
<1>2. ASSUME NEW u \in Uuids, ReservationExpires(u) PROVE ServerInv'
  BY <1>1, <1>2 DEF ServerInv, ServerTypeOK, JobsNamed, RequestsNamed, ReservationExpires
<1>3. CASE cleanUp
  <2>1. reservation' \in [Uuids -> {"none", "reserved", "uploading", "expired"}]
    BY <1>1, <1>3 DEF ServerTypeOK, cleanUp
  <2> QED BY <1>1, <1>3, <2>1 DEF ServerInv, ServerTypeOK, JobsNamed, RequestsNamed, cleanUp
<1>4. CASE RequestExpires
  BY <1>1, <1>4 DEF ServerInv, ServerTypeOK, JobsNamed, RequestsNamed, RequestExpires
<1>5. ASSUME NEW j \in DOMAIN jobs, PendingFileRemoved(j) PROVE ServerInv'
  <2>1. jobs[j] \in Jobs
    BY <1>1 DEF ServerTypeOK
  <2>2. jobs[j].pc \in JobStates /\ "gone" \in RowStates /\ jobs[j].content \in Chunked
    BY <2>1 DEF Jobs, RowStates
  <2>3. jobs[j].pc = "done" \/ jobs[j].uuid # NoUuid
    BY <1>1 DEF JobsNamed
  <2>4. jobs' \in Seq(Jobs) /\ JobsNamed'
    BY <1>5, <2>2, <2>3, SetJobType DEF PendingFileRemoved
  <2> QED BY <1>1, <1>5, <2>4 DEF ServerInv, ServerTypeOK, RequestsNamed, PendingFileRemoved
<1>6. ASSUME NEW r \in wire, LoseRequest(r) PROVE ServerInv'
  BY <1>1, <1>6 DEF ServerInv, ServerTypeOK, JobsNamed, RequestsNamed, LoseRequest
<1> QED BY <1>2, <1>3, <1>4, <1>5, <1>6

LEMMA FileInv ==
  ASSUME ServerInv, NEW j, FileDelete(j) \/ FileRestore(j)
  PROVE  ServerInv'
<1>1. ServerTypeOK /\ JobsNamed /\ RequestsNamed
  BY DEF ServerInv
<1>2. exceptions' \subseteq {"overbooked", "unreserved", "restored", "edited"}
  BY <1>1 DEF FileDelete, FileRestore, ServerTypeOK
<1>3. UNCHANGED <<scenario, request, issued, reservation, chunkFile, wire, late>>
  BY DEF FileDelete, FileRestore
<1>4. CASE j \in DOMAIN jobs
  <2>1. jobs[j] \in Jobs
    BY <1>1, <1>4 DEF ServerTypeOK
  <2>2. /\ jobs[j].pc \in JobStates /\ "pending" \in RowStates /\ "live" \in RowStates
        /\ jobs[j].content \in Chunked
    BY <2>1 DEF Jobs, RowStates
  <2>3. jobs[j].pc = "done" \/ jobs[j].uuid # NoUuid
    BY <1>1, <1>4 DEF JobsNamed
  <2>4. jobs' \in Seq(Jobs) /\ JobsNamed'
    BY <2>2, <2>3, SetJobType DEF FileDelete, FileRestore
  <2> QED BY <1>1, <1>2, <1>3, <2>4 DEF ServerInv, ServerTypeOK, RequestsNamed
<1>5. CASE j \notin DOMAIN jobs
  <2>1. jobs' = jobs
    BY <1>1, <1>5 DEF FileDelete, FileRestore, SetJob, ServerTypeOK
  <2> QED BY <1>1, <1>2, <1>3, <2>1 DEF ServerInv, ServerTypeOK, RequestsNamed, JobsNamed
<1> QED BY <1>4, <1>5

LEMMA OwnerHandlersInv ==
  ASSUME ServerInv,
         \/ DeleteFilesOfRequest \/ DeleteFileRequest \/ DeleteApiKey
         \/ \E limit \in Limits, isNew \in BOOLEAN : SaveFileRequest(limit, isNew)
  PROVE  ServerInv'
<1>1. ServerTypeOK /\ JobsNamed /\ RequestsNamed
  BY DEF ServerInv
<1>2. CASE DeleteFilesOfRequest
  <2> DEFINE new(j) == IF jobs[j].row = "none" THEN jobs[j]
                       ELSE [jobs[j] EXCEPT !.row = "gone"]
  <2>1. jobs \in Seq(Jobs) /\ jobs' = [j \in DOMAIN jobs |-> new(j)]
    BY <1>1, <1>2 DEF ServerTypeOK, DeleteFilesOfRequest
  <2>2. ASSUME NEW j \in DOMAIN jobs
        PROVE  new(j) \in Jobs /\ new(j).pc = jobs[j].pc /\ new(j).uuid = jobs[j].uuid
    <3>1. jobs[j] \in Jobs
      BY <2>1
    <3> QED BY <3>1 DEF Jobs, RowStates
  <2> HIDE DEF new
  <2>3. DOMAIN jobs' = 1..Len(jobs) /\ Len(jobs) \in Nat
    BY <2>1
  <2>4. jobs' \in Seq(Jobs) /\ Len(jobs') = Len(jobs)
    BY <2>1, <2>2, <2>3
  <2>5. JobsNamed'
    BY <1>1, <2>1, <2>2, <2>4 DEF JobsNamed
  <2> QED BY <1>1, <1>2, <2>4, <2>5 DEF ServerInv, ServerTypeOK, RequestsNamed, DeleteFilesOfRequest
<1>3. CASE DeleteFileRequest \/ DeleteApiKey
  BY <1>1, <1>3 DEF ServerInv, ServerTypeOK, RequestsNamed, JobsNamed, DeleteFileRequest, DeleteApiKey
<1>4. ASSUME NEW limit \in Limits, NEW isNew \in BOOLEAN, SaveFileRequest(limit, isNew)
      PROVE  ServerInv'
  <2>1. request' \in [exists : BOOLEAN, key : BOOLEAN, expired : BOOLEAN, maxFiles : Limits]
    BY <1>1, <1>4 DEF SaveFileRequest, ServerTypeOK
  <2> QED BY <1>1, <1>4, <2>1 DEF ServerInv, ServerTypeOK, RequestsNamed, JobsNamed, SaveFileRequest
<1> QED BY <1>2, <1>3, <1>4

(* A restart: every goroutine has ended, and works on its upload no more.    *)
LEMMA ServerRestartInv ==
  ASSUME ServerInv, ServerRestart
  PROVE  ServerInv' /\ wire' = {} /\ UNCHANGED <<scenario, request>>
<1>1. ServerTypeOK /\ JobsNamed
  BY DEF ServerInv
<1> DEFINE new(j) == Ended(jobs[j])
<1>2. jobs \in Seq(Jobs) /\ jobs' = [j \in DOMAIN jobs |-> new(j)]
  BY <1>1 DEF ServerTypeOK, ServerRestart
<1>3. ASSUME NEW j \in DOMAIN jobs
      PROVE  /\ new(j) \in Jobs /\ new(j).uuid = jobs[j].uuid
             /\ new(j).pc # "done" => jobs[j].pc # "done"
  <2>1. jobs[j] \in Jobs
    BY <1>2
  <2> QED BY <2>1 DEF Jobs, JobStates, Ended
<1> HIDE DEF new
<1>4. DOMAIN jobs' = 1..Len(jobs) /\ Len(jobs) \in Nat
  BY <1>2
<1>5. jobs' \in Seq(Jobs) /\ Len(jobs') = Len(jobs)
  BY <1>2, <1>3, <1>4
<1>6. JobsNamed'
  BY <1>1, <1>2, <1>3, <1>5 DEF JobsNamed
<1> QED BY <1>1, <1>5, <1>6 DEF ServerInv, ServerTypeOK, RequestsNamed, ServerRestart

(* And so it begins. *)
LEMMA ServerInitInv == ServerInit => ServerInv
<1> SUFFICES ASSUME ServerInit PROVE ServerInv
  OBVIOUS
<1> DEFINE present == Scenarios[scenario].present
           file == [uuid |-> NoUuid, pc |-> "done", row |-> "live", content |-> Chunks]
<1>1. Scenarios[scenario] \in Scenario /\ scenario \in DOMAIN Scenarios
  BY ScenariosAssumption DEF ServerInit
<1>2. present \in 0..maxJobs /\ Scenarios[scenario].maxFiles \in Limits
  BY <1>1 DEF Scenario
<1>3. file \in Jobs /\ file.pc = "done"
  BY DEF Jobs, JobStates, RowStates, Chunked
<1>4. jobs = [j \in 1..present |-> file]
  BY DEF ServerInit
<1> HIDE DEF present, file
<1>5. jobs \in Seq(Jobs) /\ Len(jobs) = present
  BY <1>2, <1>3, <1>4, ChunksAssumption
<1>6. JobsNamed
  BY <1>2, <1>3, <1>4, <1>5, ChunksAssumption DEF JobsNamed
<1>7. ServerTypeOK
  BY <1>1, <1>2, <1>5, ChunksAssumption DEF ServerInit, ServerTypeOK, Chunked, Happens
<1>8. RequestsNamed
  BY DEF ServerInit, RequestsNamed
<1> QED BY <1>6, <1>7, <1>8 DEF ServerInv

-----------------------------------------------------------------------------
(* The guests *)

Sending == {"reserve", "add", "complete"}
UuidOf(p) == entry[Current(p)].uuid

Entry == [status : {"none", "pending", "uploading", "completed", "error", "removed"},
          removed : BOOLEAN, aborted : BOOLEAN, uuid : Uuids \cup {NoUuid}]
Loop == [pc : {"idle", "next", "reserve", "add", "complete"}, pos : Nat,
         chunk : Chunks \cup {0}, attempt : 0..retries, waits : 0..maxWaits]

Answers == [status : {-1, 0, 200, 400, 401, 404, 429}, uuid : Uuids \cup {NoUuid}]

(* While startUpload waits for an answer it works on an entry of the page,  *)
(* which has an upload once the reservation is made.                        *)
LoopNamed ==
    \A p \in Clients :
        /\ loop[p].pc \in Sending => loop[p].pos \in DOMAIN filesMap[p]
        /\ loop[p].pc = "add" => loop[p].chunk \in Chunks
        /\ loop[p].pc \in {"add", "complete"} => UuidOf(p) # NoUuid

(* A page waits for one request at a time, the one its loop is about, or has *)
(* the answer to it.                                                         *)
OneRequest ==
    \A r \in wire : r.waiting =>
        /\ loop[r.client].pc = r.kind /\ answer[r.client] = NoAnswer
        /\ \A s \in wire : s.waiting /\ s.client = r.client => s = r

AnswerNamed ==
    \A p \in Clients : answer[p] # NoAnswer =>
        /\ loop[p].pc \in Sending
        /\ loop[p].pc = "reserve" /\ answer[p].status = 200 => answer[p].uuid # NoUuid

LoopInv ==
    /\ LoopNamed /\ OneRequest /\ AnswerNamed
    /\ loop \in [Clients -> Loop] /\ answer \in [Clients -> Answers]

(* PageSettled, with what the loop has to do with it: an entry shows an     *)
(* upload only while the loop of its page is about it.                      *)
EntriesOwned == \A p \in Clients : \A i \in DOMAIN filesMap[p] : PageOf[filesMap[p][i]] = p
ButtonShown ==
    \A p \in Clients :
        /\ isUploadInProgress[p] <=> loop[p].pc # "idle"
        /\ tabOpen[p] => (disabled[p] <=> ButtonDisabled(p, entry, isUploadInProgress[p]))
UploadShownBy ==
    \A e \in Entries :
        /\ entry[e].aborted => entry[e].removed
        /\ tabOpen[PageOf[e]] /\ entry[e].status = "uploading" /\ ~entry[e].removed =>
               loop[PageOf[e]].pc \in Sending /\ Current(PageOf[e]) = e

SettledInv == EntriesOwned /\ ButtonShown /\ UploadShownBy

GuestInv == PageTypeOK /\ LoopInv /\ SettledInv

(* An action: the loop of p goes on to l, and the answer that it has waited  *)
(* for is gone.                                                              *)
GoesOn(p, l) ==
    /\ loop' = [loop EXCEPT ![p] = l]
    /\ answer' = [answer EXCEPT ![p] = NoAnswer]
    /\ entry' \in [Entries -> Entry]
    /\ \A e \in Entries : entry[e].uuid # NoUuid => entry'[e].uuid # NoUuid
    /\ UNCHANGED filesMap
    /\ l.pc \in Sending => l.pos \in DOMAIN filesMap[p]
    /\ l.pc = "add" => l.chunk \in Chunks
    /\ l.pc \in {"add", "complete"} => entry'[filesMap[p][l.pos]].uuid # NoUuid

(* An action: what p has waited for is gone, and what it waits for now, if   *)
(* anything, is what l is about.                                             *)
WaitsOnlyFor(p, l) ==
    \E req : \A r \in wire' : r.waiting =>
        \/ r \in wire /\ r.client # p
        \/ r = req /\ r.client = p /\ r.kind = l.pc

(* What the loop of a page may become, whoever its step is by: the answer    *)
(* and the requests that it has waited for are gone, and what it sends next  *)
(* is what it waits for.                                                     *)
LEMMA LoopStep ==
  ASSUME GuestInv, NEW p \in Clients, NEW l \in Loop, wire \subseteq Requests,
         GoesOn(p, l), WaitsOnlyFor(p, l)
  PROVE  LoopInv'
<1>1. PageTypeOK /\ LoopNamed /\ OneRequest /\ AnswerNamed
  BY DEF GuestInv, LoopInv
<1>2. /\ loop \in [Clients -> Loop] /\ entry \in [Entries -> Entry]
      /\ answer \in [Clients -> Answers] /\ filesMap \in [Clients -> Seq(Entries)]
  BY <1>1 DEF PageTypeOK, Loop, Entry, Answers
<1> USE DEF GoesOn
<1>3. loop' \in [Clients -> Loop]
  BY <1>2
<1>4. answer' \in [Clients -> Answers]
  BY <1>2 DEF NoAnswer, Answers
<1>5. /\ loop'[p] = l /\ answer'[p] = NoAnswer
      /\ \A q \in Clients \ {p} : loop'[q] = loop[q] /\ answer'[q] = answer[q]
  BY <1>2
<1>6. LoopNamed'
  <2> SUFFICES ASSUME NEW q \in Clients
               PROVE  /\ loop'[q].pc \in Sending => loop'[q].pos \in DOMAIN filesMap[q]
                      /\ loop'[q].pc = "add" => loop'[q].chunk \in Chunks
                      /\ loop'[q].pc \in {"add", "complete"}
                            => entry'[filesMap[q][loop'[q].pos]].uuid # NoUuid
    BY DEF LoopNamed, UuidOf, Current
  <2>1. CASE q = p
    BY <1>5, <2>1
  <2>2. CASE q # p
    <3>1. loop'[q] = loop[q]
      BY <1>5, <2>2
    <3>2. /\ loop[q].pc \in Sending => loop[q].pos \in DOMAIN filesMap[q]
          /\ loop[q].pc = "add" => loop[q].chunk \in Chunks
          /\ loop[q].pc \in {"add", "complete"} => entry[filesMap[q][loop[q].pos]].uuid # NoUuid
      BY <1>1 DEF LoopNamed, UuidOf, Current
    <3>3. loop[q].pc \in Sending => filesMap[q][loop[q].pos] \in Entries
      BY <1>2, <3>2
    <3> QED BY <3>1, <3>2, <3>3 DEF Sending
  <2> QED BY <2>1, <2>2
<1>7. OneRequest'
  <2>1. \A r \in wire : r.client \in Clients
    BY DEF Requests
  <2> PICK req : \A r \in wire' : r.waiting =>
             \/ r \in wire /\ r.client # p
             \/ r = req /\ r.client = p /\ r.kind = l.pc
    BY DEF WaitsOnlyFor
  <2> QED BY <1>1, <1>5, <2>1 DEF OneRequest
<1>8. AnswerNamed'
  BY <1>1, <1>5 DEF AnswerNamed
<1> QED BY <1>3, <1>4, <1>6, <1>7, <1>8 DEF LoopInv

(* A request that a page sends, or gives up, or sends to give back what it  *)
(* has reserved, is one the server expects.                                 *)
LEMMA RequestType ==
  ASSUME NEW p \in Clients, NEW kind \in {"reserve", "unreserve", "add", "complete"},
         NEW uuid \in Uuids \cup {NoUuid}, NEW chunk \in Chunks \cup {0},
         kind = "add" => chunk \in Chunks, kind # "reserve" => uuid # NoUuid
  PROVE  /\ Request(p, kind, uuid, chunk) \in Requests
         /\ Request(p, kind, uuid, chunk).kind = kind
         /\ Request(p, kind, uuid, chunk).client = p
         /\ Request(p, kind, uuid, chunk).kind = "add"
               => Request(p, kind, uuid, chunk).chunk \in Chunks
         /\ Request(p, kind, uuid, chunk).kind # "reserve"
               => Request(p, kind, uuid, chunk).uuid # NoUuid
  BY DEF Request, Requests

LEMMA UnreserveType ==
  ASSUME NEW p \in Clients, NEW uuid \in Uuids \cup {NoUuid}
  PROVE  \A r \in unreserve(p, uuid) :
            r \in Requests /\ r.kind = "unreserve" /\ r.uuid = uuid
            /\ r.uuid # NoUuid /\ ~r.waiting /\ r.phase = "sent"
  BY DEF Request, Requests, unreserve

LEMMA GivenUpType ==
  ASSUME ServerInv, NEW p \in Clients
  PROVE  \A r \in GivenUp(p) :
            /\ r \in Requests /\ ~r.waiting
            /\ r.kind = "add" => r.chunk \in Chunks
            /\ r.kind # "reserve" => r.uuid # NoUuid
            /\ \E s \in wire : /\ s.waiting /\ s.client = p /\ s.kind = r.kind
                               /\ s.uuid = r.uuid /\ s.chunk = r.chunk
<1>1. wire \subseteq Requests /\ RequestsNamed
  BY DEF ServerInv, ServerTypeOK
<1> QED BY <1>1 DEF GivenUp, Waiting, Requests, RequestsNamed

LEMMA OthersUnchanged ==
  ASSUME ServerInv,
         UNCHANGED <<scenario, request, issued, reservation, chunkFile, jobs, exceptions, late>>,
         wire' \subseteq Requests, RequestsNamed'
  PROVE  ServerInv'
  BY DEF ServerInv, ServerTypeOK, JobsNamed

LEMMA PageTypes ==
  ASSUME PageTypeOK
  PROVE  /\ filesMap \in [Clients -> Seq(Entries)]
         /\ entry \in [Entries -> Entry] /\ loop \in [Clients -> Loop]
         /\ answer \in [Clients -> Answers]
         /\ isUploadInProgress \in [Clients -> BOOLEAN] /\ disabled \in [Clients -> BOOLEAN]
         /\ maxFilesRemaining \in [Clients -> Int] /\ isUnlimited \in [Clients -> BOOLEAN]
         /\ tabOpen \in [Clients -> BOOLEAN] /\ faults \in 0..Scenarios[scenario].maxFaults
  BY DEF PageTypeOK, Entry, Loop, Answers

LEMMA Constants ==
  /\ 1 \in 0..retries
  /\ numChunks \in Nat \ {0} /\ retries \in Nat \ {0} /\ maxWaits \in Nat
  /\ FirstChunk \in Chunks
  /\ \A c \in Chunks : ~IsLastChunk(c) => c + 1 \in Chunks
  /\ Idle \in Loop /\ Idle.pc = "idle" /\ Idle.chunk = 0 /\ Idle.pos = 0
  /\ Idle.attempt = 0 /\ Idle.waits = 0
  BY ChunksAssumption, EntriesAssumption DEF FirstChunk, IsLastChunk, Chunks, Idle, Loop

(* An action: p sends a request that l is about, or nothing. *)
MaySend(p, l) ==
    \/ UNCHANGED wire
    \/ /\ l.pc \in Sending
       /\ \E uuid \in Uuids \cup {NoUuid} :
             /\ l.pc # "reserve" => uuid # NoUuid
             /\ wire' = wire \cup {Request(p, l.pc, uuid, l.chunk)}

LEMMA NextRequest ==
  ASSUME ServerInv, GuestInv, NEW p \in Clients, NEW l \in Loop,
         \A r \in wire : ~(r.waiting /\ r.client = p),
         GoesOn(p, l), MaySend(p, l)
  PROVE  wire' \subseteq Requests /\ RequestsNamed' /\ LoopInv'
<1>1. wire \subseteq Requests /\ RequestsNamed
  BY DEF ServerInv, ServerTypeOK
<1>2. CASE UNCHANGED wire
  <2>1. WaitsOnlyFor(p, l)
    BY <1>2 DEF WaitsOnlyFor
  <2>2. LoopInv'
    BY <1>1, <2>1, LoopStep
  <2> QED BY <1>1, <1>2, <2>2 DEF RequestsNamed
<1>3. ASSUME l.pc \in Sending, NEW uuid \in Uuids \cup {NoUuid},
             l.pc # "reserve" => uuid # NoUuid,
             wire' = wire \cup {Request(p, l.pc, uuid, l.chunk)}
      PROVE  wire' \subseteq Requests /\ RequestsNamed' /\ LoopInv'
  <2>1. l.pc \in {"reserve", "unreserve", "add", "complete"} /\ l.chunk \in Chunks \cup {0}
    BY <1>3 DEF Sending, Loop
  <2>2. l.pc = "add" => l.chunk \in Chunks
    BY DEF GoesOn
  <2> DEFINE req == Request(p, l.pc, uuid, l.chunk)
  <2>3. /\ req \in Requests /\ req.kind = l.pc /\ req.client = p
        /\ req.kind = "add" => req.chunk \in Chunks
        /\ req.kind # "reserve" => req.uuid # NoUuid
    BY <1>3, <2>1, <2>2, RequestType
  <2>4. wire' = wire \cup {req}
    BY <1>3
  <2> HIDE DEF req
  <2>5. wire' \subseteq Requests /\ RequestsNamed'
    BY <1>1, <2>3, <2>4 DEF RequestsNamed
  <2>6. WaitsOnlyFor(p, l)
    BY <2>3, <2>4 DEF WaitsOnlyFor
  <2>7. LoopInv'
    BY <1>1, <2>6, LoopStep
  <2> QED BY <2>5, <2>7
<1> QED BY <1>2, <1>3 DEF MaySend

(* A page with an answer, or between two entries, waits for nothing. *)
LEMMA NoneWaits ==
  ASSUME GuestInv, NEW p \in Clients, answer[p] # NoAnswer \/ loop[p].pc \notin Sending,
         wire \subseteq Requests
  PROVE  \A r \in wire : ~(r.waiting /\ r.client = p)
<1> SUFFICES ASSUME NEW r \in wire, r.waiting, r.client = p,
                    loop[p].pc = r.kind, answer[p] = NoAnswer
             PROVE  FALSE
  BY DEF GuestInv, LoopInv, OneRequest
<1>1. r.kind = "unreserve"
  BY DEF Sending, Requests
<1>2. loop[p] \in Loop
  BY PageTypes DEF GuestInv
<1> QED BY <1>1, <1>2 DEF Loop

-----------------------------------------------------------------------------
(* An action: with the loop of p at l, its button and its entries are as     *)
(* they should be.                                                           *)
Settles(p, l) ==
    /\ isUploadInProgress' \in [Clients -> BOOLEAN] /\ disabled' \in [Clients -> BOOLEAN]
    /\ \A q \in Clients \ {p} : /\ isUploadInProgress'[q] = isUploadInProgress[q]
                               /\ disabled'[q] = disabled[q] /\ tabOpen'[q] = tabOpen[q]
    /\ \A e \in Entries : PageOf[e] # p => entry'[e] = entry[e]
    /\ isUploadInProgress'[p] <=> l.pc # "idle"
    /\ tabOpen'[p] => (disabled'[p] <=> ButtonDisabled(p, entry', l.pc # "idle"))
    /\ \A e \in Entries : PageOf[e] = p /\ entry'[e].aborted => entry'[e].removed
    /\ \A e \in Entries :
          /\ PageOf[e] = p /\ tabOpen'[p]
          /\ entry'[e].status = "uploading" /\ ~entry'[e].removed
          => l.pc \in Sending /\ filesMap[p][l.pos] = e

LEMMA SettledStep ==
  ASSUME GuestInv, NEW p \in Clients, NEW l \in Loop, GoesOn(p, l), Settles(p, l)
  PROVE  SettledInv'
<1>1. PageTypeOK /\ EntriesOwned /\ ButtonShown /\ UploadShownBy
  BY DEF GuestInv, SettledInv
<1>2. /\ loop \in [Clients -> Loop] /\ entry \in [Entries -> Entry] /\ PageOf \in [Entries -> Clients]
      /\ UNCHANGED filesMap /\ loop' = [loop EXCEPT ![p] = l] /\ entry' \in [Entries -> Entry]
  BY <1>1, PageTypes, EntriesAssumption DEF GoesOn
<1>3. EntriesOwned'
  BY <1>1, <1>2 DEF EntriesOwned
<1>4. ButtonShown'
  <2> SUFFICES ASSUME NEW q \in Clients
               PROVE  /\ isUploadInProgress'[q] <=> loop'[q].pc # "idle"
                      /\ tabOpen'[q] => (disabled'[q] <=>
                                            ButtonDisabled(q, entry', isUploadInProgress'[q]))
    BY DEF ButtonShown, ButtonDisabled
  <2>1. CASE q = p
    BY <1>2, <2>1 DEF Settles, ButtonDisabled
  <2>2. CASE q # p
    <3>1. /\ isUploadInProgress'[q] = isUploadInProgress[q] /\ loop'[q] = loop[q]
          /\ disabled'[q] = disabled[q] /\ tabOpen'[q] = tabOpen[q]
      BY <1>2, <2>2 DEF Settles
    <3>2. \A e \in Entries : PageOf[e] = q => entry'[e] = entry[e]
      BY <2>2 DEF Settles
    <3>3. ButtonDisabled(q, entry', isUploadInProgress[q])
             <=> ButtonDisabled(q, entry, isUploadInProgress[q])
      BY <3>2 DEF ButtonDisabled
    <3>4. /\ isUploadInProgress[q] <=> loop[q].pc # "idle"
          /\ tabOpen[q] => (disabled[q] <=> ButtonDisabled(q, entry, isUploadInProgress[q]))
      BY <1>1 DEF ButtonShown
    <3> QED BY <3>1, <3>3, <3>4
  <2> QED BY <2>1, <2>2
<1>5. UploadShownBy'
  <2>0. \A e \in Entries : entry'[e].aborted => entry'[e].removed
    BY <1>1, <1>2 DEF Settles, UploadShownBy
  <2> SUFFICES ASSUME NEW e \in Entries, tabOpen'[PageOf[e]],
                      entry'[e].status = "uploading", ~entry'[e].removed
               PROVE  /\ loop'[PageOf[e]].pc \in Sending
                      /\ filesMap[PageOf[e]][loop'[PageOf[e]].pos] = e
    BY <1>2, <2>0 DEF UploadShownBy, Current
  <2>1. PageOf[e] \in Clients
    BY <1>2
  <2>2. CASE PageOf[e] = p
    BY <1>2, <2>1, <2>2 DEF Settles
  <2>3. CASE PageOf[e] # p
    <3>1. tabOpen'[PageOf[e]] = tabOpen[PageOf[e]] /\ entry'[e] = entry[e]
          /\ loop'[PageOf[e]] = loop[PageOf[e]]
      BY <1>2, <2>1, <2>3 DEF Settles
    <3> QED BY <1>1, <3>1 DEF UploadShownBy, Current
  <2> QED BY <2>2, <2>3
<1> QED BY <1>3, <1>4, <1>5 DEF SettledInv

(* So a step of a page that waits for nothing keeps all of this. *)
LEMMA PageGoesOn ==
  ASSUME ServerInv, GuestInv, NEW p \in Clients, NEW l \in Loop,
         \A r \in wire : ~(r.waiting /\ r.client = p),
         GoesOn(p, l), MaySend(p, l), Settles(p, l),
         UNCHANGED <<scenario, isUnlimited, faults>>, tabOpen' \in [Clients -> BOOLEAN],
         maxFilesRemaining' \in [Clients -> Int]
  PROVE  wire' \subseteq Requests /\ RequestsNamed' /\ GuestInv'
<1>1. wire' \subseteq Requests /\ RequestsNamed' /\ LoopInv'
  BY NextRequest
<1>2. SettledInv'
  BY SettledStep
<1>3. PageTypeOK
  BY DEF GuestInv
<1>4. PageTypeOK'
  BY <1>1, <1>3 DEF PageTypeOK, LoopInv, Loop, Entry, Answers, GoesOn, Settles
<1> QED BY <1>1, <1>2, <1>4 DEF GuestInv

-----------------------------------------------------------------------------
(* The steps of a page *)

LEMMA CurrentType ==
  ASSUME GuestInv, NEW p \in Clients, loop[p].pc \in Sending
  PROVE  /\ loop[p].pos \in DOMAIN filesMap[p] /\ Current(p) \in Entries
         /\ PageOf[Current(p)] = p
<1>1. loop[p].pos \in DOMAIN filesMap[p]
  BY DEF GuestInv, LoopInv, LoopNamed
<1>2. filesMap \in [Clients -> Seq(Entries)] /\ EntriesOwned
  BY PageTypes DEF GuestInv, SettledInv
<1> QED BY <1>1, <1>2 DEF Current, EntriesOwned

LEMMA IdleAnswer ==
  ASSUME GuestInv, NEW p \in Clients, loop[p].pc \notin Sending
  PROVE  answer[p] = NoAnswer /\ answer = [answer EXCEPT ![p] = NoAnswer]
<1>1. answer[p] = NoAnswer
  BY DEF GuestInv, LoopInv, AnswerNamed
<1>2. answer \in [Clients -> Answers]
  BY DEF GuestInv, LoopInv
<1> QED BY <1>1, <1>2

LEMMA InitUploadInv ==
  ASSUME ServerInv, GuestInv, NEW p \in Clients, initUpload(p)
  PROVE  ServerInv' /\ GuestInv'
<1>1. PageTypeOK /\ ButtonShown /\ UploadShownBy
  BY DEF GuestInv, SettledInv
<1>2. ~isUploadInProgress[p] /\ loop[p].pc = "idle"
  BY <1>1 DEF ButtonShown, ButtonDisabled, initUpload
<1> DEFINE l == [Idle EXCEPT !.pc = "next"]
<1>3. l \in Loop /\ l.pc = "next"
  BY Constants DEF Loop
<1>4. /\ loop' = [loop EXCEPT ![p] = l] /\ UNCHANGED <<filesMap, entry, answer, wire>>
      /\ isUploadInProgress' = [isUploadInProgress EXCEPT ![p] = TRUE]
      /\ disabled' = [disabled EXCEPT ![p] = TRUE]
      /\ UNCHANGED <<maxFilesRemaining, tabOpen, isUnlimited, faults, scenario>>
  BY DEF initUpload, serverVars
<1> HIDE DEF l
<1>5. answer' = [answer EXCEPT ![p] = NoAnswer]
  BY <1>2, <1>4, IdleAnswer DEF Sending
<1>6. GoesOn(p, l)
  BY <1>1, <1>3, <1>4, <1>5, PageTypes DEF GoesOn, Sending
<1>7. Settles(p, l)
  BY <1>1, <1>2, <1>3, <1>4, PageTypes DEF Settles, ButtonDisabled, UploadShownBy, Sending
<1>8. wire \subseteq Requests
  BY DEF ServerInv, ServerTypeOK
<1>9. \A r \in wire : ~(r.waiting /\ r.client = p)
  BY <1>2, <1>8, NoneWaits DEF Sending
<1>10. GuestInv'
  BY <1>1, <1>3, <1>4, <1>6, <1>7, <1>9, PageTypes, PageGoesOn DEF MaySend
<1>11. ServerInv'
  BY DEF ServerInv, ServerTypeOK, RequestsNamed, JobsNamed, initUpload, serverVars
<1> QED BY <1>10, <1>11

LEMMA StartEntryInv ==
  ASSUME ServerInv, GuestInv, NEW p \in Clients, StartEntry(p)
  PROVE  ServerInv' /\ GuestInv'
<1>1. PageTypeOK /\ ButtonShown /\ UploadShownBy
  BY DEF GuestInv, SettledInv
<1>2. tabOpen[p] /\ loop[p].pc = "next"
  BY DEF StartEntry
<1> PICK i \in Ahead(p) :
      /\ entry' = [entry EXCEPT ![filesMap[p][i]].status = "uploading"]
      /\ loop' = [loop EXCEPT ![p] = [Idle EXCEPT !.pc = "reserve", !.pos = i, !.attempt = 1]]
  BY DEF StartEntry
<1> DEFINE l == [Idle EXCEPT !.pc = "reserve", !.pos = i, !.attempt = 1]
           e == filesMap[p][i]
<1>3. i \in DOMAIN filesMap[p] /\ i \in Nat /\ e \in Entries /\ PageOf[e] = p
      /\ ~entry[e].removed
  <2>1. filesMap[p] \in Seq(Entries) /\ loop[p] \in Loop
    BY <1>1, PageTypes
  <2>2. loop[p].pos \in Nat
    BY <2>1 DEF Loop
  <2>3. i \in DOMAIN filesMap[p] /\ i \in Nat /\ ~entry[e].removed
    BY <2>1, <2>2 DEF Ahead
  <2> QED BY <2>1, <2>3 DEF GuestInv, SettledInv, EntriesOwned
<1>4. l \in Loop /\ l.pc = "reserve" /\ l.pos = i /\ l.chunk = 0
  BY <1>3, Constants DEF Loop, Idle
<1>5. /\ loop' = [loop EXCEPT ![p] = l] /\ entry' = [entry EXCEPT ![e].status = "uploading"]
      /\ wire' = wire \cup {Request(p, "reserve", NoUuid, 0)}
      /\ UNCHANGED <<filesMap, answer, isUploadInProgress, disabled, maxFilesRemaining,
                     tabOpen, isUnlimited, faults>>
      /\ UNCHANGED <<scenario, request, issued, reservation, chunkFile, jobs, exceptions, late>>
  BY DEF StartEntry
<1> HIDE DEF l, e
<1>6. answer' = [answer EXCEPT ![p] = NoAnswer]
  BY <1>2, <1>5, IdleAnswer DEF Sending
<1>7. /\ entry' \in [Entries -> Entry] /\ entry \in [Entries -> Entry]
      /\ \A f \in Entries : /\ f # e => entry'[f] = entry[f]
                            /\ entry'[f].uuid = entry[f].uuid
                            /\ entry'[f].aborted = entry[f].aborted
                            /\ entry'[f].removed = entry[f].removed
  BY <1>1, <1>3, <1>5, PageTypes DEF Entry
<1>8. GoesOn(p, l)
  BY <1>3, <1>4, <1>5, <1>6, <1>7 DEF GoesOn, Sending
<1>9. Settles(p, l)
  <2>1. isUploadInProgress[p] /\ disabled[p]
    BY <1>1, <1>2 DEF ButtonShown, ButtonDisabled
  <2>2. \A f \in Entries : PageOf[f] = p /\ f # e =>
            ~(entry'[f].status = "uploading" /\ ~entry'[f].removed)
    BY <1>1, <1>2, <1>7 DEF UploadShownBy, Sending
  <2>3. \A f \in Entries : entry'[f].aborted => entry'[f].removed
    BY <1>1, <1>7 DEF UploadShownBy
  <2>4. filesMap[p][l.pos] = e
    BY <1>4 DEF e
  <2> QED BY <1>1, <1>3, <1>4, <1>5, <1>7, <2>1, <2>2, <2>3, <2>4, PageTypes
          DEF Settles, ButtonDisabled, Sending
<1>10. wire \subseteq Requests
  BY DEF ServerInv, ServerTypeOK
<1>11. \A r \in wire : ~(r.waiting /\ r.client = p)
  BY <1>2, <1>10, NoneWaits DEF Sending
<1>12. MaySend(p, l)
  BY <1>4, <1>5 DEF MaySend, Sending
<1>13. wire' \subseteq Requests /\ RequestsNamed' /\ GuestInv'
  BY <1>1, <1>4, <1>5, <1>8, <1>9, <1>11, <1>12, PageTypes, PageGoesOn
<1> QED BY <1>5, <1>13, OthersUnchanged

(* What Resume leaves alone, whatever the answer is. *)
Resumes(p) ==
    /\ tabOpen[p] /\ answer[p] # NoAnswer
    /\ answer' = [answer EXCEPT ![p] = NoAnswer]
    /\ UNCHANGED <<scenario, request, issued, reservation, chunkFile, jobs, exceptions, late,
                   filesMap, tabOpen, isUnlimited, faults>>

LEMMA ResumesFacts ==
  ASSUME ServerInv, GuestInv, NEW p \in Clients, Resumes(p)
  PROVE  /\ PageTypeOK /\ ButtonShown /\ UploadShownBy
         /\ loop[p].pc \in Sending /\ loop[p] \in Loop
         /\ loop[p].pos \in DOMAIN filesMap[p] /\ loop[p].pos \in Nat
         /\ Current(p) \in Entries /\ PageOf[Current(p)] = p
         /\ filesMap[p][loop[p].pos] = Current(p)
         /\ isUploadInProgress[p] /\ disabled[p]
         /\ entry \in [Entries -> Entry] /\ answer[p] \in Answers
         /\ \A r \in wire : ~(r.waiting /\ r.client = p)
         /\ \A e \in Entries : PageOf[e] = p /\ e # Current(p) =>
                ~(entry[e].status = "uploading" /\ ~entry[e].removed)
<1>1. PageTypeOK /\ ButtonShown /\ UploadShownBy
  BY DEF GuestInv, SettledInv
<1>2. loop[p].pc \in Sending
  BY DEF GuestInv, LoopInv, AnswerNamed, Resumes
<1>3. /\ loop[p] \in Loop /\ entry \in [Entries -> Entry] /\ answer[p] \in Answers
      /\ filesMap[p] \in Seq(Entries)
  BY <1>1, PageTypes
<1>4. /\ loop[p].pos \in DOMAIN filesMap[p] /\ Current(p) \in Entries
      /\ PageOf[Current(p)] = p
  BY <1>2, CurrentType
<1>5. loop[p].pos \in Nat
  BY <1>3 DEF Loop
<1>6. isUploadInProgress[p] /\ disabled[p]
  BY <1>1, <1>2 DEF ButtonShown, ButtonDisabled, Resumes, Sending
<1>7. \A r \in wire : ~(r.waiting /\ r.client = p)
  BY NoneWaits DEF Resumes, ServerInv, ServerTypeOK
<1>8. \A e \in Entries : PageOf[e] = p /\ e # Current(p) =>
                ~(entry[e].status = "uploading" /\ ~entry[e].removed)
  BY <1>1 DEF UploadShownBy, Resumes
<1> QED BY <1>1, <1>2, <1>3, <1>4, <1>5, <1>6, <1>7, <1>8 DEF Current

(* An action: only the entry that p works on changes, and keeps an upload    *)
(* that it has.                                                              *)
CurrentChanges(p) ==
    /\ entry' \in [Entries -> Entry]
    /\ \A e \in Entries : e # Current(p) => entry'[e] = entry[e]
    /\ entry[Current(p)].uuid # NoUuid => entry'[Current(p)].uuid # NoUuid
    /\ entry'[Current(p)].aborted => entry'[Current(p)].removed

(* The loop ends: the entry must not show an upload. *)
LEMMA ResumeEnds ==
  ASSUME ServerInv, GuestInv, NEW p \in Clients, Resumes(p), CurrentChanges(p),
         LoopEnds(p, entry'), UNCHANGED <<wire, maxFilesRemaining>>,
         entry'[Current(p)].status = "uploading" => entry'[Current(p)].removed
  PROVE  wire' \subseteq Requests /\ RequestsNamed' /\ GuestInv'
<1> USE ResumesFacts, Constants
<1>1. GoesOn(p, Idle)
  BY DEF GoesOn, Resumes, LoopEnds, CurrentChanges, Sending
<1>2. Settles(p, Idle)
  <2>1. /\ isUploadInProgress' = [isUploadInProgress EXCEPT ![p] = FALSE]
        /\ disabled' = [disabled EXCEPT ![p] = ButtonDisabled(p, entry', FALSE)]
        /\ UNCHANGED tabOpen
    BY DEF LoopEnds, Resumes
  <2>2. /\ isUploadInProgress \in [Clients -> BOOLEAN] /\ disabled \in [Clients -> BOOLEAN]
        /\ ButtonDisabled(p, entry', FALSE) \in BOOLEAN
    BY PageTypes DEF ButtonDisabled
  <2> DEFINE button == ButtonDisabled(p, entry', FALSE)
  <2> HIDE DEF button
  <2>3. /\ isUploadInProgress' \in [Clients -> BOOLEAN] /\ disabled' \in [Clients -> BOOLEAN]
        /\ ~isUploadInProgress'[p] /\ disabled'[p] = button
        /\ \A q \in Clients \ {p} : /\ isUploadInProgress'[q] = isUploadInProgress[q]
                                   /\ disabled'[q] = disabled[q] /\ tabOpen'[q] = tabOpen[q]
    BY <2>1, <2>2 DEF button
  <2>4. \A e \in Entries :
          /\ PageOf[e] # p => entry'[e] = entry[e]
          /\ PageOf[e] = p /\ entry'[e].aborted => entry'[e].removed
          /\ ~(PageOf[e] = p /\ entry'[e].status = "uploading" /\ ~entry'[e].removed)
    BY DEF CurrentChanges, UploadShownBy
  <2>5. ButtonDisabled(p, entry', Idle.pc # "idle") <=> button
    BY DEF ButtonDisabled, button
  <2> QED BY <2>3, <2>4, <2>5 DEF Settles
<1> QED BY <1>1, <1>2, PageTypes, PageGoesOn DEF MaySend, Resumes

(* The loop goes on to the next entry. *)
LEMMA ResumeNext ==
  ASSUME ServerInv, GuestInv, NEW p \in Clients, Resumes(p), CurrentChanges(p),
         loop' = [loop EXCEPT ![p] = [Idle EXCEPT !.pc = "next", !.pos = loop[p].pos]],
         UNCHANGED <<wire, isUploadInProgress, disabled>>, maxFilesRemaining' \in [Clients -> Int],
         entry'[Current(p)].status = "uploading" => entry'[Current(p)].removed
  PROVE  wire' \subseteq Requests /\ RequestsNamed' /\ GuestInv'
<1> USE ResumesFacts
<1> DEFINE l == [Idle EXCEPT !.pc = "next", !.pos = loop[p].pos]
<1>1. l \in Loop /\ l.pc = "next"
  BY Constants DEF Loop
<1>2. loop' = [loop EXCEPT ![p] = l]
  OBVIOUS
<1> HIDE DEF l
<1>3. GoesOn(p, l)
  BY <1>1, <1>2 DEF GoesOn, Resumes, CurrentChanges, Sending
<1>4. Settles(p, l)
  BY <1>1, PageTypes, ZenonT(60) DEF Settles, Resumes, CurrentChanges, UploadShownBy, ButtonDisabled
<1> QED BY <1>1, <1>3, <1>4, PageTypes, PageGoesOn DEF MaySend, Resumes

(* The loop sends a request about the same entry, its first or its next. *)
LEMMA ResumeSends ==
  ASSUME ServerInv, GuestInv, NEW p \in Clients, Resumes(p), CurrentChanges(p),
         NEW l \in Loop, l.pc \in Sending, l.pos = loop[p].pos,
         loop' = [loop EXCEPT ![p] = l], l.pc = "add" => l.chunk \in Chunks,
         l.pc # "reserve" => entry'[Current(p)].uuid # NoUuid,
         wire' = wire \cup {Request(p, l.pc, entry'[Current(p)].uuid, l.chunk)},
         UNCHANGED <<isUploadInProgress, disabled, maxFilesRemaining>>
  PROVE  wire' \subseteq Requests /\ RequestsNamed' /\ GuestInv'
<1> USE ResumesFacts
<1>1. entry'[Current(p)].uuid \in Uuids \cup {NoUuid}
  BY DEF CurrentChanges, Entry
<1>2. UuidOf(p)' = entry'[Current(p)].uuid
  BY PageTypes DEF UuidOf, Current, Resumes
<1>3. GoesOn(p, l)
  BY <1>2 DEF GoesOn, Resumes, CurrentChanges, Sending
<1>4. Settles(p, l)
  <2>1. /\ isUploadInProgress' \in [Clients -> BOOLEAN] /\ disabled' \in [Clients -> BOOLEAN]
        /\ isUploadInProgress'[p] /\ disabled'[p] /\ l.pc # "idle"
        /\ \A q \in Clients \ {p} : /\ isUploadInProgress'[q] = isUploadInProgress[q]
                                   /\ disabled'[q] = disabled[q] /\ tabOpen'[q] = tabOpen[q]
    BY PageTypes DEF Resumes, Sending
  <2>2. \A e \in Entries :
          /\ PageOf[e] # p => entry'[e] = entry[e]
          /\ PageOf[e] = p /\ entry'[e].aborted => entry'[e].removed
          /\ e # Current(p)
             => ~(PageOf[e] = p /\ entry'[e].status = "uploading" /\ ~entry'[e].removed)
    BY DEF CurrentChanges, UploadShownBy
  <2>3. filesMap[p][l.pos] = Current(p)
    OBVIOUS
  <2> QED BY <2>1, <2>2, <2>3 DEF Settles, ButtonDisabled
<1>5. MaySend(p, l)
  BY <1>1, <1>2 DEF MaySend
<1> QED BY <1>3, <1>4, <1>5, PageTypes, PageGoesOn DEF Resumes

LEMMA ResumeCaught ==
  ASSUME ServerInv, GuestInv, NEW p \in Clients, Resumes(p), Caught(p)
  PROVE  wire' \subseteq Requests /\ RequestsNamed' /\ GuestInv'
<1> USE ResumesFacts
<1>1. entry[Current(p)] \in Entry /\ (entry[Current(p)].aborted => entry[Current(p)].removed)
  BY DEF UploadShownBy
<1>2. CASE entry[Current(p)].aborted
  <2>1. /\ entry' = [entry EXCEPT ![Current(p)].status = "pending"]
        /\ LoopEnds(p, entry') /\ UNCHANGED <<wire, maxFilesRemaining>>
    BY <1>2 DEF Caught, LoopEnds
  <2>2. CurrentChanges(p) /\ entry'[Current(p)].status = "pending"
    BY <1>1, <2>1 DEF CurrentChanges, Entry
  <2> QED BY <2>1, <2>2, ResumeEnds
<1>3. CASE ~entry[Current(p)].aborted
  <2>1. /\ entry' = [entry EXCEPT ![Current(p)].status = "error"]
        /\ loop' = [loop EXCEPT ![p] = [Idle EXCEPT !.pc = "next", !.pos = loop[p].pos]]
        /\ UNCHANGED <<wire, isUploadInProgress, disabled, maxFilesRemaining>>
    BY <1>3 DEF Caught
  <2>2. CurrentChanges(p) /\ entry'[Current(p)].status = "error"
    BY <1>1, <2>1 DEF CurrentChanges, Entry
  <2>3. maxFilesRemaining' \in [Clients -> Int]
    BY <2>1, PageTypes
  <2> QED BY <2>1, <2>2, <2>3, ResumeNext
<1> QED BY <1>2, <1>3

LEMMA ResumeCompleted ==
  ASSUME ServerInv, GuestInv, NEW p \in Clients, Resumes(p), Completed(p)
  PROVE  wire' \subseteq Requests /\ RequestsNamed' /\ GuestInv'
<1> USE ResumesFacts
<1>1. entry' = [entry EXCEPT ![Current(p)].status = "completed", ![Current(p)].removed = TRUE]
  BY DEF Completed
<1>2. CurrentChanges(p) /\ entry'[Current(p)].removed
  <2> DEFINE marked == [entry EXCEPT ![Current(p)].status = "completed"]
  <2>1. /\ marked \in [Entries -> Entry]
        /\ \A e \in Entries : e # Current(p) => marked[e] = entry[e]
        /\ marked[Current(p)].uuid = entry[Current(p)].uuid
    BY DEF Entry
  <2> DEFINE done == [marked[Current(p)] EXCEPT !.removed = TRUE]
  <2>2. entry' = [marked EXCEPT ![Current(p)] = done]
    BY <1>1
  <2> HIDE DEF marked
  <2>3. done \in Entry /\ done.removed /\ done.uuid = entry[Current(p)].uuid
    <3>1. marked[Current(p)] \in Entry
      BY <2>1
    <3> QED BY <2>1, <3>1 DEF Entry
  <2> HIDE DEF done
  <2> QED BY <2>1, <2>2, <2>3 DEF CurrentChanges
<1>3. maxFilesRemaining' \in [Clients -> Int]
  BY PageTypes DEF Completed
<1> QED BY <1>2, <1>3, ResumeNext DEF Completed

(* withRetry: again, or the catch clause. *)
LEMMA ResumeRetry ==
  ASSUME ServerInv, GuestInv, NEW p \in Clients, Resumes(p), withRetry(p, answer[p].status)
  PROVE  wire' \subseteq Requests /\ RequestsNamed' /\ GuestInv'
<1> USE ResumesFacts
<1> DEFINE again(l) == /\ loop' = [loop EXCEPT ![p] = l]
                       /\ l \in Loop /\ l.pc = loop[p].pc /\ l.pos = loop[p].pos
                       /\ l.chunk = loop[p].chunk
                       /\ wire' = wire \cup {Request(p, loop[p].pc, UuidOf(p), loop[p].chunk)}
                       /\ UNCHANGED <<entry, isUploadInProgress, disabled, maxFilesRemaining>>
<1>1. ASSUME NEW l, again(l)
      PROVE  wire' \subseteq Requests /\ RequestsNamed' /\ GuestInv'
  <2>1. CurrentChanges(p)
    BY <1>1 DEF CurrentChanges, UploadShownBy
  <2>2. /\ l.pc = "add" => l.chunk \in Chunks
        /\ l.pc # "reserve" => entry'[Current(p)].uuid # NoUuid
    BY <1>1 DEF GuestInv, LoopInv, LoopNamed, UuidOf, Sending
  <2>3. /\ l \in Loop /\ l.pc \in Sending /\ l.pos = loop[p].pos
        /\ loop' = [loop EXCEPT ![p] = l]
        /\ wire' = wire \cup {Request(p, l.pc, entry'[Current(p)].uuid, l.chunk)}
        /\ UNCHANGED <<isUploadInProgress, disabled, maxFilesRemaining>>
    BY <1>1 DEF UuidOf
  <2> QED BY <2>1, <2>2, <2>3, ResumeSends
<1>2. CASE WaitAndRetry(p) /\ loop[p].waits < maxWaits
  <2> DEFINE l == [loop[p] EXCEPT !.waits = @ + 1]
  <2>1. l \in Loop /\ l.pc = loop[p].pc /\ l.pos = loop[p].pos /\ l.chunk = loop[p].chunk
    BY <1>2, Constants DEF Loop
  <2>2. loop' = [loop EXCEPT ![p] = l]
    BY <1>2 DEF WaitAndRetry
  <2> HIDE DEF l
  <2>3. again(l)
    BY <1>2, <2>1, <2>2 DEF WaitAndRetry, UuidOf
  <2> QED BY <1>1, <2>3
<1>3. CASE Retry(p) /\ loop[p].attempt # retries
  <2> DEFINE l == [loop[p] EXCEPT !.attempt = @ + 1]
  <2>1. l \in Loop /\ l.pc = loop[p].pc /\ l.pos = loop[p].pos /\ l.chunk = loop[p].chunk
    BY <1>3, Constants DEF Loop
  <2>2. loop' = [loop EXCEPT ![p] = l]
    BY <1>3 DEF Retry
  <2> HIDE DEF l
  <2>3. again(l)
    BY <1>3, <2>1, <2>2 DEF Retry, UuidOf
  <2> QED BY <1>1, <2>3
<1>4. CASE Caught(p)
  BY <1>4, ResumeCaught
<1> QED BY <1>2, <1>3, <1>4 DEF withRetry

LEMMA ResumeReserved ==
  ASSUME ServerInv, GuestInv, NEW p \in Clients, Resumes(p), loop[p].pc = "reserve",
         answer[p].status = 200, Reserved_(p, answer[p].uuid)
  PROVE  wire' \subseteq Requests /\ RequestsNamed' /\ GuestInv'
<1> USE ResumesFacts
<1>1. answer[p].uuid \in Uuids \cup {NoUuid} /\ answer[p].uuid # NoUuid
  BY DEF GuestInv, LoopInv, AnswerNamed, Resumes, Answers
<1>2. entry' = [entry EXCEPT ![Current(p)].uuid = answer[p].uuid]
  BY DEF Reserved_
<1>3. /\ entry'[Current(p)].uuid = answer[p].uuid
      /\ entry'[Current(p)].aborted = entry[Current(p)].aborted
      /\ entry'[Current(p)].removed = entry[Current(p)].removed
      /\ CurrentChanges(p)
  BY <1>1, <1>2 DEF CurrentChanges, Entry, UploadShownBy
<1>4. CASE entry[Current(p)].aborted
  <2>1. LoopEnds(p, entry') /\ UNCHANGED <<wire, maxFilesRemaining>>
    BY <1>2, <1>4 DEF Reserved_, LoopEnds
  <2>2. entry'[Current(p)].removed
    BY <1>3, <1>4 DEF UploadShownBy
  <2> QED BY <1>3, <2>1, <2>2, ResumeEnds
<1>5. CASE ~entry[Current(p)].aborted
  <2> DEFINE l == [Idle EXCEPT !.pc = "add", !.pos = loop[p].pos, !.chunk = FirstChunk,
                               !.attempt = 1]
  <2>1. /\ l \in Loop /\ l.pc = "add" /\ l.pos = loop[p].pos /\ l.chunk = FirstChunk
        /\ l.chunk \in Chunks
    BY Constants DEF Loop
  <2>2. /\ loop' = [loop EXCEPT ![p] = l]
        /\ wire' = wire \cup {Request(p, l.pc, entry'[Current(p)].uuid, l.chunk)}
        /\ UNCHANGED <<isUploadInProgress, disabled, maxFilesRemaining>>
    BY <1>3, <1>5, <2>1 DEF Reserved_, Send
  <2> HIDE DEF l
  <2> QED BY <1>1, <1>3, <2>1, <2>2, ResumeSends DEF Sending
<1> QED BY <1>4, <1>5

LEMMA ResumeAdded ==
  ASSUME ServerInv, GuestInv, NEW p \in Clients, Resumes(p), loop[p].pc = "add", Added(p)
  PROVE  wire' \subseteq Requests /\ RequestsNamed' /\ GuestInv'
<1> USE ResumesFacts
<1>1. UNCHANGED entry /\ CurrentChanges(p)
  BY DEF Added, CurrentChanges, UploadShownBy
<1>2. entry'[Current(p)].uuid # NoUuid /\ loop[p].chunk \in Chunks
  BY <1>1 DEF GuestInv, LoopInv, LoopNamed, UuidOf
<1>3. ASSUME NEW pc \in {"add", "complete"}, NEW chunk \in Chunks \cup {0},
             pc = "add" => chunk \in Chunks,
             Send(p, pc, entry[Current(p)].uuid, chunk)
      PROVE  wire' \subseteq Requests /\ RequestsNamed' /\ GuestInv'
  <2> DEFINE l == [Idle EXCEPT !.pc = pc, !.pos = loop[p].pos, !.chunk = chunk, !.attempt = 1]
  <2>1. l \in Loop /\ l.pc = pc /\ l.pos = loop[p].pos /\ l.chunk = chunk
    BY Constants DEF Loop
  <2>2. /\ loop' = [loop EXCEPT ![p] = l]
        /\ wire' = wire \cup {Request(p, l.pc, entry'[Current(p)].uuid, l.chunk)}
        /\ UNCHANGED <<isUploadInProgress, disabled, maxFilesRemaining>>
    BY <1>1, <1>3, <2>1 DEF Send
  <2> HIDE DEF l
  <2> QED BY <1>1, <1>2, <1>3, <2>1, <2>2, ResumeSends DEF Sending
<1>4. CASE IsLastChunk(loop[p].chunk)
  BY <1>3, <1>4 DEF Added
<1>5. CASE ~IsLastChunk(loop[p].chunk)
  BY <1>2, <1>3, <1>5, Constants DEF Added
<1> QED BY <1>4, <1>5

LEMMA ResumeInv ==
  ASSUME ServerInv, GuestInv, NEW p \in Clients, Resume(p)
  PROVE  ServerInv' /\ GuestInv'
<1>1. Resumes(p)
  BY DEF Resume, Resumes
<1>2. wire' \subseteq Requests /\ RequestsNamed' /\ GuestInv'
  <2>1. CASE answer[p].status # 200
    BY <1>1, <2>1, ResumeRetry DEF Resume
  <2>2. CASE answer[p].status = 200
    BY <1>1, <2>2, ResumeReserved, ResumeAdded, ResumeCompleted DEF Resume
  <2> QED BY <2>1, <2>2
<1> QED BY <1>1, <1>2, OthersUnchanged DEF Resumes

LEMMA AllVisitedInv ==
  ASSUME ServerInv, GuestInv, NEW p \in Clients, AllVisited(p)
  PROVE  ServerInv' /\ GuestInv'
<1>1. PageTypeOK /\ UploadShownBy /\ tabOpen[p] /\ loop[p].pc = "next"
  BY DEF GuestInv, SettledInv, AllVisited
<1>2. /\ loop' = [loop EXCEPT ![p] = Idle]
      /\ isUploadInProgress' = [isUploadInProgress EXCEPT ![p] = FALSE]
      /\ disabled' = [disabled EXCEPT ![p] = ButtonDisabled(p, entry, FALSE)]
      /\ UNCHANGED <<serverVars, filesMap, entry, answer, maxFilesRemaining, tabOpen,
                     isUnlimited, faults>>
  BY DEF AllVisited, LoopEnds
<1>3. answer' = [answer EXCEPT ![p] = NoAnswer]
  BY <1>1, <1>2, IdleAnswer DEF Sending
<1>4. GoesOn(p, Idle)
  BY <1>1, <1>2, <1>3, PageTypes, Constants DEF GoesOn, Sending
<1>5. Settles(p, Idle)
  <2>1. ButtonDisabled(p, entry, FALSE) \in BOOLEAN
    BY DEF ButtonDisabled
  <2> DEFINE button == ButtonDisabled(p, entry, FALSE)
  <2> HIDE DEF button
  <2>2. disabled' = [disabled EXCEPT ![p] = button] /\ button \in BOOLEAN
    BY <1>2, <2>1 DEF button
  <2>3. ButtonDisabled(p, entry', Idle.pc # "idle") <=> button
    BY <1>2, Constants DEF button, ButtonDisabled
  <2>4. \A e \in Entries :
          /\ entry'[e] = entry[e]
          /\ entry'[e].aborted => entry'[e].removed
          /\ ~(PageOf[e] = p /\ entry'[e].status = "uploading" /\ ~entry'[e].removed)
    BY <1>1, <1>2 DEF UploadShownBy, Sending
  <2> QED BY <1>1, <1>2, <2>2, <2>3, <2>4, PageTypes, Constants, ZenonT(60) DEF Settles
<1>6. wire \subseteq Requests
  BY DEF ServerInv, ServerTypeOK
<1>7. \A r \in wire : ~(r.waiting /\ r.client = p)
  BY <1>1, <1>6, NoneWaits DEF Sending
<1>8. GuestInv'
  BY <1>1, <1>2, <1>4, <1>5, <1>7, PageTypes, Constants, PageGoesOn DEF MaySend, serverVars
<1>9. ServerInv'
  BY <1>2 DEF ServerInv, ServerTypeOK, RequestsNamed, JobsNamed, serverVars
<1> QED BY <1>8, <1>9

LEMMA CreateUploadBoxInv ==
  ASSUME ServerInv, GuestInv, NEW e \in Entries, createUploadBox(e)
  PROVE  ServerInv' /\ GuestInv'
<1> DEFINE p == PageOf[e]
<1>1. /\ PageTypeOK /\ LoopNamed /\ OneRequest /\ AnswerNamed
      /\ EntriesOwned /\ ButtonShown /\ UploadShownBy
  BY DEF GuestInv, SettledInv, LoopInv
<1>2. p \in Clients
  BY EntriesAssumption
<1> DEFINE new == [entry[e] EXCEPT !.status = "pending"]
<1>3. /\ entry' = [entry EXCEPT ![e] = new] /\ tabOpen[p]
      /\ filesMap' = [filesMap EXCEPT ![p] = Append(@, e)]
      /\ disabled' = [disabled EXCEPT ![p] = ButtonDisabled(p, entry', isUploadInProgress[p])]
      /\ UNCHANGED <<serverVars, loop, answer, isUploadInProgress, maxFilesRemaining, tabOpen,
                     isUnlimited, faults>>
  BY DEF createUploadBox
<1>4. /\ new \in Entry /\ new.status = "pending" /\ new.uuid = entry[e].uuid
      /\ new.aborted = entry[e].aborted /\ new.removed = entry[e].removed
  BY <1>1, PageTypes DEF Entry
<1> HIDE DEF new
<1>5. /\ entry' \in [Entries -> Entry] /\ entry'[e] = new
      /\ \A f \in Entries : (f # e => entry'[f] = entry[f]) /\ entry'[f].uuid = entry[f].uuid
  BY <1>1, <1>3, <1>4, PageTypes
<1>6. /\ filesMap' \in [Clients -> Seq(Entries)]
      /\ \A q \in Clients : q # p => filesMap'[q] = filesMap[q]
      /\ DOMAIN filesMap'[p] = 1..Len(filesMap[p]) + 1
      /\ DOMAIN filesMap[p] = 1..Len(filesMap[p]) /\ Len(filesMap[p]) \in Nat
      /\ filesMap'[p][Len(filesMap[p]) + 1] = e
      /\ \A i \in DOMAIN filesMap[p] : filesMap'[p][i] = filesMap[p][i]
  <2>1. filesMap \in [Clients -> Seq(Entries)] /\ filesMap[p] \in Seq(Entries)
    BY <1>1, <1>2, PageTypes
  <2>2. filesMap'[p] = Append(filesMap[p], e)
    BY <1>2, <1>3, <2>1
  <2>3. filesMap'[p] \in Seq(Entries) /\ Len(filesMap'[p]) = Len(filesMap[p]) + 1
        /\ filesMap'[p][Len(filesMap[p]) + 1] = e
        /\ \A i \in 1..Len(filesMap[p]) : filesMap'[p][i] = filesMap[p][i]
    BY <2>1, <2>2, AppendProperties
  <2>4. filesMap' \in [Clients -> Seq(Entries)]
    BY <1>2, <1>3, <2>1, <2>2, <2>3
  <2> QED BY <1>2, <1>3, <2>1, <2>3, <2>4
<1>a. ASSUME NEW q \in Clients, NEW i \in DOMAIN filesMap[q]
      PROVE  /\ i \in DOMAIN filesMap'[q] /\ filesMap'[q][i] = filesMap[q][i]
             /\ filesMap[q][i] \in Entries
  <2>1. filesMap[q] \in Seq(Entries)
    BY <1>1, PageTypes
  <2>2. CASE q = p
    <3>1. i \in 1..Len(filesMap[p]) + 1
      BY <1>6, <2>2
    <3> QED BY <1>6, <2>1, <2>2, <3>1
  <2>3. CASE q # p
    BY <1>6, <2>1, <2>3
  <2> QED BY <2>2, <2>3
<1>b. \A i \in DOMAIN filesMap'[p] : i \in DOMAIN filesMap[p] \/ filesMap'[p][i] = e
  <2> SUFFICES ASSUME NEW i \in 1..Len(filesMap[p]) + 1, i \notin 1..Len(filesMap[p])
               PROVE  filesMap'[p][i] = e
    BY <1>6
  <2>1. i = Len(filesMap[p]) + 1
    BY <1>6
  <2> QED BY <1>6, <2>1
<1>7. LoopNamed'
  <2> SUFFICES ASSUME NEW q \in Clients
               PROVE  /\ loop[q].pc \in Sending => loop[q].pos \in DOMAIN filesMap'[q]
                      /\ loop[q].pc = "add" => loop[q].chunk \in Chunks
                      /\ loop[q].pc \in {"add", "complete"}
                            => entry'[filesMap'[q][loop[q].pos]].uuid # NoUuid
    BY <1>3 DEF LoopNamed, UuidOf, Current
  <2>1. /\ loop[q].pc \in Sending => loop[q].pos \in DOMAIN filesMap[q]
        /\ loop[q].pc = "add" => loop[q].chunk \in Chunks
        /\ loop[q].pc \in {"add", "complete"} => entry[filesMap[q][loop[q].pos]].uuid # NoUuid
    BY <1>1 DEF LoopNamed, UuidOf, Current
  <2>2. \A i \in DOMAIN filesMap[q] : i \in DOMAIN filesMap'[q] /\ filesMap'[q][i] = filesMap[q][i]
                                     /\ filesMap[q][i] \in Entries
    BY <1>a
  <2> QED BY <1>5, <2>1, <2>2 DEF Sending
<1>8. OneRequest' /\ AnswerNamed'
  BY <1>1, <1>3 DEF OneRequest, AnswerNamed, serverVars
<1>9. EntriesOwned'
  <2> SUFFICES ASSUME NEW q \in Clients, NEW i \in DOMAIN filesMap'[q]
               PROVE  PageOf[filesMap'[q][i]] = q
    BY DEF EntriesOwned
  <2>1. CASE i \in DOMAIN filesMap[q]
    BY <1>1, <1>a, <2>1 DEF EntriesOwned
  <2>2. CASE i \notin DOMAIN filesMap[q]
    BY <1>6, <1>b, <2>2
  <2> QED BY <2>1, <2>2
<1>10. ButtonShown'
  <2>1. ASSUME NEW q \in Clients, q # p
        PROVE  ButtonDisabled(q, entry', isUploadInProgress[q])
                 <=> ButtonDisabled(q, entry, isUploadInProgress[q])
    BY <1>5, <2>1 DEF ButtonDisabled
  <2>2. ButtonDisabled(p, entry', isUploadInProgress[p]) \in BOOLEAN
    BY DEF ButtonDisabled
  <2> DEFINE button == ButtonDisabled(p, entry', isUploadInProgress[p])
  <2>3. disabled' = [disabled EXCEPT ![p] = button] /\ button \in BOOLEAN
    BY <1>3, <2>2
  <2> HIDE DEF button
  <2>4. ASSUME NEW q \in Clients
        PROVE  /\ isUploadInProgress'[q] <=> loop'[q].pc # "idle"
               /\ tabOpen'[q] => (disabled'[q] <=>
                                     ButtonDisabled(q, entry', isUploadInProgress'[q]))
    <3>1. CASE q = p
      <4>1. disabled'[p] = button
        BY <1>1, <1>2, <2>3, PageTypes
      <4> QED BY <1>1, <1>3, <3>1, <4>1 DEF ButtonShown, button
    <3>2. CASE q # p
      <4>1. disabled'[q] = disabled[q]
        BY <1>1, <2>3, <3>2, PageTypes
      <4> QED BY <1>1, <1>3, <2>1, <3>2, <4>1 DEF ButtonShown
    <3> QED BY <3>1, <3>2
  <2> QED BY <2>4 DEF ButtonShown, ButtonDisabled
<1>11. UploadShownBy'
  <2> SUFFICES ASSUME NEW f \in Entries
               PROVE  /\ entry'[f].aborted => entry'[f].removed
                      /\ tabOpen[PageOf[f]] /\ entry'[f].status = "uploading" /\ ~entry'[f].removed
                         => /\ loop[PageOf[f]].pc \in Sending
                            /\ filesMap'[PageOf[f]][loop[PageOf[f]].pos] = f
    BY <1>3 DEF UploadShownBy, Current
  <2>1. CASE f = e
    BY <1>1, <1>4, <1>5, <2>1 DEF UploadShownBy
  <2>2. CASE f # e
    <3>1. /\ entry'[f] = entry[f] /\ PageOf[f] \in Clients
      BY <1>5, <2>2, EntriesAssumption
    <3>2. loop[PageOf[f]].pc \in Sending =>
            filesMap'[PageOf[f]][loop[PageOf[f]].pos] = filesMap[PageOf[f]][loop[PageOf[f]].pos]
      BY <1>1, <1>a, <3>1 DEF LoopNamed
    <3> QED BY <1>1, <3>1, <3>2 DEF UploadShownBy, Current
  <2> QED BY <2>1, <2>2
<1>12. disabled' \in [Clients -> BOOLEAN]
  BY <1>1, <1>3, PageTypes DEF ButtonDisabled
<1>13. PageTypeOK'
  BY <1>1, <1>3, <1>5, <1>6, <1>12 DEF PageTypeOK, Entry, serverVars
<1>14. LoopInv'
  BY <1>1, <1>3, <1>7, <1>8, PageTypes DEF LoopInv
<1>15. ServerInv'
  BY <1>3 DEF ServerInv, ServerTypeOK, RequestsNamed, JobsNamed, serverVars
<1> QED BY <1>9, <1>10, <1>11, <1>13, <1>14, <1>15 DEF GuestInv, SettledInv

(* What p has waited for is given up, and more requests that nobody waits    *)
(* for are sent.                                                             *)
LEMMA GivesUp ==
  ASSUME ServerInv, NEW p \in Clients, NEW sent,
         wire' = ((wire \ Waiting(p)) \cup GivenUp(p)) \cup sent,
         \A r \in sent : r \in Requests /\ r.kind = "unreserve" /\ r.uuid # NoUuid /\ ~r.waiting
  PROVE  /\ wire' \subseteq Requests /\ RequestsNamed'
         /\ \A r \in wire' : r.waiting => r \in wire /\ r.client # p
<1>1. wire \subseteq Requests /\ RequestsNamed
  BY DEF ServerInv, ServerTypeOK
<1>2. \A r \in wire' : r \in wire \ Waiting(p) \/ r \in GivenUp(p) \/ r \in sent
  OBVIOUS
<1>3. wire' \subseteq Requests
  BY <1>1, <1>2, GivenUpType
<1>4. RequestsNamed'
  BY <1>1, <1>2, GivenUpType DEF RequestsNamed
<1>5. \A r \in wire' : r.waiting => r \in wire /\ r.client # p
  BY <1>2, GivenUpType DEF Waiting
<1> QED BY <1>3, <1>4, <1>5

LEMMA SetUnloadInv ==
  ASSUME ServerInv, GuestInv, NEW p \in Clients, setUnload(p)
  PROVE  ServerInv' /\ GuestInv'
<1>1. PageTypeOK /\ UploadShownBy
  BY DEF GuestInv, SettledInv
<1> DEFINE open == {x \in ToSet(filesMap[p]) : ~entry[x].removed}
           sent == UNION {unreserve(p, entry[x].uuid) : x \in open}
<1>2. /\ wire' = ((wire \ Waiting(p)) \cup GivenUp(p)) \cup sent
      /\ tabOpen' = [tabOpen EXCEPT ![p] = FALSE] /\ loop' = [loop EXCEPT ![p] = Idle]
      /\ answer' = [answer EXCEPT ![p] = NoAnswer]
      /\ isUploadInProgress' = [isUploadInProgress EXCEPT ![p] = FALSE]
      /\ UNCHANGED <<scenario, request, issued, reservation, chunkFile, jobs, exceptions, late,
                     filesMap, entry, disabled, maxFilesRemaining, isUnlimited, faults>>
  BY DEF setUnload
<1>3. \A r \in sent : r \in Requests /\ r.kind = "unreserve" /\ r.uuid # NoUuid /\ ~r.waiting
  <2>1. \A x \in open : entry[x].uuid \in Uuids \cup {NoUuid}
    BY <1>1, PageTypes DEF ToSet, Entry
  <2> QED BY <2>1, UnreserveType
<1> HIDE DEF sent, open
<1>4. /\ wire' \subseteq Requests /\ RequestsNamed'
      /\ \A r \in wire' : r.waiting => r \in wire /\ r.client # p
  BY <1>2, <1>3, GivesUp
<1>5. GoesOn(p, Idle)
  BY <1>1, <1>2, PageTypes, Constants DEF GoesOn, Sending
<1>6. WaitsOnlyFor(p, Idle)
  BY <1>4 DEF WaitsOnlyFor
<1>7. Settles(p, Idle)
  BY <1>1, <1>2, PageTypes, Constants DEF Settles, UploadShownBy
<1>8. LoopInv'
  BY <1>5, <1>6, Constants, LoopStep DEF ServerInv, ServerTypeOK
<1>9. SettledInv'
  BY <1>5, <1>7, Constants, SettledStep
<1>10. PageTypeOK'
  BY <1>1, <1>2, <1>8, SMTT(30) DEF PageTypeOK, LoopInv, Loop, Answers
<1>11. GuestInv'
  BY <1>8, <1>9, <1>10 DEF GuestInv
<1> QED BY <1>2, <1>4, <1>11, OthersUnchanged

(* Steps that leave the entries, the loop and the button of every page. *)
LEMMA ButtonsUnchanged ==
  ASSUME SettledInv, UNCHANGED <<filesMap, entry, loop, isUploadInProgress, disabled, tabOpen>>
  PROVE  SettledInv'
  BY DEF SettledInv, EntriesOwned, ButtonShown, ButtonDisabled, UploadShownBy, Current

(* Who waits has sent something. *)
LEMMA WaitingSends ==
  ASSUME OneRequest, wire \subseteq Requests, loop \in [Clients -> Loop],
         NEW p \in Clients, Waiting(p) # {}
  PROVE  loop[p].pc \in Sending
<1>1. PICK r \in wire : r.waiting /\ r.client = p
  BY DEF Waiting
<1>2. loop[p].pc = r.kind /\ r.kind \in {"reserve", "unreserve", "add", "complete"}
  BY <1>1 DEF OneRequest, Requests
<1> QED BY <1>2 DEF Loop, Sending

LEMMA ConnectionFailsInv ==
  ASSUME ServerInv, GuestInv, NEW p \in Clients, ConnectionFails(p)
  PROVE  ServerInv' /\ GuestInv'
<1>1. /\ PageTypeOK /\ LoopNamed /\ OneRequest /\ AnswerNamed /\ SettledInv
      /\ wire \subseteq Requests
  BY DEF GuestInv, LoopInv, ServerInv, ServerTypeOK
<1>2. /\ wire' = ((wire \ Waiting(p)) \cup GivenUp(p)) \cup {}
      /\ answer' = [answer EXCEPT ![p] = NetworkError]
      /\ faults < Scenarios[scenario].maxFaults /\ faults' = faults + 1
      /\ UNCHANGED <<filesMap, entry, loop, isUploadInProgress, disabled, maxFilesRemaining,
                     tabOpen, isUnlimited>>
      /\ UNCHANGED <<scenario, request, issued, reservation, chunkFile, jobs, exceptions, late>>
  BY DEF ConnectionFails
<1>3. /\ wire' \subseteq Requests /\ RequestsNamed'
      /\ \A r \in wire' : r.waiting => r \in wire /\ r.client # p
  <2> DEFINE sent == {}
  <2>1. \A r \in sent : r \in Requests /\ r.kind = "unreserve" /\ r.uuid # NoUuid /\ ~r.waiting
    OBVIOUS
  <2>2. wire' = ((wire \ Waiting(p)) \cup GivenUp(p)) \cup sent
    BY <1>2
  <2> HIDE DEF sent
  <2> QED BY <2>1, <2>2, GivesUp
<1>4. NetworkError \in Answers /\ NetworkError.status = 0
  BY DEF NetworkError, Answers
<1>5. /\ answer \in [Clients -> Answers] /\ answer' \in [Clients -> Answers]
      /\ answer'[p] = NetworkError /\ \A q \in Clients : q # p => answer'[q] = answer[q]
      /\ loop \in [Clients -> Loop]
  BY <1>1, <1>2, <1>4, PageTypes
<1>6. loop[p].pc \in Sending
  <2>1. CASE answer[p] # NoAnswer
    BY <1>1, <2>1 DEF AnswerNamed
  <2>2. CASE Waiting(p) # {}
    BY <1>1, <1>5, <2>2, WaitingSends
  <2> QED BY <2>1, <2>2 DEF ConnectionFails
<1>7. LoopNamed'
  BY <1>1, <1>2 DEF LoopNamed, UuidOf, Current
<1>8. OneRequest'
  <2>1. \A r \in wire : r.client \in Clients
    BY <1>1 DEF Requests
  <2> QED BY <1>1, <1>2, <1>3, <1>5, <2>1 DEF OneRequest
<1>9. AnswerNamed'
  BY <1>1, <1>2, <1>4, <1>5, <1>6 DEF AnswerNamed
<1>10. SettledInv'
  BY <1>1, <1>2, ButtonsUnchanged
<1>11. faults' \in 0..Scenarios[scenario].maxFaults
  <2>1. faults \in 0..Scenarios[scenario].maxFaults
    BY <1>1, PageTypes
  <2>2. Scenarios[scenario].maxFaults \in Nat
    BY ScenarioType DEF ServerInv, Scenario
  <2> QED BY <1>2, <2>1, <2>2
<1>12. PageTypeOK'
  BY <1>1, <1>2, <1>5, <1>11 DEF PageTypeOK, Answers
<1>13. GuestInv'
  BY <1>2, <1>5, <1>7, <1>8, <1>9, <1>10, <1>12 DEF GuestInv, LoopInv
<1> QED BY <1>2, <1>3, <1>13, OthersUnchanged

LEMMA RemoveBtnInv ==
  ASSUME ServerInv, GuestInv, NEW e \in Entries, removeBtn(e)
  PROVE  ServerInv' /\ GuestInv'
<1> DEFINE p == PageOf[e]
           cancels == loop[p].pc = "add" /\ Current(p) = e
           status == IF cancels THEN "pending" ELSE "removed"
           new == [entry[e] EXCEPT !.removed = TRUE, !.status = status, !.aborted = TRUE]
<1>1. /\ PageTypeOK /\ LoopNamed /\ OneRequest /\ AnswerNamed /\ SettledInv
      /\ ButtonShown /\ UploadShownBy /\ wire \subseteq Requests /\ RequestsNamed
  BY DEF GuestInv, LoopInv, SettledInv, ServerInv, ServerTypeOK
<1>2. p \in Clients
  BY EntriesAssumption
<1>3. /\ new \in Entry /\ new.removed /\ new.aborted /\ new.status = status
      /\ new.uuid = entry[e].uuid /\ new.status # "uploading"
  <2>1. entry[e] \in Entry
    BY <1>1, PageTypes
  <2> QED BY <2>1 DEF Entry
<1>4. entry' = [entry EXCEPT ![e] = new]
  <2>1. CASE cancels
    BY <2>1 DEF removeBtn
  <2>2. CASE ~cancels
    BY <2>2 DEF removeBtn
  <2> QED BY <2>1, <2>2
<1>5. /\ UNCHANGED <<filesMap, maxFilesRemaining, tabOpen, isUnlimited, faults>>
      /\ UNCHANGED <<scenario, request, issued, reservation, chunkFile, jobs, exceptions, late>>
      /\ tabOpen[p]
  BY DEF removeBtn
<1> DEFINE sent == unreserve(p, entry[e].uuid)
<1>6. \A r \in sent : r \in Requests /\ r.kind = "unreserve" /\ r.uuid # NoUuid /\ ~r.waiting
  <2>1. entry[e].uuid \in Uuids \cup {NoUuid}
    BY <1>1, PageTypes DEF Entry
  <2> QED BY <1>2, <2>1, UnreserveType
<1> HIDE DEF new
<1>7. /\ entry' \in [Entries -> Entry] /\ entry'[e] = new
      /\ \A f \in Entries : /\ f # e => entry'[f] = entry[f]
                            /\ entry'[f].uuid = entry[f].uuid
  BY <1>1, <1>3, <1>4, PageTypes
<1>8. \A f \in Entries : entry'[f].aborted => entry'[f].removed
  BY <1>1, <1>3, <1>7 DEF UploadShownBy
<1>9. CASE cancels
  <2>1. /\ wire' = sent \cup ((wire \ Waiting(p)) \cup GivenUp(p))
        /\ answer' = [answer EXCEPT ![p] = NoAnswer]
        /\ LoopEnds(p, entry')
    BY <1>9 DEF removeBtn, LoopEnds
  <2>2. wire' = ((wire \ Waiting(p)) \cup GivenUp(p)) \cup sent
    BY <2>1
  <2> HIDE DEF sent
  <2>3. /\ wire' \subseteq Requests /\ RequestsNamed'
        /\ \A r \in wire' : r.waiting => r \in wire /\ r.client # p
    BY <1>2, <1>6, <2>2, GivesUp
  <2>4. /\ loop' = [loop EXCEPT ![p] = Idle]
        /\ isUploadInProgress' = [isUploadInProgress EXCEPT ![p] = FALSE]
        /\ disabled' = [disabled EXCEPT ![p] = ButtonDisabled(p, entry', FALSE)]
    BY <2>1 DEF LoopEnds
  <2>5. GoesOn(p, Idle)
    BY <1>5, <1>7, <2>1, <2>4, Constants DEF GoesOn, Sending
  <2>6. WaitsOnlyFor(p, Idle)
    BY <2>3 DEF WaitsOnlyFor
  <2>7. Settles(p, Idle)
    <3>1. ButtonDisabled(p, entry', FALSE) \in BOOLEAN
      BY DEF ButtonDisabled
    <3> DEFINE button == ButtonDisabled(p, entry', FALSE)
    <3>2. disabled' = [disabled EXCEPT ![p] = button] /\ button \in BOOLEAN
      BY <2>4, <3>1
    <3> HIDE DEF button
    <3>3. ButtonDisabled(p, entry', Idle.pc # "idle") <=> button
      BY Constants DEF button, ButtonDisabled
    <3>4. \A f \in Entries : PageOf[f] = p => ~(entry'[f].status = "uploading" /\ ~entry'[f].removed)
      <4> SUFFICES ASSUME NEW f \in Entries, PageOf[f] = p, f # e
                   PROVE  ~(entry[f].status = "uploading" /\ ~entry[f].removed)
        BY <1>3, <1>7
      <4> QED BY <1>1, <1>5, <1>9 DEF UploadShownBy
    <3>5. \A f \in Entries : PageOf[f] # p => entry'[f] = entry[f]
      BY <1>7
    <3>6. /\ isUploadInProgress' \in [Clients -> BOOLEAN] /\ disabled' \in [Clients -> BOOLEAN]
          /\ ~isUploadInProgress'[p] /\ disabled'[p] = button
          /\ \A q \in Clients \ {p} : /\ isUploadInProgress'[q] = isUploadInProgress[q]
                                     /\ disabled'[q] = disabled[q] /\ tabOpen'[q] = tabOpen[q]
      BY <1>1, <1>2, <1>5, <2>4, <3>2, PageTypes, ZenonT(60)
    <3> QED BY <1>8, <3>3, <3>4, <3>5, <3>6, Constants DEF Settles
  <2>8. LoopInv'
    BY <1>1, <1>2, <2>5, <2>6, Constants, LoopStep
  <2>9. SettledInv'
    BY <1>2, <2>5, <2>7, Constants, SettledStep
  <2>10. PageTypeOK'
    BY <1>1, <1>5, <1>7, <2>7, <2>8 DEF PageTypeOK, LoopInv, Loop, Answers, Entry, Settles
  <2>11. GuestInv'
    BY <2>8, <2>9, <2>10 DEF GuestInv
  <2> QED BY <1>5, <2>3, <2>11, OthersUnchanged
<1>10. CASE ~cancels
  <2>1. /\ wire' = sent \cup wire
        /\ disabled' = [disabled EXCEPT ![p] = ButtonDisabled(p, entry', isUploadInProgress[p])]
        /\ UNCHANGED <<loop, answer, isUploadInProgress>>
    BY <1>10 DEF removeBtn
  <2> HIDE DEF sent
  <2>2. wire' \subseteq Requests /\ RequestsNamed' /\ \A r \in wire' : r.waiting => r \in wire
    BY <1>1, <1>6, <2>1 DEF RequestsNamed
  <2>3. LoopNamed'
    <3> SUFFICES ASSUME NEW q \in Clients
                 PROVE  /\ loop[q].pc \in Sending => loop[q].pos \in DOMAIN filesMap[q]
                        /\ loop[q].pc = "add" => loop[q].chunk \in Chunks
                        /\ loop[q].pc \in {"add", "complete"}
                              => entry'[filesMap[q][loop[q].pos]].uuid # NoUuid
      BY <1>5, <2>1 DEF LoopNamed, UuidOf, Current
    <3>1. loop[q].pc \in Sending => filesMap[q][loop[q].pos] \in Entries
      BY CurrentType DEF Current
    <3> QED BY <1>1, <1>7, <3>1 DEF LoopNamed, UuidOf, Current, Sending
  <2>4. OneRequest' /\ AnswerNamed'
    BY <1>1, <2>1, <2>2 DEF OneRequest, AnswerNamed
  <2>5. EntriesOwned'
    BY <1>1, <1>5 DEF EntriesOwned, SettledInv
  <2>6. ButtonDisabled(p, entry', isUploadInProgress[p]) \in BOOLEAN
    BY DEF ButtonDisabled
  <2> DEFINE button == ButtonDisabled(p, entry', isUploadInProgress[p])
  <2>7. disabled' = [disabled EXCEPT ![p] = button] /\ button \in BOOLEAN
    BY <2>1, <2>6
  <2> HIDE DEF button
  <2>8. ButtonShown'
    <3>1. ASSUME NEW q \in Clients, q # p
          PROVE  ButtonDisabled(q, entry', isUploadInProgress[q])
                   <=> ButtonDisabled(q, entry, isUploadInProgress[q])
      BY <1>7, <3>1 DEF ButtonDisabled
    <3>2. ASSUME NEW q \in Clients
          PROVE  /\ isUploadInProgress'[q] <=> loop'[q].pc # "idle"
                 /\ tabOpen'[q] => (disabled'[q] <=>
                                       ButtonDisabled(q, entry', isUploadInProgress'[q]))
      <4>1. CASE q = p
        <5>1. disabled'[p] = button
          BY <1>1, <1>2, <2>7, PageTypes
        <5> QED BY <1>1, <2>1, <4>1, <5>1 DEF ButtonShown, button
      <4>2. CASE q # p
        <5>1. disabled'[q] = disabled[q]
          BY <1>1, <2>7, <4>2, PageTypes
        <5> QED BY <1>1, <1>5, <2>1, <3>1, <4>2, <5>1 DEF ButtonShown
      <4> QED BY <4>1, <4>2
    <3> QED BY <3>2 DEF ButtonShown, ButtonDisabled
  <2>9. UploadShownBy'
    <3>1. \A f \in Entries : entry'[f].status = "uploading" => f # e /\ entry'[f] = entry[f]
      BY <1>3, <1>7
    <3> QED BY <1>1, <1>5, <1>8, <2>1, <3>1 DEF UploadShownBy, Current
  <2>10. PageTypeOK'
    <3>1. disabled' \in [Clients -> BOOLEAN]
      BY <1>1, <2>7, PageTypes
    <3> QED BY <1>1, <1>5, <1>7, <2>1, <3>1 DEF PageTypeOK, Entry
  <2>11. LoopInv'
    BY <1>1, <2>1, <2>3, <2>4, PageTypes DEF LoopInv
  <2>12. GuestInv'
    BY <2>5, <2>8, <2>9, <2>10, <2>11 DEF GuestInv, SettledInv
  <2> QED BY <1>5, <2>2, <2>12, OthersUnchanged
<1> QED BY <1>9, <1>10

-----------------------------------------------------------------------------
(* The server answers. *)

LEMMA HandleInv ==
  ASSUME ServerInv, GuestInv, NEW r \in wire, Handle(r)
  PROVE  ServerInv' /\ GuestInv'
<1>1. /\ PageTypeOK /\ LoopNamed /\ OneRequest /\ AnswerNamed /\ SettledInv
      /\ wire \subseteq Requests /\ r \in Requests
  BY DEF GuestInv, LoopInv, ServerInv, ServerTypeOK
<1>2. /\ UNCHANGED <<filesMap, entry, loop, isUploadInProgress, disabled, maxFilesRemaining,
                     tabOpen, isUnlimited, faults>>
  BY DEF Handle
<1>3. ServerInv'
  <2>1. ASSUME NEW status, ReserveRefuse(r, status) \/ Refuse(r, status) PROVE ServerInv'
    BY <2>1, ReserveInv
  <2>2. ReserveCheck(r) \/ ReserveNew(r) => ServerInv'
    BY ReserveInv
  <2> QED BY <2>1, <2>2, UnreserveInv, AddInv, CompleteInv DEF Handle
<1>4. scenario' = scenario
  BY DEF Handle, ReserveCheck, UnreserveCheck, AddCheck, ReserveNew, UnreserveDelete, NewChunk,
         CompleteStart, ReserveRefuse, Refuse
<1>5. loop \in [Clients -> Loop] /\ answer \in [Clients -> Answers] /\ r.client \in Clients
  BY <1>1, PageTypes DEF Requests
<1>6. LoopNamed' /\ SettledInv'
  BY <1>1, <1>2, ButtonsUnchanged DEF LoopNamed, UuidOf, Current
<1>7. CASE UNCHANGED answer /\ Continue(r)
  <2> DEFINE new == [r EXCEPT !.phase = "checked"]
  <2>1. wire' = (wire \ {r}) \cup {new}
    BY <1>7 DEF Continue
  <2>2. new.kind = r.kind /\ new.client = r.client /\ new.waiting = r.waiting
    BY <1>1 DEF Requests
  <2> HIDE DEF new
  <2>3. OneRequest' /\ AnswerNamed'
    BY <1>1, <1>2, <1>7, <2>1, <2>2 DEF OneRequest, AnswerNamed
  <2>4. PageTypeOK'
    BY <1>1, <1>2, <1>4, <1>7 DEF PageTypeOK
  <2> QED BY <1>2, <1>3, <1>5, <1>6, <1>7, <2>3, <2>4 DEF GuestInv, LoopInv
<1>8. ASSUME NEW status \in {200, 400, 401, 404, 429}, NEW uuid \in Uuids \cup {NoUuid},
             Answered(r), Answer(r, status, uuid),
             r.kind = "reserve" /\ status = 200 => uuid # NoUuid
      PROVE  GuestInv'
  <2> DEFINE got == [status |-> status, uuid |-> uuid]
  <2>1. got \in Answers /\ got.status = status /\ got.uuid = uuid
    BY DEF Answers
  <2>2. answer' = IF r.waiting THEN [answer EXCEPT ![r.client] = got] ELSE answer
    BY <1>8 DEF Answer
  <2> HIDE DEF got
  <2>3. /\ answer' \in [Clients -> Answers]
        /\ \A q \in Clients : answer'[q] = IF r.waiting /\ q = r.client THEN got ELSE answer[q]
    BY <1>5, <2>1, <2>2
  <2>4. r.waiting => loop[r.client].pc = r.kind /\ r.kind \in Sending
    <3>1. loop[r.client] \in Loop
      BY <1>5
    <3> QED BY <1>1, <3>1 DEF OneRequest, Requests, Loop, Sending
  <2>5. AnswerNamed'
    BY <1>1, <1>2, <1>8, <2>1, <2>3, <2>4 DEF AnswerNamed
  <2>6. OneRequest'
    <3>1. wire' = wire \ {r}
      BY <1>8 DEF Answered
    <3>2. \A x \in wire : x.client \in Clients
      BY <1>1 DEF Requests
    <3>3. ASSUME NEW x \in wire', x.waiting PROVE ~(r.waiting /\ x.client = r.client)
      BY <1>1, <3>1, <3>3 DEF OneRequest
    <3> QED BY <1>1, <1>2, <2>3, <3>1, <3>2, <3>3 DEF OneRequest
  <2>7. PageTypeOK'
    BY <1>1, <1>2, <1>4, <2>3 DEF PageTypeOK, Answers
  <2> QED BY <1>2, <1>5, <1>6, <2>3, <2>5, <2>6, <2>7 DEF GuestInv, LoopInv
<1>9. CASE ReserveNew(r) /\ Answer(r, 200, issued + 1)
  <2>1. issued + 1 \in Uuids /\ issued + 1 # NoUuid
    BY <1>9, ChunksAssumption DEF ReserveNew, ServerInv, ServerTypeOK, Uuids, NoUuid
  <2> DEFINE u == issued + 1
  <2>2. u \in Uuids \cup {NoUuid} /\ u # NoUuid /\ Answered(r) /\ Answer(r, 200, u)
    BY <1>9, <2>1 DEF ReserveNew
  <2> HIDE DEF u
  <2> QED BY <1>3, <1>8, <2>2
<1>10. CASE (UnreserveDelete(r) \/ NewChunk(r) \/ CompleteStart(r)) /\ Answer(r, 200, NoUuid)
  <2>1. Answered(r) /\ r.kind # "reserve"
    BY <1>10 DEF UnreserveDelete, NewChunk, CompleteStart
  <2> QED BY <1>3, <1>8, <1>10, <2>1
<1>11. ASSUME NEW status \in {400, 401, 404, 429}, ReserveRefuse(r, status) \/ Refuse(r, status),
              Answer(r, status, NoUuid)
       PROVE  GuestInv'
  <2>1. Answered(r)
    BY <1>11 DEF ReserveRefuse, Refuse
  <2> QED BY <1>8, <1>11, <2>1
<1>12. ReserveCheck(r) \/ UnreserveCheck(r) \/ AddCheck(r) => Continue(r)
  BY DEF ReserveCheck, UnreserveCheck, AddCheck
<1>13. GuestInv'
  <2>1. CASE UNCHANGED answer /\ (ReserveCheck(r) \/ UnreserveCheck(r) \/ AddCheck(r))
    BY <1>7, <1>12, <2>1
  <2>2. CASE \E status \in {400, 401, 404, 429} :
                 (ReserveRefuse(r, status) \/ Refuse(r, status)) /\ Answer(r, status, NoUuid)
    BY <1>11, <2>2
  <2> QED BY <1>9, <1>10, <2>1, <2>2 DEF Handle
<1> QED BY <1>3, <1>13

(* Steps of the server that leave the pages, and add nothing to the wire. *)
LEMMA GuestsUnchanged ==
  ASSUME GuestInv, UNCHANGED pageVars, UNCHANGED scenario, wire' \subseteq wire
  PROVE  GuestInv'
<1>1. PageTypeOK /\ LoopInv /\ SettledInv
  BY DEF GuestInv
<1>2. SettledInv'
  BY <1>1, ButtonsUnchanged DEF pageVars
<1>3. LoopInv'
  BY <1>1 DEF LoopInv, LoopNamed, OneRequest, AnswerNamed, UuidOf, Current, pageVars
<1>4. PageTypeOK'
  BY <1>1 DEF PageTypeOK, pageVars
<1> QED BY <1>2, <1>3, <1>4 DEF GuestInv

(* A restart cuts the connections of all pages at once. *)
LEMMA ConnectionsCutInv ==
  ASSUME ServerInv, GuestInv, ConnectionsCut, UNCHANGED scenario, wire' = {}
  PROVE  GuestInv'
<1>1. /\ PageTypeOK /\ LoopNamed /\ OneRequest /\ AnswerNamed /\ SettledInv
      /\ wire \subseteq Requests
  BY DEF GuestInv, LoopInv, ServerInv, ServerTypeOK
<1>2. /\ answer' = [p \in Clients |-> IF Waiting(p) # {} THEN NetworkError ELSE answer[p]]
      /\ faults < Scenarios[scenario].maxFaults /\ faults' = faults + 1
      /\ UNCHANGED <<filesMap, entry, loop, isUploadInProgress, disabled, maxFilesRemaining,
                     tabOpen, isUnlimited>>
  BY DEF ConnectionsCut
<1>3. NetworkError \in Answers /\ NetworkError.status = 0
  BY DEF NetworkError, Answers
<1>4. answer \in [Clients -> Answers] /\ answer' \in [Clients -> Answers]
      /\ loop \in [Clients -> Loop]
  BY <1>1, <1>2, <1>3, PageTypes
<1>5. LoopNamed'
  BY <1>1, <1>2 DEF LoopNamed, UuidOf, Current
<1>6. OneRequest'
  BY DEF OneRequest
<1>7. AnswerNamed'
  <2> SUFFICES ASSUME NEW p \in Clients, answer'[p] # NoAnswer
               PROVE  /\ loop[p].pc \in Sending
                      /\ loop[p].pc = "reserve" /\ answer'[p].status = 200
                            => answer'[p].uuid # NoUuid
    BY <1>2 DEF AnswerNamed
  <2>1. CASE Waiting(p) # {}
    BY <1>1, <1>2, <1>3, <1>4, <2>1, WaitingSends
  <2>2. CASE Waiting(p) = {}
    BY <1>1, <1>2, <2>2 DEF AnswerNamed
  <2> QED BY <2>1, <2>2
<1>8. SettledInv'
  BY <1>1, <1>2, ButtonsUnchanged
<1>9. faults' \in 0..Scenarios[scenario].maxFaults
  <2>1. faults \in 0..Scenarios[scenario].maxFaults
    BY <1>1, PageTypes
  <2>2. Scenarios[scenario].maxFaults \in Nat
    BY ScenarioType DEF ServerInv, Scenario
  <2> QED BY <1>2, <2>1, <2>2
<1>10. PageTypeOK'
  BY <1>1, <1>2, <1>4, <1>9 DEF PageTypeOK, Answers
<1> QED BY <1>2, <1>4, <1>5, <1>6, <1>7, <1>8, <1>10 DEF GuestInv, LoopInv

LEMMA ServerStepsInv ==
  ASSUME ServerInv, GuestInv, ServerWork \/ TimePasses
  PROVE  ServerInv' /\ GuestInv'
<1>1. ASSUME NEW r \in wire, Handle(r) PROVE ServerInv' /\ GuestInv'
  BY <1>1, HandleInv
<1>2. ASSUME NEW j \in DOMAIN jobs, JobStep(j), UNCHANGED pageVars PROVE ServerInv' /\ GuestInv'
  <2>1. UNCHANGED <<scenario, wire>>
    BY <1>2 DEF JobStep, JobOpen, JobMove, JobMisses, JobFails, JobDiscards, JobSave, JobRelease
  <2> QED BY <1>2, <2>1, JobStepInv, GuestsUnchanged
<1>3. CASE TimePasses
  <2>1. UNCHANGED <<scenario, pageVars>> /\ wire' \subseteq wire
    BY <1>3 DEF TimePasses, ReservationExpires, cleanUp, RequestExpires, PendingFileRemoved,
                LoseRequest
  <2> QED BY <1>3, <2>1, TimeInv, GuestsUnchanged DEF TimePasses
<1> QED BY <1>1, <1>2, <1>3 DEF ServerWork

LEMMA GuestStepInv ==
  ASSUME ServerInv, GuestInv, GuestStep
  PROVE  ServerInv' /\ GuestInv'
  BY CreateUploadBoxInv, RemoveBtnInv, InitUploadInv, StartEntryInv, AllVisitedInv, ResumeInv,
     SetUnloadInv, ConnectionFailsInv DEF GuestStep, PageStep

LEMMA GuestInitInv == ServerInit /\ PageInit => GuestInv
<1> SUFFICES ASSUME ServerInit, PageInit PROVE GuestInv
  OBVIOUS
<1>1. ServerTypeOK
  BY ServerInitInv DEF ServerInv
<1>2. Cardinality(LiveFiles) \in Nat /\ Cardinality(Reserved) \in Nat /\ request.maxFiles \in Nat
  BY <1>1, Counts
<1>3. FilesRemaining \in Int /\ IsUnlimitedFiles \in BOOLEAN
  BY <1>2 DEF FilesRemaining, IsUnlimitedFiles
<1>4. Scenarios[scenario].maxFaults \in Nat
  BY <1>1, ScenarioType DEF Scenario
<1>5. NoEntry \in Entry /\ Idle \in Loop /\ NoAnswer \in Answers /\ Idle.pc = "idle"
      /\ NoEntry.status = "none" /\ ~NoEntry.removed /\ ~NoEntry.aborted
  BY Constants DEF NoEntry, Entry, NoAnswer, Answers
<1>6. <<>> \in Seq(Entries) /\ DOMAIN <<>> = {}
  OBVIOUS
<1>7. PageTypeOK
  <2>1. /\ filesMap \in [Clients -> Seq(Entries)] /\ entry \in [Entries -> Entry]
        /\ loop \in [Clients -> Loop] /\ answer \in [Clients -> Answers]
    BY <1>5, <1>6 DEF PageInit
  <2>2. /\ isUploadInProgress \in [Clients -> BOOLEAN] /\ disabled \in [Clients -> BOOLEAN]
        /\ tabOpen \in [Clients -> BOOLEAN]
    BY DEF PageInit
  <2>3. /\ maxFilesRemaining \in [Clients -> Int] /\ isUnlimited \in [Clients -> BOOLEAN]
        /\ faults \in 0..Scenarios[scenario].maxFaults
    BY <1>3, <1>4 DEF PageInit
  <2> QED BY <2>1, <2>2, <2>3 DEF PageTypeOK, Entry, Loop, Answers
<1>8. LoopInv
  <2>1. \A p \in Clients : loop[p].pc = "idle" /\ answer[p] = NoAnswer
    BY <1>5 DEF PageInit
  <2>2. wire = {}
    BY DEF ServerInit
  <2> QED BY <1>7, <2>1, <2>2, PageTypes
          DEF LoopInv, LoopNamed, OneRequest, AnswerNamed, Sending
<1>9. SettledInv
  <2>1. \A e \in Entries : entry[e].status = "none" /\ ~entry[e].aborted
    BY <1>5 DEF PageInit
  <2>2. EntriesOwned
    BY <1>6 DEF EntriesOwned, PageInit
  <2>3. ButtonShown
    BY <1>5, <2>1 DEF ButtonShown, ButtonDisabled, PageInit
  <2>4. UploadShownBy
    BY <2>1 DEF UploadShownBy
  <2> QED BY <2>2, <2>3, <2>4 DEF SettledInv
<1> QED BY <1>7, <1>8, <1>9 DEF GuestInv

-----------------------------------------------------------------------------
(* The owner *)

(* A deletion or its undo names a file. *)
CallsNamed == \A c \in calls : c.kind \in {"delete", "restore"} => c.file \in FileIds

OwnerInv == OwnerTypeOK /\ CallsNamed

Rows == [state : RowStatesShown, built : {"template", "script"},
         count : Int, ids : SUBSET FileIds, asks : Nat, limit : Limits,
         deletable : BOOLEAN, modal : BOOLEAN]
Forms == [open : {"closed", "new", "edit"}, checked : BOOLEAN, value : Limits]

LEMMA OwnerTypes ==
  ASSUME OwnerTypeOK
  PROVE  /\ row \in Rows /\ form \in Forms /\ toast \in FileIds \cup {NoToast}
         /\ fileRow \in [FileIds -> {"absent", "shown", "busy", "deleting", "gone"}]
         /\ frMaxFiles \in Limits /\ calls \subseteq Calls /\ reloads \in BOOLEAN
  BY DEF OwnerTypeOK, Rows, Forms

LEMMA RenderedType ==
  ASSUME ServerInv
  PROVE  /\ Rendered \in Rows /\ LiveFiles \subseteq FileIds
         /\ RenderedFiles \in [FileIds -> {"absent", "shown", "busy", "deleting", "gone"}]
<1>1. Cardinality(LiveFiles) \in Nat
  BY Counts DEF ServerInv
<1>2. LiveFiles \subseteq FileIds
  <2>1. DOMAIN jobs = 1..Len(jobs) /\ Len(jobs) \in Nat /\ Len(jobs) <= maxJobs /\ maxJobs \in Nat
    BY ChunksAssumption DEF ServerInv, ServerTypeOK, JobsNamed
  <2> QED BY <2>1 DEF LiveFiles, FileIds
<1>3. request.maxFiles \in Limits
  BY DEF ServerInv, ServerTypeOK
<1> QED BY <1>1, <1>2, <1>3 DEF Rendered, Rows, RowStatesShown, RenderedFiles

(* A call that the page makes *)
LEMMA SendType ==
  ASSUME OwnerInv, NEW kind \in {"delete", "restore", "remove", "save"},
         NEW file \in FileIds \cup {0}, NEW limit \in Limits,
         kind \in {"delete", "restore"} => file \in FileIds, Send1(kind, file, limit)
  PROVE  calls' \subseteq Calls /\ CallsNamed'
<1> DEFINE call == [kind |-> kind, file |-> file, limit |-> limit,
                    isNew |-> form.open = "new", stale |-> FALSE, phase |-> "sent"]
<1>1. call \in Calls /\ call.kind = kind /\ call.file = file
  BY DEF Calls
<1>2. calls' = calls \cup {call}
  BY DEF Send1
<1> HIDE DEF call
<1> QED BY <1>1, <1>2 DEF OwnerInv, OwnerTypeOK, CallsNamed

(* A call of which nothing but the phase changes *)
LEMMA ProceedsType ==
  ASSUME OwnerInv, NEW c \in calls,
         NEW phase \in {"sent", "files", "row", "key", "read", "ok", "failed"}, Proceeds(c, phase)
  PROVE  calls' \subseteq Calls /\ CallsNamed'
<1> DEFINE call == [c EXCEPT !.phase = phase]
<1>1. c \in Calls
  BY DEF OwnerInv, OwnerTypeOK
<1>2. call \in Calls /\ call.kind = c.kind /\ call.file = c.file
  BY <1>1 DEF Calls
<1>3. calls' = (calls \ {c}) \cup {call}
  BY DEF Proceeds
<1> HIDE DEF call
<1> QED BY <1>2, <1>3 DEF OwnerInv, OwnerTypeOK, CallsNamed

(* What the page does by itself, or at a click *)
LEMMA OwnerClicks ==
  ASSUME ServerInv, OwnerInv,
         \/ deleteOrShowModal \/ handleUndoFr \/ ToastHides \/ RowRemoved
         \/ \E j \in FileIds : deleteFileFr(j) \/ FileRowRemoved(j)
  PROVE  OwnerInv'
<1>1. OwnerTypeOK /\ CallsNamed
  BY DEF OwnerInv
<1> USE <1>1, OwnerTypes
<1>2. CASE deleteOrShowModal
  <2>1. row' \in Rows
    BY <1>2 DEF deleteOrShowModal, deleteFileRequest, showDeleteFRequestModal, Rows
  <2>2. calls' \subseteq Calls /\ CallsNamed'
    <3>1. CASE UNCHANGED calls
      BY <3>1 DEF CallsNamed
    <3>2. CASE Send1("remove", 0, 0)
      BY <3>2, SendType DEF Limits
    <3> QED BY <1>2, <3>1, <3>2 DEF deleteOrShowModal, deleteFileRequest, showDeleteFRequestModal
  <2> QED BY <1>2, <2>1, <2>2 DEF OwnerInv, OwnerTypeOK, Rows, deleteOrShowModal
<1>3. CASE handleUndoFr
  <2>1. toast \in FileIds /\ toast' = NoToast /\ Send1("restore", toast, 0)
    BY <1>3 DEF handleUndoFr
  <2>2. calls' \subseteq Calls /\ CallsNamed'
    BY <2>1, SendType DEF Limits
  <2> QED BY <1>3, <2>1, <2>2 DEF OwnerInv, OwnerTypeOK, handleUndoFr
<1>4. CASE ToastHides
  BY <1>4 DEF OwnerInv, OwnerTypeOK, CallsNamed, ToastHides
<1>5. CASE RowRemoved
  <2>1. row' \in Rows
    BY <1>5 DEF RowRemoved, Rows, RowStatesShown
  <2> QED BY <1>5, <2>1 DEF OwnerInv, OwnerTypeOK, Rows, CallsNamed, RowRemoved
<1>6. ASSUME NEW j \in FileIds, deleteFileFr(j) PROVE OwnerInv'
  <2>1. fileRow' \in [FileIds -> {"absent", "shown", "busy", "deleting", "gone"}]
    BY <1>6 DEF deleteFileFr
  <2>2. calls' \subseteq Calls /\ CallsNamed'
    BY <1>6, SendType DEF deleteFileFr, Limits
  <2> QED BY <1>6, <2>1, <2>2 DEF OwnerInv, OwnerTypeOK, deleteFileFr
<1>7. ASSUME NEW j \in FileIds, FileRowRemoved(j) PROVE OwnerInv'
  <2>1. fileRow' \in [FileIds -> {"absent", "shown", "busy", "deleting", "gone"}]
    BY <1>7 DEF FileRowRemoved
  <2> QED BY <1>7, <2>1 DEF OwnerInv, OwnerTypeOK, CallsNamed, FileRowRemoved
<1> QED BY <1>2, <1>3, <1>4, <1>5, <1>6, <1>7

LEMMA ReloadInv ==
  ASSUME ServerInv, OwnerInv, Reload
  PROVE  OwnerInv'
<1>1. OwnerTypeOK /\ CallsNamed
  BY DEF OwnerInv
<1>2. calls' \subseteq Calls /\ CallsNamed'
  <2> DEFINE stale(c) == [c EXCEPT !.stale = TRUE]
  <2>1. ASSUME NEW c \in Calls
        PROVE  stale(c) \in Calls /\ stale(c).kind = c.kind /\ stale(c).file = c.file
    BY DEF Calls
  <2>2. calls' = {stale(c) : c \in calls}
    BY DEF Reload
  <2> HIDE DEF stale
  <2>3. calls \subseteq Calls
    BY <1>1, OwnerTypes
  <2> QED BY <1>1, <2>1, <2>2, <2>3 DEF CallsNamed
<1>3. form' \in Forms
  BY DEF Reload, Closed, Forms, Limits
<1>4. /\ row' \in Rows /\ reloads' \in BOOLEAN /\ toast' = NoToast /\ frMaxFiles' = frMaxFiles
      /\ fileRow' \in [FileIds -> {"absent", "shown", "busy", "deleting", "gone"}]
  BY RenderedType DEF Reload
<1> QED BY <1>1, <1>2, <1>3, <1>4 DEF OwnerInv, OwnerTypeOK, Rows, Forms

(* The dialog *)
LEMMA DialogInv ==
  ASSUME ServerInv, OwnerInv,
         \/ newFileRequest \/ editFileRequest \/ CheckLimit \/ saveFileRequest
         \/ \E limit \in NewLimits : TypeLimit(limit)
  PROVE  OwnerInv'
<1>1. OwnerTypeOK /\ CallsNamed
  BY DEF OwnerInv
<1> USE <1>1, OwnerTypes
<1>2. Scenarios[scenario].limitMaxFiles \in Limits
  BY ScenarioType DEF ServerInv, Scenario
<1>3. ASSUME NEW open \in {"new", "edit"}, NEW maxFiles \in Limits, setModalValues(open, maxFiles)
      PROVE  form' \in Forms
  BY <1>2, <1>3 DEF setModalValues, Forms, Limits
<1>4. CASE newFileRequest
  <2>1. form' \in Forms
    BY <1>3, <1>4 DEF newFileRequest, loadFileRequestDefaults
  <2> QED BY <1>4, <2>1 DEF OwnerInv, OwnerTypeOK, Forms, CallsNamed, newFileRequest
<1>5. CASE editFileRequest
  <2>1. row.limit \in Limits
    BY DEF Rows
  <2>2. form' \in Forms
    BY <1>3, <1>5, <2>1 DEF editFileRequest
  <2> QED BY <1>5, <2>2 DEF OwnerInv, OwnerTypeOK, Forms, CallsNamed, editFileRequest
<1>6. CASE CheckLimit
  <2>1. form' \in Forms
    BY <1>6 DEF CheckLimit, Forms
  <2> QED BY <1>6, <2>1 DEF OwnerInv, OwnerTypeOK, Forms, CallsNamed, CheckLimit
<1>7. CASE saveFileRequest
  <2>1. form.value \in Limits /\ 0 \in Limits /\ form.checked \in BOOLEAN
    BY DEF Forms, Limits
  <2>2. frMaxFiles' \in Limits
    BY <1>7, <2>1 DEF saveFileRequest, saveFileRequestDefaults
  <2> DEFINE limit == IF form.checked THEN form.value ELSE 0
  <2>3. limit \in Limits /\ Send1("save", 0, limit)
    BY <1>7, <2>1 DEF saveFileRequest
  <2> HIDE DEF limit
  <2>4. calls' \subseteq Calls /\ CallsNamed'
    BY <2>3, SendType
  <2>5. form' \in Forms
    BY <1>7 DEF saveFileRequest, Closed, Forms, Limits
  <2> QED BY <1>7, <2>2, <2>4, <2>5 DEF OwnerInv, OwnerTypeOK, Forms, saveFileRequest
<1>8. ASSUME NEW limit \in NewLimits, TypeLimit(limit) PROVE OwnerInv'
  <2>1. limit \in Limits
    BY LimitsAssumption DEF Limits
  <2>2. checkMaxNumber(limit) \in Limits
    BY <1>2, <2>1 DEF checkMaxNumber
  <2>3. form' \in Forms
    BY <1>8, <2>2 DEF TypeLimit, Forms
  <2> QED BY <1>8, <2>3 DEF OwnerInv, OwnerTypeOK, Forms, CallsNamed, TypeLimit
<1> QED BY <1>4, <1>5, <1>6, <1>7, <1>8

(* The answers *)
LEMMA CallEndsInv ==
  ASSUME ServerInv, OwnerInv, NEW c \in calls, CallEnds(c)
  PROVE  OwnerInv'
<1>1. OwnerTypeOK /\ CallsNamed /\ row \in Rows
  BY OwnerTypes DEF OwnerInv
<1>2. c \in Calls
  BY <1>1, OwnerTypes
<1>3. calls' \subseteq Calls /\ CallsNamed'
  BY <1>1, OwnerTypes DEF CallEnds, CallsNamed
<1>4. UNCHANGED <<form, frMaxFiles>>
  BY DEF CallEnds
<1>5. CASE UNCHANGED <<row, fileRow, toast>> /\ reloads' \in BOOLEAN
  BY <1>1, <1>3, <1>4, <1>5 DEF OwnerInv, OwnerTypeOK
<1>6. CASE c.kind = "delete" /\ FileDeleted(c.file)
  <2>1. CASE row.built = "script"
    BY <1>1, <1>3, <1>4, <1>6, <2>1 DEF OwnerInv, OwnerTypeOK, FileDeleted
  <2>2. CASE row.built # "script"
    <3>1. c.file \in FileIds
      BY <1>1, <1>6 DEF CallsNamed
    <3>2. /\ row' = [row EXCEPT !.count = changeFileCountFr(-1),
                                !.ids = removeDownloadFileReference(@, c.file)]
          /\ fileRow' = [fileRow EXCEPT ![c.file] = "deleting"]
          /\ toast' = c.file /\ UNCHANGED reloads
      BY <1>6, <2>2 DEF FileDeleted
    <3>3. row' \in Rows
      <4> DEFINE count == changeFileCountFr(-1)
                 ids == removeDownloadFileReference(row.ids, c.file)
      <4>1. count \in Int /\ ids \in SUBSET FileIds
        BY <1>1 DEF Rows, changeFileCountFr, removeDownloadFileReference
      <4>2. row' = [row EXCEPT !.count = count, !.ids = ids]
        BY <3>2
      <4> HIDE DEF count, ids
      <4> QED BY <1>1, <4>1, <4>2 DEF Rows
    <3> QED BY <1>1, <1>3, <1>4, <3>1, <3>2, <3>3 DEF OwnerInv, OwnerTypeOK, Rows
  <2> QED BY <2>1, <2>2
<1>7. CASE /\ row' = [row EXCEPT !.state = "deleting"]
           /\ fileRow' = [j \in FileIds |-> IF fileRow[j] = "absent" THEN "absent" ELSE "gone"]
           /\ UNCHANGED <<toast, reloads>>
  <2>1. row' \in Rows
    BY <1>1, <1>7 DEF Rows, RowStatesShown
  <2> QED BY <1>1, <1>3, <1>4, <1>7, <2>1 DEF OwnerInv, OwnerTypeOK, Rows
<1>8. CASE insertOrReplaceFileRequest /\ UNCHANGED <<fileRow, toast, reloads>>
  <2>1. Cardinality(LiveFiles) \in Nat /\ request.maxFiles \in Limits
    BY Counts DEF ServerInv, ServerTypeOK
  <2>2. row' \in Rows
    BY <1>8, <2>1 DEF insertOrReplaceFileRequest, Rows, RowStatesShown
  <2> QED BY <1>1, <1>3, <1>4, <1>8, <2>2 DEF OwnerInv, OwnerTypeOK, Rows
<1>9. reloads \in BOOLEAN
  BY <1>1, OwnerTypes
<1> QED BY <1>5, <1>6, <1>7, <1>8, <1>9 DEF CallEnds

LEMMA HandleCallInv ==
  ASSUME ServerInv, OwnerInv, NEW c \in calls, HandleCall(c)
  PROVE  ServerInv' /\ OwnerInv' /\ UNCHANGED <<scenario, wire>>
<1>1. OwnerTypeOK /\ CallsNamed /\ c \in Calls
  BY OwnerTypes DEF OwnerInv
<1>2. c.limit \in Limits /\ c.isNew \in BOOLEAN
  BY <1>1 DEF Calls
<1>3. \E phase \in {"files", "row", "key", "read", "ok", "failed"} : Proceeds(c, phase)
  BY DEF HandleCall
<1>4. calls' \subseteq Calls /\ CallsNamed'
  BY <1>3, ProceedsType
<1>5. OwnerInv'
  BY <1>1, <1>4 DEF HandleCall, OwnerInv, OwnerTypeOK
<1>6. CASE UNCHANGED serverVars
  BY <1>5, <1>6 DEF serverVars, ServerInv, ServerTypeOK, RequestsNamed, JobsNamed
<1>7. CASE FileDelete(c.file) \/ FileRestore(c.file)
  BY <1>5, <1>7, FileInv DEF FileDelete, FileRestore
<1>8. CASE DeleteFilesOfRequest \/ DeleteFileRequest \/ DeleteApiKey
           \/ SaveFileRequest(c.limit, c.isNew)
  BY <1>2, <1>5, <1>8, OwnerHandlersInv
     DEF DeleteFilesOfRequest, DeleteFileRequest, DeleteApiKey, SaveFileRequest
<1> QED BY <1>6, <1>7, <1>8 DEF HandleCall

LEMMA CallsCutInv ==
  ASSUME OwnerInv, CallsCut
  PROVE  OwnerInv'
<1> DEFINE new(c) == IF c.phase \in {"ok", "failed"} THEN c ELSE [c EXCEPT !.phase = "failed"]
<1>1. OwnerTypeOK /\ CallsNamed /\ calls \subseteq Calls
  BY OwnerTypes DEF OwnerInv
<1>2. calls' = {new(c) : c \in calls} /\ UNCHANGED <<row, fileRow, toast, form, frMaxFiles, reloads>>
  BY DEF CallsCut
<1>3. \A c \in calls : new(c) \in Calls /\ new(c).kind = c.kind /\ new(c).file = c.file
  BY <1>1 DEF Calls
<1> HIDE DEF new
<1>4. calls' \subseteq Calls /\ CallsNamed'
  BY <1>1, <1>2, <1>3 DEF CallsNamed
<1> QED BY <1>1, <1>2, <1>4 DEF OwnerInv, OwnerTypeOK

LEMMA OwnerInitInv == ServerInit /\ OwnerInit => OwnerInv
<1> SUFFICES ASSUME ServerInit, OwnerInit PROVE OwnerInv
  OBVIOUS
<1>1. ServerInv
  BY ServerInitInv
<1>2. frMaxFiles \in Limits
  BY LimitsAssumption DEF OwnerInit, Limits
<1>3. form \in Forms
  BY DEF OwnerInit, Closed, Forms, Limits
<1>4. row \in Rows /\ fileRow \in [FileIds -> {"absent", "shown", "busy", "deleting", "gone"}]
  BY <1>1, RenderedType DEF OwnerInit
<1> QED BY <1>2, <1>3, <1>4 DEF OwnerInit, OwnerInv, OwnerTypeOK, Rows, Forms, CallsNamed

-----------------------------------------------------------------------------
(* The inductive invariant of the system, and what follows from it *)
Inv == ServerInv /\ GuestInv /\ OwnerInv

LEMMA InvInit == Init => Inv
  BY ServerInitInv, GuestInitInv, OwnerInitInv DEF Init, Inv

LEMMA InvStep == Inv /\ [Next]_vars => Inv'
<1> SUFFICES ASSUME Inv, [Next]_vars PROVE Inv'
  OBVIOUS
<1> USE DEF Inv
<1>1. CASE (GuestStep \/ ServerWork \/ TimePasses) /\ UNCHANGED ownerVars
  <2>1. ServerInv' /\ GuestInv'
    BY <1>1, GuestStepInv, ServerStepsInv
  <2>2. OwnerInv'
    BY <1>1 DEF OwnerInv, OwnerTypeOK, CallsNamed, ownerVars
  <2> QED BY <2>1, <2>2
<1>2. CASE OwnerStep /\ UNCHANGED pageVars
  <2>1. ASSUME NEW c \in calls, HandleCall(c) PROVE Inv'
    BY <1>2, <2>1, HandleCallInv, GuestsUnchanged
  <2>2. ASSUME UNCHANGED serverVars, OwnerInv' PROVE Inv'
    <3>1. ServerInv'
      BY <2>2 DEF serverVars, ServerInv, ServerTypeOK, RequestsNamed, JobsNamed
    <3>2. UNCHANGED scenario /\ wire' \subseteq wire
      BY <2>2 DEF serverVars
    <3>3. GuestInv'
      BY <1>2, <3>2, GuestsUnchanged
    <3> QED BY <2>2, <3>1, <3>3
  <2>3. ASSUME NEW c \in calls, CallEnds(c) PROVE Inv'
    BY <2>2, <2>3, CallEndsInv DEF CallEnds
  <2>4. CASE Reload
    BY <2>2, <2>4, ReloadInv DEF Reload
  <2>5. CASE newFileRequest \/ editFileRequest \/ CheckLimit \/ saveFileRequest
             \/ \E limit \in NewLimits : TypeLimit(limit)
    BY <2>2, <2>5, DialogInv DEF newFileRequest, editFileRequest, CheckLimit, saveFileRequest, TypeLimit
  <2>6. CASE \/ deleteOrShowModal \/ handleUndoFr \/ ToastHides \/ RowRemoved
             \/ \E j \in FileIds : deleteFileFr(j) \/ FileRowRemoved(j)
    BY <2>2, <2>6, OwnerClicks
       DEF deleteOrShowModal, handleUndoFr, ToastHides, RowRemoved, deleteFileFr, FileRowRemoved
  <2> QED BY <1>2, <2>1, <2>3, <2>4, <2>5, <2>6 DEF OwnerStep
<1>3. CASE UNCHANGED vars
  <2>1. UNCHANGED <<serverVars, pageVars, ownerVars>>
    BY <1>3 DEF vars
  <2>2. ServerInv'
    BY <2>1 DEF serverVars, ServerInv, ServerTypeOK, RequestsNamed, JobsNamed
  <2>3. UNCHANGED scenario /\ wire' \subseteq wire
    BY <2>1 DEF serverVars
  <2>4. GuestInv'
    BY <2>1, <2>3, GuestsUnchanged
  <2>5. OwnerInv'
    BY <2>1 DEF OwnerInv, OwnerTypeOK, CallsNamed, ownerVars
  <2> QED BY <2>2, <2>4, <2>5
<1>4. CASE Restart
  BY <1>4, ServerRestartInv, ConnectionsCutInv, CallsCutInv DEF Restart
<1> QED BY <1>1, <1>2, <1>3, <1>4 DEF Next

LEMMA InvAlways == Spec => []Inv
  BY InvInit, InvStep, PTL DEF Spec

(* The types of all variables, for any number of guests, files, chunks,      *)
(* reservations and completions.                                             *)
THEOREM TypeCorrect == Spec => []TypeOK
<1>1. Inv => TypeOK
  BY DEF Inv, ServerInv, GuestInv, OwnerInv, TypeOK
<1> QED BY <1>1, InvAlways, PTL

(* No page comes to rest with an entry that shows an upload nobody works on, *)
(* nor with a button that does not fit what is waiting (startUpload,         *)
(* updateUploadButtonState, the remove button and beforeunload), whatever    *)
(* answers the requests get and whatever is lost.                            *)
THEOREM PagesSettle == Spec => []PageSettled
<1>1. Inv => PageSettled
  <2> SUFFICES ASSUME Inv, NEW p \in Clients, tabOpen[p]
               PROVE  /\ isUploadInProgress[p] <=> loop[p].pc # "idle"
                      /\ ~isUploadInProgress[p] => \A e \in Entries :
                            PageOf[e] = p /\ entry[e].status = "uploading" => entry[e].removed
                      /\ disabled[p] <=> ButtonDisabled(p, entry, isUploadInProgress[p])
    BY DEF PageSettled
  <2>1. ButtonShown /\ UploadShownBy
    BY DEF Inv, GuestInv, SettledInv
  <2> QED BY <2>1 DEF ButtonShown, UploadShownBy, Sending
<1> QED BY <1>1, InvAlways, PTL

-----------------------------------------------------------------------------
(* The limit of a file request is kept (QuotaKept of FileRequests.tla), for  *)
(* any number of guests, files and reservations.                             *)

(* The uploads that have been stored, and the reservations that may still    *)
(* become a file.  A stored upload keeps its reservation until it is         *)
(* released, and is not counted twice.                                       *)
Stored == {jobs[j].uuid : j \in LiveFiles}
Outstanding == Reserved \ Stored

(* The inductive invariant: the limit holds for the files and for what may   *)
(* become one.  QuotaKept alone would be lost with the next file.            *)
QuotaInv ==
    exceptions = {} /\ ~IsUnlimitedFiles
        => Cardinality(LiveFiles) + Cardinality(Outstanding) <= request.maxFiles

LEMMA OutstandingCounts ==
  ASSUME ServerTypeOK
  PROVE  IsFiniteSet(Outstanding) /\ Cardinality(Outstanding) \in Nat
<1>1. Outstanding \in SUBSET Reserved /\ IsFiniteSet(Reserved)
  BY Counts DEF Outstanding
<1>2. IsFiniteSet(Outstanding)
  BY <1>1, FS_Subset
<1> QED BY <1>2, FS_CardinalityType

(* The uploads of a finite set of jobs are not more than the jobs. *)
LEMMA ImageCount ==
  ASSUME NEW S, IsFiniteSet(S), NEW f
  PROVE  /\ IsFiniteSet({f[x] : x \in S})
         /\ Cardinality({f[x] : x \in S}) <= Cardinality(S)
<1> DEFINE T == {f[x] : x \in S}
           g == [x \in S |-> f[x]]
<1>1. g \in Surjection(S, T)
  BY DEF Surjection
<1> HIDE DEF T, g
<1>2. IsFiniteSet(T) /\ Cardinality(T) <= Cardinality(S)
  BY <1>1, FS_Surjection
<1> QED BY <1>2 DEF T

(* Steps after which a file is missing, or a reservation: what the missing   *)
(* files leave outstanding is not more than they were.                       *)
LEMMA NoneAdded ==
  ASSUME ServerTypeOK, ServerTypeOK', QuotaInv,
         exceptions \subseteq exceptions', request'.maxFiles = request.maxFiles,
         Reserved' \subseteq Reserved, LiveFiles' \subseteq LiveFiles,
         \A j \in LiveFiles : jobs'[j].uuid = jobs[j].uuid
  PROVE  QuotaInv'
<1> DEFINE gone == LiveFiles \ LiveFiles'
           uuid == [j \in LiveFiles |-> jobs[j].uuid]
           left == {uuid[j] : j \in gone}
<1>1. /\ IsFiniteSet(LiveFiles) /\ Cardinality(LiveFiles) \in Nat
      /\ IsFiniteSet(Outstanding) /\ Cardinality(Outstanding) \in Nat
  BY Counts, OutstandingCounts
<1>2. IsFiniteSet(gone) /\ IsFiniteSet(LiveFiles') /\ Cardinality(gone) \in Nat
      /\ Cardinality(LiveFiles') \in Nat
  <2>1. gone \in SUBSET LiveFiles /\ LiveFiles' \in SUBSET LiveFiles
    OBVIOUS
  <2>2. IsFiniteSet(gone) /\ IsFiniteSet(LiveFiles')
    BY <1>1, <2>1, FS_Subset
  <2> QED BY <2>2, FS_CardinalityType
<1>3. Cardinality(LiveFiles) = Cardinality(LiveFiles') + Cardinality(gone)
  <2>1. LiveFiles' \cup gone = LiveFiles /\ LiveFiles' \cap gone = {}
    OBVIOUS
  <2>2. Cardinality(LiveFiles' \cup gone)
          = Cardinality(LiveFiles') + Cardinality(gone) - Cardinality(LiveFiles' \cap gone)
    BY <1>2, FS_Union
  <2>3. Cardinality(LiveFiles' \cap gone) = 0
    BY <2>1, FS_EmptySet
  <2>4. Cardinality(LiveFiles' \cup gone) = Cardinality(LiveFiles)
    BY <2>1
  <2> HIDE DEF gone
  <2> QED BY <1>2, <2>2, <2>3, <2>4
<1>4. IsFiniteSet(left) /\ Cardinality(left) <= Cardinality(gone) /\ Cardinality(left) \in Nat
  <2>1. IsFiniteSet(left) /\ Cardinality(left) <= Cardinality(gone)
    BY <1>2, ImageCount
  <2> QED BY <2>1, FS_CardinalityType
<1>5. Outstanding' \in SUBSET (Outstanding \cup left)
  <2> SUFFICES ASSUME NEW u \in Outstanding', u \notin Outstanding PROVE u \in left
    OBVIOUS
  <2>1. u \in Reserved /\ u \notin Stored'
    BY DEF Outstanding
  <2>2. PICK j \in LiveFiles : u = jobs[j].uuid
    BY <2>1 DEF Outstanding, Stored
  <2>3. j \notin LiveFiles'
    BY <2>1, <2>2 DEF Stored
  <2> QED BY <2>2, <2>3
<1> HIDE DEF gone, left, uuid
<1>6. Cardinality(Outstanding') <= Cardinality(Outstanding) + Cardinality(gone)
  <2>1. /\ IsFiniteSet(Outstanding \cup left)
        /\ Cardinality(Outstanding \cup left)
             = Cardinality(Outstanding) + Cardinality(left) - Cardinality(Outstanding \cap left)
    BY <1>1, <1>4, FS_Union
  <2>2. Cardinality(Outstanding \cap left) \in Nat
    <3>1. Outstanding \cap left \in SUBSET left
      OBVIOUS
    <3> QED BY <1>4, <3>1, FS_Subset, FS_CardinalityType
  <2>3. /\ IsFiniteSet(Outstanding') /\ Cardinality(Outstanding') \in Nat
        /\ Cardinality(Outstanding') <= Cardinality(Outstanding \cup left)
    BY <1>5, <2>1, FS_Subset, FS_CardinalityType
  <2> QED BY <1>1, <1>2, <1>4, <2>1, <2>2, <2>3
<1>7. Cardinality(Outstanding') \in Nat
  <2>1. IsFiniteSet(Outstanding \cup left)
    BY <1>1, <1>4, FS_Union
  <2> QED BY <1>5, <2>1, FS_Subset, FS_CardinalityType
<1>8. exceptions' = {} /\ ~IsUnlimitedFiles' => exceptions = {} /\ ~IsUnlimitedFiles
  BY DEF IsUnlimitedFiles
<1>9. request.maxFiles \in Nat
  BY Counts
<1> QED BY <1>1, <1>2, <1>3, <1>6, <1>7, <1>8, <1>9 DEF QuotaInv

(* A reservation that finds a file left *)
LEMMA ReserveQuota ==
  ASSUME ServerInv, QuotaInv, NEW r \in wire, ReserveNew(r)
  PROVE  QuotaInv'
<1>1. ServerTypeOK /\ ServerTypeOK'
  BY ReserveInv DEF ServerInv
<1>2. LiveFiles' = LiveFiles /\ Stored' = Stored /\ request' = request
  BY DEF ReserveNew, LiveFiles, Stored
<1>3. issued + 1 \in Uuids
  BY <1>1, ChunksAssumption DEF ReserveNew, ServerTypeOK, Uuids
<1>4. Reserved' = Reserved \cup {issued + 1}
  BY <1>1, <1>3 DEF ReserveNew, Reserved, ServerTypeOK
<1> SUFFICES ASSUME exceptions' = {}, ~IsUnlimitedFiles'
             PROVE  Cardinality(LiveFiles) + Cardinality(Outstanding') <= request.maxFiles
  BY <1>2 DEF QuotaInv
<1>5. FilesRemaining > 0
  <2>1. ~(FilesRemaining <= 0)
    BY <1>2 DEF ReserveNew, IsUnlimitedFiles
  <2>2. FilesRemaining \in Int
    BY <1>1, Counts DEF FilesRemaining
  <2> QED BY <2>1, <2>2
<1>6. request.maxFiles - Cardinality(LiveFiles) - Cardinality(Reserved) > 0
  BY <1>1, <1>5, Counts DEF FilesRemaining
<1>7. IsFiniteSet(Reserved') /\ Cardinality(Reserved') <= Cardinality(Reserved) + 1
      /\ Cardinality(Reserved') \in Nat
  <2>1. IsFiniteSet(Reserved \cup {issued + 1})
        /\ Cardinality(Reserved \cup {issued + 1}) <= Cardinality(Reserved) + 1
    BY <1>1, Counts, FS_AddElement, SMTT(30)
  <2> QED BY <1>4, <2>1, FS_CardinalityType
<1>8. Outstanding' \in SUBSET Reserved'
  BY DEF Outstanding
<1>9. Cardinality(Outstanding') <= Cardinality(Reserved') /\ Cardinality(Outstanding') \in Nat
  BY <1>7, <1>8, FS_Subset, FS_CardinalityType
<1> QED BY <1>1, <1>6, <1>7, <1>9, Counts

(* A file that is stored with its reservation takes the place of it. *)
LEMMA SaveQuota ==
  ASSUME ServerInv, QuotaInv, NEW j \in DOMAIN jobs, JobSave(j)
  PROVE  QuotaInv'
<1>1. ServerTypeOK /\ jobs \in Seq(Jobs) /\ jobs[j] \in Jobs
  BY DEF ServerInv, ServerTypeOK
<1> DEFINE u == jobs[j].uuid
<1> SUFFICES ASSUME exceptions' = {}, ~IsUnlimitedFiles'
             PROVE  Cardinality(LiveFiles') + Cardinality(Outstanding') <= request.maxFiles
  BY DEF QuotaInv, JobSave
<1>2. /\ exceptions = {} /\ reservation[u] # "none"
      /\ \A k \in DOMAIN jobs : jobs[k].uuid = u => jobs[k].row = "none"
  BY DEF JobSave
<1>3. ~IsUnlimitedFiles
  BY DEF JobSave, IsUnlimitedFiles
<1>4. u \in Uuids
  BY <1>1 DEF JobSave, ServerInv, JobsNamed, Jobs
<1>5. /\ DOMAIN jobs' = DOMAIN jobs /\ jobs'[j].row = "live" /\ jobs'[j].uuid = u
      /\ \A k \in DOMAIN jobs : k # j => jobs'[k] = jobs[k]
  BY <1>1 DEF JobSave, SetJob
<1>6. jobs[j].row # "live" /\ LiveFiles' = LiveFiles \cup {j} /\ j \notin LiveFiles
  BY <1>2, <1>5 DEF LiveFiles
<1>7. Stored' = Stored \cup {u} /\ u \notin Stored
  <2>1. u \notin Stored
    BY <1>2 DEF Stored, LiveFiles
  <2>2. \A k \in LiveFiles : k \in DOMAIN jobs /\ k # j /\ jobs'[k].uuid = jobs[k].uuid
    BY <1>5, <1>6 DEF LiveFiles
  <2> QED BY <1>5, <1>6, <2>1, <2>2 DEF Stored
<1>8. Reserved' = Reserved /\ u \in Reserved
  BY <1>2, <1>4 DEF JobSave, Reserved
<1>9. Outstanding' = Outstanding \ {u} /\ u \in Outstanding
  BY <1>7, <1>8 DEF Outstanding
<1>10. Cardinality(LiveFiles') = Cardinality(LiveFiles) + 1
  BY <1>1, <1>6, Counts, FS_AddElement
<1>11. Cardinality(Outstanding') = Cardinality(Outstanding) - 1
  BY <1>1, <1>9, OutstandingCounts, FS_RemoveElement
<1>12. Cardinality(LiveFiles) + Cardinality(Outstanding) <= request.maxFiles
  BY <1>2, <1>3 DEF QuotaInv
<1> QED BY <1>1, <1>10, <1>11, <1>12, Counts, OutstandingCounts

(* A job that is changed in place leaves the other files, and does not       *)
(* become a file of its own unless its row says so.                          *)
LEMMA SetJobFiles ==
  ASSUME ServerTypeOK, NEW j, NEW pc, NEW row1, NEW content, SetJob(j, pc, row1, content),
         row1 = "live" /\ j \in DOMAIN jobs => jobs[j].row = "live"
  PROVE  /\ LiveFiles' \subseteq LiveFiles
         /\ \A k \in LiveFiles : jobs'[k].uuid = jobs[k].uuid
<1>1. jobs \in Seq(Jobs)
  BY DEF ServerTypeOK
<1> DEFINE new == [uuid |-> jobs[j].uuid, pc |-> pc, row |-> row1, content |-> content]
<1>2. jobs' = [jobs EXCEPT ![j] = new] /\ new.uuid = jobs[j].uuid /\ new.row = row1
  BY DEF SetJob
<1> HIDE DEF new
<1>3. /\ DOMAIN jobs' = DOMAIN jobs
      /\ \A k \in DOMAIN jobs : jobs'[k] = IF k = j THEN new ELSE jobs[k]
  BY <1>1, <1>2
<1> QED BY <1>2, <1>3 DEF LiveFiles

(* A goroutine starts without a file. *)
LEMMA StartFiles ==
  ASSUME ServerTypeOK, NEW r \in wire, CompleteStart(r)
  PROVE  /\ LiveFiles' \subseteq LiveFiles
         /\ \A k \in LiveFiles : jobs'[k].uuid = jobs[k].uuid
<1>1. jobs \in Seq(Jobs)
  BY DEF ServerTypeOK
<1> DEFINE job == [uuid |-> r.uuid, pc |-> "open", row |-> "none", content |-> NoFile]
<1>2. jobs' = Append(jobs, job) /\ job.row = "none"
  BY DEF CompleteStart
<1> HIDE DEF job
<1>3. /\ DOMAIN jobs = 1..Len(jobs) /\ Len(jobs) \in Nat /\ DOMAIN jobs' = 1..(Len(jobs) + 1)
      /\ \A k \in 1..Len(jobs) : jobs'[k] = jobs[k]
      /\ jobs'[Len(jobs) + 1] = job
  BY <1>1, <1>2
<1> QED BY <1>2, <1>3 DEF LiveFiles

-----------------------------------------------------------------------------
(* Every step of the system *)

(* The handlers that guests call *)
LEMMA HandleQuota ==
  ASSUME ServerInv, ServerInv', QuotaInv, NEW r \in wire, Handle(r)
  PROVE  QuotaInv'
<1>1. ServerTypeOK /\ ServerTypeOK'
  BY DEF ServerInv
<1>2. CASE ReserveNew(r)
  BY <1>2, ReserveQuota
<1>3. CASE CompleteStart(r)
  <2>1. /\ LiveFiles' \subseteq LiveFiles
        /\ \A k \in LiveFiles : jobs'[k].uuid = jobs[k].uuid
    BY <1>1, <1>3, StartFiles
  <2>2. UNCHANGED <<request, exceptions>> /\ Reserved' = Reserved
    BY <1>3 DEF CompleteStart, Reserved
  <2> QED BY <1>1, <2>1, <2>2, NoneAdded
<1>4. CASE UNCHANGED <<request, exceptions, jobs>> /\ Reserved' \subseteq Reserved
  BY <1>1, <1>4, NoneAdded DEF LiveFiles
<1>5. CASE \/ ReserveCheck(r) \/ UnreserveCheck(r) \/ AddCheck(r) \/ UnreserveDelete(r)
           \/ NewChunk(r) \/ \E status : ReserveRefuse(r, status) \/ Refuse(r, status)
  <2>1. UNCHANGED <<request, exceptions, jobs>>
    BY <1>5 DEF ReserveCheck, UnreserveCheck, AddCheck, UnreserveDelete, NewChunk, ReserveRefuse, Refuse
  <2>2. Reserved' \subseteq Reserved
    BY <1>1, <1>5 DEF ReserveCheck, UnreserveCheck, AddCheck, UnreserveDelete, NewChunk,
                      ReserveRefuse, Refuse, SetComplete, Reserved, ServerTypeOK
  <2> QED BY <1>4, <2>1, <2>2
<1> QED BY <1>2, <1>3, <1>5 DEF Handle

(* A completion *)
LEMMA JobQuota ==
  ASSUME ServerInv, ServerInv', QuotaInv, NEW j \in DOMAIN jobs, JobStep(j)
  PROVE  QuotaInv'
<1>1. ServerTypeOK /\ ServerTypeOK'
  BY DEF ServerInv
<1>2. CASE JobSave(j)
  BY <1>2, SaveQuota
<1>3. CASE \/ JobOpen(j) \/ JobMove(j) \/ JobRelease(j)
           \/ JobMisses(j) \/ JobFails(j) \/ JobDiscards(j)
  <2>1. UNCHANGED <<request, exceptions>>
    BY <1>3 DEF JobOpen, JobMove, JobMisses, JobFails, JobDiscards, JobRelease
  <2>2. Reserved' \subseteq Reserved
    BY <1>1, <1>3 DEF JobOpen, JobMove, JobMisses, JobFails, JobDiscards, JobRelease,
                      SetComplete, Reserved, ServerTypeOK
  <2>3. \E pc, row1, content : SetJob(j, pc, row1, content) /\ (row1 = "live" => jobs[j].row = "live")
    BY <1>3 DEF JobOpen, JobMove, JobMisses, JobFails, JobDiscards, JobRelease
  <2>4. /\ LiveFiles' \subseteq LiveFiles
        /\ \A k \in LiveFiles : jobs'[k].uuid = jobs[k].uuid
    BY <1>1, <2>3, SetJobFiles
  <2> QED BY <1>1, <2>1, <2>2, <2>4, NoneAdded
<1> QED BY <1>2, <1>3 DEF JobStep

(* Time *)
LEMMA TimeQuota ==
  ASSUME ServerInv, ServerInv', QuotaInv, TimePasses
  PROVE  QuotaInv'
<1>1. ServerTypeOK /\ ServerTypeOK'
  BY DEF ServerInv
<1>2. /\ UNCHANGED exceptions /\ request'.maxFiles = request.maxFiles
      /\ Reserved' \subseteq Reserved
  <2>1. request'.maxFiles = request.maxFiles
    BY <1>1 DEF TimePasses, ReservationExpires, cleanUp, RequestExpires, PendingFileRemoved,
                LoseRequest, ServerTypeOK
  <2>2. UNCHANGED exceptions
    BY DEF TimePasses, ReservationExpires, cleanUp, RequestExpires, PendingFileRemoved, LoseRequest
  <2>3. Reserved' \subseteq Reserved
    BY <1>1 DEF TimePasses, ReservationExpires, cleanUp, RequestExpires, PendingFileRemoved,
                LoseRequest, ServerTypeOK, Reserved
  <2> QED BY <2>1, <2>2, <2>3
<1>3. ASSUME NEW j \in DOMAIN jobs, PendingFileRemoved(j) PROVE QuotaInv'
  <2>1. SetJob(j, jobs[j].pc, "gone", jobs[j].content)
    BY <1>3 DEF PendingFileRemoved
  <2>2. /\ LiveFiles' \subseteq LiveFiles
        /\ \A k \in LiveFiles : jobs'[k].uuid = jobs[k].uuid
    BY <1>1, <2>1, SetJobFiles
  <2> QED BY <1>1, <1>2, <2>2, NoneAdded
<1>4. CASE UNCHANGED jobs
  BY <1>1, <1>2, <1>4, NoneAdded DEF LiveFiles
<1> QED BY <1>3, <1>4 DEF TimePasses, ReservationExpires, cleanUp, RequestExpires, LoseRequest

(* The handlers that the owner calls *)
LEMMA CallQuota ==
  ASSUME ServerInv, ServerInv', QuotaInv, NEW c \in calls, HandleCall(c)
  PROVE  QuotaInv'
<1>1. ServerTypeOK /\ ServerTypeOK'
  BY DEF ServerInv
<1>2. CASE UNCHANGED serverVars
  BY <1>2 DEF serverVars, QuotaInv, Outstanding, Stored, Reserved, LiveFiles, IsUnlimitedFiles
<1>3. CASE FileDelete(c.file)
  <2>1. SetJob(c.file, jobs[c.file].pc, "pending", jobs[c.file].content)
    BY <1>3 DEF FileDelete
  <2>2. /\ LiveFiles' \subseteq LiveFiles
        /\ \A k \in LiveFiles : jobs'[k].uuid = jobs[k].uuid
    BY <1>1, <2>1, SetJobFiles
  <2>3. UNCHANGED <<request, exceptions>> /\ Reserved' = Reserved
    BY <1>3 DEF FileDelete, Reserved
  <2> QED BY <1>1, <2>2, <2>3, NoneAdded
<1>4. CASE FileRestore(c.file) \/ SaveFileRequest(c.limit, c.isNew)
  BY <1>4 DEF FileRestore, SaveFileRequest, QuotaInv
<1>5. CASE DeleteFilesOfRequest
  <2>1. jobs \in Seq(Jobs) /\ jobs' = [j \in DOMAIN jobs |->
                  IF jobs[j].row = "none" THEN jobs[j] ELSE [jobs[j] EXCEPT !.row = "gone"]]
    BY <1>1, <1>5 DEF DeleteFilesOfRequest, ServerTypeOK
  <2>2. ASSUME NEW j \in DOMAIN jobs
        PROVE  jobs'[j].uuid = jobs[j].uuid /\ jobs'[j].row \in {"none", "gone"}
    <3>1. jobs[j] \in Jobs
      BY <2>1
    <3> QED BY <2>1, <3>1 DEF Jobs
  <2>3. LiveFiles' = {} /\ \A k \in LiveFiles : jobs'[k].uuid = jobs[k].uuid
    BY <2>1, <2>2 DEF LiveFiles
  <2>4. UNCHANGED <<request, exceptions>> /\ Reserved' = Reserved
    BY <1>5 DEF DeleteFilesOfRequest, Reserved
  <2> QED BY <1>1, <2>3, <2>4, NoneAdded
<1>6. CASE DeleteFileRequest \/ DeleteApiKey
  <2>1. request'.maxFiles = request.maxFiles
    BY <1>1, <1>6 DEF DeleteFileRequest, DeleteApiKey, ServerTypeOK
  <2>2. UNCHANGED <<jobs, exceptions, reservation>>
    BY <1>6 DEF DeleteFileRequest, DeleteApiKey
  <2> QED BY <1>1, <2>1, <2>2, NoneAdded DEF LiveFiles, Reserved
<1> QED BY <1>2, <1>3, <1>4, <1>5, <1>6 DEF HandleCall

(* What the pages do by themselves *)
LEMMA PagesQuota ==
  ASSUME QuotaInv, UNCHANGED <<request, reservation, jobs, exceptions>>
  PROVE  QuotaInv'
  BY DEF QuotaInv, Outstanding, Stored, Reserved, LiveFiles, IsUnlimitedFiles

(* A restart forgets the reservations, and ends what might have stored more. *)
LEMMA RestartQuota ==
  ASSUME ServerInv, ServerInv', QuotaInv, ServerRestart
  PROVE  QuotaInv'
<1>1. ServerTypeOK /\ ServerTypeOK' /\ jobs \in Seq(Jobs)
  BY DEF ServerInv, ServerTypeOK
<1>2. UNCHANGED <<request, exceptions>> /\ Reserved' = {}
  BY DEF ServerRestart, Reserved
<1>3. ASSUME NEW j \in DOMAIN jobs
      PROVE  jobs'[j].uuid = jobs[j].uuid /\ jobs'[j].row = jobs[j].row
  <2>1. jobs[j] \in Jobs
    BY <1>1
  <2> QED BY <2>1 DEF Jobs, ServerRestart, Ended
<1>4. DOMAIN jobs' = DOMAIN jobs
  BY DEF ServerRestart
<1>5. LiveFiles' \subseteq LiveFiles /\ \A j \in LiveFiles : jobs'[j].uuid = jobs[j].uuid
  BY <1>3, <1>4 DEF LiveFiles
<1> QED BY <1>1, <1>2, <1>5, NoneAdded

LEMMA QuotaStep == Inv /\ QuotaInv /\ [Next]_vars => QuotaInv'
<1> SUFFICES ASSUME Inv, QuotaInv, [Next]_vars PROVE QuotaInv'
  OBVIOUS
<1>1. ServerInv /\ ServerInv'
  BY InvStep DEF Inv
<1>2. CASE GuestStep
  <2>1. UNCHANGED <<request, reservation, jobs, exceptions>>
    BY <1>2 DEF GuestStep, PageStep, createUploadBox, removeBtn, initUpload, StartEntry,
                AllVisited, Resume, setUnload, ConnectionFails, serverVars
  <2> QED BY <2>1, PagesQuota
<1>3. CASE ServerWork
  BY <1>1, <1>3, HandleQuota, JobQuota DEF ServerWork
<1>4. CASE TimePasses
  BY <1>1, <1>4, TimeQuota
<1>5. CASE OwnerStep
  <2>1. ASSUME NEW c \in calls, HandleCall(c) PROVE QuotaInv'
    BY <1>1, <2>1, CallQuota
  <2>2. CASE UNCHANGED serverVars
    BY <2>2, PagesQuota DEF serverVars
  <2> QED BY <1>5, <2>1, <2>2
          DEF OwnerStep, deleteOrShowModal, handleUndoFr, ToastHides, RowRemoved, Reload,
              deleteFileFr, FileRowRemoved, newFileRequest, editFileRequest, CheckLimit,
              saveFileRequest, TypeLimit, CallEnds
<1>6. CASE UNCHANGED vars
  BY <1>6, PagesQuota DEF vars, serverVars
<1>7. CASE Restart
  BY <1>1, <1>7, RestartQuota DEF Restart
<1> QED BY <1>2, <1>3, <1>4, <1>5, <1>6, <1>7 DEF Next

(* At first there are as many files as the scenario says, and no reservation. *)
LEMMA QuotaInit == Init => QuotaInv
<1> SUFFICES ASSUME Init, ~IsUnlimitedFiles
             PROVE  Cardinality(LiveFiles) + Cardinality(Outstanding) <= request.maxFiles
  BY DEF QuotaInv
<1> DEFINE present == Scenarios[scenario].present
<1>1. ServerTypeOK
  BY InvInit DEF Inv, ServerInv
<1>2. present \in Nat /\ present <= request.maxFiles
  <2>1. request.maxFiles = Scenarios[scenario].maxFiles
    BY DEF Init, ServerInit
  <2> QED BY <1>1, <2>1, ScenarioType, ChunksAssumption DEF IsUnlimitedFiles, Scenario
<1>3. LiveFiles = 1..present
  BY <1>2 DEF Init, ServerInit, LiveFiles
<1> HIDE DEF present
<1>4. Cardinality(LiveFiles) = present
  <2>1. Cardinality(1..present) = present
    BY <1>2, FS_Interval
  <2> QED BY <1>3, <2>1
<1>5. Outstanding = {}
  BY DEF Init, ServerInit, Reserved, Outstanding
<1>6. Cardinality(Outstanding) = 0
  BY <1>5, FS_EmptySet
<1> QED BY <1>1, <1>2, <1>4, <1>6, Counts

(* A file request never has more files than its limit (FilesRemaining,       *)
(* apiChunkReserve, SaveMetaData), for any number of guests that reserve,    *)
(* upload, complete, give up and come back in any order, until one of the    *)
(* exceptions that QuotaKept names has happened.                             *)
THEOREM QuotaHolds == Spec => []QuotaKept
<1>1. Init => Inv /\ QuotaInv
  BY InvInit, QuotaInit
<1>2. (Inv /\ QuotaInv) /\ [Next]_vars => (Inv /\ QuotaInv)'
  BY InvStep, QuotaStep
<1>3. Inv /\ QuotaInv => QuotaKept
  <2> SUFFICES ASSUME Inv, QuotaInv, exceptions = {}, ~IsUnlimitedFiles
               PROVE  Cardinality(LiveFiles) <= request.maxFiles
    BY DEF QuotaKept
  <2>1. ServerTypeOK
    BY DEF Inv, ServerInv
  <2> QED BY <2>1, Counts, OutstandingCounts DEF QuotaInv
<1> QED BY <1>1, <1>2, <1>3, PTL DEF Spec
=============================================================================
