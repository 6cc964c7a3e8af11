------------------------------ MODULE Storage ------------------------------
(***************************************************************************)
(* Files, their shared sources and their hotlinks: uploads that reuse the  *)
(* source of equal content, duplication, replacement, deletion at once or  *)
(* after a delay, restoring, editing, downloads, the deletion of a user,   *)
(* and CleanUp, which removes the files that have expired.                 *)
(*                                                                         *)
(* A call of the database, of the file system or of the download status is *)
(* one step, except that a call is joined to a neighbour whose result no   *)
(* other process can see.  Nothing here holds a lock over two calls that   *)
(* CleanUp would respect.  Storage is local; content is a member of Hashes.*)
(***************************************************************************)
EXTENDS Integers, FiniteSets

CONSTANTS
    Procs,        \* requests and goroutines
    Files,        \* the files that may be stored at the start
    Hashes,       \* contents
    Scenarios,    \* Scenarios[n]: which requests meet which files, see Scenario
    Delay,        \* delay of a scheduled deletion, in ticks
    None          \* no file, no row, no hotlink, no key

VARIABLES
    scenario,     \* the scenario of this behaviour, which never changes
    files,        \* files[f]: the row of f in the table FileMetaData
    source,       \* source[h]: the key of the file h in the data directory
    hotlinks,     \* hotlinks[l]: the file of the hotlink l
    downloading,  \* the requests with a status in downloadstatus
    now,          \* time.Now().Unix()
    crashes,      \* history: number of crashes
    revived,      \* history: files whose row was due for removal, or gone, before a save
    pc,           \* pc[p]: the next step of p
    held,         \* held[p]: the row that p has read
    stamp,        \* stamp[p]: deletionTime of a schedule, timeNow of CleanUp
    run           \* run[p]: other local variables of CleanUp and ReplaceFile

table == <<files, revived>>
stored == <<table, source, hotlinks>>
outside == <<downloading, now, crashes>>
local == <<held, stamp, run>>
vars == <<scenario, stored, outside, pc, local>>

Kind == Scenarios[scenario].kind                \* what a process does, or "absent"
Target == Scenarios[scenario].target            \* the file that a request is about
Content == Scenarios[scenario].content          \* the hash of all uploads
Replacement == Scenarios[scenario].replacement  \* idNewContent of a replacement
Linkable == Scenarios[scenario].linkable        \* requests for which IsAbleHotlink holds
Owned == Scenarios[scenario].owned              \* the files of the user who is deleted
Stored == Scenarios[scenario].stored            \* the rows at the start
Encrypted == Scenarios[scenario].encrypted      \* files are encrypted on the server
Slow == Scenarios[scenario].slow                \* downloads of more than 24 hours
MaxTime == Scenarios[scenario].maxTime          \* bound on the clock
MaxCrashes == Scenarios[scenario].maxCrashes    \* bound on the crashes of the server

(* A new file is named after the request that makes it. *)
Ids == Files \cup Procs
Times == Nat

(* ExpireAt is beyond the clock for unlimited time. The key stands for the *)
(* EncryptionInfo, and is named after the upload that has drawn it.        *)
Row == [SHA1 : Hashes, key : Ids \cup {None}, ExpireAt : Times,
        DownloadsRemaining : Nat, PendingDeletion : Times, HotlinkId : Ids \cup {None}]

Kinds == {"upload", "add", "duplicate", "replace", "delete", "schedule", "restore",
          "edit", "download", "deleteUser", "cleaner", "absent"}

Scenario == [kind : [Procs -> Kinds], target : [Procs -> Files], content : Hashes,
             replacement : Files, linkable : SUBSET Procs, owned : SUBSET Files,
             stored : [Files -> Row \cup {None}], encrypted : BOOLEAN,
             slow : SUBSET Procs, maxTime : Nat \ {0}, maxCrashes : Nat]

Missing == "missing"

(* Rows of equal content have the key of the source that they share. *)
SourceShared(rows) ==
    \A f, g \in Files : rows[f] # None /\ rows[g] # None /\ rows[f].SHA1 = rows[g].SHA1
                          => rows[f].key = rows[g].key

ASSUME ScenariosAssumption ==
    /\ Files \cap Procs = {} /\ None \notin Files \cup Procs \cup Row
    /\ Missing \notin Files \cup Procs \cup {None}
    /\ \A n \in DOMAIN Scenarios :
          Scenarios[n] \in Scenario /\ SourceShared(Scenarios[n].stored)
    /\ Delay \in Nat \ {0}

NoRows == [f \in {} |-> None]
Idle == [rows |-> NoRows, element |-> None, wasItemDeleted |-> FALSE, links |-> {},
         calls |-> 0]
PCs == {"start", "hashed", "copyInfo", "removeOld", "move", "save", "hotlink",
        "content", "replace", "unreferenced", "dropSource", "delete", "deleteSave",
        "complete", "sleep", "count", "open", "register", "serve", "clean", "elements",
        "referenced", "remove", "dropRow", "links", "dropLink",
        "done", "failed", "lost"}

(* Type invariant. *)
TypeOK ==
    /\ files \in [Ids -> Row \cup {None}]
    /\ source \in [Hashes -> Ids \cup {None, Missing}]
    /\ hotlinks \in [Ids -> Ids \cup {None}]
    /\ revived \subseteq Ids
    /\ downloading \in SUBSET Procs
    /\ scenario \in DOMAIN Scenarios
    /\ now \in 1 .. MaxTime
    /\ crashes \in 0 .. MaxCrashes
    /\ pc \in [Procs -> PCs]
    /\ held \in [Procs -> Row \cup {None}]
    /\ stamp \in [Procs -> Times]
    /\ \A p \in Procs :
         /\ DOMAIN run[p].rows \subseteq Ids
         /\ \A f \in DOMAIN run[p].rows : run[p].rows[f] \in Row
         /\ run[p].element \in Ids \cup {None}
         /\ run[p].wasItemDeleted \in BOOLEAN
         /\ run[p].links \subseteq Ids
         /\ run[p].calls \in Nat

Init ==
    /\ scenario \in DOMAIN Scenarios
    /\ files = [f \in Ids |-> IF f \in Files THEN Stored[f] ELSE None]
    /\ source = [h \in Hashes |->
           LET present == {files[f] : f \in {g \in Ids : files[g] # None}}
               keys == {row.key : row \in {r \in present : r.SHA1 = h}}
           IN  IF keys = {} THEN Missing ELSE CHOOSE key \in keys : TRUE]
    /\ hotlinks = [l \in Ids |->
           IF files[l] # None /\ files[l].HotlinkId = l THEN l ELSE None]
    /\ revived = {}
    /\ downloading = {}
    /\ now = 1
    /\ crashes = 0
    /\ pc = [p \in Procs |-> IF Kind[p] = "absent" THEN "done" ELSE "start"]
    /\ held = [p \in Procs |-> None]
    /\ stamp = [p \in Procs |-> 0]
    /\ run = [p \in Procs |-> Idle]

-----------------------------------------------------------------------------
Goto(p, from, to) == pc[p] = from /\ pc' = [pc EXCEPT ![p] = to]
Hold(p, row) == held' = [held EXCEPT ![p] = row]

IsExpiredFile(row, timeNow) == row.ExpireAt < timeNow \/ row.DownloadsRemaining < 1
IsPendingForDeletion(row) == row.PendingDeletion # 0
(* Mutant of isPendingToBeDeleted: 0 is taken for a time. *)
NoTimeIsPast(row, timeNow) == row.PendingDeletion < timeNow

isPendingToBeDeleted(row, timeNow) ==
    IsPendingForDeletion(row) /\ row.PendingDeletion < timeNow
FileExists(row) == source[row.SHA1] # Missing
IsCurrentlyDownloading(f) == \E p \in downloading : Target[p] = f

(* GetFile returns the row of f. *)
GetFile(f) ==
    /\ files[f] # None
    /\ ~IsPendingForDeletion(files[f])
    /\ ~IsExpiredFile(files[f], now)
    /\ FileExists(files[f])

GetAllMetadata == [f \in {g \in Ids : files[g] # None} |-> files[f]]
GetAllHotlinks == {l \in Ids : hotlinks[l] # None}
Due(row) == row = None \/ IsExpiredFile(row, now) \/ row.PendingDeletion \in 1 .. now
SaveMetaData(f, row) ==
    /\ files' = [files EXCEPT ![f] = row]
    /\ revived' = IF f \in Files /\ Due(files[f]) /\ ~Due(row)
                  THEN revived \cup {f} ELSE revived
deleteSource(h) == source' = [source EXCEPT ![h] = Missing]

(* A request on a file starts with the row of the file. *)
Found(p, kinds, next) ==
    /\ Kind[p] \in kinds
    /\ Goto(p, "start", next)
    /\ Hold(p, files[Target[p]])
    /\ UNCHANGED <<stored, outside, stamp, run>>

NotFound(p) ==
    /\ Goto(p, "start", "failed")
    /\ IF Kind[p] \in {"duplicate", "replace", "download"}
       THEN ~GetFile(Target[p])
       ELSE Kind[p] \in {"delete", "schedule", "restore", "edit"} /\ files[Target[p]] = None
    /\ UNCHANGED <<stored, outside, local>>

-----------------------------------------------------------------------------
(* NewFileFromChunk (kind "upload") and NewFile (kind "add") *)

NewRow(p) == [SHA1 |-> Content, key |-> IF Encrypted THEN p ELSE None,
              ExpireAt |-> MaxTime, DownloadsRemaining |-> 1, PendingDeletion |-> 0,
              HotlinkId |-> IF p \in Linkable THEN p ELSE None]

(* The content is hashed; AddHotlink saves the hotlink of the new row. *)
createNewMetaData(p) ==
    /\ Kind[p] \in {"upload", "add"}
    /\ Goto(p, "start", "hashed")
    /\ Hold(p, NewRow(p))
    /\ hotlinks' = IF p \in Linkable THEN [hotlinks EXCEPT ![p] = p] ELSE hotlinks
    /\ UNCHANGED <<table, source, outside, stamp, run>>

CheckExists(p) ==
    /\ Goto(p, "hashed", IF ~FileExists(held[p]) THEN "move"
                         ELSE IF Encrypted THEN "copyInfo" ELSE "save")
    /\ UNCHANGED <<stored, outside, local>>

(* getEncInfoFromExistingFile takes the row it meets first. *)
CopyEncInfo(p) ==
    \/ /\ Goto(p, "copyInfo", "save")
       /\ \E f \in DOMAIN GetAllMetadata :
            /\ files[f].SHA1 = Content
            /\ Hold(p, [held[p] EXCEPT !.key = files[f].key])
       /\ UNCHANGED <<stored, outside, stamp, run>>
    \/ /\ Goto(p, "copyInfo", "removeOld")
       /\ \A f \in DOMAIN GetAllMetadata : files[f].SHA1 # Content
       /\ UNCHANGED <<stored, outside, local>>

(* No row has the key of the source: the source is removed.  By then       *)
(* NewFileFromChunk removes the chunk as well, as for any source that      *)
(* exists, and fails to read it; NewFile still has its content.            *)
RemoveOldSource(p) ==
    /\ Goto(p, "removeOld",
            IF Kind[p] = "add" /\ FileExists(held[p]) THEN "move" ELSE "failed")
    /\ deleteSource(Content)
    /\ UNCHANGED <<table, hotlinks, outside, local>>

(* Encrypt and MoveToFilesystem *)
MoveToFilesystem(p) ==
    /\ Goto(p, "move", "save")
    /\ source' = [source EXCEPT ![Content] = held[p].key]
    /\ UNCHANGED <<table, hotlinks, outside, local>>

SaveNewFile(p) ==
    /\ Goto(p, "save", "done")
    /\ SaveMetaData(p, held[p])
    /\ UNCHANGED <<source, hotlinks, outside, local>>

-----------------------------------------------------------------------------
(* DuplicateFile: the copy keeps the HotlinkId of the original when it may  *)
(* not have one of its own; its expiry is the same or a new one.            *)
DuplicateRead(p) == GetFile(Target[p]) /\ Found(p, {"duplicate"}, "hotlink")

DuplicateHotlink(p) ==
    /\ Kind[p] = "duplicate"
    /\ Goto(p, "hotlink", "save")
    /\ \E ExpireAt \in {held[p].ExpireAt, MaxTime} :
         Hold(p, [held[p] EXCEPT !.ExpireAt = ExpireAt,
                                 !.HotlinkId = IF p \in Linkable THEN p ELSE @])
    /\ hotlinks' = IF p \in Linkable THEN [hotlinks EXCEPT ![p] = p] ELSE hotlinks
    /\ UNCHANGED <<table, source, outside, stamp, run>>

(* apiEditFile with a new expiry; DeleteHotlink and AddHotlink as the      *)
(* password of the file asks for.                                          *)
EditRead(p) == files[Target[p]] # None /\ Found(p, {"edit"}, "hotlink")

EditHotlink(p) ==
    LET link == held[p].HotlinkId
        next == IF p \notin Linkable THEN None ELSE IF link = None THEN p ELSE link
    IN  /\ Kind[p] = "edit"
        /\ Goto(p, "hotlink", "deleteSave")
        /\ Hold(p, [held[p] EXCEPT !.ExpireAt = MaxTime, !.HotlinkId = next])
        /\ hotlinks' = [l \in Ids |-> IF l = link /\ next = None THEN None
                                      ELSE IF l = next /\ link = None THEN Target[p]
                                      ELSE hotlinks[l]]
        /\ UNCHANGED <<table, source, outside, stamp, run>>

EditSave(p) ==
    /\ Kind[p] = "edit"
    /\ Goto(p, "deleteSave", "done")
    /\ SaveMetaData(Target[p], held[p])
    /\ UNCHANGED <<source, hotlinks, outside, local>>

-----------------------------------------------------------------------------
(* ReplaceFile *)

ReplaceRead(p) == GetFile(Target[p]) /\ Found(p, {"replace"}, "content")

ReplaceContent(p) ==
    /\ Goto(p, "content", "replace")
    /\ GetFile(Replacement)
    /\ run' = [run EXCEPT ![p].rows = [f \in {Replacement} |-> files[f]]]
    /\ UNCHANGED <<stored, outside, held, stamp>>

ReplaceFails(p) ==
    /\ Goto(p, "content", "failed")
    /\ ~GetFile(Replacement)
    /\ UNCHANGED <<stored, outside, local>>

(* held keeps previousContent. *)
ReplaceSave(p) ==
    /\ Goto(p, "replace", "unreferenced")
    /\ LET new == run[p].rows[Replacement]
       IN  SaveMetaData(Target[p], [held[p] EXCEPT !.SHA1 = new.SHA1, !.key = new.key])
    /\ run' = [run EXCEPT ![p].rows = NoRows]
    /\ UNCHANGED <<source, hotlinks, outside, held, stamp>>

(* deleteNewFile is a parameter of the request. *)
AfterReplace == {"done", "delete"}

(* Mutant of StillReferenced: the replaced content is never removed. *)
KeepReplacedSource(p) ==
    /\ \E next \in AfterReplace : Goto(p, "unreferenced", next)
    /\ UNCHANGED <<stored, outside, local>>

(* deleteUnreferencedSource: GetAllMetadata, then FileExists and deleteSource *)
StillReferenced(p) ==
    /\ \E next \in AfterReplace \cup {"dropSource"} :
         /\ Goto(p, "unreferenced", next)
         /\ (next = "dropSource") <=>
                \A f \in DOMAIN GetAllMetadata : files[f].SHA1 # held[p].SHA1
    /\ UNCHANGED <<stored, outside, local>>

DropReplacedSource(p) ==
    /\ \E next \in AfterReplace : Goto(p, "dropSource", next)
    /\ deleteSource(held[p].SHA1)
    /\ UNCHANGED <<table, hotlinks, outside, local>>

-----------------------------------------------------------------------------
(* DeleteFile: GetMetaDataById, SaveMetaData, then SetAllComplete and the  *)
(* start of CleanUp.  The request has its answer; p goes on as CleanUp.    *)
Deleted(p) == IF Kind[p] = "replace" THEN Replacement ELSE Target[p]

DeleteRequest(p) ==
    /\ Kind[p] = "delete"
    /\ files[Target[p]] # None
    /\ Goto(p, "start", "delete")
    /\ UNCHANGED <<stored, outside, local>>

DeleteRead(p) ==
    /\ Goto(p, "delete", IF files[Deleted(p)] = None THEN "done" ELSE "deleteSave")
    /\ Hold(p, files[Deleted(p)])
    /\ UNCHANGED <<stored, outside, stamp, run>>

(* Mutant of DeleteSave: a time before the epoch. *)
DeleteBeforeEpoch(p) ==
    /\ Kind[p] # "edit"
    /\ Goto(p, "deleteSave", "complete")
    /\ SaveMetaData(Deleted(p), [held[p] EXCEPT !.ExpireAt = -1])
    /\ UNCHANGED <<source, hotlinks, outside, local>>

DeleteSave(p) ==
    /\ Kind[p] # "edit"
    /\ Goto(p, "deleteSave", "complete")
    /\ SaveMetaData(Deleted(p), [held[p] EXCEPT !.ExpireAt = 0])
    /\ UNCHANGED <<source, hotlinks, outside, local>>

SetAllComplete(p) ==
    /\ Goto(p, "complete", "clean")
    /\ downloading' = {d \in downloading : Target[d] # Deleted(p)}
    /\ Hold(p, None)
    /\ UNCHANGED <<stored, now, crashes, stamp, run>>

(* DeleteFileSchedule *)
ScheduleRead(p) == files[Target[p]] # None /\ Found(p, {"schedule"}, "save")

ScheduleSave(p) ==
    /\ Kind[p] = "schedule"
    /\ Goto(p, "save", "sleep")
    /\ stamp' = [stamp EXCEPT ![p] = now + Delay]
    /\ SaveMetaData(Target[p], [held[p] EXCEPT !.PendingDeletion = now + Delay])
    /\ UNCHANGED <<source, hotlinks, outside, held, run>>

(* The goroutine deletes the file unless another time has been set. *)
ScheduleWakes(p) ==
    LET row == files[Target[p]]
    IN  /\ now >= stamp[p]
        /\ Goto(p, "sleep", IF row # None /\ row.PendingDeletion = stamp[p]
                            THEN "delete" ELSE "done")
        /\ UNCHANGED <<stored, outside, local>>

(* CancelPendingFileDeletion *)
RestoreRead(p) == files[Target[p]] # None /\ Found(p, {"restore"}, "save")

RestoreSave(p) ==
    /\ Kind[p] = "restore"
    /\ Goto(p, "save", "done")
    /\ SaveMetaData(Target[p], [held[p] EXCEPT !.PendingDeletion = 0])
    /\ UNCHANGED <<source, hotlinks, outside, local>>

-----------------------------------------------------------------------------
(* A download: the request, and ServeFile *)

DownloadRead(p) == GetFile(Target[p]) /\ Found(p, {"download"}, "count")

(* GetDownloadsRemaining, the check, and IncreaseDownloadCount, which run  *)
(* under one stripe of the mutex.                                          *)
DownloadCount(p) ==
    LET row == files[Target[p]]
        remaining == IF row = None THEN 0 ELSE row.DownloadsRemaining
        granted == ~IsExpiredFile([held[p] EXCEPT !.DownloadsRemaining = remaining], now)
    IN  /\ Goto(p, "count", IF granted THEN "open" ELSE "failed")
        /\ IF granted
           THEN SaveMetaData(Target[p], [row EXCEPT !.DownloadsRemaining = @ - 1])
           ELSE UNCHANGED table
        /\ UNCHANGED <<source, hotlinks, outside, local>>

(* getFileHandler: an open file can be read until it is closed. *)
OpenSource(p) ==
    /\ Goto(p, "open", IF FileExists(held[p]) /\ source[held[p].SHA1] = held[p].key
                       THEN "register" ELSE "lost")
    /\ UNCHANGED <<stored, outside, local>>

SetDownload(p) ==
    /\ Goto(p, "register", "serve")
    /\ downloading' = downloading \cup {p}
    /\ UNCHANGED <<stored, now, crashes, local>>

SetComplete(p) ==
    /\ Goto(p, "serve", "done")
    /\ downloading' = downloading \ {p}
    /\ UNCHANGED <<stored, now, crashes, local>>

-----------------------------------------------------------------------------
(* apiDeleteUser with DeleteFiles: the rows of the user, one by one *)

DeleteUserRead(p) ==
    /\ Kind[p] = "deleteUser"
    /\ Goto(p, "start", "dropRow")
    /\ run' = [run EXCEPT ![p].links = {f \in Owned : files[f] # None}]
    /\ UNCHANGED <<stored, outside, held, stamp>>

DeleteUserRow(p) ==
    /\ Kind[p] = "deleteUser"
    /\ pc[p] = "dropRow"
    /\ \E f \in run[p].links :
         /\ SaveMetaData(f, None)
         /\ run' = [run EXCEPT ![p].links = @ \ {f}]
    /\ UNCHANGED <<source, hotlinks, outside, pc, held, stamp>>

DeleteUserEnds(p) ==
    /\ Kind[p] = "deleteUser"
    /\ run[p].links = {}
    /\ Goto(p, "dropRow", "done")
    /\ UNCHANGED <<stored, outside, local>>

-----------------------------------------------------------------------------
(* CleanUp, started every hour and by DeleteFile *)

CleanUpBegins(p) ==
    /\ Kind[p] = "cleaner"
    /\ Goto(p, "start", "clean")
    /\ UNCHANGED <<stored, outside, local>>

CleanUp(p) ==
    /\ Goto(p, "clean", "elements")
    /\ stamp' = [stamp EXCEPT ![p] = now]
    /\ run' = [run EXCEPT ![p] = [run[p] EXCEPT !.rows = GetAllMetadata,
                                                !.calls = run[p].calls + 1,
                                                !.wasItemDeleted = FALSE]]
    /\ UNCHANGED <<stored, outside, held>>

(* Mutant of Removable: pending deletions are left to their goroutine. *)
RemovableWhenExpired(f, row, timeNow) ==
    ~FileExists(row) \/ (~IsCurrentlyDownloading(f) /\ IsExpiredFile(row, timeNow))

(* The conditions under which the outer loop removes the element. *)
Removable(f, row, timeNow) ==
    \/ ~FileExists(row)
    \/ ~IsCurrentlyDownloading(f) /\ IsExpiredFile(row, timeNow)
    \/ isPendingToBeDeleted(row, timeNow)

Without(rows, f) == [g \in DOMAIN rows \ {f} |-> rows[g]]

SkipElement(p) ==
    \E f \in DOMAIN run[p].rows :
        /\ Goto(p, "elements", "elements")
        /\ ~Removable(f, run[p].rows[f], stamp[p])
        /\ run' = [run EXCEPT ![p].rows = Without(@, f)]
        /\ UNCHANGED <<stored, outside, held, stamp>>

CheckElement(p) ==
    \E f \in DOMAIN run[p].rows :
        LET row == run[p].rows[f]
        IN  /\ Goto(p, "elements", IF FileExists(row) THEN "referenced" ELSE "dropRow")
            /\ Removable(f, row, stamp[p])
            /\ Hold(p, row)
            /\ run' = [run EXCEPT ![p].rows = Without(@, f), ![p].element = f]
            /\ UNCHANGED <<stored, outside, stamp>>

(* Mutant of CheckReferenced: the other rows are not looked at. *)
NeverReferenced(p) ==
    /\ Goto(p, "referenced", "remove")
    /\ UNCHANGED <<stored, outside, local>>

(* The inner loop reads all rows again. *)
CheckReferenced(p) ==
    /\ Goto(p, "referenced",
            IF \E f \in Ids \ {run[p].element} :
                 files[f] # None /\ files[f].SHA1 = held[p].SHA1
            THEN "dropRow" ELSE "remove")
    /\ UNCHANGED <<stored, outside, local>>

RemoveSource(p) ==
    /\ Goto(p, "remove", "dropRow")
    /\ deleteSource(held[p].SHA1)
    /\ UNCHANGED <<table, hotlinks, outside, local>>

(* DeleteHotlink and DeleteMetaData *)
RemoveRow(p) ==
    /\ Kind[p] # "deleteUser"
    /\ Goto(p, "dropRow", "elements")
    /\ SaveMetaData(run[p].element, None)
    /\ hotlinks' = [l \in Ids |-> IF l = held[p].HotlinkId THEN None ELSE hotlinks[l]]
    /\ Hold(p, None)
    /\ run' = [run EXCEPT ![p].wasItemDeleted = TRUE, ![p].element = None]
    /\ UNCHANGED <<source, outside, stamp>>

(* CleanUp calls itself when it has removed a row. *)
LoopEnds(p) ==
    /\ run[p].rows = NoRows
    /\ Goto(p, "elements", IF run[p].wasItemDeleted THEN "clean" ELSE "links")
    /\ run' = [run EXCEPT ![p].links = IF run[p].wasItemDeleted THEN {} ELSE GetAllHotlinks]
    /\ stamp' = [stamp EXCEPT ![p] = 0]
    /\ UNCHANGED <<stored, outside, held>>

(* cleanHotlinks *)
CheckHotlink(p) ==
    \E l \in run[p].links :
        LET leads == hotlinks[l] # None /\ GetFile(hotlinks[l])
        IN  /\ Goto(p, "links", IF leads THEN "links" ELSE "dropLink")
            /\ run' = [run EXCEPT ![p].links = @ \ {l},
                                  ![p].element = IF leads THEN None ELSE l]
            /\ UNCHANGED <<stored, outside, held, stamp>>

DeleteHotlink(p) ==
    /\ Goto(p, "dropLink", "links")
    /\ hotlinks' = [hotlinks EXCEPT ![run[p].element] = None]
    /\ run' = [run EXCEPT ![p].element = None]
    /\ UNCHANGED <<table, source, outside, held, stamp>>

(* The end of one call: the caller, when it is CleanUp, goes on to its own *)
(* cleanHotlinks; the outermost call of the periodic goroutine sleeps.     *)
CleanUpReturns(p) ==
    /\ run[p].links = {}
    /\ Goto(p, "links", IF run[p].calls > 1 THEN "links"
                        ELSE IF Kind[p] = "cleaner" THEN "start" ELSE "done")
    /\ run' = [run EXCEPT ![p] =
                 IF run[p].calls = 1 THEN Idle
                 ELSE [run[p] EXCEPT !.calls = run[p].calls - 1, !.links = GetAllHotlinks]]
    /\ UNCHANGED <<stored, outside, held, stamp>>

-----------------------------------------------------------------------------
(* downloadstatus.Clean drops a status after 24 hours, as does the test in  *)
(* IsCurrentlyDownloading.                                                  *)
StatusExpires(p) ==
    /\ p \in Slow \cap downloading
    /\ downloading' = downloading \ {p}
    /\ UNCHANGED <<stored, now, crashes, pc, local>>

Tick ==
    /\ now < MaxTime
    /\ now' = now + 1
    /\ UNCHANGED <<stored, downloading, crashes, pc, local>>

(* The server stops and starts again: requests and goroutines are gone, as  *)
(* is the download status; main calls CleanUp.                              *)
Crash ==
    /\ crashes < MaxCrashes
    /\ crashes' = crashes + 1
    /\ downloading' = {}
    /\ pc' = [p \in Procs |-> IF Kind[p] = "cleaner" \/ pc[p] = "start"
                              THEN "start" ELSE "done"]
    /\ held' = [p \in Procs |-> None]
    /\ stamp' = [p \in Procs |-> 0]
    /\ run' = [p \in Procs |-> Idle]
    /\ UNCHANGED <<stored, now>>

Upload(p) ==
    \/ createNewMetaData(p) \/ CheckExists(p) \/ CopyEncInfo(p) \/ RemoveOldSource(p)
    \/ MoveToFilesystem(p)
    \/ Kind[p] \in {"upload", "add", "duplicate"} /\ SaveNewFile(p)

Modify(p) ==
    \/ DuplicateRead(p) \/ DuplicateHotlink(p)
    \/ EditRead(p) \/ EditHotlink(p) \/ EditSave(p)
    \/ ReplaceRead(p) \/ ReplaceContent(p) \/ ReplaceFails(p) \/ ReplaceSave(p)
    \/ StillReferenced(p) \/ DropReplacedSource(p)

Delete(p) ==
    \/ DeleteRequest(p) \/ DeleteRead(p) \/ DeleteSave(p) \/ SetAllComplete(p)
    \/ ScheduleRead(p) \/ ScheduleSave(p) \/ ScheduleWakes(p)
    \/ RestoreRead(p) \/ RestoreSave(p)
    \/ DeleteUserRead(p) \/ DeleteUserRow(p) \/ DeleteUserEnds(p)

Download(p) ==
    DownloadRead(p) \/ DownloadCount(p) \/ OpenSource(p) \/ SetDownload(p) \/ SetComplete(p)

Cleaning(p) ==
    \/ CleanUpBegins(p) \/ CleanUp(p) \/ SkipElement(p) \/ CheckElement(p) \/ CheckReferenced(p)
    \/ RemoveSource(p) \/ RemoveRow(p) \/ LoopEnds(p) \/ CheckHotlink(p)
    \/ DeleteHotlink(p) \/ CleanUpReturns(p)

Step(p) == NotFound(p) \/ Upload(p) \/ Modify(p) \/ Delete(p) \/ Download(p)
               \/ Cleaning(p) \/ StatusExpires(p)

Next == ((\E p \in Procs : Step(p)) \/ Tick \/ Crash) /\ UNCHANGED scenario

Spec == Init /\ [][Next]_vars

(* What the server does without waiting for a client, and the expiry of    *)
(* the status of a download that a slow client never finishes.              *)
Working(p) ==
    /\ pc[p] # "start" \/ Kind[p] = "cleaner"
    /\ \/ Upload(p) \/ Modify(p) \/ Delete(p) \/ Cleaning(p)
       \/ Download(p) /\ (pc[p] # "serve" \/ p \notin Slow)
       \/ StatusExpires(p)
    /\ UNCHANGED scenario

(* Time passes, goroutines go on, CleanUp runs every hour, and a status     *)
(* expires.  A request need not arrive, a slow client may never finish.     *)
(* This is assumed where DeletedIsRemoved needs it: of deletions, at once   *)
(* or after a delay, and downloads, beside the hourly CleanUp.              *)
Deletions ==
    /\ \E p \in Procs : Kind[p] = "cleaner"
    /\ \A p \in Procs : Kind[p] \in {"delete", "schedule", "download", "cleaner", "absent"}
FairSpec ==
    /\ Spec
    /\ WF_vars(Deletions /\ Tick /\ UNCHANGED scenario)
    /\ \A p \in Procs : WF_vars(Deletions /\ Working(p))

-----------------------------------------------------------------------------
(* Properties *)

Referenced(h) == \E f \in Ids : files[f] # None /\ files[f].SHA1 = h

(* A file that has neither expired nor come due for deletion has its        *)
(* content, with the key in its row, whatever happened to files with the    *)
(* same content.  A save that revives a file comes too late for a CleanUp   *)
(* that is at work.                                                         *)
LiveFilesStored ==
    \A f \in Ids \ revived : ~Due(files[f]) => source[files[f].SHA1] = files[f].key

(* When no request and no goroutine is at work, no source is left that no   *)
(* row points at: CleanUp, which starts from the rows, would never find it. *)
(* Not so after a crash between the two saves of an upload, the deletion of *)
(* a user's rows, or a CleanUp that drops the row of a file that has just   *)
(* been given a new content, see AvailableRowsKept.                         *)
Quiet == \A p \in Procs : pc[p] \in {"start", "done", "failed", "lost"}
Some(kind) == \E p \in Procs : Kind[p] = kind
Abandoning ==
    \/ crashes > 0
    \/ Some("deleteUser")
    \/ Some("replace") /\ Some("cleaner")
NoOrphans ==
    Quiet /\ ~Abandoning => \A h \in Hashes : source[h] # Missing => Referenced(h)

(* Only a file that has expired, that is to be deleted or whose content is  *)
(* gone loses its row, apart from the files of a user who is deleted and    *)
(* from a file whose content ReplaceFile has replaced since the CleanUp     *)
(* that removes it took its snapshot: the old content is gone, and CleanUp  *)
(* takes the file for one without content.                                  *)
ReplacedSince(f) ==
    \E p \in Procs : run[p].element = f /\ pc[p] = "dropRow" /\ held[p].SHA1 # files[f].SHA1
AvailableRowsKept ==
    [][\A f \in Ids \ revived : GetFile(f) /\ files'[f] = None =>
          \/ \E p \in Procs : Kind[p] = "deleteUser" /\ pc[p] = "dropRow"
          \/ ReplacedSince(f)]_vars

(* cleanHotlinks removes the hotlinks of files that have expired or are     *)
(* gone, as its comment says, and no others; a file whose upload has saved  *)
(* its hotlink and is about to save its row is not gone.                    *)
BeingUploaded(f) ==
    f \in Procs /\ pc[f] \in {"hashed", "copyInfo", "removeOld", "move", "save"}
HotlinksKept ==
    [][\A p \in Procs, l \in Ids :
          pc[p] = "dropLink" /\ pc'[p] # "dropLink" /\ hotlinks[l] # hotlinks'[l] =>
              \/ files[hotlinks[l]] = None /\ ~BeingUploaded(hotlinks[l])
              \/ files[hotlinks[l]] # None /\ IsExpiredFile(files[hotlinks[l]], now)]_vars

(* An upload whose content has been received ends with its file stored.     *)
UploadSucceeds == \A p \in Procs : Kind[p] \in {"upload", "add"} => pc[p] # "failed"

(* A deleted file is removed in the end, although the goroutine that was to *)
(* delete it can be lost in a crash: its row goes, and so does its content  *)
(* unless another row needs it.                                             *)
DeletedIsRemoved ==
    \A f \in Files :
        (/\ Deletions
         /\ files[f] # None
         /\ files[f].ExpireAt = 0 \/ isPendingToBeDeleted(files[f], now))
            ~> files[f] = None /\ \A h \in Hashes : source[h] = Missing \/ Referenced(h)
=============================================================================
