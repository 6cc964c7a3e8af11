----------------------------- MODULE Downloads -----------------------------
(***************************************************************************)
(* The download allowance of Gokapi: storage.GetFile and storage.ServeFile *)
(* run by concurrent HTTP requests, the API handlers that edit a file under*)
(* the striped apimutex (apiEditFile, apiChangeFileOwner), and the code    *)
(* paths that read a metadata row and save it back WITHOUT that mutex      *)
(* (DeleteFile, DeleteFileSchedule, CancelPendingFileDeletion, ReplaceFile,*)
(* the password migration of showDownload, the reassignment of apiDeleteUser). *)
(*                                                                         *)
(* Every access to the database is one step.  A row keeps the fields that  *)
(* decide whether a file may be downloaded.                                *)
(***************************************************************************)
EXTENDS Integers

CONSTANTS
    Files,      \* file ids
    Requests,   \* HTTP requests that download a file, each used once
    Editors,    \* API requests that edit a file under the mutex
    Edits,      \* the parameter sets that editors may send
    Writers,    \* requests that save a row without the mutex
    Stripes,    \* the mutexes of apimutex
    Stripe,     \* Stripe[f]: the mutex that the hash of f selects
    InitRows,   \* rows that an upload may have created
    MaxNow,     \* bound on the clock
    NoRow,      \* "no row with this id in the table"
    Free        \* "this mutex is unlocked"

Procs == Requests \cup Editors \cup Writers

(* What a request does that saves a row without the mutex; see Modified.     *)
WriterOps == {"DeleteFile", "DeleteFileSchedule",
              "CancelPendingFileDeletion", "Resave"}

Row == [DownloadsRemaining : Int, DownloadCount : Nat,
        UnlimitedDownloads : BOOLEAN, ExpireAt : Int, UnlimitedTime : BOOLEAN,
        PendingDeletion : BOOLEAN]

(* The fields of paramFilesModify that reach these columns; 0 keeps a value. *)
Edit == [AllowedDownloads : Int, UnlimitedDownloads : BOOLEAN,
         ExpiryTimestamp : Int, UnlimitedExpiry : BOOLEAN]

ASSUME ProcsAssumption ==
    /\ Requests \cap Editors = {}
    /\ (Requests \cup Editors) \cap Writers = {}
    /\ Free \notin Procs
ASSUME StripeAssumption == Stripe \in [Files -> Stripes]
ASSUME EditsAssumption == Edits \subseteq Edit
ASSUME RowsAssumption ==
    /\ InitRows \subseteq Row
    /\ \A row \in InitRows : row.DownloadCount = 0 /\ ~row.PendingDeletion
    /\ NoRow \notin Row
ASSUME ClockAssumption == MaxNow \in Nat \ {0}

VARIABLES
    meta,       \* the table FileMetaData: meta[f] is a row or NoRow
    now,        \* the clock, time.Now().Unix()
    lock,       \* lock[s]: the process that holds mutex s, or Free
    pc,         \* pc[p]: the next step of process p
    target,     \* target[p]: the file id in the request p
    snap,       \* snap[p]: the models.File variable of p
    limit,      \* history: the allowance last set for the file
    granted,    \* history: counted downloads granted since then
    counted,    \* history: counted downloads granted since the upload
    exceptions  \* history: what has been done to f outside the protocol

(* A file leaves the protocol that keeps its allowance in one of three ways: *)
(* it has been unlimited for a while, a download was counted that is not     *)
(* checked again under the mutex, or its row was saved without the mutex.    *)
Exceptions == {"unlimited", "unchecked", "unguarded"}

history == <<limit, granted, counted, exceptions>>
vars == <<meta, now, lock, pc, target, snap, history>>

(* Program points at which a process holds the mutex of its file. *)
Critical == {"recheck", "count", "unlock", "refuse", "read", "write", "chown"}

Answered == {"notfound", "refused", "granted", "done"}

PCs == {"start", "lock", "save"} \cup Critical \cup Answered

(* Type invariant. *)
TypeOK ==
    /\ meta \in [Files -> Row \cup {NoRow}]
    /\ now \in 1 .. MaxNow
    /\ lock \in [Stripes -> Procs \cup {Free}]
    /\ pc \in [Procs -> PCs]
    /\ target \in [Procs -> Files]
    /\ snap \in [Procs -> Row \cup {NoRow}]
    /\ limit \in [Files -> Int]
    /\ granted \in [Files -> Nat]
    /\ counted \in [Files -> Nat]
    /\ exceptions \in [Files -> SUBSET Exceptions]

-----------------------------------------------------------------------------
(* The checks of storage/FileServing.go *)

(* Mutant of IsExpiredFile: one download too many. *)
ExpiresOneLate(row) ==
    \/ row.ExpireAt < now /\ ~row.UnlimitedTime
    \/ row.DownloadsRemaining < 0 /\ ~row.UnlimitedDownloads

IsExpiredFile(row) ==
    \/ row.ExpireAt < now /\ ~row.UnlimitedTime
    \/ row.DownloadsRemaining < 1 /\ ~row.UnlimitedDownloads

(* storage.GetFile returns the row of f. That the stored content is missing *)
(* or S3 is not configured is the nondeterminism of LookupMissing.          *)
GetFile(f) ==
    meta[f] # NoRow /\ ~meta[f].PendingDeletion /\ ~IsExpiredFile(meta[f])

(* The calls of the database provider *)

GetDownloadsRemaining(f) ==
    IF meta[f] = NoRow THEN 0 ELSE meta[f].DownloadsRemaining

(* UPDATE ... WHERE id = ?: no effect when the row is gone *)
IncreaseDownloadCount(f, decreaseRemaining) ==
    meta' = IF meta[f] = NoRow THEN meta ELSE
              [meta EXCEPT ![f].DownloadCount = @ + 1,
                           ![f].DownloadsRemaining =
                               IF decreaseRemaining THEN @ - 1 ELSE @]

SaveMetaData(f, row) == meta' = [meta EXCEPT ![f] = row]

(* Mutant of Lock: it does not wait for the holder. *)
LockAtOnce(p) == lock' = [lock EXCEPT ![Stripe[target[p]]] = p]

(* apimutex *)
Lock(p) ==
    /\ lock[Stripe[target[p]]] = Free
    /\ lock' = [lock EXCEPT ![Stripe[target[p]]] = p]

Unlock(p) == lock' = [lock EXCEPT ![Stripe[target[p]]] = Free]

Goto(p, from, to) == pc[p] = from /\ pc' = [pc EXCEPT ![p] = to]

-----------------------------------------------------------------------------
(* All files have just been uploaded and no request has started. *)
Init ==
    /\ meta \in [Files -> InitRows]
    /\ now = 1
    /\ lock = [s \in Stripes |-> Free]
    /\ pc = [p \in Procs |-> "start"]
    /\ target \in [Procs -> Files]
    /\ snap = [p \in Procs |-> NoRow]
    /\ limit = [f \in Files |-> meta[f].DownloadsRemaining]
    /\ granted = [f \in Files |-> 0]
    /\ counted = [f \in Files |-> 0]
    /\ exceptions = [f \in Files |->
           IF meta[f].UnlimitedDownloads THEN {"unlimited"} ELSE {}]

(* serveFile, showHotlink, checkDownloadAllowed, downloadPresigned: GetFile *)
(* hands the request a copy of the row, before any mutex is taken.          *)
LookupFound(r) ==
    /\ Goto(r, "start", "lock")
    /\ GetFile(target[r])
    /\ snap' = [snap EXCEPT ![r] = meta[target[r]]]
    /\ UNCHANGED <<meta, now, lock, target, history>>

LookupMissing(r) ==
    /\ Goto(r, "start", "notfound")
    /\ UNCHANGED <<meta, now, lock, target, snap, history>>

Except(f, what) == exceptions' = [exceptions EXCEPT ![f] = @ \cup what]

(* Mutant of ServeLock: recheckExpiry is false for every kind of request. *)
ServeWithoutRecheck(r) ==
    /\ \E next \in {"count", "unlock"} : Goto(r, "lock", next)
    /\ Lock(r)
    /\ UNCHANGED <<meta, now, target, snap, history>>

(* ServeFile: apimutex.Lock; the branch on recheckExpiry and increaseCounter *)
(* of a public download (serveFile, showHotlink), one that the API counts    *)
(* (apiDownloadSingle with increaseCounter) and one that is not counted      *)
(* (apiDownloadSingle without it, downloadPresigned).                        *)
ServeLock(r) ==
    /\ \/ Goto(r, "lock", "recheck") /\ UNCHANGED exceptions
       \/ Goto(r, "lock", "count") /\ Except(target[r], {"unchecked"})
       \/ Goto(r, "lock", "unlock") /\ UNCHANGED exceptions
    /\ Lock(r)
    /\ UNCHANGED <<meta, now, target, snap, limit, granted, counted>>

(* Mutant of Recheck: the row is tested as it was read before the mutex. *)
RecheckStaleRow(r) ==
    /\ Goto(r, "recheck", IF IsExpiredFile(snap[r]) THEN "refuse" ELSE "count")
    /\ UNCHANGED <<meta, now, lock, target, snap, history>>

(* ServeFile: the copy of the row gets the current DownloadsRemaining, its  *)
(* other fields stay as GetFile returned them.                              *)
Recheck(r) ==
    LET file == IF snap[r].UnlimitedDownloads THEN snap[r]
                ELSE [snap[r] EXCEPT !.DownloadsRemaining =
                                         GetDownloadsRemaining(target[r])]
    IN  /\ Goto(r, "recheck", IF IsExpiredFile(file) THEN "refuse" ELSE "count")
        /\ snap' = [snap EXCEPT ![r] = file]
        /\ UNCHANGED <<meta, now, lock, target, history>>

(* Mutant of Refuse: it returns without Unlock. *)
RefuseKeepsLock(r) ==
    /\ Goto(r, "refuse", "refused")
    /\ UNCHANGED <<meta, now, lock, target, snap, history>>

Refuse(r) ==
    /\ Goto(r, "refuse", "refused")
    /\ Unlock(r)
    /\ UNCHANGED <<meta, now, target, snap, history>>

(* The copy of the row that is reported to the event stream *)
Counted(file) == [file EXCEPT !.DownloadsRemaining = @ - 1,
                              !.DownloadCount = @ + 1]

(* ServeFile: one UPDATE statement takes the allowance. *)
Count(r) ==
    /\ Goto(r, "count", "unlock")
    /\ IncreaseDownloadCount(target[r], ~snap[r].UnlimitedDownloads)
    /\ snap' = [snap EXCEPT ![r] = Counted(snap[r])]
    /\ granted' = [granted EXCEPT ![target[r]] = @ + 1]
    /\ counted' = [counted EXCEPT ![target[r]] = @ + 1]
    /\ UNCHANGED <<now, lock, target, limit, exceptions>>

(* ServeFile unlocks and goes on to send the content. *)
ServeUnlock(r) ==
    /\ Goto(r, "unlock", "granted")
    /\ Unlock(r)
    /\ UNCHANGED <<meta, now, target, snap, history>>

-----------------------------------------------------------------------------
(* apiEditFile and apiChangeFileOwner hold the mutex from before the row is *)
(* read until after it is saved.                                            *)

(* Mutant of EditLock: the editor does not take the mutex. *)
EditWithoutLock(e) ==
    /\ Goto(e, "start", "read")
    /\ UNCHANGED <<meta, now, lock, target, snap, history>>

EditLock(e) ==
    /\ Goto(e, "start", "read")
    /\ Lock(e)
    /\ UNCHANGED <<meta, now, target, snap, history>>

EditRead(e) ==
    /\ meta[target[e]] # NoRow
    /\ Goto(e, "read", "write")
    /\ snap' = [snap EXCEPT ![e] = meta[target[e]]]
    /\ UNCHANGED <<meta, now, lock, target, history>>

(* apiChangeFileOwner looks the file up with storage.GetFile *)
OwnerRead(e) ==
    /\ GetFile(target[e])
    /\ Goto(e, "read", "chown")
    /\ snap' = [snap EXCEPT ![e] = meta[target[e]]]
    /\ UNCHANGED <<meta, now, lock, target, history>>

(* No such file, no permission, or no such owner: the deferred Unlock runs. *)
EditReject(e) ==
    /\ Goto(e, "read", "unlock")
    /\ UNCHANGED <<meta, now, lock, target, snap, history>>

SetsLimit(edit) == ~edit.UnlimitedDownloads /\ edit.AllowedDownloads # 0
SetsExpiry(edit) == ~edit.UnlimitedExpiry /\ edit.ExpiryTimestamp # 0

ApplyEdit(row, edit) ==
    [row EXCEPT
        !.DownloadsRemaining = IF SetsLimit(edit) THEN edit.AllowedDownloads ELSE @,
        !.UnlimitedDownloads = edit.UnlimitedDownloads \/ (@ /\ ~SetsLimit(edit)),
        !.ExpireAt = IF SetsExpiry(edit) THEN edit.ExpiryTimestamp ELSE @,
        !.UnlimitedTime = edit.UnlimitedExpiry \/ (@ /\ ~SetsExpiry(edit))]

EditWrite(e) ==
    \E edit \in Edits :
        LET row == ApplyEdit(snap[e], edit) IN
        /\ Goto(e, "write", "unlock")
        /\ SaveMetaData(target[e], row)
        /\ IF SetsLimit(edit)
             THEN /\ limit' = [limit EXCEPT ![target[e]] = edit.AllowedDownloads]
                  /\ granted' = [granted EXCEPT ![target[e]] = 0]
             ELSE UNCHANGED <<limit, granted>>
        /\ Except(target[e], IF row.UnlimitedDownloads THEN {"unlimited"} ELSE {})
        /\ UNCHANGED <<now, lock, target, snap, counted>>

(* The column UserId is not modelled, so the row is saved as it was read. *)
OwnerWrite(e) ==
    /\ Goto(e, "chown", "unlock")
    /\ SaveMetaData(target[e], snap[e])
    /\ UNCHANGED <<now, lock, target, snap, history>>

EditUnlock(e) ==
    /\ Goto(e, "unlock", "done")
    /\ Unlock(e)
    /\ UNCHANGED <<meta, now, target, snap, history>>

-----------------------------------------------------------------------------
(* Read-modify-write without the mutex. "Resave" stands for the callers that *)
(* change columns this module does not keep: ReplaceFile, the migration of a *)
(* legacy password in showDownload and apiDeleteUser, which reassigns files. *)

WriterRead(w) ==
    /\ meta[target[w]] # NoRow
    /\ Goto(w, "start", "save")
    /\ snap' = [snap EXCEPT ![w] = meta[target[w]]]
    /\ UNCHANGED <<meta, now, lock, target, history>>

WriterReject(w) ==
    /\ Goto(w, "start", "done")
    /\ UNCHANGED <<meta, now, lock, target, snap, history>>

Modified(row, o) ==
    CASE o = "DeleteFile" -> [row EXCEPT !.ExpireAt = 0, !.UnlimitedTime = FALSE]
      [] o = "DeleteFileSchedule" -> [row EXCEPT !.PendingDeletion = TRUE]
      [] o = "CancelPendingFileDeletion" -> [row EXCEPT !.PendingDeletion = FALSE]
      [] o = "Resave" -> row

WriterWrite(w) ==
    /\ Goto(w, "save", "done")
    /\ \E o \in WriterOps : SaveMetaData(target[w], Modified(snap[w], o))
    /\ Except(target[w], {"unguarded"})
    /\ UNCHANGED <<now, lock, target, snap, limit, granted, counted>>

(* CleanUp drops an expired row and apiDeleteUser any row of the deleted user, *)
(* neither of them under the mutex.                                            *)
DeleteMetaData(f) ==
    /\ meta[f] # NoRow
    /\ meta' = [meta EXCEPT ![f] = NoRow]
    /\ UNCHANGED <<now, lock, pc, target, snap, history>>

Tick ==
    /\ now < MaxNow
    /\ now' = now + 1
    /\ UNCHANGED <<meta, lock, pc, target, snap, history>>

Request(r) == \/ LookupFound(r) \/ LookupMissing(r) \/ ServeLock(r)
              \/ Recheck(r) \/ Refuse(r) \/ Count(r) \/ ServeUnlock(r)
Editor(e) == \/ EditLock(e) \/ EditRead(e) \/ OwnerRead(e) \/ EditReject(e)
             \/ EditWrite(e) \/ OwnerWrite(e) \/ EditUnlock(e)
Writer(w) == WriterRead(w) \/ WriterReject(w) \/ WriterWrite(w)

Next ==
    \/ \E r \in Requests : Request(r)
    \/ \E e \in Editors : Editor(e)
    \/ \E w \in Writers : Writer(w)
    \/ \E f \in Files : DeleteMetaData(f)
    \/ Tick

Spec == Init /\ [][Next]_vars

(* A goroutine that can take a step takes it. *)
FairSpec ==
    /\ Spec
    /\ \A r \in Requests : WF_vars(Request(r))
    /\ \A e \in Editors : WF_vars(Editor(e))
    /\ \A w \in Writers : WF_vars(Writer(w))
-----------------------------------------------------------------------------
(* Properties *)

(* A request or editor that is between Lock and Unlock of its file owns the  *)
(* mutex the file hashes to, so no two of them are there for the same file   *)
(* or for two files of the same stripe (apimutex, ServeFile, apiEditFile).   *)
MutexDiscipline ==
    \A p \in Requests \cup Editors :
        pc[p] \in Critical => lock[Stripe[target[p]]] = p

(* No counted download is ever lost from or invented in DownloadCount,       *)
(* whatever edits, removals and other downloads run at the same time, as     *)
(* long as nobody saves the row without the mutex.                           *)
CountExact ==
    \A f \in Files :
        meta[f] # NoRow /\ "unguarded" \notin exceptions[f]
            => meta[f].DownloadCount = counted[f]

(* A file with a limit is not downloaded more often than the limit allows:   *)
(* the downloads granted since the limit was set stay within it.             *)
LimitRespected ==
    \A f \in Files :
        meta[f] # NoRow /\ ~meta[f].UnlimitedDownloads /\ granted[f] # 0
            => granted[f] <= limit[f]

(* What the table says is left is exactly what the last limit allows minus   *)
(* the downloads granted since: neither a download nor an edit is undone by  *)
(* another handler, and nobody is served on an allowance that is used up.    *)
AllowanceConserved ==
    \A f \in Files : meta[f] # NoRow /\ exceptions[f] = {} =>
        /\ meta[f].DownloadsRemaining = limit[f] - granted[f]
        /\ granted[f] # 0 => meta[f].DownloadsRemaining >= 0

(* The allowance is never taken below zero, also while editors switch the    *)
(* file between limited and unlimited (ServeFile with recheckExpiry).        *)
NoOverdraw ==
    \A f \in Files : meta[f] # NoRow /\ exceptions[f] \subseteq {"unlimited"} =>
        meta[f].DownloadsRemaining >= 0 \/ meta[f].DownloadsRemaining = limit[f]

(* Every request, editor and writer gets its answer: no mutex of apimutex is *)
(* left locked on any of the return paths.                                   *)
AllAnswered == \A p \in Procs : <>(pc[p] \in Answered)

(* The promise of DownloadAllowance, for every file up to the moment it      *)
(* leaves the protocol; from then on its downloads are not compared with it. *)
AllowedLimits ==
    {row.DownloadsRemaining : row \in InitRows}
        \cup {edit.AllowedDownloads : edit \in {d \in Edits : SetsLimit(d)}}

Allowance == INSTANCE DownloadAllowance WITH
    Limits  <- AllowedLimits,
    granted <- [f \in Files |-> IF exceptions[f] = {} THEN granted[f] ELSE 0]

AllowanceKept == Allowance!AllowanceSpec
=============================================================================
