---------------------------- MODULE PublicUpload ----------------------------
(***************************************************************************)
(* The page on which guests upload for a file request (public_upload.js),  *)
(* together with the server of FileRequests.tla.  A step is what runs      *)
(* between two events: a click, an answer, a failed connection, a timer.   *)
(***************************************************************************)
EXTENDS FileRequests, SequencesExt

CONSTANTS
    PageOf,     \* PageOf[e]: the page on which e is selected
    retries,    \* attempts of withRetry: 3
    maxWaits    \* bound: answers 429 within the 60 seconds of MAX_WAIT_TIME

ASSUME EntriesAssumption ==
    /\ PageOf \in [Entries -> Clients]
    /\ retries \in Nat \ {0} /\ maxWaits \in Nat

VARIABLES
    filesMap,   \* filesMap[p]: the entries of page p in the order of insertion
    entry,      \* entry[e]: the object in filesMap
    loop,       \* loop[p]: where startUpload is: the entry, its chunk, the attempt
    answer,     \* answer[p]: the answer that startUpload has not yet seen
    isUploadInProgress,
    disabled,   \* the attribute of the upload button
    maxFilesRemaining,
    isUnlimited,   \* IS_UNLIMITED_FILES, as the server wrote it into the page
    tabOpen,
    faults      \* number of connections that have failed

pageVars == <<filesMap, entry, loop, answer, isUploadInProgress, disabled,
              maxFilesRemaining, isUnlimited, tabOpen, faults>>

NoAnswer == [status |-> -1, uuid |-> NoUuid]
NetworkError == [status |-> 0, uuid |-> NoUuid]
Idle == [pc |-> "idle", pos |-> 0, chunk |-> 0, attempt |-> 0, waits |-> 0]
NoEntry == [status |-> "none", removed |-> FALSE, aborted |-> FALSE, uuid |-> NoUuid]
FirstChunk == 1
IsLastChunk(c) == c + 1 \notin Chunks

PageTypeOK ==
    /\ filesMap \in [Clients -> Seq(Entries)]
    /\ entry \in [Entries -> [status : {"none", "pending", "uploading", "completed",
                                        "error", "removed"},
                              removed : BOOLEAN, aborted : BOOLEAN,
                              uuid : Uuids \cup {NoUuid}]]
    /\ loop \in [Clients -> [pc : {"idle", "next", "reserve", "add", "complete"},
                             pos : Nat, chunk : Chunks \cup {0},
                             attempt : 0..retries, waits : 0..maxWaits]]
    /\ answer \in [Clients -> [status : {-1, 0, 200, 400, 401, 404, 429},
                               uuid : Uuids \cup {NoUuid}]]
    /\ isUploadInProgress \in [Clients -> BOOLEAN]
    /\ disabled \in [Clients -> BOOLEAN]
    /\ maxFilesRemaining \in [Clients -> Int]
    /\ isUnlimited \in [Clients -> BOOLEAN]
    /\ tabOpen \in [Clients -> BOOLEAN]
    /\ faults \in 0..Scenarios[scenario].maxFaults

(* The server writes the number of remaining files into the page. *)
PageInit ==
    /\ filesMap = [p \in Clients |-> <<>>]
    /\ entry = [e \in Entries |-> NoEntry]
    /\ loop = [p \in Clients |-> Idle]
    /\ answer = [p \in Clients |-> NoAnswer]
    /\ isUploadInProgress = [p \in Clients |-> FALSE]
    /\ disabled = [p \in Clients |-> TRUE]
    /\ maxFilesRemaining = [p \in Clients |-> FilesRemaining]
    /\ isUnlimited = [p \in Clients |-> IsUnlimitedFiles]
    /\ tabOpen = [p \in Clients |-> TRUE]
    /\ faults = 0

-----------------------------------------------------------------------------
(* updateUploadButtonState, with the entries and the flag as they are now *)
ButtonDisabled(p, entries, inProgress) ==
    \/ inProgress
    \/ \A e \in Entries : PageOf[e] = p =>
           entries[e].removed \/ entries[e].status # "pending"

getQueuedFileCount(p) ==
    Cardinality({e \in Entries : PageOf[e] = p /\ entry[e].status # "none"
                                               /\ ~entry[e].removed})

Current(p) == filesMap[p][loop[p].pos]

(* The handlers of `change', `drop' and `paste', for a file that is not too  *)
(* large: an entry is added, also while startUpload iterates over the map.   *)
createUploadBox(e) ==
    LET p == PageOf[e]
        entries == [entry EXCEPT ![e].status = "pending"]
    IN  /\ e \in Scenarios[scenario].entries /\ tabOpen[p] /\ entry[e].status = "none"
        /\ entry' = entries
        /\ filesMap' = [filesMap EXCEPT ![p] = Append(@, e)]
        /\ disabled' = [disabled EXCEPT ![p] = ButtonDisabled(p, entries, isUploadInProgress[p])]
        /\ UNCHANGED <<serverVars, loop, answer, isUploadInProgress,
                       maxFilesRemaining, tabOpen, isUnlimited, faults>>

(* fetch or XMLHttpRequest of the page, answered later *)
Request(p, kind, uuid, chunk) ==
    [kind |-> kind, client |-> p, uuid |-> uuid, chunk |-> chunk,
     phase |-> "sent", waiting |-> TRUE]

Waiting(p) == {r \in wire : r.client = p /\ r.waiting}

(* The requests of p go on without a reader. *)
GivenUp(p) == {[r EXCEPT !.waiting = FALSE] : r \in Waiting(p)}

(* unreserve: sent with keepalive, and the answer is not looked at *)
unreserve(p, uuid) ==
    IF uuid = NoUuid THEN {}
    ELSE {[Request(p, "unreserve", uuid, 0) EXCEPT !.waiting = FALSE]}

-----------------------------------------------------------------------------
(* initUpload and the first lines of startUpload.  With too many files       *)
(* queued a message is shown and the button is as before.                    *)
initUpload(p) ==
    /\ tabOpen[p] /\ ~disabled[p]
    /\ isUnlimited[p] \/ getQueuedFileCount(p) <= maxFilesRemaining[p]
    /\ isUploadInProgress' = [isUploadInProgress EXCEPT ![p] = TRUE]
    /\ disabled' = [disabled EXCEPT ![p] = TRUE]
    /\ loop' = [loop EXCEPT ![p] = [Idle EXCEPT !.pc = "next"]]
    /\ UNCHANGED <<serverVars, filesMap, entry, answer, maxFilesRemaining,
                   tabOpen, isUnlimited, faults>>

(* The positions of filesMap that the loop has yet to visit *)
Ahead(p) == {i \in loop[p].pos + 1..Len(filesMap[p]) :
                LET e == filesMap[p][i]
                IN  ~entry[e].removed /\ entry[e].status = "pending"}

(* startUpload takes the next entry: reserveChunk *)
StartEntry(p) ==
    /\ tabOpen[p] /\ loop[p].pc = "next"
    /\ \E i \in Ahead(p) :
           /\ \A k \in Ahead(p) : i <= k
           /\ entry' = [entry EXCEPT ![filesMap[p][i]].status = "uploading"]
           /\ loop' = [loop EXCEPT ![p] = [Idle EXCEPT !.pc = "reserve", !.pos = i,
                                                       !.attempt = 1]]
    /\ wire' = wire \cup {Request(p, "reserve", NoUuid, 0)}
    /\ UNCHANGED <<scenario, request, issued, reservation, chunkFile, jobs, exceptions, late,
                   filesMap, answer, isUploadInProgress, disabled,
                   maxFilesRemaining, tabOpen, isUnlimited, faults>>

(* startUpload returns, and the `finally' of initUpload *)
LoopEnds(p, entries) ==
    /\ loop' = [loop EXCEPT ![p] = Idle]
    /\ isUploadInProgress' = [isUploadInProgress EXCEPT ![p] = FALSE]
    /\ disabled' = [disabled EXCEPT ![p] = ButtonDisabled(p, entries, FALSE)]

AllVisited(p) ==
    /\ tabOpen[p] /\ loop[p].pc = "next" /\ Ahead(p) = {}
    /\ LoopEnds(p, entry)
    /\ UNCHANGED <<serverVars, filesMap, entry, answer, maxFilesRemaining, tabOpen, isUnlimited,
                   faults>>

-----------------------------------------------------------------------------
(* What an answer makes startUpload do.  Each operator says how entry, loop, *)
(* wire, isUploadInProgress, disabled and maxFilesRemaining change.          *)

Send(p, pc, uuid, chunk) ==
    /\ loop' = [loop EXCEPT ![p] = [Idle EXCEPT !.pc = pc, !.pos = loop[p].pos,
                                                !.chunk = chunk, !.attempt = 1]]
    /\ wire' = wire \cup {Request(p, pc, uuid, chunk)}
    /\ UNCHANGED <<isUploadInProgress, disabled, maxFilesRemaining>>

(* reserveChunk has got a uuid; an entry removed in the meantime ends the    *)
(* loop, and the reservation is left to expire.                              *)
Reserved_(p, uuid) ==
    LET e == Current(p)
        entries == [entry EXCEPT ![e].uuid = uuid]
    IN  /\ entry' = entries
        /\ IF entry[e].aborted
           THEN LoopEnds(p, entries) /\ UNCHANGED <<wire, maxFilesRemaining>>
           ELSE Send(p, "add", uuid, FirstChunk)

(* Mutant of Added: the last chunk is not sent. *)
AddedOneLess(p) ==
    LET uuid == entry[Current(p)].uuid
        next == loop[p].chunk + 1
    IN  /\ UNCHANGED entry
        /\ IF IsLastChunk(next) THEN Send(p, "complete", uuid, 0)
           ELSE Send(p, "add", uuid, next)

(* A chunk has arrived: the next one, or finaliseUpload *)
Added(p) ==
    LET uuid == entry[Current(p)].uuid
    IN  /\ UNCHANGED entry
        /\ IF IsLastChunk(loop[p].chunk) THEN Send(p, "complete", uuid, 0)
           ELSE Send(p, "add", uuid, loop[p].chunk + 1)

Completed(p) ==
    /\ entry' = [entry EXCEPT ![Current(p)].status = "completed",
                              ![Current(p)].removed = TRUE]
    /\ loop' = [loop EXCEPT ![p] = [Idle EXCEPT !.pc = "next", !.pos = loop[p].pos]]
    /\ maxFilesRemaining' = [maxFilesRemaining EXCEPT ![p] = @ - 1]
    /\ UNCHANGED <<wire, isUploadInProgress, disabled>>

(* Mutant of Caught: an upload that has failed is offered again, and stays   *)
(* `uploading' when it was aborted.                                          *)
CaughtUnmarked(p) ==
    IF entry[Current(p)].aborted
    THEN LoopEnds(p, entry) /\ UNCHANGED <<entry, wire, maxFilesRemaining>>
    ELSE /\ loop' = [loop EXCEPT ![p] = [Idle EXCEPT !.pc = "next", !.pos = loop[p].pos]]
         /\ UNCHANGED <<entry, wire, isUploadInProgress, disabled, maxFilesRemaining>>

(* The catch clause of startUpload: an aborted entry ends the whole loop. *)
Caught(p) ==
    IF entry[Current(p)].aborted
    THEN LET entries == [entry EXCEPT ![Current(p)].status = "pending"]
         IN  /\ entry' = entries
             /\ LoopEnds(p, entries)
             /\ UNCHANGED <<wire, maxFilesRemaining>>
    ELSE /\ entry' = [entry EXCEPT ![Current(p)].status = "error"]
         /\ loop' = [loop EXCEPT ![p] = [Idle EXCEPT !.pc = "next", !.pos = loop[p].pos]]
         /\ UNCHANGED <<wire, isUploadInProgress, disabled, maxFilesRemaining>>

(* Mutant of Retry: it does not count its attempts. *)
RetryForEver(p) ==
    /\ wire' = wire \cup {Request(p, loop[p].pc, entry[Current(p)].uuid, loop[p].chunk)}
    /\ UNCHANGED <<entry, loop, isUploadInProgress, disabled, maxFilesRemaining>>

(* withRetry sends the request again.  The delay before it is part of the    *)
(* step: what the page does in between does not depend on it.                *)
Retry(p) ==
    /\ loop' = [loop EXCEPT ![p].attempt = @ + 1]
    /\ wire' = wire \cup {Request(p, loop[p].pc, entry[Current(p)].uuid, loop[p].chunk)}
    /\ UNCHANGED <<entry, isUploadInProgress, disabled, maxFilesRemaining>>

(* 429 within MAX_WAIT_TIME: again, without counting an attempt *)
WaitAndRetry(p) ==
    /\ loop' = [loop EXCEPT ![p].waits = @ + 1]
    /\ wire' = wire \cup {Request(p, loop[p].pc, entry[Current(p)].uuid, loop[p].chunk)}
    /\ UNCHANGED <<entry, isUploadInProgress, disabled, maxFilesRemaining>>

(* Mutant of withRetry: a completion that is refused counts as done.         *)
RefusedIsDone(p, status) ==
    IF status \in {400, 401} /\ loop[p].pc = "complete" THEN Completed(p)
    ELSE IF status \in {400, 401} \/ loop[p].attempt = retries THEN Caught(p)
    ELSE Retry(p)

withRetry(p, status) ==
    IF status = 429 /\ loop[p].waits < maxWaits THEN WaitAndRetry(p)
    ELSE IF status \in {400, 401} \/ loop[p].attempt = retries THEN Caught(p)
    ELSE Retry(p)

Resume(p) ==
    /\ tabOpen[p] /\ answer[p] # NoAnswer
    /\ IF answer[p].status # 200 THEN withRetry(p, answer[p].status)
       ELSE \/ loop[p].pc = "reserve" /\ Reserved_(p, answer[p].uuid)
            \/ loop[p].pc = "add" /\ Added(p)
            \/ loop[p].pc = "complete" /\ Completed(p)
    /\ answer' = [answer EXCEPT ![p] = NoAnswer]
    /\ UNCHANGED <<scenario, request, issued, reservation, chunkFile, jobs, exceptions, late,
                   filesMap, tabOpen, isUnlimited, faults>>

-----------------------------------------------------------------------------
(* The remove button.  An aborted chunk request rejects at once and the      *)
(* catch clause runs; a reservation or completion on its way is not stopped. *)
removeBtn(e) ==
    LET p == PageOf[e]
        removed == [entry EXCEPT ![e].removed = TRUE, ![e].status = "removed",
                                 ![e].aborted = TRUE]
        cancels == loop[p].pc = "add" /\ Current(p) = e
        cancelled == [removed EXCEPT ![e].status = "pending"]
    IN  /\ Happens("remove") /\ tabOpen[p]
        /\ entry[e].status \in {"pending", "uploading", "error"}
        /\ ~entry[e].removed
        /\ entry' = IF cancels THEN cancelled ELSE removed
        /\ wire' = unreserve(p, entry[e].uuid) \cup
                   (IF cancels THEN (wire \ Waiting(p)) \cup GivenUp(p) ELSE wire)
        /\ IF cancels
           THEN LoopEnds(p, cancelled) /\ answer' = [answer EXCEPT ![p] = NoAnswer]
           ELSE /\ disabled' = [disabled EXCEPT ![p] =
                                   ButtonDisabled(p, removed, isUploadInProgress[p])]
                /\ UNCHANGED <<loop, answer, isUploadInProgress>>
        /\ UNCHANGED <<scenario, request, issued, reservation, chunkFile, jobs, exceptions,
                       late, filesMap, maxFilesRemaining, tabOpen, isUnlimited, faults>>

(* setUnload: the tab is closed, and what is reserved is given back. *)
setUnload(p) ==
    /\ Happens("close") /\ tabOpen[p]
    /\ tabOpen' = [tabOpen EXCEPT ![p] = FALSE]
    /\ wire' = ((wire \ Waiting(p)) \cup GivenUp(p)) \cup
               UNION {unreserve(p, entry[e].uuid) :
                        e \in {x \in ToSet(filesMap[p]) : ~entry[x].removed}}
    /\ answer' = [answer EXCEPT ![p] = NoAnswer]
    /\ loop' = [loop EXCEPT ![p] = Idle]
    /\ isUploadInProgress' = [isUploadInProgress EXCEPT ![p] = FALSE]
    /\ UNCHANGED <<scenario, request, issued, reservation, chunkFile, jobs, exceptions, late,
                   filesMap, entry, disabled, maxFilesRemaining, isUnlimited, faults>>

(* The connection of a request fails: before it was handled, so that it may *)
(* still be, or when the answer is on its way.                              *)
ConnectionFails(p) ==
    /\ tabOpen[p] /\ faults < Scenarios[scenario].maxFaults
    /\ Waiting(p) # {} \/ answer[p] \notin {NoAnswer, NetworkError}
    /\ faults' = faults + 1
    /\ answer' = [answer EXCEPT ![p] = NetworkError]
    /\ wire' = (wire \ Waiting(p)) \cup GivenUp(p)
    /\ UNCHANGED <<scenario, request, issued, reservation, chunkFile, jobs, exceptions, late,
                   filesMap, entry, loop, isUploadInProgress, disabled,
                   maxFilesRemaining, tabOpen, isUnlimited>>

(* A restart of the server cuts every connection. *)
ConnectionsCut ==
    /\ faults < Scenarios[scenario].maxFaults /\ faults' = faults + 1
    /\ answer' = [p \in Clients |-> IF Waiting(p) # {} THEN NetworkError ELSE answer[p]]
    /\ UNCHANGED <<filesMap, entry, loop, isUploadInProgress, disabled,
                   maxFilesRemaining, tabOpen, isUnlimited>>

-----------------------------------------------------------------------------
(* The handlers of the server, and what the page gets *)
Answer(r, status, uuid) ==
    answer' = IF r.waiting
              THEN [answer EXCEPT ![r.client] = [status |-> status, uuid |-> uuid]]
              ELSE answer

Handle(r) ==
    /\ \/ UNCHANGED answer /\ (ReserveCheck(r) \/ UnreserveCheck(r) \/ AddCheck(r))
       \/ ReserveNew(r) /\ Answer(r, 200, issued + 1)
       \/ (UnreserveDelete(r) \/ NewChunk(r) \/ CompleteStart(r)) /\ Answer(r, 200, NoUuid)
       \/ \E status \in {400, 401, 404, 429} :
             /\ ReserveRefuse(r, status) \/ Refuse(r, status)
             /\ Answer(r, status, NoUuid)
    /\ UNCHANGED <<filesMap, entry, loop, isUploadInProgress, disabled,
                   maxFilesRemaining, tabOpen, isUnlimited, faults>>

PageStep(p) == StartEntry(p) \/ AllVisited(p) \/ Resume(p)

GuestStep ==
    \/ \E e \in Entries : createUploadBox(e) \/ removeBtn(e)
    \/ \E p \in Clients : initUpload(p) \/ PageStep(p) \/ setUnload(p) \/ ConnectionFails(p)

ServerWork ==
    \/ \E r \in wire : Handle(r)
    \/ (\E j \in DOMAIN jobs : JobStep(j)) /\ UNCHANGED pageVars

TimePasses ==
    /\ \/ \E u \in Uuids : ReservationExpires(u)
       \/ cleanUp \/ RequestExpires
       \/ \E j \in DOMAIN jobs : PendingFileRemoved(j)
       \/ \E r \in wire : LoseRequest(r)
    /\ UNCHANGED pageVars

-----------------------------------------------------------------------------
(* The page never comes to rest with an entry that shows an upload nobody    *)
(* works on, nor with a button that cannot start what is waiting, or starts  *)
(* a second loop beside the first.                                           *)
PageSettled ==
    \A p \in Clients : tabOpen[p] =>
        /\ isUploadInProgress[p] <=> loop[p].pc # "idle"
        /\ ~isUploadInProgress[p] => \A e \in Entries :
              PageOf[e] = p /\ entry[e].status = "uploading" => entry[e].removed
        /\ disabled[p] <=> ButtonDisabled(p, entry, isUploadInProgress[p])

(* An entry that shows `completed' has a goroutine of its completion          *)
(* (doBlockingPartCompleteChunk) that is not left without the chunk file: it  *)
(* has stored it, is about to, or was stopped by a fault of the processing or *)
(* by a restart.  Refusals, repeated completions and goroutines that remove   *)
(* the chunk file of others never take it away first, unless the user has     *)
(* pressed the remove button during the completion.                           *)
DoneIsStored ==
    \A e \in Entries : entry[e].status = "completed" /\ ~entry[e].aborted =>
        \E j \in DOMAIN jobs : /\ jobs[j].uuid = entry[e].uuid
                               /\ jobs[j].pc \notin {"missing", "missed"}

(* Every upload that was started ends, in success, error or removal: lost    *)
(* answers, refusals and the rate limit do not keep the page busy for ever.  *)
UploadEnds == \A p \in Clients : isUploadInProgress[p] ~> ~isUploadInProgress[p]

(* Every reservation is released in the end, however its page has gone.      *)
ReservationsReleased == \A u \in Uuids : reservation[u] # "none" ~> reservation[u] = "none"
=============================================================================
