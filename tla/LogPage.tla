------------------------------- MODULE LogPage ------------------------------
(***************************************************************************)
(* The log file (Logging.go) and the page that polls it                    *)
(* (admin_ui_logs.js).  The stamp of a line, and that which a page sends   *)
(* to get what is new, have the resolution of a second.                    *)
(***************************************************************************)
EXTENDS Naturals, Sequences, FiniteSets, SequencesExt

CONSTANTS
    Lines,      \* lines that may be logged
    Category,   \* Category[l]: the tag of line l
    Deletion,   \* the line that says who has deleted the others, a warning
    Tags,       \* the entries of the filter, "all" included
    lastSecond, \* bound: seconds that pass
    maxPolls,   \* bound: polls that the page starts
    maxEvents   \* bound: filters chosen, deletions, resets and failures

VARIABLES
    clock,      \* the time of the server, in seconds
    log,        \* the log file: lines with their stamps
    modified,   \* the time of its last modification
    writers,    \* goroutines that have not run writeToFile
    poll,       \* what pollInfo awaits
    polls,      \* number of polls
    lastLogUpdate, logContent, \* the variables of the page
    logFilter,  \* the selected filter
    textarea,   \* what the page shows, or the error
    deletion,   \* the request to delete lines, and its cutoff
    events,     \* number of filters chosen, deletions, resets and failures
    late,       \* history: a line was written in a later second than it says
    overlooked  \* history: lines written while a poll was answered

logVars == <<clock, log, modified, writers, poll, polls, lastLogUpdate, logContent,
             logFilter, textarea, deletion, events, late, overlooked>>

ASSUME LogAssumption ==
    /\ Deletion \notin Lines /\ "all" \in Tags
    /\ lastSecond \in Nat \ {0} /\ maxPolls \in Nat /\ maxEvents \in Nat

Entry(l, ts) == [line |-> l, ts |-> ts]
AllLines == Lines \cup {Deletion}
Entries == [line : AllLines, ts : 0..lastSecond]

(* The lines of S in a sequence, in their order: SelectSeq, which proofs     *)
(* cannot use as it is recursive.                                            *)
Only(lines, S) ==
    LET places == {i \in DOMAIN lines : lines[i] \in S}
        place == CHOOSE f \in [1..Cardinality(places) -> places] :
                    \A i, j \in DOMAIN f : i < j => f[i] < f[j]
    IN [i \in 1..Cardinality(places) |-> lines[place[i]]]

NoPoll == [pc |-> "waiting", since |-> 0, entries |-> <<>>, seen |-> {}, timestamp |-> 0]
Failed == <<Entry("error", 0)>>
NoDeletion == [state |-> "none", cutoff |-> 0]

LogTypeOK ==
    /\ clock \in 1..lastSecond /\ modified \in 1..lastSecond /\ lastLogUpdate \in 0..lastSecond
    /\ log \in Seq(Entries) /\ logContent \in Seq(Entries)
    /\ writers \subseteq Entries
    /\ poll.pc \in {"waiting", "sent", "read", "answered", "status"}
    /\ polls \in 0..maxPolls
    /\ logFilter \in Tags
    /\ textarea \in Seq(Entries) \cup {Failed}
    /\ deletion.state \in {"none", "sent", "done", "lost"} /\ deletion.cutoff \in 0..lastSecond
    /\ events \in 0..maxEvents /\ late \in BOOLEAN /\ overlooked \subseteq Entries

LogInit ==
    /\ clock = 1 /\ log = <<>> /\ modified = 1 /\ writers = {}
    /\ poll = NoPoll /\ polls = 0
    /\ lastLogUpdate = 0 /\ logContent = <<>> /\ logFilter = "all" /\ textarea = <<>>
    /\ deletion = NoDeletion /\ events = 0 /\ late = FALSE /\ overlooked = {}

-----------------------------------------------------------------------------
(* The server *)
Unlogged(l) == \A e \in writers \cup Range(log) : e.line # l

(* createLogEntry stamps the line, and a goroutine writes it. *)
createLogEntry(l) ==
    /\ Unlogged(l) /\ \A e \in Range(logContent) : e.line # l
    /\ writers' = writers \cup {Entry(l, clock)}
    /\ UNCHANGED <<clock, log, modified, poll, polls, lastLogUpdate, logContent, logFilter, textarea, deletion, events, late, overlooked>>

writeToFile(e) ==
    /\ e \in writers /\ writers' = writers \ {e}
    /\ log' = Append(log, e) /\ modified' = clock
    /\ late' = (late \/ e.ts < clock)
    /\ UNCHANGED <<clock, poll, polls, lastLogUpdate, logContent, logFilter, textarea, deletion, events, overlooked>>

Tick ==
    /\ clock < lastSecond /\ clock' = clock + 1
    /\ UNCHANGED <<log, modified, writers, poll, polls, lastLogUpdate, logContent, logFilter, textarea, deletion, events, late, overlooked>>

(* Mutant of GetSince: only lines that are newer than the stamp. *)
GetAfter(since) ==
    LET old == {i \in DOMAIN log : log[i].ts <= since}
        first == IF old = {} THEN 1 ELSE 1 + CHOOSE i \in old : \A j \in old : j <= i
    IN IF modified < since THEN <<>> ELSE SubSeq(log, first, Len(log))

(* The file is read from its end, up to a line that is older: nothing is     *)
(* read when the file is.                                                    *)
GetSince(since) ==
    LET old == {i \in DOMAIN log : log[i].ts < since}
        first == IF old = {} THEN 1 ELSE 1 + CHOOSE i \in old : \A j \in old : j <= i
    IN IF modified < since THEN <<>> ELSE SubSeq(log, first, Len(log))

apiLogsGet ==
    /\ poll.pc = "sent"
    /\ poll' = [poll EXCEPT !.pc = "read", !.seen = Range(log),
                            !.entries = IF poll.since = 0 THEN log ELSE GetSince(poll.since)]
    /\ UNCHANGED <<clock, log, modified, writers, polls, lastLogUpdate, logContent, logFilter, textarea, deletion, events, late, overlooked>>

(* The stamp of the answer is taken after the file has been read. *)
StampAnswer ==
    /\ poll.pc = "read"
    /\ poll' = [poll EXCEPT !.pc = "answered", !.timestamp = clock]
    /\ overlooked' = overlooked \cup {e \in Range(log) \ poll.seen : e.ts < clock}
    /\ UNCHANGED <<clock, log, modified, writers, polls, lastLogUpdate, logContent, logFilter, textarea, deletion, events, late>>

-----------------------------------------------------------------------------
(* The page *)
Event == events < maxEvents /\ events' = events + 1

filterLogs(content, tag) ==
    IF tag = "all" THEN content ELSE Only(content, {e \in Entries : Category[e.line] = tag})

apiLogGet ==
    /\ poll.pc = "waiting" /\ polls < maxPolls /\ polls' = polls + 1
    /\ poll' = [NoPoll EXCEPT !.pc = "sent", !.since = lastLogUpdate]
    /\ UNCHANGED <<clock, log, modified, writers, lastLogUpdate, logContent, logFilter, textarea, deletion, events, late, overlooked>>

loadLogs ==
    /\ poll.pc = "answered"
    /\ lastLogUpdate' = poll.timestamp
    /\ IF poll.since # 0 /\ poll.entries = <<>> THEN UNCHANGED <<logContent, textarea>>
       ELSE /\ logContent' = (IF poll.since = 0 THEN poll.entries ELSE logContent \o poll.entries)
            /\ textarea' = filterLogs(logContent', logFilter)
    /\ poll' = [NoPoll EXCEPT !.pc = IF polls = 1 THEN "waiting" ELSE "status"]
    /\ UNCHANGED <<clock, log, modified, writers, polls, logFilter, deletion, events, late, overlooked>>

(* No token, an error, no connection: the next poll asks for everything. *)
LoadFails ==
    /\ Event /\ poll.pc \in {"sent", "read", "answered"}
    /\ lastLogUpdate' = 0 /\ textarea' = Failed
    /\ poll' = [NoPoll EXCEPT !.pc = IF polls = 1 THEN "waiting" ELSE "status"]
    /\ UNCHANGED <<clock, log, modified, writers, polls, logContent, logFilter, deletion, late, overlooked>>

(* The figures at the top of the page do not matter here, nor whether their  *)
(* request fails.                                                            *)
loadStatus ==
    /\ poll.pc = "status" /\ poll' = NoPoll
    /\ UNCHANGED <<clock, log, modified, writers, polls, lastLogUpdate, logContent, logFilter, textarea, deletion, events, late, overlooked>>

SelectFilter(tag) ==
    /\ Event /\ tag # logFilter /\ logFilter' = tag /\ textarea' = filterLogs(logContent, tag)
    /\ UNCHANGED <<clock, log, modified, writers, poll, polls, lastLogUpdate, logContent, deletion, late, overlooked>>

(* "All", or those that are older than so many days: here, than a second. *)
deleteLogs ==
    /\ Event /\ deletion.state = "none" /\ Unlogged(Deletion)
    /\ \E cutoff \in {0, clock - 1} : deletion' = [state |-> "sent", cutoff |-> cutoff]
    /\ UNCHANGED <<clock, log, modified, writers, poll, polls, lastLogUpdate, logContent, logFilter, textarea, late, overlooked>>

(* Lines after the cutoff stay behind the line that says so, which bears the *)
(* stamp of the cutoff.                                                      *)
DeleteLogs ==
    /\ deletion.state = "sent" /\ deletion' = [deletion EXCEPT !.state = "done"]
    /\ modified' = clock
    /\ log' = IF deletion.cutoff = 0 THEN <<Entry(Deletion, clock)>>
              ELSE <<Entry(Deletion, deletion.cutoff)>> \o Only(log, {e \in Entries : e.ts > deletion.cutoff})
    /\ UNCHANGED <<clock, writers, poll, polls, lastLogUpdate, logContent, logFilter, textarea, events, late, overlooked>>

(* The page is not loaded again when it hears of an error. *)
DeletionFails ==
    /\ Event /\ deletion.state \in {"sent", "done"}
    /\ deletion' = IF deletion.state = "sent" THEN NoDeletion ELSE [deletion EXCEPT !.state = "lost"]
    /\ UNCHANGED <<clock, log, modified, writers, poll, polls, lastLogUpdate, logContent, logFilter, textarea, late, overlooked>>

(* location.reload(), after a deletion or a reset of the traffic: the page   *)
(* has loaded nothing.                                                       *)
Reload ==
    /\ poll' = NoPoll /\ lastLogUpdate' = 0 /\ logContent' = <<>> /\ textarea' = <<>> /\ logFilter' = "all"
    /\ deletion' = NoDeletion
    /\ UNCHANGED <<clock, log, modified, writers, polls, late, overlooked>>

Deleted == deletion.state = "done" /\ Reload /\ UNCHANGED events
resetTrafficStat == Event /\ logContent # <<>> /\ deletion.state = "none" /\ Reload

-----------------------------------------------------------------------------
LogStep ==
    \/ \E l \in Lines : createLogEntry(l)
    \/ \E e \in writers : writeToFile(e)
    \/ Tick \/ apiLogsGet \/ StampAnswer
    \/ apiLogGet \/ loadLogs \/ LoadFails \/ loadStatus
    \/ deleteLogs \/ DeleteLogs \/ DeletionFails \/ Deleted \/ resetTrafficStat
    \/ \E tag \in Tags : SelectFilter(tag)

(* The page lacks no line of the file that no later poll will bring, and     *)
(* shows what it has in the order of the file, also when lines are written   *)
(* in the second of a poll, polls fail, or the log is deleted.  But for      *)
(* lines written in a later second than they say, before which a poll may    *)
(* stop reading, and those written between the reading of the file and the   *)
(* stamp of the answer, when the second changes; and a page that is not      *)
(* loaded again after a deletion does not show the line that says so.        *)
LogsComplete ==
    /\ ~late =>
          /\ \A e \in Range(log) : 
                e.ts < lastLogUpdate =>
                   e \in Range(logContent) \cup overlooked \/ (e.line = Deletion /\ deletion.state # "none")
          /\ \A i, j \in DOMAIN logContent : i < j => logContent[i].ts <= logContent[j].ts
    /\ textarea # Failed => textarea = filterLogs(logContent, logFilter)
=============================================================================
