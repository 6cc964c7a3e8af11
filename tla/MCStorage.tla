----------------------------- MODULE MCStorage -----------------------------
(***************************************************************************)
(* The scenarios of Storage.tla for TLC: two stored files a and b, with    *)
(* equal or different content, and up to five requests and goroutines.     *)
(***************************************************************************)
EXTENDS Storage

CONSTANTS a, b, h, k, p1, p2, p3, p4, p5

RowOf(hash, key, downloads, hotlink) ==
    [SHA1 |-> hash, key |-> key, ExpireAt |-> 3, DownloadsRemaining |-> downloads,
     PendingDeletion |-> 0, HotlinkId |-> hotlink]
Plain(hash) == RowOf(hash, None, 2, None)

Rows(ofA, ofB) == [f \in Files |-> IF f = a THEN ofA ELSE ofB]

(* Five kinds for p1 .. p5; those in onB are about b, the others about a.  *)
Requests(kinds, onB) ==
    [kind |-> [p \in Procs |-> CASE p = p1 -> kinds[1] [] p = p2 -> kinds[2]
                 [] p = p3 -> kinds[3] [] p = p4 -> kinds[4] [] p = p5 -> kinds[5]],
     target |-> [p \in Procs |-> IF p \in onB THEN b ELSE a],
     content |-> h, replacement |-> b, linkable |-> {}, owned |-> {}, slow |-> {},
     stored |-> Rows(Plain(h), Plain(h)), encrypted |-> FALSE,
     maxTime |-> 1, maxCrashes |-> 0]

All == [
    (* Two files with one source are deleted. *)
    Deleting |->
        [Requests(<<"delete", "delete", "absent", "absent", "absent">>, {p2})
            EXCEPT !.stored = Rows(RowOf(h, None, 2, a), Plain(h))],
    (* Downloads use up their files while one is deleted. *)
    Downloads |->
        [Requests(<<"delete", "download", "download", "absent", "absent">>, {p3})
            EXCEPT !.stored = Rows(RowOf(h, None, 1, None), RowOf(h, None, 1, None)),
                   !.slow = {p2}],
    (* Uploads and a duplication of one content, with a crash. *)
    Uploads |->
        [Requests(<<"upload", "upload", "add", "duplicate", "absent">>,
                  {p1, p2, p3, p4})
            EXCEPT !.stored = Rows(None, Plain(k)), !.linkable = {p1, p4},
                   !.maxCrashes = 1],
    (* A user is deleted while his content is uploaded and duplicated; the   *)
    (* source that he leaves, or that no row needs, is found by an upload.   *)
    Encrypted |->
        [Requests(<<"upload", "add", "duplicate", "deleteUser", "cleaner">>, {})
            EXCEPT !.stored = Rows(RowOf(h, a, 2, None), RowOf(h, a, 2, None)),
                   !.encrypted = TRUE, !.owned = {a}, !.maxCrashes = 1],
    Orphaned |->
        [Requests(<<"add", "deleteUser", "cleaner", "absent", "absent">>, {})
            EXCEPT !.stored = Rows(RowOf(h, a, 2, None), None),
                   !.encrypted = TRUE, !.owned = {a}],
    (* A file gets the content of another one, whose last download may come  *)
    (* first; both are downloaded meanwhile.                                 *)
    Replacing |->
        [Requests(<<"replace", "download", "download", "absent", "absent">>, {p2})
            EXCEPT !.stored = Rows(Plain(h), RowOf(k, None, 1, None))],
    ReplacingCleaned |->
        [Requests(<<"replace", "cleaner", "absent", "absent", "absent">>, {})
            EXCEPT !.stored = Rows(Plain(h), Plain(k))],
    (* A deletion is scheduled and called off while the file is edited. *)
    Editing |->
        [Requests(<<"edit", "schedule", "restore", "cleaner", "absent">>, {})
            EXCEPT !.stored = Rows(RowOf(h, None, 2, a), None),
                   !.linkable = {p1}, !.maxTime = 2],
    (* The server may stop between the start and the end of a scheduled         *)
    (* deletion; a download may outlast the deletion of its file.               *)
    Scheduled |->
        [Requests(<<"schedule", "cleaner", "absent", "absent", "absent">>, {})
            EXCEPT !.stored = Rows(Plain(h), Plain(k)), !.maxTime = 3, !.maxCrashes = 1],
    Downloading |->
        [Requests(<<"delete", "download", "cleaner", "absent", "absent">>, {})
            EXCEPT !.slow = {p2}],
    (* CleanUp runs between the scheduling of a deletion and its calling off.   *)
    Restoring |->
        [Requests(<<"schedule", "restore", "cleaner", "absent", "absent">>, {})
            EXCEPT !.stored = Rows(RowOf(h, None, 2, a), None)],
    (* Of two files with one source, one is deleted and one used up, while      *)
    (* CleanUp runs.                                                            *)
    TwoCleanUps |->
        [Requests(<<"delete", "download", "cleaner", "absent", "absent">>, {p2})
            EXCEPT !.stored = Rows(Plain(h), RowOf(h, None, 1, None))],
    (* The upload of the content of the only file that has it, and its deletion *)
    UploadRace |->
        [Requests(<<"delete", "upload", "absent", "absent", "absent">>, {})
            EXCEPT !.stored = Rows(Plain(h), None)],
    (* Two uploads of the same content at the same time, encrypted.             *)
    EncryptedUploads |->
        [Requests(<<"upload", "upload", "absent", "absent", "absent">>, {})
            EXCEPT !.stored = Rows(None, None), !.encrypted = TRUE]]

Select(names) == [n \in names |-> All[n]]
SafetyScenarios ==
    Select({"Deleting", "Downloads", "Uploads", "Encrypted", "Orphaned", "Replacing",
            "ReplacingCleaned", "Editing", "Scheduled", "Downloading"})
EncryptedUploadsScenario == Select({"EncryptedUploads"})
RestoreScenario == Select({"Restoring"})
TwoCleanUpsScenario == Select({"TwoCleanUps"})
UploadRaceScenario == Select({"UploadRace"})
=============================================================================
