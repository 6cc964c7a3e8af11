---------------------------- MODULE MCUploadPage ----------------------------
(* The scenarios of UploadSystem.tla for TLC.                              *)
EXTENDS UploadSystem

CONSTANTS t1, t2, f1, f2

AllNotices == {fileAdded(f) : f \in Files} \cup {fileDeleted(f) : f \in Files}

(* Two folders of one name whose files have one name; an empty folder that   *)
(* is dropped twice; a file that has the name a suffix would make.           *)
File(id, name) == [isFile |-> TRUE, id |-> id, name |-> name, ext |-> "txt", size |-> 1]
Folder(id, name, children) ==
    [isFile |-> FALSE, id |-> id, name |-> <<name>>, ext |-> "", children |-> children]
Dropped == <<
    <<Folder(1, "d", <<File(2, <<"a">>), File(3, <<"a", 1>>), File(4, <<"b">>)>>),
      Folder(5, "d", <<File(6, <<"a">>), Folder(7, "e", <<>>)>>),
      Folder(8, "d", <<File(9, <<"a">>), Folder(10, "e", <<>>)>>)>>,
    <<File(11, <<"a">>), File(12, <<"a">>)>>,
    <<[File(13, <<"a">>) EXCEPT !.size = 7], File(14, <<"b">>)>> >>
RECURSIVE Below(_)
Below(entries) ==
    UNION {{entry} \cup IF entry.isFile THEN {} ELSE Below(entry.children) : entry \in ToSet(entries)}
AllEntries == UNION {Below(Dropped[s]) : s \in Selections}
TypedNames == UNION {[1..n -> {".", " ", "/", "x", "wide", "zip"}] : n \in 0..2}

(* tabs: those that may be opened; present: files that are there at first;   *)
(* uploads: files that the uploader may upload; shared: the browser has      *)
(* shared workers; events: what may happen besides                           *)
Base == [tabs |-> {t1, t2}, present |-> {}, uploads |-> {}, uploader |-> t1, shared |-> TRUE,
         e2e |-> FALSE, edit |-> FALSE, selections |-> {},
         maxClicks |-> 0, maxFaults |-> 0, events |-> {}]
All == [
    Upload |-> [Base EXCEPT !.tabs = {t1}, !.uploads = {f1}, !.maxFaults = 1,
                            !.events = {"stream", "maxConnection", "close", "jobFails"}],
    Shared |-> [Base EXCEPT !.uploads = {f1}, !.events = {"stream", "stored", "maxConnection"}],
    Delete |-> [Base EXCEPT !.present = {f1}, !.maxClicks = 4],
    Lost |-> [Base EXCEPT !.present = {f1}, !.maxClicks = 2, !.maxFaults = 1, !.events = {"expiry", "close"}],
    Logout |-> [Base EXCEPT !.maxFaults = 1, !.events = {"stream", "logout", "close"}],
    Encrypted |-> [Base EXCEPT !.tabs = {t1}, !.uploads = {f1, f2}, !.e2e = TRUE, !.shared = FALSE],
    EncryptedDelete |-> [Base EXCEPT !.tabs = {t1}, !.present = {f2}, !.uploads = {f1}, !.e2e = TRUE,
                                     !.shared = FALSE, !.maxClicks = 2, !.events = {"stored"}],
    EncryptedFails |-> [Base EXCEPT !.tabs = {t1}, !.uploads = {f1}, !.e2e = TRUE,
                                    !.shared = FALSE, !.maxFaults = 1, !.events = {"stored", "lockExpires"}],
    EncryptedTwice |-> [Base EXCEPT !.tabs = {t1}, !.uploads = {f1}, !.e2e = TRUE, !.events = {"stream", "stored"}],
    Zip |-> [Base EXCEPT !.tabs = {}, !.selections = {1, 2}],
    ZipLarge |-> [Base EXCEPT !.tabs = {}, !.selections = {3}],
    Edit |-> [Base EXCEPT !.tabs = {}, !.edit = TRUE]
]
AllScenarios == [name \in DOMAIN All |-> All[name]]
=============================================================================
