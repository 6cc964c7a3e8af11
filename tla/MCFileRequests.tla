--------------------------- MODULE MCFileRequests ---------------------------
(* The scenarios of FileRequestSystem.tla for TLC.                         *)
EXTENDS FileRequestSystem

CONSTANTS p1, p2, e1, e2

EntryPages == [e \in Entries |-> IF e = e1 THEN p1 ELSE p2]

Base == [maxFiles |-> 1, present |-> 0, entries |-> {e1}, maxFaults |-> 0, events |-> {},
         limitMaxFiles |-> 0]

AllScenarios == [
    (* One upload: lost answers, removal, closing, expiry *)
    Upload |-> [Base EXCEPT !.maxFaults = 1, !.events = {"remove", "close", "expiry", "requestExpiry", "failure", "restart"}],
    (* Two guests compete for the last file. *)
    Guests |-> [Base EXCEPT !.entries = {e1, e2}, !.events = {"expiry", "failure"}],
    Unlimited |-> [Base EXCEPT !.maxFiles = 0, !.maxFaults = 1, !.events = {"remove", "expiry"}],
    (* The owner deletes files and takes the deletions back. *)
    Files |-> [Base EXCEPT !.maxFiles = 2, !.present = 2, !.entries = {},
                           !.events = {"deleteFiles"}],
    (* The owner deletes the file request while a guest uploads. *)
    Delete |-> [Base EXCEPT !.maxFiles = 2, !.maxFaults = 1, !.events = {"expiry", "deleteRequest", "restart"}],
    EditDelete |-> [Base EXCEPT !.maxFiles = 2, !.entries = {}, !.maxFaults = 1, !.limitMaxFiles = 10,
                                !.events = {"edit", "deleteRequest", "restart"}],
    Edit |-> [Base EXCEPT !.maxFiles = 2, !.present = 1, !.events = {"edit", "deleteRequest", "expiry"},
                          !.limitMaxFiles = 10],
    Create |-> [Base EXCEPT !.entries = {}, !.events = {"create", "edit"}, !.limitMaxFiles = 10],
    CreateAdmin |-> [Base EXCEPT !.entries = {}, !.events = {"create", "edit"}]
]
=============================================================================
