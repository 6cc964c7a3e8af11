---------------------------- MODULE MCDownloads ----------------------------
(***************************************************************************)
(* Values for the constants of Downloads.  All files hash to one mutex, as *)
(* two files may with 256 stripes.                                         *)
(***************************************************************************)
EXTENDS Downloads

CONSTANTS s1

OneStripe == [f \in Files |-> s1]

LimitedRow(n, expireAt) ==
    [DownloadsRemaining |-> n, DownloadCount |-> 0, UnlimitedDownloads |-> FALSE,
     ExpireAt |-> expireAt, UnlimitedTime |-> FALSE, PendingDeletion |-> FALSE]
UnlimitedRow ==
    [DownloadsRemaining |-> 1, DownloadCount |-> 0, UnlimitedDownloads |-> TRUE,
     ExpireAt |-> 1, UnlimitedTime |-> TRUE, PendingDeletion |-> FALSE]

(* A file for one download that is valid for one tick, and an unlimited one *)
MixedRows == {LimitedRow(1, 1), UnlimitedRow}
OnlyUnlimited == {UnlimitedRow}

EditOf(n, unlimited, expiry, forever) ==
    [AllowedDownloads |-> n, UnlimitedDownloads |-> unlimited,
     ExpiryTimestamp |-> expiry, UnlimitedExpiry |-> forever]

(* A new limit and expiry, an unlimited file, and a file that never expires *)
AllEdits == {EditOf(1, FALSE, 2, FALSE), EditOf(0, TRUE, 0, TRUE),
             EditOf(0, FALSE, 0, TRUE)}
MakeLimited == {EditOf(1, FALSE, 0, FALSE)}
=============================================================================
