------------------------- MODULE DownloadAllowance -------------------------
(***************************************************************************)
(* What Gokapi promises about "Allowed downloads": every file carries a    *)
(* limit, a download that counts is granted only while fewer downloads     *)
(* than the limit have been granted since the limit was last set, and      *)
(* whoever edits the file starts a new count with a new limit.             *)
(*                                                                         *)
(* Downloads.tla is the protocol of storage.ServeFile and apiEditFile that *)
(* has to implement it.                                                    *)
(***************************************************************************)
EXTENDS Integers

CONSTANTS
    Files,      \* the ids of uploaded files
    Limits      \* the values an uploader or editor may set

VARIABLES
    limit,      \* limit[f]: the allowance that was last set for f
    granted     \* granted[f]: the downloads granted since then

aVars == <<limit, granted>>

AllowanceInit ==
    /\ limit \in [Files -> Limits]
    /\ granted = [f \in Files |-> 0]

Grant(f) ==
    /\ granted[f] < limit[f]
    /\ granted' = [granted EXCEPT ![f] = @ + 1]
    /\ UNCHANGED limit

SetLimit(f) ==
    /\ limit'[f] \in Limits
    /\ limit' = [limit EXCEPT ![f] = limit'[f]]
    /\ granted' = [granted EXCEPT ![f] = 0]

AllowanceNext == \E f \in Files : Grant(f) \/ SetLimit(f)

AllowanceSpec == AllowanceInit /\ [][AllowanceNext]_aVars
=============================================================================
