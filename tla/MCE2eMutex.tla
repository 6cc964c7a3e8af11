----------------------------- MODULE MCE2eMutex -----------------------------
(* Values for the constants of E2eMutex: clients of one user, one of them   *)
(* the command line uploader.                                               *)
EXTENDS E2eMutex

CONSTANTS u1, s1, s2, s3

OneUser == [s \in Sessions |-> u1]
=============================================================================
