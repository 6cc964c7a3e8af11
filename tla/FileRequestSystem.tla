-------------------------- MODULE FileRequestSystem -------------------------
(***************************************************************************)
(* A file request with its guests (PublicUpload.tla), its owner            *)
(* (FileRequestPage.tla) and the server (FileRequests.tla).                *)
(***************************************************************************)
EXTENDS PublicUpload, FileRequestPage

vars == <<serverVars, pageVars, ownerVars>>

(* Type invariant. *)
TypeOK == ServerTypeOK /\ PageTypeOK /\ OwnerTypeOK

Init == ServerInit /\ PageInit /\ OwnerInit

Restart == ServerRestart /\ ConnectionsCut /\ CallsCut

Next ==
    \/ (GuestStep \/ ServerWork \/ TimePasses) /\ UNCHANGED ownerVars
    \/ OwnerStep /\ UNCHANGED pageVars
    \/ Restart

Spec == Init /\ [][Next]_vars

(* The event loop of a page runs what is due, the server answers, and its    *)
(* goroutines and the clean-up of the reservations run.  Users need not act. *)
FairSpec ==
    /\ Spec
    /\ \A p \in Clients : WF_vars(PageStep(p) /\ UNCHANGED ownerVars)
    /\ WF_vars(ServerWork /\ UNCHANGED ownerVars)
    /\ WF_vars(cleanUp /\ UNCHANGED <<pageVars, ownerVars>>)
    /\ \A u \in Uuids : WF_vars(ReservationExpires(u) /\ UNCHANGED <<pageVars, ownerVars>>)
=============================================================================
