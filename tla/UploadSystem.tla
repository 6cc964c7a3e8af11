----------------------------- MODULE UploadSystem ---------------------------
(***************************************************************************)
(* The upload page in several tabs of one user.                            *)
(***************************************************************************)
EXTENDS EndToEndPage, ZipUpload, EditDialog

dialogVars == <<zipVars, editVars>>
vars == <<workerVars, statusVars, pageVars, e2eVars, zipVars, editVars>>

(* Every variable has its type. *)
TypeOK == WorkerTypeOK /\ StatusTypeOK /\ PageTypeOK /\ E2eTypeOK /\ ZipTypeOK /\ EditTypeOK

Init ==
    /\ scenario \in DOMAIN Scenarios
    /\ WorkerInit /\ StatusInit(Now.present) /\ PageInit /\ E2eInit /\ ZipInit /\ EditInit(Now.edit)

TabStep(t) ==
    \/ /\ \/ registerChangeHandler(t) \/ GoToLogin(t) \/ TabReceives(t)
          \/ DirectMessage(t)
          \/ \E f \in Files : RowRemoved(t, f)
       /\ UNCHANGED e2eVars
    \/ \E c \in calls : c.tab = t /\ AnswerAnd(c)
    \/ checkIfE2EKeyIsSet(t)

SendStep(f) ==
    \/ ~Now.e2e /\ sendChunkComplete(f) /\ UNCHANGED e2eVars
    \/ EncryptNew(f) \/ uploadChunk(f)

UserStep ==
    \/ \E t \in Tabs : \/ Load(t) \/ Close(t) \/ doLogout(t) \/ handleUndo(t)
                       \/ \E f \in Files : deleteFile(t, f)
    \/ \E f \in Files : addFileProgress(f) \/ ChunkFails(f)

StreamStep == (\E t \in Tabs : WorkerHears(t)) \/ WorkerReconnects \/ StreamBreaks \/ ConnectionEnds

ServerStep ==
    \/ \E f \in Files : JobActs(f)
    \/ \E event \in publishers : Publishes(event)
    \/ StreamOpens \/ StreamSends

PageNext ==
    \/ \E t \in Tabs : TabStep(t)
    \/ \E f \in Files : SendStep(f)
    \/ /\ \/ UserStep \/ StreamStep \/ ServerStep \/ ServerMay
          \/ \E c \in calls : Handle(c) \/ ConnectionFails(c)
       /\ UNCHANGED e2eVars
    \/ (\E k \in chains : ChainStep(k)) \/ E2eMay

DialogNext ==
    \/ ZipStep /\ UNCHANGED editVars
    \/ (\E s \in Now.selections : zipOnDrop(s)) /\ UNCHANGED editVars
    \/ Now.edit /\ EditStep /\ UNCHANGED zipVars

Next ==
    \/ PageNext /\ UNCHANGED dialogVars
    \/ DialogNext /\ UNCHANGED <<workerVars, statusVars, pageVars, e2eVars>>

Spec == Init /\ [][Next]_vars

(* The event loops of the tabs run what is due, the worker and the server    *)
(* too, a stream that breaks is opened again, and no connection lasts for    *)
(* ever.  Users need not act.                                                *)
FairSpec ==
    /\ Spec
    /\ WF_vars((\E t \in Tabs : TabStep(t)) /\ UNCHANGED dialogVars)
    /\ WF_vars((\E f \in Files : SendStep(f)) /\ UNCHANGED dialogVars)
    /\ WF_vars((\E f \in Files : JobActs(f)) /\ UNCHANGED <<e2eVars, dialogVars>>)
    /\ WF_vars((\E c \in calls : Handle(c)) /\ UNCHANGED <<e2eVars, dialogVars>>)
    /\ WF_vars((\E t \in Tabs : WorkerHears(t)) /\ UNCHANGED <<e2eVars, dialogVars>>)
    /\ WF_vars((WorkerReconnects \/ ConnectionEnds) /\ UNCHANGED <<e2eVars, dialogVars>>)
    /\ WF_vars((\E event \in publishers : Publishes(event)) /\ UNCHANGED <<e2eVars, dialogVars>>)
    /\ WF_vars((StreamOpens \/ StreamSends) /\ UNCHANGED <<e2eVars, dialogVars>>)

(* Nothing that concerns f is under way. *)
Quiet(f) ==
    /\ upload[f] \in {"none", "removed"}
    /\ \A c \in calls : c.file # f
    /\ Underway(f) = {}
    /\ \A t \in Tabs : ~Unread(t, f) /\ Visible(t, f) = DOMAIN rows[t][f]

(* Whatever several tabs upload, delete and restore, each lists a file once  *)
(* when the server has it and not at all when it has not, as soon as the     *)
(* notices have arrived; and the number in the foot of the table is that of  *)
(* its rows.  But for the races for which the steps of UploadPage.tla excuse *)
(* a table.                                                                  *)
TableTrue ==
    \A t \in ports : tab[t] = "open" =>
        /\ \A f \in Files : Quiet(f) /\ <<t, f>> \notin excused =>
              Len(rows[t][f]) = (IF file[f] = "live" THEN 1 ELSE 0)
        /\ rowCount[t] = -1 \/ excused \cap ({t} \X Files) # {}
           \/ rowCount[t] = Total([f \in Files |-> Visible(t, f)])

(* A finished upload replaces its progress bar by a row, though the status   *)
(* of the processing may come late, twice or out of order, or be lost with   *)
(* the connection: the next one repeats what is known.  (Encrypted uploads   *)
(* may stall, see EndToEndPage.tla.)                                         *)
UploadShown ==
    \A f \in Files :
        ~Now.e2e /\ file[f] = "live" /\ Container(f) /\ tab[Uploader] = "open"
            ~> rows[Uploader][f] # <<>> \/ tab[Uploader] # "open" \/ file[f] # "live" \/ ~session
=============================================================================
