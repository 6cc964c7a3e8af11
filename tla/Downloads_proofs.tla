-------------------------- MODULE Downloads_proofs --------------------------
(***************************************************************************)
(* Proofs about Downloads.tla, for every set of files, requests, editors,  *)
(* every stripe function and every set of edits.                           *)
(***************************************************************************)
EXTENDS Downloads, TLAPS

(* Where the models.File variable of a process holds a row.                *)
SnapOK ==
    \A p \in Procs :
        pc[p] \in {"lock", "recheck", "count", "write", "chown", "save"}
            => snap[p] \in Row

(* The inductive strengthening of TypeOK and MutexDiscipline.              *)
LockInv == TypeOK /\ SnapOK /\ MutexDiscipline

LEMMA LockInvInit == Init => LockInv
<1> SUFFICES ASSUME Init PROVE LockInv
  OBVIOUS
<1> USE RowsAssumption, ClockAssumption, StripeAssumption, ProcsAssumption
<1>1. TypeOK
  <2>1. meta \in [Files -> Row]
    BY DEF Init
  <2>2. \A f \in Files : meta[f].DownloadsRemaining \in Int
    BY <2>1 DEF Row
  <2> QED
    BY <2>1, <2>2 DEF Init, TypeOK, PCs, Critical, Answered, Exceptions
<1>2. SnapOK
  BY DEF Init, SnapOK
<1>3. MutexDiscipline
  BY DEF Init, MutexDiscipline, Critical, Procs
<1> QED
  BY <1>1, <1>2, <1>3 DEF LockInv

LEMMA EditedRow ==
    ASSUME NEW row \in Row, NEW edit \in Edits
    PROVE  /\ ApplyEdit(row, edit) \in Row
           /\ ApplyEdit(row, edit).DownloadCount = row.DownloadCount
BY EditsAssumption DEF ApplyEdit, Row, Edit, SetsLimit, SetsExpiry

LEMMA CountedRow ==
    ASSUME NEW row \in Row PROVE Counted(row) \in Row
<1>1. ASSUME NEW a \in Int, NEW b \in Nat
      PROVE  [row EXCEPT !.DownloadsRemaining = a, !.DownloadCount = b] \in Row
  BY DEF Row
<1>2. row.DownloadsRemaining - 1 \in Int /\ row.DownloadCount + 1 \in Nat
  BY DEF Row
<1> QED
  BY <1>1, <1>2 DEF Counted

LEMMA ModifiedRow ==
    ASSUME NEW row \in Row, NEW o \in WriterOps
    PROVE  Modified(row, o) \in Row
<1>1. CASE o = "DeleteFile"
  <2>1. ASSUME NEW a \in Int, NEW b \in BOOLEAN
        PROVE  [row EXCEPT !.ExpireAt = a, !.UnlimitedTime = b] \in Row
    BY DEF Row
  <2>2. 0 \in Int /\ FALSE \in BOOLEAN
    OBVIOUS
  <2>3. [row EXCEPT !.ExpireAt = 0, !.UnlimitedTime = FALSE] \in Row
    BY ONLY <2>1, <2>2
  <2> QED
    BY <1>1, <2>3 DEF Modified
<1>2. CASE o = "DeleteFileSchedule"
  BY <1>2 DEF Modified, Row
<1>3. CASE o = "CancelPendingFileDeletion"
  BY <1>3 DEF Modified, Row
<1>4. CASE o = "Resave"
  BY <1>4 DEF Modified
<1> QED
  BY <1>1, <1>2, <1>3, <1>4 DEF WriterOps

LEMMA LockInvNext == LockInv /\ [Next]_vars => LockInv'
<1> SUFFICES ASSUME LockInv, [Next]_vars PROVE LockInv'
  OBVIOUS
<1> USE RowsAssumption, ClockAssumption, StripeAssumption, ProcsAssumption
<1> USE DEF LockInv, TypeOK, PCs, Critical, Answered, Procs, Goto, history
<1>1. ASSUME NEW r \in Requests, Request(r) PROVE LockInv'
  <2>1. CASE LookupFound(r)
    BY <2>1 DEF LookupFound, GetFile, SnapOK, MutexDiscipline
  <2>2. CASE LookupMissing(r)
    BY <2>2 DEF LookupMissing, SnapOK, MutexDiscipline
  <2>3. CASE ServeLock(r)
    BY <2>3 DEF ServeLock, Lock, Except, Exceptions, SnapOK, MutexDiscipline
  <2>4. CASE Recheck(r)
    <3> DEFINE file == IF snap[r].UnlimitedDownloads THEN snap[r]
                ELSE [snap[r] EXCEPT !.DownloadsRemaining =
                                         GetDownloadsRemaining(target[r])]
    <3>1. snap[r] \in Row /\ pc[r] = "recheck"
      BY <2>4 DEF Recheck, SnapOK
    <3>2. GetDownloadsRemaining(target[r]) \in Int
      BY DEF GetDownloadsRemaining, Row
    <3>3. file \in Row
      BY <3>1, <3>2 DEF Row
    <3>4. snap' = [snap EXCEPT ![r] = file]
      BY <2>4 DEF Recheck
    <3>5. /\ pc' \in [Procs -> PCs]
          /\ \A p \in Procs \ {r} : pc'[p] = pc[p]
          /\ pc'[r] \in {"refuse", "count"}
      BY <2>4 DEF Recheck
    <3> HIDE DEF file
    <3>6. UNCHANGED <<meta, now, lock, target, history>>
      BY <2>4 DEF Recheck
    <3>7. TypeOK'
      BY <3>3, <3>4, <3>5, <3>6
    <3>8. SnapOK'
      BY <3>3, <3>4, <3>5 DEF SnapOK
    <3>9. MutexDiscipline'
      BY <3>1, <3>5, <3>6 DEF MutexDiscipline
    <3> QED
      BY <3>7, <3>8, <3>9
  <2>5. CASE Refuse(r)
    BY <2>5 DEF Refuse, Unlock, SnapOK, MutexDiscipline
  <2>6. CASE Count(r)
    <3>1. snap[r] \in Row
      BY <2>6 DEF Count, SnapOK
    <3>2. Counted(snap[r]) \in Row
      BY <3>1, CountedRow
    <3>3. meta' \in [Files -> Row \cup {NoRow}]
      BY <2>6 DEF Count, IncreaseDownloadCount, Row
    <3>4. snap' \in [Procs -> Row \cup {NoRow}]
      BY <2>6, <3>2 DEF Count
    <3>5. /\ granted' \in [Files -> Nat]
          /\ counted' \in [Files -> Nat]
          /\ pc' \in [Procs -> PCs]
          /\ UNCHANGED <<now, lock, target, limit, exceptions>>
      BY <2>6 DEF Count
    <3>6. TypeOK'
      BY <3>3, <3>4, <3>5
    <3>7. SnapOK' /\ MutexDiscipline'
      BY <2>6 DEF Count, SnapOK, MutexDiscipline
    <3> QED
      BY <3>6, <3>7
  <2>7. CASE ServeUnlock(r)
    BY <2>7 DEF ServeUnlock, Unlock, SnapOK, MutexDiscipline
  <2> QED
    BY <1>1, <2>1, <2>2, <2>3, <2>4, <2>5, <2>6, <2>7 DEF Request
<1>2. ASSUME NEW e \in Editors, Editor(e) PROVE LockInv'
  <2>1. CASE EditLock(e)
    BY <2>1 DEF EditLock, Lock, SnapOK, MutexDiscipline
  <2>2. CASE EditRead(e)
    BY <2>2 DEF EditRead, SnapOK, MutexDiscipline
  <2>3. CASE OwnerRead(e)
    BY <2>3 DEF OwnerRead, GetFile, SnapOK, MutexDiscipline
  <2>4. CASE EditReject(e)
    BY <2>4 DEF EditReject, SnapOK, MutexDiscipline
  <2>5. CASE EditWrite(e)
    <3>1. PICK edit \in Edits :
             /\ SaveMetaData(target[e], ApplyEdit(snap[e], edit))
             /\ IF SetsLimit(edit)
                  THEN /\ limit' = [limit EXCEPT ![target[e]] = edit.AllowedDownloads]
                       /\ granted' = [granted EXCEPT ![target[e]] = 0]
                  ELSE UNCHANGED <<limit, granted>>
             /\ Except(target[e], IF ApplyEdit(snap[e], edit).UnlimitedDownloads
                                    THEN {"unlimited"} ELSE {})
      BY <2>5 DEF EditWrite
    <3>2. Goto(e, "write", "unlock") /\ UNCHANGED <<now, lock, target, snap, counted>>
      BY <2>5 DEF EditWrite
    <3>3. ApplyEdit(snap[e], edit) \in Row
      BY <3>2, EditedRow DEF SnapOK
    <3>4. meta' \in [Files -> Row \cup {NoRow}]
      BY <3>1, <3>3 DEF SaveMetaData
    <3>5. edit.AllowedDownloads \in Int
      BY EditsAssumption DEF Edit
    <3>6. exceptions' \in [Files -> SUBSET Exceptions]
      BY <3>1 DEF Except, Exceptions
    <3>7. limit' \in [Files -> Int] /\ granted' \in [Files -> Nat]
      BY <3>1, <3>5
    <3>8. TypeOK'
      BY <3>2, <3>4, <3>6, <3>7
    <3>9. SnapOK' /\ MutexDiscipline'
      BY <3>2 DEF SnapOK, MutexDiscipline
    <3> QED
      BY <3>8, <3>9
  <2>6. CASE OwnerWrite(e)
    BY <2>6 DEF OwnerWrite, SaveMetaData, SnapOK, MutexDiscipline
  <2>7. CASE EditUnlock(e)
    BY <2>7 DEF EditUnlock, Unlock, SnapOK, MutexDiscipline
  <2> QED
    BY <1>2, <2>1, <2>2, <2>3, <2>4, <2>5, <2>6, <2>7 DEF Editor
<1>3. ASSUME NEW w \in Writers, Writer(w) PROVE LockInv'
  <2>1. CASE WriterRead(w)
    BY <2>1 DEF WriterRead, SnapOK, MutexDiscipline
  <2>2. CASE WriterReject(w)
    BY <2>2 DEF WriterReject, SnapOK, MutexDiscipline
  <2>3. CASE WriterWrite(w)
    <3>1. PICK o \in WriterOps : SaveMetaData(target[w], Modified(snap[w], o))
      BY <2>3 DEF WriterWrite
    <3>2. Modified(snap[w], o) \in Row
      BY <2>3, ModifiedRow DEF WriterWrite, SnapOK
    <3>3. meta' \in [Files -> Row \cup {NoRow}]
      BY <3>1, <3>2 DEF SaveMetaData
    <3>4. exceptions' \in [Files -> SUBSET Exceptions]
      BY <2>3 DEF WriterWrite, Except, Exceptions
    <3> QED
      BY <2>3, <3>3, <3>4 DEF WriterWrite, SnapOK, MutexDiscipline
  <2> QED
    BY <1>3, <2>1, <2>2, <2>3 DEF Writer
<1>4. ASSUME NEW f \in Files, DeleteMetaData(f) PROVE LockInv'
  BY <1>4 DEF DeleteMetaData, SnapOK, MutexDiscipline
<1>5. CASE Tick
  BY <1>5 DEF Tick, SnapOK, MutexDiscipline
<1>6. CASE UNCHANGED vars
  BY <1>6 DEF vars, SnapOK, MutexDiscipline
<1> QED
  BY <1>1, <1>2, <1>3, <1>4, <1>5, <1>6 DEF Next

(* The tables, mutexes and local copies always hold values of their types. *)
THEOREM TypeCorrect == Spec => []TypeOK
<1>1. LockInv => TypeOK
  BY DEF LockInv
<1> QED
  BY <1>1, LockInvInit, LockInvNext, PTL DEF Spec

(* A handler between Lock and Unlock owns the stripe of its file, with any *)
(* number of unlocked writers around.                                      *)
THEOREM MutexHeld == Spec => []MutexDiscipline
<1>1. LockInv => MutexDiscipline
  BY DEF LockInv
<1> QED
  BY <1>1, LockInvInit, LockInvNext, PTL DEF Spec

-----------------------------------------------------------------------------
(* An editor that has read its row and not yet saved it knows the current  *)
(* count: requests of the same file wait for the mutex.                    *)
CountInv ==
    /\ CountExact
    /\ \A e \in Editors :
           pc[e] \in {"write", "chown"} /\ "unguarded" \notin exceptions[target[e]]
               => snap[e].DownloadCount = counted[target[e]]

LEMMA CountInvNext ==
    ASSUME LockInv, CountInv, [Next]_vars
    PROVE  CountInv'
<1> USE RowsAssumption, StripeAssumption, ProcsAssumption
<1> USE DEF LockInv, TypeOK, Procs, Goto, history, CountInv, CountExact
<1>1. ASSUME NEW r \in Requests, Request(r) PROVE CountInv'
  <2>1. \A e \in Editors : e # r
    OBVIOUS
  <2>2. CASE LookupFound(r) \/ LookupMissing(r) \/ ServeLock(r)
                \/ Refuse(r) \/ ServeUnlock(r)
    BY <2>1, <2>2
       DEF LookupFound, LookupMissing, ServeLock, Refuse, ServeUnlock, Except
  <2>3. CASE Recheck(r)
    <3>1. /\ UNCHANGED <<meta, target, counted, exceptions>>
          /\ \A e \in Editors : pc'[e] = pc[e] /\ snap'[e] = snap[e]
      BY <2>1, <2>3 DEF Recheck
    <3> QED
      BY <3>1
  <2>4. CASE Count(r)
    <3>1. lock[Stripe[target[r]]] = r
      BY <2>4 DEF Count, MutexDiscipline, Critical
    <3>2. \A e \in Editors : pc[e] \in {"write", "chown"} => target[e] # target[r]
      BY <2>1, <3>1 DEF MutexDiscipline, Critical
    <3>3. \A e \in Editors : pc'[e] = pc[e] /\ snap'[e] = snap[e]
      BY <2>1, <2>4 DEF Count
    <3>4. /\ counted' = [counted EXCEPT ![target[r]] = @ + 1]
          /\ UNCHANGED <<target, exceptions>>
      BY <2>4 DEF Count
    <3>5. \A e \in Editors :
              pc'[e] \in {"write", "chown"} /\ "unguarded" \notin exceptions'[target'[e]]
                  => snap'[e].DownloadCount = counted'[target'[e]]
      BY <3>2, <3>3, <3>4
    <3>6. ASSUME NEW f \in Files, meta'[f] # NoRow, "unguarded" \notin exceptions'[f]
          PROVE  meta'[f].DownloadCount = counted'[f]
      <4>1. CASE f # target[r]
        BY <2>4, <3>4, <3>6, <4>1 DEF Count, IncreaseDownloadCount
      <4>2. CASE f = target[r]
        <5>1. meta[f] # NoRow
          BY <2>4, <3>6, <4>2 DEF Count, IncreaseDownloadCount
        <5>2. meta[f] \in Row
          BY <5>1
        <5>3. meta'[f].DownloadCount = meta[f].DownloadCount + 1
          BY <2>4, <4>2, <5>1, <5>2 DEF Count, IncreaseDownloadCount, Row
        <5> QED
          BY <3>4, <3>6, <4>2, <5>1, <5>3
      <4> QED
        BY <4>1, <4>2
    <3> QED
      BY <3>5, <3>6
  <2> QED
    BY <1>1, <2>2, <2>3, <2>4 DEF Request
<1>2. ASSUME NEW e \in Editors, Editor(e) PROVE CountInv'
  <2>1. CASE EditLock(e) \/ EditReject(e) \/ EditUnlock(e)
    BY <2>1 DEF EditLock, EditReject, EditUnlock
  <2>2. CASE EditRead(e) \/ OwnerRead(e)
    BY <2>2 DEF EditRead, OwnerRead, GetFile
  <2>3. CASE EditWrite(e)
    <3>1. PICK edit \in Edits : SaveMetaData(target[e], ApplyEdit(snap[e], edit))
      BY <2>3 DEF EditWrite
    <3>2. Goto(e, "write", "unlock") /\ UNCHANGED <<target, snap, counted>>
      BY <2>3 DEF EditWrite
    <3>3. \A f \in Files :
             "unguarded" \in exceptions[f] => "unguarded" \in exceptions'[f]
      BY <2>3 DEF EditWrite, Except
    <3>4. "unguarded" \notin exceptions'[target[e]] =>
             ApplyEdit(snap[e], edit).DownloadCount = counted[target[e]]
      BY <3>2, <3>3, EditedRow DEF SnapOK
    <3> QED
      BY <3>1, <3>2, <3>3, <3>4 DEF SaveMetaData
  <2>4. CASE OwnerWrite(e)
    BY <2>4 DEF OwnerWrite, SaveMetaData
  <2> QED
    BY <1>2, <2>1, <2>2, <2>3, <2>4 DEF Editor
<1>3. ASSUME NEW f \in Files, DeleteMetaData(f) PROVE CountInv'
  BY <1>3 DEF DeleteMetaData
<1>4. ASSUME NEW w \in Writers, Writer(w) PROVE CountInv'
  <2>1. \A e \in Editors : e # w
    OBVIOUS
  <2>2. CASE WriterRead(w) \/ WriterReject(w)
    BY <2>1, <2>2 DEF WriterRead, WriterReject
  <2>3. CASE WriterWrite(w)
    <3>1. /\ \A f \in Files \ {target[w]} : meta'[f] = meta[f]
          /\ \A e \in Editors : pc'[e] = pc[e]
          /\ UNCHANGED <<target, snap, counted>>
      BY <2>1, <2>3 DEF WriterWrite, SaveMetaData
    <3>2. \A f \in Files : "unguarded" \notin exceptions'[f] =>
             f # target[w] /\ "unguarded" \notin exceptions[f]
      BY <2>3 DEF WriterWrite, Except
    <3> QED
      BY <3>1, <3>2
  <2> QED
    BY <1>4, <2>2, <2>3 DEF Writer
<1>5. CASE Tick \/ UNCHANGED vars
  BY <1>5 DEF Tick, vars
<1> QED
  BY <1>1, <1>2, <1>3, <1>4, <1>5 DEF Next

(* While nobody saves its row without the mutex, the DownloadCount of a    *)
(* file is exact: ServeFile, apiEditFile and apiChangeFileOwner never undo *)
(* each other, and neither does a row that CleanUp or apiDeleteUser        *)
(* removes under them.                                                     *)
THEOREM CountNeverLost == Spec => []CountExact
<1>1. Init => CountInv
  BY RowsAssumption, ProcsAssumption DEF Init, CountInv, CountExact, Procs
<1>2. LockInv /\ CountInv /\ [Next]_vars => CountInv'
  BY CountInvNext
<1>3. CountInv => CountExact
  BY DEF CountInv
<1> QED
  BY <1>1, <1>2, <1>3, LockInvInit, LockInvNext, PTL DEF Spec

-----------------------------------------------------------------------------
(* A file is in the protocol while its row is written only under the mutex, *)
(* its counted downloads are checked again under it, and it has a limit.     *)
InProtocol(f) == exceptions[f] = {}

(* row says what is left of the allowance of f *)
Current(row, f) ==
    /\ ~row.UnlimitedDownloads
    /\ row.DownloadsRemaining = limit[f] - granted[f]
    /\ granted[f] # 0 => row.DownloadsRemaining >= 0

(* The table is current, so is the copy of an editor that will save it, and *)
(* a request that is about to count still has a download left.              *)
AllowanceInv ==
    /\ limit \in [Files -> AllowedLimits]
    /\ \A f \in Files : meta[f] # NoRow /\ InProtocol(f) => Current(meta[f], f)
    /\ \A e \in Editors :
           pc[e] \in {"write", "chown"} /\ InProtocol(target[e])
               => Current(snap[e], target[e])
    /\ \A r \in Requests :
           pc[r] \in {"lock", "recheck", "count"} /\ InProtocol(target[r])
               => ~snap[r].UnlimitedDownloads
    /\ \A r \in Requests :
           pc[r] = "count" /\ InProtocol(target[r])
               => granted[target[r]] < limit[target[r]]

LEMMA AllowanceInit == Init => AllowanceInv /\ Allowance!AllowanceInit
<1> SUFFICES ASSUME Init PROVE AllowanceInv /\ Allowance!AllowanceInit
  OBVIOUS
<1>1. meta \in [Files -> InitRows] /\ InitRows \subseteq Row
  BY RowsAssumption DEF Init
<1>2. limit \in [Files -> AllowedLimits]
  BY <1>1 DEF Init, AllowedLimits
<1>3. \A f \in Files : meta[f].DownloadsRemaining \in Int
  BY <1>1 DEF Row
<1>4. ASSUME NEW f \in Files, InProtocol(f) PROVE Current(meta[f], f)
  <2>1. ~meta[f].UnlimitedDownloads
    BY <1>4 DEF Init, InProtocol
  <2>2. limit[f] = meta[f].DownloadsRemaining /\ granted[f] = 0
    BY DEF Init
  <2> QED
    BY <1>3, <2>1, <2>2 DEF Current
<1> QED
  BY <1>2, <1>4 DEF Init, AllowanceInv, Allowance!AllowanceInit, Procs

(* What an editor does to the history of its file *)
Recorded(row, edit, f) ==
    /\ IF SetsLimit(edit)
         THEN /\ limit' = [limit EXCEPT ![f] = edit.AllowedDownloads]
              /\ granted' = [granted EXCEPT ![f] = 0]
         ELSE UNCHANGED <<limit, granted>>
    /\ Except(f, IF ApplyEdit(row, edit).UnlimitedDownloads
                   THEN {"unlimited"} ELSE {})

(* The edited row is current for the limit and the count it starts. *)
LEMMA EditedCurrent ==
    ASSUME NEW row \in Row, NEW edit \in Edits, NEW f \in Files,
           LockInv, InProtocol(f) => Current(row, f),
           Recorded(row, edit, f), InProtocol(f)'
    PROVE  InProtocol(f) /\ Current(ApplyEdit(row, edit), f)'
<1>1. ApplyEdit(row, edit).DownloadsRemaining =
        IF SetsLimit(edit) THEN edit.AllowedDownloads ELSE row.DownloadsRemaining
  BY DEF ApplyEdit, Row
<1>2. InProtocol(f) /\ ~ApplyEdit(row, edit).UnlimitedDownloads
  BY DEF Recorded, Except, InProtocol, LockInv, TypeOK
<1>3. edit.AllowedDownloads \in Int
  BY EditsAssumption DEF Edit
<1>4. CASE SetsLimit(edit)
  <2>1. limit'[f] = edit.AllowedDownloads /\ granted'[f] = 0
    BY <1>4 DEF LockInv, TypeOK, Recorded
  <2>2. ApplyEdit(row, edit).DownloadsRemaining = edit.AllowedDownloads
    BY <1>1, <1>4
  <2> QED
    BY <1>2, <1>3, <2>1, <2>2 DEF Current
<1>5. CASE ~SetsLimit(edit)
  BY <1>1, <1>2, <1>5 DEF Current, Recorded
<1> QED
  BY <1>4, <1>5

-----------------------------------------------------------------------------
(* How the abstract count follows the steps: it stays, it is set, it grows. *)
LEMMA AllowanceStays ==
    ASSUME UNCHANGED <<limit, granted, exceptions>>
    PROVE  UNCHANGED Allowance!aVars
BY DEF Allowance!aVars

LEMMA AllowanceIsSet ==
    ASSUME NEW f \in Files, NEW l \in AllowedLimits, TypeOK,
           limit \in [Files -> AllowedLimits],
           limit' = [limit EXCEPT ![f] = l],
           \A g \in Files \ {f} :
               granted'[g] = granted[g] /\ exceptions'[g] = exceptions[g],
           exceptions'[f] # {} \/ granted'[f] = 0
    PROVE  Allowance!SetLimit(f)
<1>1. limit' = [limit EXCEPT ![f] = limit'[f]] /\ limit'[f] \in AllowedLimits
  OBVIOUS
<1>2. ASSUME NEW g \in Files
      PROVE  (IF exceptions[g] = {} THEN granted[g] ELSE 0)' =
                 IF g = f THEN 0 ELSE IF exceptions[g] = {} THEN granted[g] ELSE 0
  OBVIOUS
<1> QED
  BY <1>1, <1>2 DEF Allowance!SetLimit

LEMMA AllowanceIsTaken ==
    ASSUME NEW f \in Files, TypeOK, InProtocol(f) => granted[f] < limit[f],
           granted' = [granted EXCEPT ![f] = @ + 1],
           UNCHANGED <<limit, exceptions>>
    PROVE  [Allowance!AllowanceNext]_Allowance!aVars
<1>1. CASE InProtocol(f)
  <2>1. ASSUME NEW g \in Files
        PROVE  (IF exceptions[g] = {} THEN granted[g] ELSE 0)' =
                   (IF exceptions[g] = {} THEN granted[g] ELSE 0)
                       + (IF g = f THEN 1 ELSE 0)
    BY <1>1 DEF TypeOK, InProtocol
  <2> QED
    BY <1>1, <2>1 DEF Allowance!AllowanceNext, Allowance!Grant, InProtocol, TypeOK
<1>2. CASE ~InProtocol(f)
  <2>1. ASSUME NEW g \in Files
        PROVE  (IF exceptions[g] = {} THEN granted[g] ELSE 0)' =
                   IF exceptions[g] = {} THEN granted[g] ELSE 0
    BY <1>2 DEF TypeOK, InProtocol
  <2> QED
    BY <2>1 DEF Allowance!aVars
<1> QED
  BY <1>1, <1>2

LEMMA AllowanceNext ==
    ASSUME LockInv, AllowanceInv, [Next]_vars
    PROVE  AllowanceInv' /\ [Allowance!AllowanceNext]_Allowance!aVars
<1> USE RowsAssumption, StripeAssumption, ProcsAssumption
<1> USE DEF LockInv, TypeOK, Procs, Goto, history, AllowanceInv, InProtocol
<1>1. ASSUME UNCHANGED <<limit, granted, exceptions>>
      PROVE  [Allowance!AllowanceNext]_Allowance!aVars
  BY <1>1, AllowanceStays
<1>2. ASSUME NEW f \in Files, NEW l \in AllowedLimits,
             limit' = [limit EXCEPT ![f] = l],
             \A g \in Files \ {f} :
                 granted'[g] = granted[g] /\ exceptions'[g] = exceptions[g],
             exceptions'[f] # {} \/ granted'[f] = 0
      PROVE  [Allowance!AllowanceNext]_Allowance!aVars
  BY <1>2, AllowanceIsSet DEF Allowance!AllowanceNext
<1>3. ASSUME NEW r \in Requests, Request(r)
      PROVE  AllowanceInv' /\ [Allowance!AllowanceNext]_Allowance!aVars
  <2>1. \A e \in Editors : e # r
    OBVIOUS
  <2>2. CASE LookupFound(r)
    <3>1. UNCHANGED <<limit, granted, exceptions>>
      BY <2>2 DEF LookupFound
    <3>2. AllowanceInv'
      BY <2>1, <2>2 DEF LookupFound, GetFile, Current
    <3> QED
      BY <1>1, <3>1, <3>2
  <2>3. CASE LookupMissing(r) \/ Refuse(r) \/ ServeUnlock(r)
    <3>1. UNCHANGED <<limit, granted, exceptions>>
      BY <2>3 DEF LookupMissing, Refuse, ServeUnlock
    <3>2. AllowanceInv'
      BY <2>1, <2>3 DEF LookupMissing, Refuse, ServeUnlock, Current
    <3> QED
      BY <1>1, <3>1, <3>2
  <2>4. CASE ServeLock(r)
    <3>1. /\ pc[r] = "lock" /\ \A p \in Procs \ {r} : pc'[p] = pc[p]
          /\ UNCHANGED <<meta, target, snap, limit, granted>>
      BY <2>4 DEF ServeLock
    <3>2. \/ pc'[r] \in {"recheck", "unlock"} /\ UNCHANGED exceptions
          \/ pc'[r] = "count" /\ Except(target[r], {"unchecked"})
      BY <2>4 DEF ServeLock
    <3>3. CASE UNCHANGED exceptions /\ pc'[r] \in {"recheck", "unlock"}
      BY <1>1, <2>1, <3>1, <3>3 DEF Current
    <3>4. CASE Except(target[r], {"unchecked"})
      <4>1. /\ exceptions'[target[r]] # {}
            /\ \A g \in Files \ {target[r]} : exceptions'[g] = exceptions[g]
        BY <3>4 DEF Except
      <4>2. AllowanceInv'
        BY <2>1, <3>1, <4>1 DEF Current
      <4>3. limit' = [limit EXCEPT ![target[r]] = limit[target[r]]]
        BY <3>1
      <4> QED
        BY <1>2, <3>1, <4>1, <4>2, <4>3
    <3> QED
      BY <3>2, <3>3, <3>4
  <2>5. CASE Recheck(r)
    <3> DEFINE left == GetDownloadsRemaining(target[r])
               file == IF snap[r].UnlimitedDownloads THEN snap[r]
                       ELSE [snap[r] EXCEPT !.DownloadsRemaining = left]
    <3>1. snap[r] \in Row /\ pc[r] = "recheck"
      BY <2>5 DEF Recheck, SnapOK
    <3>2. left \in Int
      BY DEF GetDownloadsRemaining, Row
    <3>3. InProtocol(target[r]) =>
             file.DownloadsRemaining = left /\ ~file.UnlimitedDownloads
      BY <3>1 DEF Row
    <3>4. /\ snap' = [snap EXCEPT ![r] = file]
          /\ pc' = [pc EXCEPT ![r] = IF IsExpiredFile(file) THEN "refuse" ELSE "count"]
          /\ UNCHANGED <<meta, target, limit, granted, exceptions>>
      BY <2>5 DEF Recheck
    <3>5. InProtocol(target[r]) /\ ~IsExpiredFile(file) => left >= 1
      BY <3>2, <3>3 DEF IsExpiredFile
    <3>6. InProtocol(target[r]) /\ left >= 1 => granted[target[r]] < limit[target[r]]
      BY DEF GetDownloadsRemaining, Current
    <3>7. pc'[r] = "count" /\ InProtocol(target[r])
             => granted[target[r]] < limit[target[r]]
      BY <3>4, <3>5, <3>6
    <3> HIDE DEF file
    <3>8. AllowanceInv'
      BY <2>1, <3>3, <3>4, <3>7 DEF Current
    <3> QED
      BY <1>1, <3>4, <3>8
  <2>6. CASE Count(r)
    <3>1. /\ lock[Stripe[target[r]]] = r
          /\ InProtocol(target[r]) => granted[target[r]] < limit[target[r]]
      BY <2>6 DEF Count, MutexDiscipline, Critical
    <3>2. \A p \in Procs \ {r} :
             pc[p] \in {"write", "chown", "count"} /\ p \notin Writers
                 => target[p] # target[r]
      BY <3>1 DEF MutexDiscipline, Critical
    <3>3. /\ pc[r] = "count" /\ pc' = [pc EXCEPT ![r] = "unlock"]
          /\ \A p \in Procs \ {r} : snap'[p] = snap[p]
          /\ granted' = [granted EXCEPT ![target[r]] = @ + 1]
          /\ UNCHANGED <<target, limit, exceptions>>
      BY <2>6 DEF Count
    <3>4. ASSUME NEW f \in Files, meta'[f] # NoRow, InProtocol(f)
          PROVE  Current(meta[f], f)'
      <4>1. CASE f # target[r]
        BY <2>6, <3>3, <3>4, <4>1 DEF Count, IncreaseDownloadCount, Current
      <4>2. CASE f = target[r]
        <5>1. meta[f] # NoRow
          BY <2>6, <3>4, <4>2 DEF Count, IncreaseDownloadCount
        <5>2. meta[f] \in Row /\ Current(meta[f], f)
          BY <3>4, <5>1
        <5>3. ~snap[r].UnlimitedDownloads
          BY <3>3, <3>4, <4>2
        <5>4. /\ meta'[f].DownloadsRemaining = meta[f].DownloadsRemaining - 1
              /\ meta'[f].UnlimitedDownloads = meta[f].UnlimitedDownloads
          BY <2>6, <4>2, <5>1, <5>2, <5>3 DEF Count, IncreaseDownloadCount, Row
        <5>5. granted'[f] = granted[f] + 1 /\ limit'[f] = limit[f]
          BY <3>3, <4>2
        <5> QED
          BY <3>1, <3>4, <4>2, <5>2, <5>4, <5>5 DEF Current
      <4> QED
        BY <4>1, <4>2
    <3>5. \A e \in Editors :
              pc'[e] \in {"write", "chown"} /\ InProtocol(target[e])'
                  => Current(snap[e], target[e])'
      BY <2>1, <3>2, <3>3 DEF Current
    <3>6. \A q \in Requests :
              /\ pc'[q] \in {"lock", "recheck", "count"} /\ InProtocol(target[q])'
                     => ~snap'[q].UnlimitedDownloads
              /\ pc'[q] = "count" /\ InProtocol(target[q])'
                     => granted'[target'[q]] < limit'[target'[q]]
      BY <3>2, <3>3
    <3>7. [Allowance!AllowanceNext]_Allowance!aVars
      BY ONLY TypeOK, <3>1, <3>3, <1>3, AllowanceIsTaken, target[r] \in Files
    <3>8. AllowanceInv'
      BY <3>3, <3>4, <3>5, <3>6
    <3> QED
      BY <3>7, <3>8
  <2> QED
    BY <1>3, <2>2, <2>3, <2>4, <2>5, <2>6 DEF Request
<1>4. ASSUME NEW e \in Editors, Editor(e)
      PROVE  AllowanceInv' /\ [Allowance!AllowanceNext]_Allowance!aVars
  <2>1. CASE EditLock(e) \/ EditReject(e) \/ EditUnlock(e)
    <3>1. UNCHANGED <<limit, granted, exceptions>>
      BY <2>1 DEF EditLock, EditReject, EditUnlock
    <3>2. AllowanceInv'
      BY <2>1 DEF EditLock, EditReject, EditUnlock, Current
    <3> QED
      BY <1>1, <3>1, <3>2
  <2>2. CASE EditRead(e) \/ OwnerRead(e)
    <3>1. UNCHANGED <<limit, granted, exceptions>>
      BY <2>2 DEF EditRead, OwnerRead
    <3>2. AllowanceInv'
      BY <2>2 DEF EditRead, OwnerRead, GetFile, Current
    <3> QED
      BY <1>1, <3>1, <3>2
  <2>3. CASE EditWrite(e)
    <3> DEFINE row(edit) == ApplyEdit(snap[e], edit)
    <3>1. PICK edit \in Edits :
             /\ SaveMetaData(target[e], row(edit))
             /\ Recorded(snap[e], edit, target[e])
      BY <2>3 DEF EditWrite, Recorded
    <3>2. /\ pc[e] = "write" /\ pc' = [pc EXCEPT ![e] = "unlock"]
          /\ UNCHANGED <<target, snap>>
      BY <2>3 DEF EditWrite
    <3>3. /\ snap[e] \in Row
          /\ InProtocol(target[e]) => Current(snap[e], target[e])
      BY <3>2 DEF SnapOK
    <3>4. InProtocol(target[e])' =>
             InProtocol(target[e]) /\ Current(row(edit), target[e])'
      BY <3>1, <3>2, <3>3, EditedCurrent
    <3>5. lock[Stripe[target[e]]] = e
      BY <3>2 DEF MutexDiscipline, Critical
    <3>6. \A p \in Procs \ {e} :
             pc[p] \in {"write", "chown", "count"} /\ p \notin Writers
                 => target[p] # target[e]
      BY <3>5 DEF MutexDiscipline, Critical
    <3>7. \A f \in Files \ {target[e]} :
             /\ meta'[f] = meta[f] /\ limit'[f] = limit[f]
             /\ granted'[f] = granted[f] /\ exceptions'[f] = exceptions[f]
      BY <3>1 DEF SaveMetaData, Recorded, Except
    <3>8. \A f \in Files : meta'[f] # NoRow /\ InProtocol(f)' => Current(meta[f], f)'
      <4>1. meta'[target[e]] = row(edit)
        BY <3>1 DEF SaveMetaData
      <4>2. row(edit)' = row(edit)
        BY <3>2 DEF ApplyEdit
      <4>3. ASSUME InProtocol(target[e])' PROVE Current(meta[target[e]], target[e])'
        BY <3>2, <3>4, <4>1, <4>2, <4>3
      <4>4. ASSUME NEW f \in Files \ {target[e]}, meta'[f] # NoRow, InProtocol(f)'
            PROVE  Current(meta[f], f)'
        BY <3>7, <4>4 DEF Current
      <4> QED
        BY <3>2, <4>3, <4>4
    <3>9. limit' \in [Files -> AllowedLimits]
      BY <3>1 DEF AllowedLimits, Recorded
    <3>10. \A d \in Editors :
              pc'[d] \in {"write", "chown"} /\ InProtocol(target[d])'
                  => Current(snap[d], target[d])'
      BY <3>2, <3>6, <3>7 DEF Current
    <3>11. \A f \in Files : InProtocol(f)' => InProtocol(f)
      BY <3>4, <3>2, <3>7
    <3>12. \A q \in Requests :
              /\ pc'[q] \in {"lock", "recheck", "count"} /\ InProtocol(target[q])'
                     => ~snap'[q].UnlimitedDownloads
              /\ pc'[q] = "count" /\ InProtocol(target[q])'
                     => granted'[target'[q]] < limit'[target'[q]]
      BY <3>2, <3>6, <3>7, <3>11
    <3>13. AllowanceInv'
      BY <3>8, <3>9, <3>10, <3>12
    <3>14. CASE SetsLimit(edit)
      <4>1. /\ limit' = [limit EXCEPT ![target[e]] = edit.AllowedDownloads]
            /\ granted'[target[e]] = 0 /\ edit.AllowedDownloads \in AllowedLimits
        BY <3>1, <3>14 DEF Recorded, AllowedLimits
      <4> QED
        BY <1>2, <3>7, <3>13, <4>1
    <3>15. CASE ~SetsLimit(edit) /\ row(edit).UnlimitedDownloads
      <4>1. UNCHANGED limit /\ exceptions'[target[e]] # {}
        BY <3>1, <3>15 DEF Recorded, Except
      <4>2. limit' = [limit EXCEPT ![target[e]] = limit[target[e]]]
        BY <4>1
      <4> QED
        BY <1>2, <3>7, <3>13, <4>1, <4>2
    <3>16. CASE ~SetsLimit(edit) /\ ~row(edit).UnlimitedDownloads
      <4>1. UNCHANGED <<limit, granted, exceptions>>
        BY <3>1, <3>16 DEF Recorded, Except
      <4> QED
        BY <1>1, <3>13, <4>1
    <3> QED
      BY <3>14, <3>15, <3>16
  <2>4. CASE OwnerWrite(e)
    <3>1. UNCHANGED <<limit, granted, exceptions>>
      BY <2>4 DEF OwnerWrite
    <3>2. AllowanceInv'
      BY <2>4 DEF OwnerWrite, SaveMetaData, Current
    <3> QED
      BY <1>1, <3>1, <3>2
  <2> QED
    BY <1>4, <2>1, <2>2, <2>3, <2>4 DEF Editor
<1>5. ASSUME NEW w \in Writers, Writer(w)
      PROVE  AllowanceInv' /\ [Allowance!AllowanceNext]_Allowance!aVars
  <2>1. \A p \in Editors \cup Requests : p # w
    OBVIOUS
  <2>2. CASE WriterRead(w) \/ WriterReject(w)
    <3>1. /\ UNCHANGED <<meta, target, limit, granted, exceptions>>
          /\ \A p \in Procs \ {w} : pc'[p] = pc[p] /\ snap'[p] = snap[p]
      BY <2>2 DEF WriterRead, WriterReject
    <3>2. AllowanceInv'
      BY <2>1, <3>1 DEF Current
    <3> QED
      BY <1>1, <3>1, <3>2
  <2>3. CASE WriterWrite(w)
    <3>1. /\ \A f \in Files \ {target[w]} : meta'[f] = meta[f]
          /\ \A p \in Procs \ {w} : pc'[p] = pc[p]
          /\ UNCHANGED <<target, snap, limit, granted>>
      BY <2>3 DEF WriterWrite, SaveMetaData
    <3>2. /\ exceptions'[target[w]] # {}
          /\ \A f \in Files \ {target[w]} : exceptions'[f] = exceptions[f]
      BY <2>3 DEF WriterWrite, Except
    <3>3. AllowanceInv'
      BY <2>1, <3>1, <3>2 DEF Current
    <3>4. limit' = [limit EXCEPT ![target[w]] = limit[target[w]]]
      BY <3>1
    <3> QED
      BY <1>2, <3>1, <3>2, <3>3, <3>4
  <2> QED
    BY <1>5, <2>2, <2>3 DEF Writer
<1>6. ASSUME NEW f \in Files, DeleteMetaData(f)
      PROVE  AllowanceInv' /\ [Allowance!AllowanceNext]_Allowance!aVars
  <2>1. AllowanceInv' /\ UNCHANGED <<limit, granted, exceptions>>
    BY <1>6 DEF DeleteMetaData, Current
  <2> QED
    BY <1>1, <2>1
<1>7. CASE Tick \/ UNCHANGED vars
  <2>1. AllowanceInv' /\ UNCHANGED <<limit, granted, exceptions>>
    BY <1>7 DEF Tick, vars, Current
  <2> QED
    BY <1>1, <2>1
<1> QED
  BY <1>3, <1>4, <1>5, <1>6, <1>7 DEF Next

(* While a file is in the protocol, the number of downloads left in the    *)
(* table is the limit minus the downloads granted since it was set, and is *)
(* never driven below zero.                                                *)
THEOREM AllowanceIsConserved == Spec => []AllowanceConserved
<1>1. Init => AllowanceInv
  BY AllowanceInit
<1>2. LockInv /\ AllowanceInv /\ [Next]_vars => AllowanceInv'
  BY AllowanceNext
<1>3. AllowanceInv => AllowanceConserved
  BY DEF AllowanceInv, AllowanceConserved, Current, InProtocol
<1> QED
  BY <1>1, <1>2, <1>3, LockInvInit, LockInvNext, PTL DEF Spec

(* ServeFile and apiEditFile implement the download allowance: each step of *)
(* theirs grants one download that the limit still allows, sets a new       *)
(* limit, takes the file out of the protocol, or is invisible.              *)
THEOREM AllowanceImplemented == Spec => AllowanceKept
<1>1. Init => AllowanceInv /\ Allowance!AllowanceInit
  BY AllowanceInit
<1>2. LockInv /\ AllowanceInv /\ [Next]_vars
        => AllowanceInv' /\ [Allowance!AllowanceNext]_Allowance!aVars
  BY AllowanceNext
<1> QED
  BY <1>1, <1>2, LockInvInit, LockInvNext, PTL
     DEF Spec, AllowanceKept, Allowance!AllowanceSpec

-----------------------------------------------------------------------------
(* A file whose row is written only under the mutex and whose downloads are *)
(* checked again under it, limited or unlimited                              *)
Rechecked(f) == exceptions[f] \subseteq {"unlimited"}

(* row has never been overdrawn since the limit of f was set *)
NotOverdrawn(row, f) ==
    row.DownloadsRemaining >= 0 \/ row.DownloadsRemaining = limit[f]

(* Neither the table nor the copy of an editor is overdrawn, and a request  *)
(* that is about to take a download finds one.                              *)
TableNotOverdrawn ==
    \A f \in Files : meta[f] # NoRow /\ Rechecked(f) => NotOverdrawn(meta[f], f)
CopiesNotOverdrawn ==
    \A e \in Editors :
        pc[e] \in {"write", "chown"} /\ Rechecked(target[e])
            => NotOverdrawn(snap[e], target[e])
(* Request r is about to take a download that may not be there. *)
Takes(r) ==
    /\ pc[r] = "count" /\ Rechecked(target[r])
    /\ ~snap[r].UnlimitedDownloads /\ meta[target[r]] # NoRow
TakesWhatIsLeft ==
    \A r \in Requests : Takes(r) => meta[target[r]].DownloadsRemaining >= 1

OverdrawInv == TableNotOverdrawn /\ CopiesNotOverdrawn /\ TakesWhatIsLeft

LEMMA OverdrawInvInit == Init => OverdrawInv
<1> SUFFICES ASSUME Init PROVE OverdrawInv
  OBVIOUS
<1>1. \A p \in Procs : pc[p] = "start"
  BY DEF Init
<1>2. \A f \in Files : limit[f] = meta[f].DownloadsRemaining
  BY DEF Init
<1> QED
  BY <1>1, <1>2 DEF OverdrawInv, TableNotOverdrawn, CopiesNotOverdrawn,
                    TakesWhatIsLeft, Takes, NotOverdrawn, Procs

LEMMA OverdrawInvNext == LockInv /\ OverdrawInv /\ [Next]_vars => OverdrawInv'
<1> SUFFICES ASSUME LockInv, OverdrawInv, [Next]_vars PROVE OverdrawInv'
  OBVIOUS
<1> USE RowsAssumption, StripeAssumption, ProcsAssumption
<1> USE DEF LockInv, TypeOK, Procs, Goto, history, OverdrawInv, Rechecked
<1> USE DEF TableNotOverdrawn, CopiesNotOverdrawn, TakesWhatIsLeft, Takes
<1>1. ASSUME NEW r \in Requests, Request(r) PROVE OverdrawInv'
  <2>1. \A e \in Editors : e # r
    OBVIOUS
  <2>2. CASE LookupFound(r) \/ LookupMissing(r) \/ Refuse(r) \/ ServeUnlock(r)
    BY <2>1, <2>2
       DEF LookupFound, LookupMissing, Refuse, ServeUnlock, NotOverdrawn
  <2>3. CASE ServeLock(r)
    <3>1. /\ \A p \in Procs \ {r} : pc'[p] = pc[p]
          /\ UNCHANGED <<meta, target, snap, limit>>
      BY <2>3 DEF ServeLock
    <3>2. /\ \A f \in Files : exceptions[f] \subseteq exceptions'[f]
          /\ pc'[r] = "count" => "unchecked" \in exceptions'[target[r]]
      BY <2>3 DEF ServeLock, Except
    <3>4. TableNotOverdrawn'
      BY <3>1, <3>2 DEF NotOverdrawn
    <3>5. CopiesNotOverdrawn'
      BY <2>1, <3>1, <3>2 DEF NotOverdrawn
    <3>6. ASSUME NEW q \in Requests, Takes(q)' PROVE q # r /\ Takes(q)
      BY <3>1, <3>2, <3>6
    <3>7. TakesWhatIsLeft'
      BY <3>1, <3>6
    <3> QED
      BY <3>4, <3>5, <3>7
  <2>4. CASE Recheck(r)
    <3> DEFINE left == GetDownloadsRemaining(target[r])
               file == IF snap[r].UnlimitedDownloads THEN snap[r]
                       ELSE [snap[r] EXCEPT !.DownloadsRemaining = left]
    <3>1. snap[r] \in Row
      BY <2>4 DEF Recheck, SnapOK
    <3>2. left \in Int
      BY DEF GetDownloadsRemaining, Row
    <3>3. ~file.UnlimitedDownloads => file.DownloadsRemaining = left
      BY <3>1 DEF Row
    <3>4. /\ snap' = [snap EXCEPT ![r] = file]
          /\ pc' = [pc EXCEPT ![r] = IF IsExpiredFile(file) THEN "refuse" ELSE "count"]
          /\ UNCHANGED <<meta, target, limit, exceptions>>
      BY <2>4 DEF Recheck
    <3>5. ~IsExpiredFile(file) /\ ~file.UnlimitedDownloads => left >= 1
      BY <3>2, <3>3 DEF IsExpiredFile
    <3>6. meta[target[r]] # NoRow => left = meta[target[r]].DownloadsRemaining
      BY DEF GetDownloadsRemaining
    <3> HIDE DEF file, left
    <3>7. TableNotOverdrawn' /\ CopiesNotOverdrawn'
      BY <2>1, <3>4 DEF NotOverdrawn
    <3>8. ASSUME NEW q \in Requests, Takes(q)'
          PROVE  meta'[target[q]].DownloadsRemaining >= 1
      <4>1. CASE q = r
        BY <3>4, <3>5, <3>6, <3>8, <4>1
      <4>2. CASE q # r
        <5>1. Takes(q)
          BY <3>4, <3>8, <4>2
        <5> QED
          BY <3>4, <5>1
      <4> QED
        BY <4>1, <4>2
    <3>9. TakesWhatIsLeft'
      BY <3>4, <3>8
    <3> QED
      BY <3>7, <3>9
  <2>5. CASE Count(r)
    <3>1. lock[Stripe[target[r]]] = r
      BY <2>5 DEF Count, MutexDiscipline, Critical
    <3>2. \A q \in Requests \ {r} : pc[q] = "count" => target[q] # target[r]
      BY <3>1 DEF MutexDiscipline, Critical
    <3>3. /\ pc' = [pc EXCEPT ![r] = "unlock"] /\ pc[r] = "count"
          /\ \A p \in Procs \ {r} : snap'[p] = snap[p]
          /\ UNCHANGED <<target, limit, exceptions>>
      BY <2>5 DEF Count
    <3>4. /\ \A f \in Files \ {target[r]} : meta'[f] = meta[f]
          /\ \A f \in Files : meta'[f] # NoRow => meta[f] # NoRow
      BY <2>5 DEF Count, IncreaseDownloadCount
    <3>5. ASSUME meta'[target[r]] # NoRow, Rechecked(target[r])
          PROVE  NotOverdrawn(meta[target[r]], target[r])'
      <4>1. meta[target[r]] \in Row
        BY <3>4, <3>5
      <4>2. meta'[target[r]].DownloadsRemaining =
               IF snap[r].UnlimitedDownloads THEN meta[target[r]].DownloadsRemaining
               ELSE meta[target[r]].DownloadsRemaining - 1
        BY <2>5, <3>4, <3>5, <4>1 DEF Count, IncreaseDownloadCount, Row
      <4>3. /\ meta[target[r]].DownloadsRemaining \in Int
            /\ NotOverdrawn(meta[target[r]], target[r])
        BY <3>4, <3>5, <4>1 DEF Row
      <4>4. CASE snap[r].UnlimitedDownloads
        BY <3>3, <4>2, <4>3, <4>4 DEF NotOverdrawn
      <4>5. CASE ~snap[r].UnlimitedDownloads
        <5>1. meta[target[r]].DownloadsRemaining >= 1
          BY <3>3, <3>4, <3>5, <4>5
        <5> QED
          BY <3>3, <4>2, <4>3, <4>5, <5>1 DEF NotOverdrawn
      <4> QED
        BY <4>4, <4>5
    <3>6. TableNotOverdrawn'
      BY <3>3, <3>4, <3>5 DEF NotOverdrawn
    <3>7. CopiesNotOverdrawn'
      BY <2>1, <3>3 DEF NotOverdrawn
    <3>8. ASSUME NEW q \in Requests, Takes(q)'
          PROVE  Takes(q) /\ target[q] # target[r]
      BY <3>2, <3>3, <3>4, <3>8
    <3>9. TakesWhatIsLeft'
      BY <3>3, <3>4, <3>8
    <3> QED
      BY <3>6, <3>7, <3>9
  <2> QED
    BY <1>1, <2>2, <2>3, <2>4, <2>5 DEF Request
<1>2. ASSUME NEW e \in Editors, Editor(e) PROVE OverdrawInv'
  <2>1. CASE EditLock(e) \/ EditReject(e) \/ EditUnlock(e)
    BY <2>1 DEF EditLock, EditReject, EditUnlock, NotOverdrawn
  <2>2. CASE EditRead(e) \/ OwnerRead(e)
    BY <2>2 DEF EditRead, OwnerRead, GetFile, NotOverdrawn
  <2>3. CASE EditWrite(e) \/ OwnerWrite(e)
    <3>1. /\ pc[e] \in {"write", "chown"} /\ pc' = [pc EXCEPT ![e] = "unlock"]
          /\ UNCHANGED <<target, snap>>
      BY <2>3 DEF EditWrite, OwnerWrite
    <3>2. PICK row \in {snap[e]} \cup {ApplyEdit(snap[e], edit) : edit \in Edits} :
             /\ SaveMetaData(target[e], row)
             /\ \A f \in Files \ {target[e]} :
                    limit'[f] = limit[f] /\ exceptions'[f] = exceptions[f]
             /\ exceptions[target[e]] \subseteq exceptions'[target[e]]
             /\ \/ row.DownloadsRemaining = limit'[target[e]]
                \/ /\ row.DownloadsRemaining = snap[e].DownloadsRemaining
                   /\ limit'[target[e]] = limit[target[e]]
      <4>1. CASE OwnerWrite(e)
        BY <4>1 DEF OwnerWrite, SaveMetaData
      <4>2. CASE EditWrite(e)
        <5>1. PICK edit \in Edits :
                 /\ SaveMetaData(target[e], ApplyEdit(snap[e], edit))
                 /\ Recorded(snap[e], edit, target[e])
          BY <4>2 DEF EditWrite, Recorded
        <5>2. snap[e] \in Row
          BY <3>1 DEF SnapOK
        <5>3. ApplyEdit(snap[e], edit).DownloadsRemaining =
                 IF SetsLimit(edit) THEN edit.AllowedDownloads
                 ELSE snap[e].DownloadsRemaining
          BY <5>2 DEF ApplyEdit, Row
        <5>4. /\ exceptions[target[e]] \subseteq exceptions'[target[e]]
              /\ \A f \in Files \ {target[e]} :
                     limit'[f] = limit[f] /\ exceptions'[f] = exceptions[f]
          BY <5>1 DEF Recorded, Except
        <5>5. limit'[target[e]] = IF SetsLimit(edit) THEN edit.AllowedDownloads
                                  ELSE limit[target[e]]
          BY <5>1 DEF Recorded
        <5>6. WITNESS ApplyEdit(snap[e], edit)
                  \in {snap[e]} \cup {ApplyEdit(snap[e], d) : d \in Edits}
        <5> HIDE DEF SaveMetaData
        <5> QED
          BY <5>1, <5>3, <5>4, <5>5
      <4> QED
        BY <2>3, <4>1, <4>2
    <3>3. lock[Stripe[target[e]]] = e
      BY <3>1 DEF MutexDiscipline, Critical
    <3>4. \A p \in (Requests \cup Editors) \ {e} :
             pc[p] \in {"write", "chown", "count"} => target[p] # target[e]
      BY <3>3 DEF MutexDiscipline, Critical
    <3>5. /\ meta'[target[e]] = row
          /\ \A f \in Files \ {target[e]} : meta'[f] = meta[f]
      BY <3>2 DEF SaveMetaData
    <3>6. Rechecked(target[e])' => NotOverdrawn(meta[target[e]], target[e])'
      BY <3>1, <3>2, <3>5 DEF NotOverdrawn
    <3>7. TableNotOverdrawn'
      BY <3>1, <3>2, <3>5, <3>6 DEF NotOverdrawn
    <3>8. CopiesNotOverdrawn'
      BY <3>1, <3>2, <3>4 DEF NotOverdrawn
    <3>9. ASSUME NEW q \in Requests, Takes(q)'
          PROVE  Takes(q) /\ target[q] # target[e]
      BY <3>1, <3>2, <3>4, <3>5, <3>9
    <3>10. TakesWhatIsLeft'
      BY <3>1, <3>5, <3>9
    <3> QED
      BY <3>7, <3>8, <3>10
  <2> QED
    BY <1>2, <2>1, <2>2, <2>3 DEF Editor
<1>3. ASSUME NEW w \in Writers, Writer(w) PROVE OverdrawInv'
  <2>1. \A p \in Editors \cup Requests : p # w
    OBVIOUS
  <2>2. CASE WriterRead(w) \/ WriterReject(w)
    BY <2>1, <2>2 DEF WriterRead, WriterReject, NotOverdrawn
  <2>3. CASE WriterWrite(w)
    <3>1. /\ \A f \in Files \ {target[w]} : meta'[f] = meta[f]
          /\ \A p \in Procs \ {w} : pc'[p] = pc[p]
          /\ UNCHANGED <<target, snap, limit>>
      BY <2>3 DEF WriterWrite, SaveMetaData
    <3>2. /\ "unguarded" \in exceptions'[target[w]]
          /\ \A f \in Files \ {target[w]} : exceptions'[f] = exceptions[f]
      BY <2>3 DEF WriterWrite, Except
    <3>3. TableNotOverdrawn' /\ CopiesNotOverdrawn'
      BY <2>1, <3>1, <3>2 DEF NotOverdrawn
    <3>4. ASSUME NEW q \in Requests, Takes(q)'
          PROVE  Takes(q) /\ target[q] # target[w]
      BY <2>1, <3>1, <3>2, <3>4
    <3>5. TakesWhatIsLeft'
      BY <3>1, <3>4
    <3> QED
      BY <3>3, <3>5
  <2> QED
    BY <1>3, <2>2, <2>3 DEF Writer
<1>4. ASSUME NEW f \in Files, DeleteMetaData(f) PROVE OverdrawInv'
  BY <1>4 DEF DeleteMetaData, NotOverdrawn
<1>5. CASE Tick \/ UNCHANGED vars
  BY <1>5 DEF Tick, vars, NotOverdrawn
<1> QED
  BY <1>1, <1>2, <1>3, <1>4, <1>5 DEF Next

(* ServeFile with recheckExpiry never takes a download that is not there,  *)
(* also while editors switch the file between limited and unlimited.       *)
THEOREM NeverOverdrawn == Spec => []NoOverdraw
<1>1. OverdrawInv => NoOverdraw
  BY DEF OverdrawInv, TableNotOverdrawn, NoOverdraw, NotOverdrawn, Rechecked
<1> QED
  BY <1>1, OverdrawInvInit, OverdrawInvNext, LockInvInit, LockInvNext, PTL DEF Spec
=============================================================================
