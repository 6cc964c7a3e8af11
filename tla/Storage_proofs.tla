--------------------------- MODULE Storage_proofs ---------------------------
(* What Storage.tla promises, for any number of files, requests and clean-   *)
(* ups: types, the source of a live file, the row of an available one, and   *)
(* no source without a row.                                                  *)
EXTENDS Storage, TLAPS

(* The constants of a scenario, which never changes *)
LEMMA ScenarioFacts ==
  ASSUME scenario \in DOMAIN Scenarios
  PROVE  /\ Kind \in [Procs -> Kinds] /\ Target \in [Procs -> Files]
         /\ Content \in Hashes /\ Replacement \in Files
         /\ Linkable \in SUBSET Procs /\ Owned \in SUBSET Files
         /\ Stored \in [Files -> Row \cup {None}] /\ Encrypted \in BOOLEAN
         /\ Slow \in SUBSET Procs /\ MaxTime \in Nat \ {0} /\ MaxCrashes \in Nat
         /\ SourceShared(Stored)
BY ScenariosAssumption
   DEF Scenario, Kind, Target, Content, Replacement, Linkable, Owned, Stored, Encrypted,
       Slow, MaxTime, MaxCrashes

LEMMA FixedKept ==
  ASSUME scenario' = scenario
  PROVE  /\ Kind' = Kind /\ Target' = Target /\ Content' = Content
         /\ Replacement' = Replacement /\ Linkable' = Linkable /\ Owned' = Owned
         /\ Stored' = Stored /\ Encrypted' = Encrypted /\ Slow' = Slow
         /\ MaxTime' = MaxTime /\ MaxCrashes' = MaxCrashes
BY DEF Kind, Target, Content, Replacement, Linkable, Owned, Stored, Encrypted,
       Slow, MaxTime, MaxCrashes

-----------------------------------------------------------------------------
(* Types: TypeOK with what a process holds where it uses it.                 *)
RowMaps == UNION {[S -> Row] : S \in SUBSET Ids}
Runs == [rows : RowMaps, element : Ids \cup {None}, wasItemDeleted : BOOLEAN,
         links : SUBSET Ids, calls : Nat]

Removing(p) ==
    pc[p] \in {"referenced", "remove"} \/ (pc[p] = "dropRow" /\ Kind[p] # "deleteUser")
HasRow(p) ==
    \/ pc[p] \in {"hashed", "copyInfo", "removeOld", "move", "save", "hotlink", "content",
                  "replace", "unreferenced", "dropSource", "deleteSave", "count", "open"}
    \/ Removing(p)
InCall(p) == pc[p] \in {"elements", "links", "dropLink"} \/ Removing(p)

Ready(p) ==
    /\ HasRow(p) => held[p] \in Row
    /\ Removing(p) => run[p].element \in Ids
    /\ pc[p] = "replace" => Replacement \in DOMAIN run[p].rows
    /\ InCall(p) => run[p].calls # 0

TypeInv ==
    /\ scenario \in DOMAIN Scenarios
    /\ files \in [Ids -> Row \cup {None}]
    /\ source \in [Hashes -> Ids \cup {None, Missing}]
    /\ hotlinks \in [Ids -> Ids \cup {None}]
    /\ revived \subseteq Ids
    /\ downloading \in SUBSET Procs
    /\ now \in 1 .. MaxTime
    /\ crashes \in 0 .. MaxCrashes
    /\ pc \in [Procs -> PCs]
    /\ held \in [Procs -> Row \cup {None}]
    /\ stamp \in [Procs -> Times]
    /\ run \in [Procs -> Runs]
    /\ \A p \in Procs : Ready(p)

LEMMA RowMapFacts ==
  ASSUME NEW rows \in RowMaps
  PROVE  /\ DOMAIN rows \subseteq Ids /\ \A f \in DOMAIN rows : rows[f] \in Row
         /\ \A f : Without(rows, f) \in RowMaps
<1>1. PICK S \in SUBSET Ids : rows \in [S -> Row]
  BY DEF RowMaps
<1>2. ASSUME NEW f PROVE Without(rows, f) \in RowMaps
  <2>1. Without(rows, f) \in [S \ {f} -> Row]
    BY <1>1 DEF Without
  <2>2. [S \ {f} -> Row] \in {[T -> Row] : T \in SUBSET Ids}
    OBVIOUS
  <2> QED BY <2>1, <2>2 DEF RowMaps
<1> QED BY <1>1, <1>2

LEMMA TableMaps ==
  ASSUME TypeInv
  PROVE  /\ GetAllMetadata \in RowMaps /\ NoRows \in RowMaps
         /\ \A f \in Ids : files[f] # None => [g \in {f} |-> files[g]] \in RowMaps
<1>1. GetAllMetadata \in [{g \in Ids : files[g] # None} -> Row]
  BY DEF TypeInv, GetAllMetadata
<1>2. NoRows \in [{} -> Row]
  BY DEF NoRows
<1>3. ASSUME NEW f \in Ids, files[f] # None
      PROVE  [g \in {f} |-> files[g]] \in [{f} -> Row] /\ {f} \in SUBSET Ids
  BY <1>3 DEF TypeInv
<1>4. \A S \in SUBSET Ids : [S -> Row] \subseteq RowMaps
  BY DEF RowMaps
<1>5. {g \in Ids : files[g] # None} \in SUBSET Ids /\ {} \in SUBSET Ids
  OBVIOUS
<1> QED BY <1>1, <1>2, <1>3, <1>4, <1>5

LEMMA TypeInvTypeOK == TypeInv => TypeOK
<1> SUFFICES ASSUME TypeInv PROVE TypeOK
  OBVIOUS
<1>1. ASSUME NEW p \in Procs
      PROVE  /\ DOMAIN run[p].rows \subseteq Ids
             /\ \A f \in DOMAIN run[p].rows : run[p].rows[f] \in Row
             /\ run[p].element \in Ids \cup {None} /\ run[p].wasItemDeleted \in BOOLEAN
             /\ run[p].links \subseteq Ids /\ run[p].calls \in Nat
  <2>1. run[p] \in Runs
    BY DEF TypeInv
  <2>2. run[p].rows \in RowMaps
    BY <2>1 DEF Runs
  <2> QED BY <2>1, <2>2, RowMapFacts DEF Runs
<1> QED BY <1>1 DEF TypeInv, TypeOK

LEMMA InitTypeInv == Init => TypeInv
<1> SUFFICES ASSUME Init PROVE TypeInv
  OBVIOUS
<1> USE ScenarioFacts DEF Init
<1>1. files \in [Ids -> Row \cup {None}]
  BY DEF Ids
<1>2. source \in [Hashes -> Ids \cup {None, Missing}]
  <2> DEFINE present == {files[f] : f \in {g \in Ids : files[g] # None}}
             keys(h) == {row.key : row \in {r \in present : r.SHA1 = h}}
  <2>1. \A h \in Hashes : keys(h) \subseteq Ids \cup {None}
    BY <1>1 DEF Row
  <2>2. source = [h \in Hashes |-> IF keys(h) = {} THEN Missing ELSE CHOOSE key \in keys(h) : TRUE]
    OBVIOUS
  <2> HIDE DEF keys
  <2> QED BY <2>1, <2>2
<1>3. hotlinks \in [Ids -> Ids \cup {None}]
  OBVIOUS
<1>4. run \in [Procs -> Runs]
  <2>1. NoRows \in [{} -> Row] /\ [{} -> Row] \in {[S -> Row] : S \in SUBSET Ids}
    BY DEF NoRows
  <2>2. NoRows \in RowMaps
    BY <2>1 DEF RowMaps
  <2> QED BY <2>2 DEF Idle, Runs
<1>5. pc \in [Procs -> PCs] /\ \A p \in Procs : pc[p] \in {"start", "done"}
  BY DEF PCs
<1>6. \A p \in Procs : Ready(p)
  BY <1>5 DEF Ready, HasRow, Removing, InCall
<1>7. /\ scenario \in DOMAIN Scenarios /\ revived \subseteq Ids /\ downloading \in SUBSET Procs
      /\ held \in [Procs -> Row \cup {None}] /\ stamp \in [Procs -> Times]
  BY DEF Times
<1>8. now \in 1 .. MaxTime /\ crashes \in 0 .. MaxCrashes
  OBVIOUS
<1> HIDE DEF Init
<1> QED BY <1>1, <1>2, <1>3, <1>4, <1>5, <1>6, <1>7, <1>8 DEF TypeInv
(* Rows and local variables of CleanUp after an assignment *)
LEMMA RowEdits ==
  ASSUME NEW row \in Row, NEW t \in Times, NEW l \in Ids \cup {None}, NEW h \in Hashes
  PROVE  /\ row.SHA1 \in Hashes /\ row.key \in Ids \cup {None} /\ row.HotlinkId \in Ids \cup {None}
         /\ row.ExpireAt \in Nat /\ row.DownloadsRemaining \in Nat /\ row.PendingDeletion \in Nat
         /\ [row EXCEPT !.key = l] \in Row
         /\ [row EXCEPT !.SHA1 = h, !.key = l] \in Row
         /\ [row EXCEPT !.ExpireAt = t] \in Row
         /\ [row EXCEPT !.ExpireAt = t, !.HotlinkId = l] \in Row
         /\ [row EXCEPT !.PendingDeletion = t] \in Row
         /\ row.DownloadsRemaining >= 1 => [row EXCEPT !.DownloadsRemaining = @ - 1] \in Row
<1>1. /\ row.SHA1 \in Hashes /\ row.key \in Ids \cup {None} /\ row.HotlinkId \in Ids \cup {None}
      /\ row.ExpireAt \in Nat /\ row.DownloadsRemaining \in Nat /\ row.PendingDeletion \in Nat
  BY DEF Row, Times
<1>2. /\ [row EXCEPT !.key = l] \in Row
      /\ [row EXCEPT !.SHA1 = h, !.key = l] \in Row
      /\ [row EXCEPT !.ExpireAt = t] \in Row
  BY DEF Row
<1>3. /\ [row EXCEPT !.ExpireAt = t, !.HotlinkId = l] \in Row
      /\ [row EXCEPT !.PendingDeletion = t] \in Row
  BY DEF Row
<1>4. ASSUME row.DownloadsRemaining >= 1
      PROVE  [row EXCEPT !.DownloadsRemaining = @ - 1] \in Row
  <2>1. row.DownloadsRemaining - 1 \in Nat
    BY <1>1, <1>4
  <2> QED BY <2>1 DEF Row
<1> QED BY <1>1, <1>2, <1>3, <1>4

LEMMA RunEdits ==
  ASSUME run \in [Procs -> Runs], NEW p \in Procs, NEW rows \in RowMaps, NEW l \in Ids \cup {None},
         NEW links \in SUBSET Ids, NEW b \in BOOLEAN, NEW n \in Nat
  PROVE  /\ [run EXCEPT ![p] = [run[p] EXCEPT !.rows = rows, !.calls = n, !.wasItemDeleted = b]] \in [Procs -> Runs]
         /\ [run[p] EXCEPT !.calls = n, !.links = links] \in Runs
<1>1. run[p] \in Runs
  OBVIOUS
<1>2. ASSUME NEW r \in Runs PROVE [run EXCEPT ![p] = r] \in [Procs -> Runs]
  OBVIOUS
<1>3. /\ [run[p] EXCEPT !.rows = rows, !.calls = n, !.wasItemDeleted = b] \in Runs
      /\ [run[p] EXCEPT !.calls = n, !.links = links] \in Runs
  BY <1>1 DEF Runs
<1> QED BY <1>2, <1>3

(* Two fields of the local variables of a process are assigned at once. *)
LEMMA RowsElement ==
  ASSUME run \in [Procs -> Runs], NEW p \in Procs, NEW rows \in RowMaps, NEW l \in Ids \cup {None}
  PROVE  [run EXCEPT ![p].rows = rows, ![p].element = l] \in [Procs -> Runs]
<1>1. [run[p] EXCEPT !.rows = rows, !.element = l] \in Runs
  BY DEF Runs
<1>2. [run EXCEPT ![p].rows = rows, ![p].element = l]
        = [run EXCEPT ![p] = [run[p] EXCEPT !.rows = rows, !.element = l]]
  OBVIOUS
<1> QED BY <1>1, <1>2

LEMMA LinksElement ==
  ASSUME run \in [Procs -> Runs], NEW p \in Procs, NEW links \in SUBSET Ids,
         NEW l \in Ids \cup {None}
  PROVE  [run EXCEPT ![p].links = links, ![p].element = l] \in [Procs -> Runs]
<1>1. [run[p] EXCEPT !.links = links, !.element = l] \in Runs
  BY DEF Runs
<1>2. [run EXCEPT ![p].links = links, ![p].element = l]
        = [run EXCEPT ![p] = [run[p] EXCEPT !.links = links, !.element = l]]
  OBVIOUS
<1> QED BY <1>1, <1>2

LEMMA ItemElement ==
  ASSUME run \in [Procs -> Runs], NEW p \in Procs
  PROVE  [run EXCEPT ![p].wasItemDeleted = TRUE, ![p].element = None] \in [Procs -> Runs]
<1>1. [run[p] EXCEPT !.wasItemDeleted = TRUE, !.element = None] \in Runs
  BY DEF Runs
<1>2. [run EXCEPT ![p].wasItemDeleted = TRUE, ![p].element = None]
        = [run EXCEPT ![p] = [run[p] EXCEPT !.wasItemDeleted = TRUE, !.element = None]]
  OBVIOUS
<1> QED BY <1>1, <1>2

LEMMA ReturnsRun ==
  ASSUME TypeInv, NEW p \in Procs, CleanUpReturns(p)
  PROVE  \E r \in Runs : /\ run' = [run EXCEPT ![p] = r]
                         /\ run[p].calls > 1 => r.calls # 0
<1>1. run[p] \in Runs /\ run[p].calls \in Nat \ {0} /\ run \in [Procs -> Runs]
  BY DEF TypeInv, Ready, InCall, CleanUpReturns, Goto, Runs
<1>2. Idle \in Runs
  BY TableMaps DEF Runs, Idle
<1>3. run' = [run EXCEPT ![p] = IF run[p].calls = 1 THEN Idle
                 ELSE [run[p] EXCEPT !.calls = run[p].calls - 1, !.links = GetAllHotlinks]]
  BY DEF CleanUpReturns
<1>4. CASE run[p].calls = 1
  <2>1. run' = [run EXCEPT ![p] = Idle] /\ ~(run[p].calls > 1)
    BY <1>3, <1>4
  <2> QED BY <1>2, <2>1
<1>5. CASE run[p].calls # 1
  <2> DEFINE s == [run[p] EXCEPT !.calls = run[p].calls - 1, !.links = GetAllHotlinks]
  <2>1. s \in Runs
    <3>1. run[p].calls - 1 \in Nat /\ GetAllHotlinks \in SUBSET Ids
      BY <1>1, <1>5 DEF GetAllHotlinks
    <3> QED BY <1>1, <3>1 DEF Runs
  <2>2. s.calls # 0
    BY <1>1, <1>5 DEF Runs
  <2>3. run' = [run EXCEPT ![p] = s]
    BY <1>3, <1>5
  <2> HIDE DEF s
  <2> QED BY <2>1, <2>2, <2>3
<1> QED BY <1>4, <1>5

(* Everything that the types of a step depend on *)
LEMMA StepTypes ==
  ASSUME TypeInv, scenario' = scenario, NEW p \in Procs,
         files' \in [Ids -> Row \cup {None}], source' \in [Hashes -> Ids \cup {None, Missing}],
         hotlinks' \in [Ids -> Ids \cup {None}], revived' \subseteq Ids,
         downloading' \in SUBSET Procs, now' = now, crashes' = crashes,
         pc' \in [Procs -> PCs], held' \in [Procs -> Row \cup {None}],
         stamp' \in [Procs -> Times], run' \in [Procs -> Runs],
         \A q \in Procs \ {p} : pc'[q] = pc[q] /\ held'[q] = held[q] /\ run'[q] = run[q],
         Ready(p)'
  PROVE  TypeInv'
<1>1. \A q \in Procs \ {p} : Ready(q)'
  BY FixedKept DEF TypeInv, Ready, HasRow, Removing, InCall
<1> QED BY <1>1, FixedKept DEF TypeInv

LEMMA SaveTypes ==
  ASSUME TypeInv, NEW f \in Ids, NEW row \in Row \cup {None}, SaveMetaData(f, row)
  PROVE  files' \in [Ids -> Row \cup {None}] /\ revived' \subseteq Ids
BY DEF SaveMetaData, TypeInv

LEMMA UploadTypes ==
  ASSUME TypeInv, scenario' = scenario, NEW p \in Procs, Upload(p)
  PROVE  TypeInv'
<1> USE ScenarioFacts, FixedKept, StepTypes DEF TypeInv, Ready, HasRow, Removing, InCall, PCs,
        Goto, Hold, Ids,
        stored, table, outside, local
<1>1. CASE createNewMetaData(p)
  BY <1>1, SaveTypes, RowMapFacts, TableMaps DEF createNewMetaData, Found, Runs, Row, Times, Idle,
      NewRow, deleteSource
<1>2. CASE CheckExists(p)
  BY <1>2, SaveTypes, RowMapFacts, TableMaps DEF CheckExists, Found, Runs, Row, Times, Idle,
      NewRow, deleteSource
<1>3. CASE CopyEncInfo(p)
  <2>9. held[p] \in Row
    BY <1>3 DEF CopyEncInfo
  <2>0. \A f \in Ids : files[f] # None => [held[p] EXCEPT !.key = files[f].key] \in Row
    <3>1. ASSUME NEW f \in Ids, files[f] # None PROVE files[f] \in Row
      BY <3>1
    <3>2. 0 \in Times
      BY DEF Times
    <3> QED BY <2>9, <3>1, <3>2, RowEdits
  <2>1. /\ files' \in [Ids -> Row \cup {None}] /\ revived' \subseteq Ids
        /\ source' \in [Hashes -> Ids \cup {None, Missing}] /\ hotlinks' \in [Ids -> Ids \cup {None}]
    BY <1>3 DEF CopyEncInfo, Found, deleteSource, GetAllMetadata
  <2>2. /\ downloading' \in SUBSET Procs /\ now' = now /\ crashes' = crashes
        /\ pc' \in [Procs -> PCs] /\ stamp' \in [Procs -> Times]
        /\ \A q \in Procs \ {p} : pc'[q] = pc[q] /\ held'[q] = held[q] /\ run'[q] = run[q]
    BY <1>3 DEF CopyEncInfo, Found, Times, GetAllMetadata
  <2>3. held' \in [Procs -> Row \cup {None}] /\ run' \in [Procs -> Runs]
    BY <1>3, <2>0 DEF CopyEncInfo, Found, Runs, GetAllMetadata
  <2>4. Ready(p)'
    BY <1>3, <2>3, <2>0 DEF CopyEncInfo, Found, Runs, Idle, GetAllMetadata
  <2> HIDE DEF TypeInv, Ready
  <2> QED BY <2>1, <2>2, <2>3, <2>4, StepTypes
<1>4. CASE RemoveOldSource(p)
  BY <1>4, SaveTypes, RowMapFacts, TableMaps DEF RemoveOldSource, Found, Runs, Row, Times, Idle,
      NewRow, deleteSource
<1>5. CASE MoveToFilesystem(p)
  BY <1>5, SaveTypes, RowMapFacts, TableMaps DEF MoveToFilesystem, Found, Runs, Row, Times, Idle,
      NewRow, deleteSource
<1>6. CASE SaveNewFile(p)
  BY <1>6, SaveTypes, RowMapFacts, TableMaps DEF SaveNewFile, Found, Runs, Row, Times, Idle,
      NewRow, deleteSource
<1> QED BY <1>1, <1>2, <1>3, <1>4, <1>5, <1>6 DEF Upload

LEMMA ModifyTypes ==
  ASSUME TypeInv, scenario' = scenario, NEW p \in Procs, Modify(p)
  PROVE  TypeInv'
<1> USE ScenarioFacts, FixedKept, StepTypes DEF TypeInv, Ready, HasRow, Removing, InCall, PCs,
        Goto, Hold, Ids,
        stored, table, outside, local
<1>1. CASE DuplicateRead(p)
  <2>1. /\ files' \in [Ids -> Row \cup {None}] /\ revived' \subseteq Ids
        /\ source' \in [Hashes -> Ids \cup {None, Missing}] /\ hotlinks' \in [Ids -> Ids \cup {None}]
    BY <1>1 DEF DuplicateRead, Found, deleteSource, GetFile
  <2>2. /\ downloading' \in SUBSET Procs /\ now' = now /\ crashes' = crashes
        /\ pc' \in [Procs -> PCs] /\ stamp' \in [Procs -> Times]
        /\ \A q \in Procs \ {p} : pc'[q] = pc[q] /\ held'[q] = held[q] /\ run'[q] = run[q]
    BY <1>1 DEF DuplicateRead, Found, Times, GetFile
  <2>3. held' \in [Procs -> Row \cup {None}] /\ run' \in [Procs -> Runs]
    BY <1>1 DEF DuplicateRead, Found, Runs, GetFile
  <2>4. Ready(p)'
    BY <1>1, <2>3 DEF DuplicateRead, Found, Runs, Idle, GetFile
  <2> HIDE DEF TypeInv, Ready
  <2> QED BY <2>1, <2>2, <2>3, <2>4, StepTypes
<1>2. CASE DuplicateHotlink(p)
  <2>9. held[p] \in Row
    BY <1>2 DEF DuplicateHotlink
  <2>5. held[p].HotlinkId \in Ids \cup {None} /\ held[p].ExpireAt \in Times /\ MaxTime \in Times
    BY <2>9, RowEdits DEF Row, Times
  <2>0. \A t \in {held[p].ExpireAt, MaxTime}, l \in Ids \cup {None} :
          [held[p] EXCEPT !.ExpireAt = t, !.HotlinkId = l] \in Row
    BY <2>5, <2>9 DEF Row
  <2>7. /\ held' \in [Procs -> Row \cup {None}]
        /\ held'[p] \in Row /\ pc'[p] = "save" /\ run' = run
        /\ \A q \in Procs \ {p} : pc'[q] = pc[q] /\ held'[q] = held[q]
    <3>1. PICK t \in {held[p].ExpireAt, MaxTime} :
            held' = [held EXCEPT ![p] = [held[p] EXCEPT !.ExpireAt = t,
                                  !.HotlinkId = IF p \in Linkable THEN p ELSE @]]
      BY <1>2 DEF DuplicateHotlink
    <3>2. (IF p \in Linkable THEN p ELSE held[p].HotlinkId) \in Ids \cup {None}
      BY <2>5
    <3>3. held'[p] \in Row
      <4>1. [held[p] EXCEPT !.ExpireAt = t, !.HotlinkId = IF p \in Linkable THEN p ELSE @] \in Row
        BY <3>2, <2>0
      <4> QED BY <3>1, <4>1
    <3> QED BY <1>2, <3>1, <3>3 DEF DuplicateHotlink
  <2>1. /\ files' \in [Ids -> Row \cup {None}] /\ revived' \subseteq Ids
        /\ source' \in [Hashes -> Ids \cup {None, Missing}] /\ hotlinks' \in [Ids -> Ids \cup {None}]
    BY <1>2 DEF DuplicateHotlink, Found, deleteSource
  <2>2. /\ downloading' \in SUBSET Procs /\ now' = now /\ crashes' = crashes
        /\ pc' \in [Procs -> PCs] /\ stamp' \in [Procs -> Times]
        /\ \A q \in Procs \ {p} : pc'[q] = pc[q] /\ held'[q] = held[q] /\ run'[q] = run[q]
    BY <1>2 DEF DuplicateHotlink, Found, Times
  <2>3. held' \in [Procs -> Row \cup {None}] /\ run' \in [Procs -> Runs]
    BY <1>2, <2>7 DEF DuplicateHotlink, Found, Runs
  <2>4. Ready(p)'
    BY <1>2, <2>3, <2>7 DEF DuplicateHotlink, Found, Runs, Idle
  <2> HIDE DEF TypeInv, Ready
  <2> QED BY <2>1, <2>2, <2>3, <2>4, StepTypes
<1>3. CASE EditRead(p)
  BY <1>3, SaveTypes, RowMapFacts, TableMaps DEF EditRead, Found, Runs, Row, Times, Idle, NewRow,
      deleteSource
<1>4. CASE EditHotlink(p)
  <2>9. held[p] \in Row
    BY <1>4 DEF EditHotlink
  <2>5. held[p].HotlinkId \in Ids \cup {None} /\ MaxTime \in Times
    BY <2>9, RowEdits DEF Row, Times
  <2>0. \A l \in Ids \cup {None} : [held[p] EXCEPT !.ExpireAt = MaxTime, !.HotlinkId = l] \in Row
    BY <2>5, <2>9 DEF Row
  <2>1. /\ files' \in [Ids -> Row \cup {None}] /\ revived' \subseteq Ids
        /\ source' \in [Hashes -> Ids \cup {None, Missing}] /\ hotlinks' \in [Ids -> Ids \cup {None}]
    BY <1>4, <2>5 DEF EditHotlink, Found, deleteSource
  <2>2. /\ downloading' \in SUBSET Procs /\ now' = now /\ crashes' = crashes
        /\ pc' \in [Procs -> PCs] /\ stamp' \in [Procs -> Times]
        /\ \A q \in Procs \ {p} : pc'[q] = pc[q] /\ held'[q] = held[q] /\ run'[q] = run[q]
    BY <1>4 DEF EditHotlink, Found, Times
  <2>3. held' \in [Procs -> Row \cup {None}] /\ run' \in [Procs -> Runs]
    BY <1>4, <2>0, <2>5 DEF EditHotlink, Found, Runs
  <2>4. Ready(p)'
    BY <1>4, <2>3, <2>0, <2>5 DEF EditHotlink, Found, Runs, Idle
  <2> HIDE DEF TypeInv, Ready
  <2> QED BY <2>1, <2>2, <2>3, <2>4, StepTypes
<1>5. CASE EditSave(p)
  BY <1>5, SaveTypes, RowMapFacts, TableMaps DEF EditSave, Found, Runs, Row, Times, Idle, NewRow,
      deleteSource
<1>6. CASE ReplaceRead(p)
  <2>1. /\ files' \in [Ids -> Row \cup {None}] /\ revived' \subseteq Ids
        /\ source' \in [Hashes -> Ids \cup {None, Missing}] /\ hotlinks' \in [Ids -> Ids \cup {None}]
    BY <1>6 DEF ReplaceRead, Found, deleteSource, GetFile
  <2>2. /\ downloading' \in SUBSET Procs /\ now' = now /\ crashes' = crashes
        /\ pc' \in [Procs -> PCs] /\ stamp' \in [Procs -> Times]
        /\ \A q \in Procs \ {p} : pc'[q] = pc[q] /\ held'[q] = held[q] /\ run'[q] = run[q]
    BY <1>6 DEF ReplaceRead, Found, Times, GetFile
  <2>3. held' \in [Procs -> Row \cup {None}] /\ run' \in [Procs -> Runs]
    BY <1>6 DEF ReplaceRead, Found, Runs, GetFile
  <2>4. Ready(p)'
    BY <1>6, <2>3 DEF ReplaceRead, Found, Runs, Idle, GetFile
  <2> HIDE DEF TypeInv, Ready
  <2> QED BY <2>1, <2>2, <2>3, <2>4, StepTypes
<1>7. CASE ReplaceContent(p)
  <2>0. [f \in {Replacement} |-> files[f]] \in RowMaps
    BY <1>7, TableMaps DEF ReplaceContent, GetFile
  <2>1. /\ files' \in [Ids -> Row \cup {None}] /\ revived' \subseteq Ids
        /\ source' \in [Hashes -> Ids \cup {None, Missing}] /\ hotlinks' \in [Ids -> Ids \cup {None}]
    BY <1>7 DEF ReplaceContent, Found, deleteSource
  <2>2. /\ downloading' \in SUBSET Procs /\ now' = now /\ crashes' = crashes
        /\ pc' \in [Procs -> PCs] /\ stamp' \in [Procs -> Times]
        /\ \A q \in Procs \ {p} : pc'[q] = pc[q] /\ held'[q] = held[q] /\ run'[q] = run[q]
    BY <1>7 DEF ReplaceContent, Found, Times
  <2>3. held' \in [Procs -> Row \cup {None}] /\ run' \in [Procs -> Runs]
    <3>1. [run[p] EXCEPT !.rows = [f \in {Replacement} |-> files[f]]] \in Runs
      BY <2>0 DEF Runs
    <3>2. run' = [run EXCEPT ![p] = [run[p] EXCEPT !.rows = [f \in {Replacement} |-> files[f]]]]
      BY <1>7 DEF ReplaceContent
    <3>3. run' \in [Procs -> Runs]
      BY <3>1, <3>2
    <3> QED BY <1>7, <2>0, <3>3 DEF ReplaceContent, Found, Runs
  <2>4. Ready(p)'
    BY <1>7, <2>3 DEF ReplaceContent, Found, Runs, Idle
  <2> HIDE DEF TypeInv, Ready
  <2> QED BY <2>1, <2>2, <2>3, <2>4, StepTypes
<1>8. CASE ReplaceFails(p)
  BY <1>8, SaveTypes, RowMapFacts, TableMaps DEF ReplaceFails, Found, Runs, Row, Times, Idle,
      NewRow, deleteSource
<1>9. CASE ReplaceSave(p)
  <2>9. held[p] \in Row
    BY <1>9 DEF ReplaceSave
  <2>0. run[p].rows[Replacement] \in Row
    <3>1. Replacement \in DOMAIN run[p].rows /\ run[p].rows \in RowMaps
      BY <1>9 DEF ReplaceSave, Runs
    <3> QED BY <3>1, RowMapFacts
  <2>5. [held[p] EXCEPT !.SHA1 = run[p].rows[Replacement].SHA1, !.key = run[p].rows[Replacement].key] \in Row
    BY <2>9, <2>0 DEF Row
  <2>1. /\ files' \in [Ids -> Row \cup {None}] /\ revived' \subseteq Ids
        /\ source' \in [Hashes -> Ids \cup {None, Missing}] /\ hotlinks' \in [Ids -> Ids \cup {None}]
    BY <1>9, <2>5, SaveTypes DEF ReplaceSave, Found, deleteSource
  <2>2. /\ downloading' \in SUBSET Procs /\ now' = now /\ crashes' = crashes
        /\ pc' \in [Procs -> PCs] /\ stamp' \in [Procs -> Times]
        /\ \A q \in Procs \ {p} : pc'[q] = pc[q] /\ held'[q] = held[q] /\ run'[q] = run[q]
    BY <1>9 DEF ReplaceSave, Found, Times
  <2>3. held' \in [Procs -> Row \cup {None}] /\ run' \in [Procs -> Runs]
    <3>1. [run[p] EXCEPT !.rows = NoRows] \in Runs
      BY TableMaps DEF Runs
    <3>2. run' = [run EXCEPT ![p] = [run[p] EXCEPT !.rows = NoRows]]
      BY <1>9 DEF ReplaceSave
    <3>3. run' \in [Procs -> Runs]
      BY <3>1, <3>2
    <3> QED BY <1>9, TableMaps, <3>3 DEF ReplaceSave, Found, Runs
  <2>4. Ready(p)'
    BY <1>9, <2>3 DEF ReplaceSave, Found, Runs, Idle
  <2> HIDE DEF TypeInv, Ready
  <2> QED BY <2>1, <2>2, <2>3, <2>4, StepTypes
<1>10. CASE StillReferenced(p)
  <2>1. /\ files' \in [Ids -> Row \cup {None}] /\ revived' \subseteq Ids
        /\ source' \in [Hashes -> Ids \cup {None, Missing}] /\ hotlinks' \in [Ids -> Ids \cup {None}]
    BY <1>10 DEF StillReferenced, Found, deleteSource, AfterReplace
  <2>2. /\ downloading' \in SUBSET Procs /\ now' = now /\ crashes' = crashes
        /\ pc' \in [Procs -> PCs] /\ stamp' \in [Procs -> Times]
        /\ \A q \in Procs \ {p} : pc'[q] = pc[q] /\ held'[q] = held[q] /\ run'[q] = run[q]
    BY <1>10 DEF StillReferenced, Found, Times, AfterReplace
  <2>3. held' \in [Procs -> Row \cup {None}] /\ run' \in [Procs -> Runs]
    BY <1>10 DEF StillReferenced, Found, Runs, AfterReplace
  <2>4. Ready(p)'
    BY <1>10, <2>3 DEF StillReferenced, Found, Runs, Idle, AfterReplace
  <2> HIDE DEF TypeInv, Ready
  <2> QED BY <2>1, <2>2, <2>3, <2>4, StepTypes
<1>11. CASE DropReplacedSource(p)
  <2>1. /\ files' \in [Ids -> Row \cup {None}] /\ revived' \subseteq Ids
        /\ source' \in [Hashes -> Ids \cup {None, Missing}] /\ hotlinks' \in [Ids -> Ids \cup {None}]
    BY <1>11 DEF DropReplacedSource, Found, deleteSource, AfterReplace, Row
  <2>2. /\ downloading' \in SUBSET Procs /\ now' = now /\ crashes' = crashes
        /\ pc' \in [Procs -> PCs] /\ stamp' \in [Procs -> Times]
        /\ \A q \in Procs \ {p} : pc'[q] = pc[q] /\ held'[q] = held[q] /\ run'[q] = run[q]
    BY <1>11 DEF DropReplacedSource, Found, Times, AfterReplace, Row
  <2>3. held' \in [Procs -> Row \cup {None}] /\ run' \in [Procs -> Runs]
    BY <1>11 DEF DropReplacedSource, Found, Runs, AfterReplace, Row
  <2>4. Ready(p)'
    BY <1>11, <2>3 DEF DropReplacedSource, Found, Runs, Idle, AfterReplace, Row
  <2> HIDE DEF TypeInv, Ready
  <2> QED BY <2>1, <2>2, <2>3, <2>4, StepTypes
<1> QED BY <1>1, <1>2, <1>3, <1>4, <1>5, <1>6, <1>7, <1>8, <1>9, <1>10, <1>11 DEF Modify

LEMMA DeleteTypes ==
  ASSUME TypeInv, scenario' = scenario, NEW p \in Procs, Delete(p)
  PROVE  TypeInv'
<1> USE ScenarioFacts, FixedKept, StepTypes DEF TypeInv, Ready, HasRow, Removing, InCall, PCs,
        Goto, Hold, Ids,
        stored, table, outside, local
<1>1. CASE DeleteRequest(p)
  BY <1>1, SaveTypes, RowMapFacts, TableMaps DEF DeleteRequest, Found, Runs, Row, Times, Idle,
      NewRow, deleteSource
<1>2. CASE DeleteRead(p)
  <2>1. /\ files' \in [Ids -> Row \cup {None}] /\ revived' \subseteq Ids
        /\ source' \in [Hashes -> Ids \cup {None, Missing}] /\ hotlinks' \in [Ids -> Ids \cup {None}]
    BY <1>2 DEF DeleteRead, Found, deleteSource, Deleted
  <2>2. /\ downloading' \in SUBSET Procs /\ now' = now /\ crashes' = crashes
        /\ pc' \in [Procs -> PCs] /\ stamp' \in [Procs -> Times]
        /\ \A q \in Procs \ {p} : pc'[q] = pc[q] /\ held'[q] = held[q] /\ run'[q] = run[q]
    BY <1>2 DEF DeleteRead, Found, Times, Deleted
  <2>3. held' \in [Procs -> Row \cup {None}] /\ run' \in [Procs -> Runs]
    BY <1>2 DEF DeleteRead, Found, Runs, Deleted
  <2>4. Ready(p)'
    BY <1>2, <2>3 DEF DeleteRead, Found, Runs, Idle, Deleted
  <2> HIDE DEF TypeInv, Ready
  <2> QED BY <2>1, <2>2, <2>3, <2>4, StepTypes
<1>3. CASE DeleteSave(p)
  <2>0. [held[p] EXCEPT !.ExpireAt = 0] \in Row /\ Deleted(p) \in Ids
    BY <1>3 DEF DeleteSave, Row, Times, Deleted
  <2>1. /\ files' \in [Ids -> Row \cup {None}] /\ revived' \subseteq Ids
        /\ source' \in [Hashes -> Ids \cup {None, Missing}] /\ hotlinks' \in [Ids -> Ids \cup {None}]
    BY <1>3, <2>0, SaveTypes DEF DeleteSave, Found, deleteSource
  <2>2. /\ downloading' \in SUBSET Procs /\ now' = now /\ crashes' = crashes
        /\ pc' \in [Procs -> PCs] /\ stamp' \in [Procs -> Times]
        /\ \A q \in Procs \ {p} : pc'[q] = pc[q] /\ held'[q] = held[q] /\ run'[q] = run[q]
    BY <1>3 DEF DeleteSave, Found, Times
  <2>3. held' \in [Procs -> Row \cup {None}] /\ run' \in [Procs -> Runs]
    BY <1>3 DEF DeleteSave, Found, Runs
  <2>4. Ready(p)'
    BY <1>3, <2>3 DEF DeleteSave, Found, Runs, Idle
  <2> HIDE DEF TypeInv, Ready
  <2> QED BY <2>1, <2>2, <2>3, <2>4, StepTypes
<1>4. CASE SetAllComplete(p)
  BY <1>4, SaveTypes, RowMapFacts, TableMaps DEF SetAllComplete, Found, Runs, Row, Times, Idle,
      NewRow, deleteSource
<1>5. CASE ScheduleRead(p)
  BY <1>5, SaveTypes, RowMapFacts, TableMaps DEF ScheduleRead, Found, Runs, Row, Times, Idle,
      NewRow, deleteSource
<1>6. CASE ScheduleSave(p)
  <2>9. held[p] \in Row
    BY <1>6 DEF ScheduleSave
  <2>0. now + Delay \in Nat
    BY ScenariosAssumption
  <2>5. [held[p] EXCEPT !.PendingDeletion = now + Delay] \in Row
    BY <2>9, <2>0 DEF Row, Times
  <2>1. /\ files' \in [Ids -> Row \cup {None}] /\ revived' \subseteq Ids
        /\ source' \in [Hashes -> Ids \cup {None, Missing}] /\ hotlinks' \in [Ids -> Ids \cup {None}]
    BY <1>6, <2>5, SaveTypes DEF ScheduleSave, Found, deleteSource
  <2>2. /\ downloading' \in SUBSET Procs /\ now' = now /\ crashes' = crashes
        /\ pc' \in [Procs -> PCs] /\ stamp' \in [Procs -> Times]
        /\ \A q \in Procs \ {p} : pc'[q] = pc[q] /\ held'[q] = held[q] /\ run'[q] = run[q]
    BY <1>6, <2>0 DEF ScheduleSave, Found, Times
  <2>3. held' \in [Procs -> Row \cup {None}] /\ run' \in [Procs -> Runs]
    BY <1>6 DEF ScheduleSave, Found, Runs
  <2>4. Ready(p)'
    BY <1>6, <2>3 DEF ScheduleSave, Found, Runs, Idle
  <2> HIDE DEF TypeInv, Ready
  <2> QED BY <2>1, <2>2, <2>3, <2>4, StepTypes
<1>7. CASE ScheduleWakes(p)
  BY <1>7, SaveTypes, RowMapFacts, TableMaps DEF ScheduleWakes, Found, Runs, Row, Times, Idle,
      NewRow, deleteSource
<1>8. CASE RestoreRead(p)
  BY <1>8, SaveTypes, RowMapFacts, TableMaps DEF RestoreRead, Found, Runs, Row, Times, Idle,
      NewRow, deleteSource
<1>9. CASE RestoreSave(p)
  <2>0. [held[p] EXCEPT !.PendingDeletion = 0] \in Row
    BY <1>9, SMTT(30) DEF RestoreSave, Row, Times
  <2>1. /\ files' \in [Ids -> Row \cup {None}] /\ revived' \subseteq Ids
        /\ source' \in [Hashes -> Ids \cup {None, Missing}] /\ hotlinks' \in [Ids -> Ids \cup {None}]
    BY <1>9, <2>0, SaveTypes DEF RestoreSave, Found, deleteSource
  <2>2. /\ downloading' \in SUBSET Procs /\ now' = now /\ crashes' = crashes
        /\ pc' \in [Procs -> PCs] /\ stamp' \in [Procs -> Times]
        /\ \A q \in Procs \ {p} : pc'[q] = pc[q] /\ held'[q] = held[q] /\ run'[q] = run[q]
    BY <1>9 DEF RestoreSave, Found, Times
  <2>3. held' \in [Procs -> Row \cup {None}] /\ run' \in [Procs -> Runs]
    BY <1>9 DEF RestoreSave, Found, Runs
  <2>4. Ready(p)'
    BY <1>9, <2>3 DEF RestoreSave, Found, Runs, Idle
  <2> HIDE DEF TypeInv, Ready
  <2> QED BY <2>1, <2>2, <2>3, <2>4, StepTypes
<1>10. CASE DeleteUserRead(p)
  <2>0. PICK links \in SUBSET Ids : run' = [run EXCEPT ![p].links = links]
    BY <1>10 DEF DeleteUserRead
  <2>1. /\ files' \in [Ids -> Row \cup {None}] /\ revived' \subseteq Ids
        /\ source' \in [Hashes -> Ids \cup {None, Missing}] /\ hotlinks' \in [Ids -> Ids \cup {None}]
    BY <1>10 DEF DeleteUserRead, Found, deleteSource
  <2>2. /\ downloading' \in SUBSET Procs /\ now' = now /\ crashes' = crashes
        /\ pc' \in [Procs -> PCs] /\ stamp' \in [Procs -> Times]
        /\ \A q \in Procs \ {p} : pc'[q] = pc[q] /\ held'[q] = held[q] /\ run'[q] = run[q]
    BY <1>10 DEF DeleteUserRead, Found, Times
  <2>3. held' \in [Procs -> Row \cup {None}] /\ run' \in [Procs -> Runs]
    <3>1. [run[p] EXCEPT !.links = links] \in Runs
      BY <2>0 DEF Runs
    <3>2. run' = [run EXCEPT ![p] = [run[p] EXCEPT !.links = links]]
      BY <1>10, <2>0 DEF DeleteUserRead
    <3>3. run' \in [Procs -> Runs]
      BY <3>1, <3>2
    <3> QED BY <1>10, <3>3 DEF DeleteUserRead, Found, Runs
  <2>4. Ready(p)'
    BY <1>10, <2>3 DEF DeleteUserRead, Found, Runs, Idle
  <2> HIDE DEF TypeInv, Ready
  <2> QED BY <2>1, <2>2, <2>3, <2>4, StepTypes
<1>11. CASE DeleteUserRow(p)
  <2>0. run[p].links \in SUBSET Ids
    BY DEF Runs
  <2>5. PICK f \in run[p].links : /\ SaveMetaData(f, None)
                                   /\ run' = [run EXCEPT ![p].links = @ \ {f}]
    BY <1>11 DEF DeleteUserRow
  <2>1. /\ files' \in [Ids -> Row \cup {None}] /\ revived' \subseteq Ids
        /\ source' \in [Hashes -> Ids \cup {None, Missing}] /\ hotlinks' \in [Ids -> Ids \cup {None}]
    BY <1>11, <2>0, <2>5, SaveTypes DEF DeleteUserRow, Found, deleteSource
  <2>2. /\ downloading' \in SUBSET Procs /\ now' = now /\ crashes' = crashes
        /\ pc' \in [Procs -> PCs] /\ stamp' \in [Procs -> Times]
        /\ \A q \in Procs \ {p} : pc'[q] = pc[q] /\ held'[q] = held[q] /\ run'[q] = run[q]
    BY <1>11 DEF DeleteUserRow, Found, Times
  <2>3. held' \in [Procs -> Row \cup {None}] /\ run' \in [Procs -> Runs]
    <3>1. [run[p] EXCEPT !.links = @ \ {f}] \in Runs
      BY <2>0 DEF Runs
    <3>2. run' = [run EXCEPT ![p] = [run[p] EXCEPT !.links = @ \ {f}]]
      BY <1>11, <2>5 DEF DeleteUserRow
    <3>3. run' \in [Procs -> Runs]
      BY <3>1, <3>2
    <3> QED BY <1>11, <3>3 DEF DeleteUserRow, Found, Runs
  <2>4. Ready(p)'
    BY <1>11, <2>3 DEF DeleteUserRow, Found, Runs, Idle
  <2> HIDE DEF TypeInv, Ready
  <2> QED BY <2>1, <2>2, <2>3, <2>4, StepTypes
<1>12. CASE DeleteUserEnds(p)
  BY <1>12, SaveTypes, RowMapFacts, TableMaps DEF DeleteUserEnds, Found, Runs, Row, Times, Idle,
      NewRow, deleteSource
<1> QED BY <1>1, <1>2, <1>3, <1>4, <1>5, <1>6, <1>7, <1>8, <1>9, <1>10, <1>11, <1>12 DEF Delete

LEMMA DownloadTypes ==
  ASSUME TypeInv, scenario' = scenario, NEW p \in Procs, Download(p)
  PROVE  TypeInv'
<1> USE ScenarioFacts, FixedKept, StepTypes DEF TypeInv, Ready, HasRow, Removing, InCall, PCs,
        Goto, Hold, Ids,
        stored, table, outside, local
<1>1. CASE DownloadRead(p)
  <2>1. /\ files' \in [Ids -> Row \cup {None}] /\ revived' \subseteq Ids
        /\ source' \in [Hashes -> Ids \cup {None, Missing}] /\ hotlinks' \in [Ids -> Ids \cup {None}]
    BY <1>1 DEF DownloadRead, Found, deleteSource, GetFile
  <2>2. /\ downloading' \in SUBSET Procs /\ now' = now /\ crashes' = crashes
        /\ pc' \in [Procs -> PCs] /\ stamp' \in [Procs -> Times]
        /\ \A q \in Procs \ {p} : pc'[q] = pc[q] /\ held'[q] = held[q] /\ run'[q] = run[q]
    BY <1>1 DEF DownloadRead, Found, Times, GetFile
  <2>3. held' \in [Procs -> Row \cup {None}] /\ run' \in [Procs -> Runs]
    BY <1>1 DEF DownloadRead, Found, Runs, GetFile
  <2>4. Ready(p)'
    BY <1>1, <2>3 DEF DownloadRead, Found, Runs, Idle, GetFile
  <2> HIDE DEF TypeInv, Ready
  <2> QED BY <2>1, <2>2, <2>3, <2>4, StepTypes
<1>2. CASE DownloadCount(p)
  <2>0. files[Target[p]] # None /\ files[Target[p]].DownloadsRemaining >= 1 =>
          [files[Target[p]] EXCEPT !.DownloadsRemaining = @ - 1] \in Row
    BY DEF Row
  <2>5. ASSUME ~IsExpiredFile([held[p] EXCEPT !.DownloadsRemaining =
                     IF files[Target[p]] = None THEN 0 ELSE files[Target[p]].DownloadsRemaining], now)
        PROVE  files[Target[p]] # None /\ files[Target[p]].DownloadsRemaining >= 1
    BY <1>2, <2>5 DEF DownloadCount, Row, IsExpiredFile
  <2>1. /\ files' \in [Ids -> Row \cup {None}] /\ revived' \subseteq Ids
        /\ source' \in [Hashes -> Ids \cup {None, Missing}] /\ hotlinks' \in [Ids -> Ids \cup {None}]
    BY <1>2, <2>0, <2>5, SaveTypes DEF DownloadCount, Found, deleteSource
  <2>2. /\ downloading' \in SUBSET Procs /\ now' = now /\ crashes' = crashes
        /\ pc' \in [Procs -> PCs] /\ stamp' \in [Procs -> Times]
        /\ \A q \in Procs \ {p} : pc'[q] = pc[q] /\ held'[q] = held[q] /\ run'[q] = run[q]
    BY <1>2 DEF DownloadCount, Found, Times
  <2>3. held' \in [Procs -> Row \cup {None}] /\ run' \in [Procs -> Runs]
    BY <1>2 DEF DownloadCount, Found, Runs
  <2>4. Ready(p)'
    BY <1>2, <2>3 DEF DownloadCount, Found, Runs, Idle
  <2> HIDE DEF TypeInv, Ready
  <2> QED BY <2>1, <2>2, <2>3, <2>4, StepTypes
<1>3. CASE OpenSource(p)
  BY <1>3, SaveTypes, RowMapFacts, TableMaps DEF OpenSource, Found, Runs, Row, Times, Idle,
      NewRow, deleteSource
<1>4. CASE SetDownload(p)
  BY <1>4, SaveTypes, RowMapFacts, TableMaps DEF SetDownload, Found, Runs, Row, Times, Idle,
      NewRow, deleteSource
<1>5. CASE SetComplete(p)
  BY <1>5, SaveTypes, RowMapFacts, TableMaps DEF SetComplete, Found, Runs, Row, Times, Idle,
      NewRow, deleteSource
<1> QED BY <1>1, <1>2, <1>3, <1>4, <1>5 DEF Download

LEMMA CleaningTypes ==
  ASSUME TypeInv, scenario' = scenario, NEW p \in Procs, Cleaning(p)
  PROVE  TypeInv'
<1> USE ScenarioFacts, FixedKept, StepTypes DEF TypeInv, Ready, HasRow, Removing, InCall, PCs,
        Goto, Hold, Ids,
        stored, table, outside, local
<1>1. CASE CleanUpBegins(p)
  BY <1>1, SaveTypes, RowMapFacts, TableMaps DEF CleanUpBegins, Found, Runs, Row, Times, Idle,
      NewRow, deleteSource
<1>2. CASE CleanUp(p)
  <2>1. GetAllMetadata \in RowMaps /\ run[p].calls + 1 \in Nat /\ FALSE \in BOOLEAN
    BY TableMaps DEF Runs
  <2>2. run' = [run EXCEPT ![p] = [run[p] EXCEPT !.rows = GetAllMetadata, !.calls = run[p].calls + 1,
                                                 !.wasItemDeleted = FALSE]]
    BY <1>2 DEF CleanUp
  <2>3. run' \in [Procs -> Runs]
    <3> DEFINE n == run[p].calls + 1
               b == FALSE
               m == GetAllMetadata
    <3>1. m \in RowMaps /\ n \in Nat /\ b \in BOOLEAN
      BY <2>1
    <3>2. run' = [run EXCEPT ![p] = [run[p] EXCEPT !.rows = m, !.calls = n, !.wasItemDeleted = b]]
      BY <2>2
    <3> HIDE DEF n, b, m
    <3> QED BY <3>1, <3>2, RunEdits
  <2>4. run'[p].calls = run[p].calls + 1
    BY <2>2 DEF Runs
  <2>5. /\ \A q \in Procs \ {p} : run'[q] = run[q]
    BY <2>2
  <2>6. /\ files' \in [Ids -> Row \cup {None}] /\ revived' \subseteq Ids
        /\ source' \in [Hashes -> Ids \cup {None, Missing}] /\ hotlinks' \in [Ids -> Ids \cup {None}]
    BY <1>2 DEF CleanUp
  <2>7. /\ downloading' \in SUBSET Procs /\ now' = now /\ crashes' = crashes
        /\ pc' \in [Procs -> PCs] /\ stamp' \in [Procs -> Times]
        /\ \A q \in Procs \ {p} : pc'[q] = pc[q] /\ held'[q] = held[q]
    BY <1>2 DEF CleanUp, Times
  <2>8. held' \in [Procs -> Row \cup {None}]
    BY <1>2 DEF CleanUp
  <2>9. Ready(p)'
    BY <1>2, <2>3, <2>4 DEF CleanUp, Runs, Idle
  <2> HIDE DEF TypeInv, Ready
  <2> QED BY <2>3, <2>5, <2>6, <2>7, <2>8, <2>9, StepTypes
<1>3. CASE SkipElement(p)
  <2>0. run[p].rows \in RowMaps /\ \A f : Without(run[p].rows, f) \in RowMaps
    BY RowMapFacts DEF Runs
  <2>5. PICK f \in DOMAIN run[p].rows : run' = [run EXCEPT ![p].rows = Without(@, f)]
    BY <1>3 DEF SkipElement
  <2>1. /\ files' \in [Ids -> Row \cup {None}] /\ revived' \subseteq Ids
        /\ source' \in [Hashes -> Ids \cup {None, Missing}] /\ hotlinks' \in [Ids -> Ids \cup {None}]
    BY <1>3 DEF SkipElement, Found, deleteSource
  <2>2. /\ downloading' \in SUBSET Procs /\ now' = now /\ crashes' = crashes
        /\ pc' \in [Procs -> PCs] /\ stamp' \in [Procs -> Times]
        /\ \A q \in Procs \ {p} : pc'[q] = pc[q] /\ held'[q] = held[q] /\ run'[q] = run[q]
    BY <1>3 DEF SkipElement, Found, Times
  <2>3. held' \in [Procs -> Row \cup {None}] /\ run' \in [Procs -> Runs]
    <3>1. [run[p] EXCEPT !.rows = Without(@, f)] \in Runs
      BY <2>0 DEF Runs
    <3>2. run' = [run EXCEPT ![p] = [run[p] EXCEPT !.rows = Without(@, f)]]
      BY <1>3, <2>5 DEF SkipElement
    <3>3. run' \in [Procs -> Runs]
      BY <3>1, <3>2
    <3> QED BY <1>3, <2>0, <3>3 DEF SkipElement, Found, Runs
  <2>4. Ready(p)'
    BY <1>3, <2>3 DEF SkipElement, Found, Runs, Idle
  <2> HIDE DEF TypeInv, Ready
  <2> QED BY <2>1, <2>2, <2>3, <2>4, StepTypes
<1>4. CASE CheckElement(p)
  <2>0. run[p].rows \in RowMaps
    BY DEF Runs
  <2>5. PICK f \in DOMAIN run[p].rows :
          /\ held' = [held EXCEPT ![p] = run[p].rows[f]]
          /\ run' = [run EXCEPT ![p].rows = Without(@, f), ![p].element = f]
    BY <1>4 DEF CheckElement
  <2>6. f \in Ids /\ run[p].rows[f] \in Row /\ Without(run[p].rows, f) \in RowMaps
    BY <2>0, <2>5, RowMapFacts
  <2>7. run' \in [Procs -> Runs]
    BY <2>5, <2>6, RowsElement
  <2>1. /\ files' \in [Ids -> Row \cup {None}] /\ revived' \subseteq Ids
        /\ source' \in [Hashes -> Ids \cup {None, Missing}] /\ hotlinks' \in [Ids -> Ids \cup {None}]
    BY <1>4 DEF CheckElement, Found, deleteSource
  <2>2. /\ downloading' \in SUBSET Procs /\ now' = now /\ crashes' = crashes
        /\ pc' \in [Procs -> PCs] /\ stamp' \in [Procs -> Times]
        /\ \A q \in Procs \ {p} : pc'[q] = pc[q] /\ held'[q] = held[q] /\ run'[q] = run[q]
    BY <1>4 DEF CheckElement, Found, Times
  <2>3. held' \in [Procs -> Row \cup {None}] /\ run' \in [Procs -> Runs]
    BY <1>4, <2>5, <2>6, <2>7 DEF CheckElement, Found, Runs
  <2>4. Ready(p)'
    BY <1>4, <2>3, <2>5, <2>6, SMTT(30) DEF CheckElement, Found, Runs, Idle
  <2> HIDE DEF TypeInv, Ready
  <2> QED BY <2>1, <2>2, <2>3, <2>4, StepTypes
<1>5. CASE CheckReferenced(p)
  BY <1>5, SaveTypes, RowMapFacts, TableMaps DEF CheckReferenced, Found, Runs, Row, Times, Idle,
      NewRow, deleteSource
<1>6. CASE RemoveSource(p)
  BY <1>6, SaveTypes, RowMapFacts, TableMaps DEF RemoveSource, Found, Runs, Row, Times, Idle,
      NewRow, deleteSource
<1>7. CASE RemoveRow(p)
  <2>0. run[p].element \in Ids
    BY <1>7 DEF RemoveRow
  <2>1. /\ files' \in [Ids -> Row \cup {None}] /\ revived' \subseteq Ids
        /\ source' \in [Hashes -> Ids \cup {None, Missing}] /\ hotlinks' \in [Ids -> Ids \cup {None}]
    BY <1>7, <2>0, SaveTypes DEF RemoveRow, Found, deleteSource
  <2>2. /\ downloading' \in SUBSET Procs /\ now' = now /\ crashes' = crashes
        /\ pc' \in [Procs -> PCs] /\ stamp' \in [Procs -> Times]
        /\ \A q \in Procs \ {p} : pc'[q] = pc[q] /\ held'[q] = held[q] /\ run'[q] = run[q]
    BY <1>7 DEF RemoveRow, Found, Times
  <2>3. held' \in [Procs -> Row \cup {None}] /\ run' \in [Procs -> Runs]
    BY <1>7, <2>0, ItemElement DEF RemoveRow, Found, Runs
  <2>4. Ready(p)'
    BY <1>7, <2>3 DEF RemoveRow, Found, Runs, Idle
  <2> HIDE DEF TypeInv, Ready
  <2> QED BY <2>1, <2>2, <2>3, <2>4, StepTypes
<1>8. CASE LoopEnds(p)
  <2>0. PICK links \in SUBSET Ids : run' = [run EXCEPT ![p].links = links]
    BY <1>8 DEF LoopEnds, GetAllHotlinks
  <2>1. /\ files' \in [Ids -> Row \cup {None}] /\ revived' \subseteq Ids
        /\ source' \in [Hashes -> Ids \cup {None, Missing}] /\ hotlinks' \in [Ids -> Ids \cup {None}]
    BY <1>8 DEF LoopEnds, Found, deleteSource
  <2>2. /\ downloading' \in SUBSET Procs /\ now' = now /\ crashes' = crashes
        /\ pc' \in [Procs -> PCs] /\ stamp' \in [Procs -> Times]
        /\ \A q \in Procs \ {p} : pc'[q] = pc[q] /\ held'[q] = held[q] /\ run'[q] = run[q]
    BY <1>8 DEF LoopEnds, Found, Times
  <2>3. held' \in [Procs -> Row \cup {None}] /\ run' \in [Procs -> Runs]
    <3>1. [run[p] EXCEPT !.links = links] \in Runs
      BY <2>0 DEF Runs
    <3>2. run' = [run EXCEPT ![p] = [run[p] EXCEPT !.links = links]]
      BY <1>8, <2>0 DEF LoopEnds
    <3>3. run' \in [Procs -> Runs]
      BY <3>1, <3>2
    <3> QED BY <1>8, <3>3 DEF LoopEnds, Found, Runs
  <2>4. Ready(p)'
    BY <1>8, <2>3 DEF LoopEnds, Found, Runs, Idle
  <2> HIDE DEF TypeInv, Ready
  <2> QED BY <2>1, <2>2, <2>3, <2>4, StepTypes
<1>9. CASE CheckHotlink(p)
  <2>0. PICK l \in run[p].links, e \in run[p].links \cup {None} :
          run' = [run EXCEPT ![p].links = @ \ {l}, ![p].element = e]
    BY <1>9 DEF CheckHotlink
  <2>5. run[p].links \ {l} \in SUBSET Ids /\ e \in Ids \cup {None}
    BY <2>0 DEF Runs
  <2>6. run' \in [Procs -> Runs]
    BY <2>0, <2>5, LinksElement
  <2>1. /\ files' \in [Ids -> Row \cup {None}] /\ revived' \subseteq Ids
        /\ source' \in [Hashes -> Ids \cup {None, Missing}] /\ hotlinks' \in [Ids -> Ids \cup {None}]
    BY <1>9 DEF CheckHotlink, Found, deleteSource
  <2>2. /\ downloading' \in SUBSET Procs /\ now' = now /\ crashes' = crashes
        /\ pc' \in [Procs -> PCs] /\ stamp' \in [Procs -> Times]
        /\ \A q \in Procs \ {p} : pc'[q] = pc[q] /\ held'[q] = held[q] /\ run'[q] = run[q]
    BY <1>9 DEF CheckHotlink, Found, Times
  <2>3. held' \in [Procs -> Row \cup {None}] /\ run' \in [Procs -> Runs]
    BY <1>9, <2>6 DEF CheckHotlink, Found, Runs
  <2>4. Ready(p)'
    BY <1>9, <2>3 DEF CheckHotlink, Found, Runs, Idle
  <2> HIDE DEF TypeInv, Ready
  <2> QED BY <2>1, <2>2, <2>3, <2>4, StepTypes
<1>10. CASE DeleteHotlink(p)
  <2>1. /\ files' \in [Ids -> Row \cup {None}] /\ revived' \subseteq Ids
        /\ source' \in [Hashes -> Ids \cup {None, Missing}] /\ hotlinks' \in [Ids -> Ids \cup {None}]
    BY <1>10 DEF DeleteHotlink, Found, deleteSource
  <2>2. /\ downloading' \in SUBSET Procs /\ now' = now /\ crashes' = crashes
        /\ pc' \in [Procs -> PCs] /\ stamp' \in [Procs -> Times]
        /\ \A q \in Procs \ {p} : pc'[q] = pc[q] /\ held'[q] = held[q] /\ run'[q] = run[q]
    BY <1>10 DEF DeleteHotlink, Found, Times
  <2>3. held' \in [Procs -> Row \cup {None}] /\ run' \in [Procs -> Runs]
    <3>1. [run[p] EXCEPT !.element = None] \in Runs
      BY TableMaps DEF Runs
    <3>2. run' = [run EXCEPT ![p] = [run[p] EXCEPT !.element = None]]
      BY <1>10 DEF DeleteHotlink
    <3>3. run' \in [Procs -> Runs]
      BY <3>1, <3>2
    <3> QED BY <1>10, <3>3 DEF DeleteHotlink, Found, Runs
  <2>4. Ready(p)'
    BY <1>10, <2>3 DEF DeleteHotlink, Found, Runs, Idle
  <2> HIDE DEF TypeInv, Ready
  <2> QED BY <2>1, <2>2, <2>3, <2>4, StepTypes
<1>11. CASE CleanUpReturns(p)
  <2>6. PICK r \in Runs : /\ run' = [run EXCEPT ![p] = r]
                          /\ run[p].calls > 1 => r.calls # 0
    BY <1>11, ReturnsRun
  <2>7. run'[p].calls = r.calls /\ (pc'[p] = "links" => run[p].calls > 1)
    BY <2>6, <1>11 DEF CleanUpReturns
  <2>1. /\ files' \in [Ids -> Row \cup {None}] /\ revived' \subseteq Ids
        /\ source' \in [Hashes -> Ids \cup {None, Missing}] /\ hotlinks' \in [Ids -> Ids \cup {None}]
    BY <1>11 DEF CleanUpReturns, Found, deleteSource
  <2>2. /\ downloading' \in SUBSET Procs /\ now' = now /\ crashes' = crashes
        /\ pc' \in [Procs -> PCs] /\ stamp' \in [Procs -> Times]
        /\ \A q \in Procs \ {p} : pc'[q] = pc[q] /\ held'[q] = held[q] /\ run'[q] = run[q]
    BY <1>11 DEF CleanUpReturns, Found, Times
  <2>3. held' \in [Procs -> Row \cup {None}] /\ run' \in [Procs -> Runs]
    BY <1>11, <2>6 DEF CleanUpReturns, Found, Runs
  <2>4. Ready(p)'
    BY <1>11, <2>3, <2>6, <2>7 DEF CleanUpReturns, Found, Runs, Idle
  <2> HIDE DEF TypeInv, Ready
  <2> QED BY <2>1, <2>2, <2>3, <2>4, StepTypes
<1> QED BY <1>1, <1>2, <1>3, <1>4, <1>5, <1>6, <1>7, <1>8, <1>9, <1>10, <1>11 DEF Cleaning

LEMMA OtherTypes ==
  ASSUME TypeInv, scenario' = scenario, NEW p \in Procs, NotFound(p) \/ StatusExpires(p)
  PROVE  TypeInv'
<1>1. /\ UNCHANGED <<stored, now, crashes, local>> /\ downloading' \in SUBSET Procs
      /\ pc' \in [Procs -> PCs] /\ \A q \in Procs : pc'[q] = pc[q] \/ pc'[q] = "failed"
  BY DEF NotFound, StatusExpires, Goto, TypeInv, PCs, outside
<1>2. \A q \in Procs : Ready(q)'
  BY <1>1, FixedKept DEF TypeInv, Ready, HasRow, Removing, InCall, local, stored
<1> QED BY <1>1, <1>2, FixedKept DEF TypeInv, stored, table, local

LEMMA TickTypes ==
  ASSUME TypeInv, scenario' = scenario, Tick
  PROVE  TypeInv'
<1>1. now' \in 1 .. MaxTime /\ UNCHANGED <<stored, downloading, crashes, pc, local>>
  BY ScenarioFacts DEF Tick, TypeInv
<1>2. \A q \in Procs : Ready(q)'
  BY <1>1, FixedKept DEF TypeInv, Ready, HasRow, Removing, InCall, local, stored
<1> QED BY <1>1, <1>2, FixedKept DEF TypeInv, stored, table, local

LEMMA CrashTypes ==
  ASSUME TypeInv, scenario' = scenario, Crash
  PROVE  TypeInv'
<1>1. crashes' \in 0 .. MaxCrashes /\ downloading' = {} /\ UNCHANGED <<stored, now>>
  BY ScenarioFacts DEF Crash, TypeInv
<1>2. /\ pc' \in [Procs -> PCs] /\ \A q \in Procs : pc'[q] \in {"start", "done"}
      /\ held' \in [Procs -> Row \cup {None}] /\ stamp' \in [Procs -> Times]
  BY DEF Crash, PCs, Times
<1>3. run' \in [Procs -> Runs]
  <2>1. Idle \in Runs
    BY TableMaps DEF Runs, Idle
  <2> QED BY <2>1 DEF Crash
<1>4. \A q \in Procs : Ready(q)'
  BY <1>2 DEF Ready, HasRow, Removing, InCall
<1> QED BY <1>1, <1>2, <1>3, <1>4, FixedKept DEF TypeInv, stored, table

LEMMA StutterTypes ==
  ASSUME TypeInv, UNCHANGED vars
  PROVE  TypeInv'
<1>1. scenario' = scenario
  BY DEF vars
<1>2. \A q \in Procs : Ready(q)'
  BY <1>1, FixedKept DEF TypeInv, Ready, HasRow, Removing, InCall, vars, local
<1> QED BY <1>1, <1>2, FixedKept DEF TypeInv, vars, stored, table, outside, local

LEMMA NextTypes == TypeInv /\ [Next]_vars => TypeInv'
<1> SUFFICES ASSUME TypeInv, [Next]_vars PROVE TypeInv'
  OBVIOUS
<1>1. CASE UNCHANGED vars
  BY <1>1, StutterTypes
<1>2. CASE Next
  <2>1. scenario' = scenario
    BY <1>2 DEF Next
  <2>2. ASSUME NEW p \in Procs, Step(p) PROVE TypeInv'
    BY <2>1, <2>2, UploadTypes, ModifyTypes, DeleteTypes, DownloadTypes, CleaningTypes, OtherTypes
       DEF Step
  <2> QED BY <1>2, <2>1, <2>2, TickTypes, CrashTypes DEF Next
<1> QED BY <1>1, <1>2

(* Whatever the requests, the clean-ups and the crashes do, every row, every *)
(* key and every local variable of the code stays of its type.               *)
THEOREM StorageTypes == Spec => []TypeOK
<1>1. Init => TypeInv
  BY InitTypeInv
<1>2. TypeInv /\ [Next]_vars => TypeInv'
  BY NextTypes
<1>3. TypeInv => TypeOK
  BY TypeInvTypeOK
<1> QED BY <1>1, <1>2, <1>3, PTL DEF Spec

LEMMA SpecTypeInv == Spec => []TypeInv
BY InitTypeInv, NextTypes, PTL DEF Spec

-----------------------------------------------------------------------------
(* The steps of a process change its own program counter and variables, and  *)
(* its program counter stays in the part of the code that its kind runs.     *)
Frame(p) ==
    /\ pc' \in [Procs -> PCs] /\ now' = now /\ crashes' = crashes
    /\ \A q \in Procs \ {p} : /\ pc'[q] = pc[q] /\ held'[q] = held[q]
                              /\ run'[q] = run[q] /\ stamp'[q] = stamp[q]

CleanUpStages == {"clean", "elements", "referenced", "remove", "dropRow", "links", "dropLink"}
Deleting == {"delete", "deleteSave", "complete"} \cup CleanUpStages
Stages(kind) ==
    CASE kind \in {"upload", "add"} ->
             {"start", "hashed", "copyInfo", "removeOld", "move", "save", "done", "failed"}
      [] kind = "duplicate" -> {"start", "hotlink", "save", "done", "failed"}
      [] kind = "replace" -> {"start", "content", "replace", "unreferenced", "dropSource",
                              "done", "failed"} \cup Deleting
      [] kind = "delete" -> {"start", "done", "failed"} \cup Deleting
      [] kind = "schedule" -> {"start", "save", "sleep", "done", "failed"} \cup Deleting
      [] kind = "restore" -> {"start", "save", "done", "failed"}
      [] kind = "edit" -> {"start", "hotlink", "deleteSave", "done", "failed"}
      [] kind = "download" -> {"start", "count", "open", "register", "serve", "done",
                               "failed", "lost"}
      [] kind = "deleteUser" -> {"start", "dropRow", "done"}
      [] kind = "cleaner" -> {"start"} \cup CleanUpStages
      [] kind = "absent" -> {"done"}

StagesKept == \A p \in Procs : pc[p] \in Stages(Kind[p])

LEMMA UploadFrame ==
  ASSUME TypeInv, NEW p \in Procs, Upload(p)
  PROVE  Frame(p)
<1> USE DEF Frame, TypeInv, Goto, Hold, PCs, outside, local, stored, table
<1>1. CASE createNewMetaData(p)
  BY <1>1 DEF createNewMetaData, Found
<1>2. CASE CheckExists(p)
  BY <1>2 DEF CheckExists, Found
<1>3. CASE CopyEncInfo(p)
  BY <1>3 DEF CopyEncInfo, Found
<1>4. CASE RemoveOldSource(p)
  BY <1>4 DEF RemoveOldSource, Found
<1>5. CASE MoveToFilesystem(p)
  BY <1>5 DEF MoveToFilesystem, Found
<1>6. CASE Kind[p] \in {"upload", "add", "duplicate"} /\ SaveNewFile(p)
  BY <1>6 DEF SaveNewFile, Found
<1> QED BY <1>1, <1>2, <1>3, <1>4, <1>5, <1>6 DEF Upload

LEMMA ModifyFrame ==
  ASSUME TypeInv, NEW p \in Procs, Modify(p)
  PROVE  Frame(p)
<1> USE DEF Frame, TypeInv, Goto, Hold, PCs, outside, local, stored, table
<1>1. CASE DuplicateRead(p)
  BY <1>1 DEF DuplicateRead, Found, AfterReplace
<1>2. CASE DuplicateHotlink(p)
  BY <1>2 DEF DuplicateHotlink, Found, AfterReplace
<1>3. CASE EditRead(p)
  BY <1>3 DEF EditRead, Found, AfterReplace
<1>4. CASE EditHotlink(p)
  BY <1>4 DEF EditHotlink, Found, AfterReplace
<1>5. CASE EditSave(p)
  BY <1>5 DEF EditSave, Found, AfterReplace
<1>6. CASE ReplaceRead(p)
  BY <1>6 DEF ReplaceRead, Found, AfterReplace
<1>7. CASE ReplaceContent(p)
  BY <1>7 DEF ReplaceContent, Found, AfterReplace
<1>8. CASE ReplaceFails(p)
  BY <1>8 DEF ReplaceFails, Found, AfterReplace
<1>9. CASE ReplaceSave(p)
  BY <1>9 DEF ReplaceSave, Found, AfterReplace
<1>10. CASE StillReferenced(p)
  BY <1>10 DEF StillReferenced, Found, AfterReplace
<1>11. CASE DropReplacedSource(p)
  BY <1>11 DEF DropReplacedSource, Found, AfterReplace
<1> QED BY <1>1, <1>2, <1>3, <1>4, <1>5, <1>6, <1>7, <1>8, <1>9, <1>10, <1>11 DEF Modify

LEMMA DeleteFrame ==
  ASSUME TypeInv, NEW p \in Procs, Delete(p)
  PROVE  Frame(p)
<1> USE DEF Frame, TypeInv, Goto, Hold, PCs, outside, local, stored, table
<1>1. CASE DeleteRequest(p)
  BY <1>1 DEF DeleteRequest, Found
<1>2. CASE DeleteRead(p)
  BY <1>2 DEF DeleteRead, Found
<1>3. CASE DeleteSave(p)
  BY <1>3 DEF DeleteSave, Found
<1>4. CASE SetAllComplete(p)
  BY <1>4 DEF SetAllComplete, Found
<1>5. CASE ScheduleRead(p)
  BY <1>5 DEF ScheduleRead, Found
<1>6. CASE ScheduleSave(p)
  BY <1>6 DEF ScheduleSave, Found
<1>7. CASE ScheduleWakes(p)
  BY <1>7 DEF ScheduleWakes, Found
<1>8. CASE RestoreRead(p)
  BY <1>8 DEF RestoreRead, Found
<1>9. CASE RestoreSave(p)
  BY <1>9 DEF RestoreSave, Found
<1>10. CASE DeleteUserRead(p)
  BY <1>10 DEF DeleteUserRead, Found
<1>11. CASE DeleteUserRow(p)
  BY <1>11 DEF DeleteUserRow, Found
<1>12. CASE DeleteUserEnds(p)
  BY <1>12 DEF DeleteUserEnds, Found
<1> QED BY <1>1, <1>2, <1>3, <1>4, <1>5, <1>6, <1>7, <1>8, <1>9, <1>10, <1>11, <1>12 DEF Delete

LEMMA DownloadFrame ==
  ASSUME TypeInv, NEW p \in Procs, Download(p)
  PROVE  Frame(p)
<1> USE DEF Frame, TypeInv, Goto, Hold, PCs, outside, local, stored, table
<1>1. CASE DownloadRead(p)
  BY <1>1 DEF DownloadRead, Found
<1>2. CASE DownloadCount(p)
  BY <1>2 DEF DownloadCount, Found
<1>3. CASE OpenSource(p)
  BY <1>3 DEF OpenSource, Found
<1>4. CASE SetDownload(p)
  BY <1>4 DEF SetDownload, Found
<1>5. CASE SetComplete(p)
  BY <1>5 DEF SetComplete, Found
<1> QED BY <1>1, <1>2, <1>3, <1>4, <1>5 DEF Download

LEMMA CleaningFrame ==
  ASSUME TypeInv, NEW p \in Procs, Cleaning(p)
  PROVE  Frame(p)
<1> USE DEF Frame, TypeInv, Goto, Hold, PCs, outside, local, stored, table
<1>1. CASE CleanUpBegins(p)
  BY <1>1 DEF CleanUpBegins, Found
<1>2. CASE CleanUp(p)
  BY <1>2 DEF CleanUp, Found
<1>3. CASE SkipElement(p)
  BY <1>3 DEF SkipElement, Found
<1>4. CASE CheckElement(p)
  BY <1>4 DEF CheckElement, Found
<1>5. CASE CheckReferenced(p)
  BY <1>5 DEF CheckReferenced, Found
<1>6. CASE RemoveSource(p)
  BY <1>6 DEF RemoveSource, Found
<1>7. CASE RemoveRow(p)
  BY <1>7 DEF RemoveRow, Found
<1>8. CASE LoopEnds(p)
  BY <1>8 DEF LoopEnds, Found
<1>9. CASE CheckHotlink(p)
  BY <1>9 DEF CheckHotlink, Found
<1>10. CASE DeleteHotlink(p)
  BY <1>10 DEF DeleteHotlink, Found
<1>11. CASE CleanUpReturns(p)
  BY <1>11 DEF CleanUpReturns, Found
<1> QED BY <1>1, <1>2, <1>3, <1>4, <1>5, <1>6, <1>7, <1>8, <1>9, <1>10, <1>11 DEF Cleaning

LEMMA UploadStages ==
  ASSUME TypeInv, StagesKept, scenario' = scenario, NEW p \in Procs, Upload(p)
  PROVE  pc'[p] \in Stages(Kind[p])
<1> USE ScenarioFacts DEF TypeInv, StagesKept, Stages, Deleting, CleanUpStages, Kinds, Goto
<1>1. CASE createNewMetaData(p)
  BY <1>1 DEF createNewMetaData, Found
<1>2. CASE CheckExists(p)
  BY <1>2 DEF CheckExists, Found
<1>3. CASE CopyEncInfo(p)
  BY <1>3 DEF CopyEncInfo, Found
<1>4. CASE RemoveOldSource(p)
  BY <1>4 DEF RemoveOldSource, Found
<1>5. CASE MoveToFilesystem(p)
  BY <1>5 DEF MoveToFilesystem, Found
<1>6. CASE Kind[p] \in {"upload", "add", "duplicate"} /\ SaveNewFile(p)
  BY <1>6 DEF SaveNewFile, Found
<1> QED BY <1>1, <1>2, <1>3, <1>4, <1>5, <1>6 DEF Upload

LEMMA ModifyStages ==
  ASSUME TypeInv, StagesKept, scenario' = scenario, NEW p \in Procs, Modify(p)
  PROVE  pc'[p] \in Stages(Kind[p])
<1> USE ScenarioFacts DEF TypeInv, StagesKept, Stages, Deleting, CleanUpStages, Kinds, Goto
<1>1. CASE DuplicateRead(p)
  BY <1>1 DEF DuplicateRead, Found, AfterReplace
<1>2. CASE DuplicateHotlink(p)
  BY <1>2 DEF DuplicateHotlink, Found, AfterReplace
<1>3. CASE EditRead(p)
  BY <1>3 DEF EditRead, Found, AfterReplace
<1>4. CASE EditHotlink(p)
  BY <1>4 DEF EditHotlink, Found, AfterReplace
<1>5. CASE EditSave(p)
  BY <1>5 DEF EditSave, Found, AfterReplace
<1>6. CASE ReplaceRead(p)
  BY <1>6 DEF ReplaceRead, Found, AfterReplace
<1>7. CASE ReplaceContent(p)
  BY <1>7 DEF ReplaceContent, Found, AfterReplace
<1>8. CASE ReplaceFails(p)
  BY <1>8 DEF ReplaceFails, Found, AfterReplace
<1>9. CASE ReplaceSave(p)
  BY <1>9 DEF ReplaceSave, Found, AfterReplace
<1>10. CASE StillReferenced(p)
  BY <1>10 DEF StillReferenced, Found, AfterReplace
<1>11. CASE DropReplacedSource(p)
  BY <1>11 DEF DropReplacedSource, Found, AfterReplace
<1> QED BY <1>1, <1>2, <1>3, <1>4, <1>5, <1>6, <1>7, <1>8, <1>9, <1>10, <1>11 DEF Modify

LEMMA DeleteStages ==
  ASSUME TypeInv, StagesKept, scenario' = scenario, NEW p \in Procs, Delete(p)
  PROVE  pc'[p] \in Stages(Kind[p])
<1> USE ScenarioFacts DEF TypeInv, StagesKept, Stages, Deleting, CleanUpStages, Kinds, Goto
<1>1. CASE DeleteRequest(p)
  BY <1>1 DEF DeleteRequest, Found
<1>2. CASE DeleteRead(p)
  BY <1>2 DEF DeleteRead, Found
<1>3. CASE DeleteSave(p)
  BY <1>3 DEF DeleteSave, Found
<1>4. CASE SetAllComplete(p)
  BY <1>4 DEF SetAllComplete, Found
<1>5. CASE ScheduleRead(p)
  BY <1>5 DEF ScheduleRead, Found
<1>6. CASE ScheduleSave(p)
  BY <1>6 DEF ScheduleSave, Found
<1>7. CASE ScheduleWakes(p)
  BY <1>7 DEF ScheduleWakes, Found
<1>8. CASE RestoreRead(p)
  BY <1>8 DEF RestoreRead, Found
<1>9. CASE RestoreSave(p)
  BY <1>9 DEF RestoreSave, Found
<1>10. CASE DeleteUserRead(p)
  BY <1>10 DEF DeleteUserRead, Found
<1>11. CASE DeleteUserRow(p)
  BY <1>11 DEF DeleteUserRow, Found
<1>12. CASE DeleteUserEnds(p)
  BY <1>12 DEF DeleteUserEnds, Found
<1> QED BY <1>1, <1>2, <1>3, <1>4, <1>5, <1>6, <1>7, <1>8, <1>9, <1>10, <1>11, <1>12 DEF Delete

LEMMA DownloadStages ==
  ASSUME TypeInv, StagesKept, scenario' = scenario, NEW p \in Procs, Download(p)
  PROVE  pc'[p] \in Stages(Kind[p])
<1> USE ScenarioFacts DEF TypeInv, StagesKept, Stages, Deleting, CleanUpStages, Kinds, Goto
<1>1. CASE DownloadRead(p)
  BY <1>1 DEF DownloadRead, Found
<1>2. CASE DownloadCount(p)
  BY <1>2 DEF DownloadCount, Found
<1>3. CASE OpenSource(p)
  BY <1>3 DEF OpenSource, Found
<1>4. CASE SetDownload(p)
  BY <1>4 DEF SetDownload, Found
<1>5. CASE SetComplete(p)
  BY <1>5 DEF SetComplete, Found
<1> QED BY <1>1, <1>2, <1>3, <1>4, <1>5 DEF Download

LEMMA CleaningStages ==
  ASSUME TypeInv, StagesKept, scenario' = scenario, NEW p \in Procs, Cleaning(p)
  PROVE  pc'[p] \in Stages(Kind[p])
<1> USE ScenarioFacts DEF TypeInv, StagesKept, Stages, Deleting, CleanUpStages, Kinds, Goto
<1>1. CASE CleanUpBegins(p)
  BY <1>1 DEF CleanUpBegins, Found
<1>2. CASE CleanUp(p)
  BY <1>2 DEF CleanUp, Found
<1>3. CASE SkipElement(p)
  BY <1>3 DEF SkipElement, Found
<1>4. CASE CheckElement(p)
  BY <1>4 DEF CheckElement, Found
<1>5. CASE CheckReferenced(p)
  BY <1>5 DEF CheckReferenced, Found
<1>6. CASE RemoveSource(p)
  BY <1>6 DEF RemoveSource, Found
<1>7. CASE RemoveRow(p)
  BY <1>7 DEF RemoveRow, Found
<1>8. CASE LoopEnds(p)
  BY <1>8 DEF LoopEnds, Found
<1>9. CASE CheckHotlink(p)
  BY <1>9 DEF CheckHotlink, Found
<1>10. CASE DeleteHotlink(p)
  BY <1>10 DEF DeleteHotlink, Found
<1>11. CASE CleanUpReturns(p)
  BY <1>11 DEF CleanUpReturns, Found
<1> QED BY <1>1, <1>2, <1>3, <1>4, <1>5, <1>6, <1>7, <1>8, <1>9, <1>10, <1>11 DEF Cleaning

LEMMA StepFrame ==
  ASSUME TypeInv, NEW p \in Procs, Step(p)
  PROVE  Frame(p)
<1>1. CASE NotFound(p) \/ StatusExpires(p)
  BY <1>1 DEF NotFound, StatusExpires, Frame, TypeInv, Goto, PCs, outside, local
<1> QED BY <1>1, UploadFrame, ModifyFrame, DeleteFrame, DownloadFrame, CleaningFrame DEF Step

LEMMA StagesInv == TypeInv /\ StagesKept /\ [Next]_vars => StagesKept'
<1> SUFFICES ASSUME TypeInv, StagesKept, [Next]_vars PROVE StagesKept'
  OBVIOUS
<1>1. CASE UNCHANGED vars
  BY <1>1, FixedKept DEF vars, StagesKept
<1>2. CASE Next
  <2>1. scenario' = scenario
    BY <1>2 DEF Next
  <2>2. ASSUME NEW p \in Procs, Step(p) PROVE StagesKept'
    <3>1. CASE NotFound(p)
      BY <2>1, <3>1, ScenarioFacts, FixedKept, SMTT(20), ZenonT(60)
         DEF NotFound, TypeInv, StagesKept, Stages, Kinds, Goto
    <3>2. CASE StatusExpires(p)
      BY <2>1, <3>2, FixedKept DEF StatusExpires, StagesKept
    <3>3. CASE ~(NotFound(p) \/ StatusExpires(p))
      <4>1. pc'[p] \in Stages(Kind[p])
        BY <2>1, <2>2, <3>3, UploadStages, ModifyStages, DeleteStages, DownloadStages,
            CleaningStages
           DEF Step
      <4> QED BY <2>1, <2>2, <4>1, StepFrame, FixedKept DEF StagesKept, Frame
    <3> QED BY <3>1, <3>2, <3>3
  <2>3. CASE Tick
    BY <2>1, <2>3, FixedKept DEF Tick, StagesKept
  <2>4. CASE Crash
    BY <2>1, <2>4, ScenarioFacts, FixedKept
       DEF Crash, TypeInv, StagesKept, Stages, Deleting, CleanUpStages, Kinds
  <2> QED BY <1>2, <2>2, <2>3, <2>4 DEF Next
<1> QED BY <1>1, <1>2

LEMMA InitStages == Init => StagesKept
<1> SUFFICES ASSUME Init PROVE StagesKept
  OBVIOUS
<1> QED BY ScenarioFacts DEF Init, StagesKept, Stages, Deleting, CleanUpStages, Kinds

-----------------------------------------------------------------------------
(* Contents: unless a file is replaced, a row of f that is stored, held by a *)
(* request or read by CleanUp has the hash that f has had from its start,    *)
(* and the same key as well when nothing is uploaded or duplicated.          *)
NoReplacement == \A p \in Procs : Kind[p] # "replace"

HashOf == [f \in Ids |-> IF f \in Files THEN Stored[f].SHA1
                         ELSE IF Kind[f] = "duplicate" THEN Stored[Target[f]].SHA1
                         ELSE Content]
Known == Procs \cup {f \in Files : Stored[f] # None}
Removals == {"delete", "schedule", "restore", "edit", "download", "deleteUser", "cleaner",
             "absent"}
NoNewContent == \A p \in Procs : Kind[p] \in Removals
HasHash(row, f) ==
    /\ f \in Known /\ row.SHA1 = HashOf[f]
    /\ NoNewContent => f \in Files /\ row.key = Stored[f].key

NewFile(p) == Kind[p] \in {"upload", "add", "duplicate"}
Owner(p) == IF Removing(p) THEN run[p].element
            ELSE IF NewFile(p) /\ pc[p] # "hotlink" THEN p
            ELSE Target[p]

HashesHeld(p) ==
    /\ HasRow(p) => HasHash(held[p], Owner(p))
    /\ \A f \in DOMAIN run[p].rows : HasHash(run[p].rows[f], f)
HashesStored == \A f \in Ids : files[f] # None => HasHash(files[f], f)
HashInv == NoReplacement => HashesStored /\ \A p \in Procs : HashesHeld(p)

LEMMA HashesFixed ==
  ASSUME scenario' = scenario
  PROVE  HashOf' = HashOf /\ Known' = Known /\ (NoReplacement' <=> NoReplacement)
         /\ (NoNewContent' <=> NoNewContent)
BY FixedKept DEF HashOf, Known, NoReplacement, NoNewContent

LEMMA UploadHashes ==
  ASSUME TypeInv, TypeInv', StagesKept, HashInv, NoReplacement, scenario' = scenario,
         NEW p \in Procs, Upload(p)
  PROVE  HashesStored' /\ HashesHeld(p)'
<1> USE ScenarioFacts, FixedKept, HashesFixed DEF TypeInv, Ready, StagesKept, Stages, Deleting,
        CleanUpStages,
       Kinds, Goto, Hold, HashInv, HashesStored, HashesHeld, HasHash, Owner, NewFile, HasRow, Removing,
       NoReplacement, NoNewContent, Removals, SaveMetaData, stored, table, local
<1>1. CASE createNewMetaData(p)
  <2>4. held'[p] = NewRow(p) /\ Owner(p)' = p /\ p \notin Files /\ p \in Ids
    BY <1>1, ScenariosAssumption DEF createNewMetaData, Ids
  <2>5. NewRow(p).SHA1 = HashOf[p] /\ p \in Known /\ ~NoNewContent
    BY <1>1, <2>4 DEF createNewMetaData, NewRow, HashOf, Known
  <2>1. HashesStored'
    BY <1>1 DEF createNewMetaData, Found
  <2>2. (HasRow(p) => HasHash(held[p], Owner(p)))'
    BY <2>4, <2>5
  <2>3. \A f \in DOMAIN run'[p].rows : HasHash(run[p].rows[f], f)'
    BY <1>1 DEF createNewMetaData, Found
  <2> HIDE DEF HashesStored, HasHash, Owner, NoNewContent
  <2> QED BY <2>1, <2>2, <2>3
<1>2. CASE CheckExists(p)
  BY <1>2 DEF CheckExists, Found
<1>3. CASE CopyEncInfo(p)
  <2>4. held[p] \in Row /\ HasHash(held[p], p)
    BY <1>3, SMTT(30) DEF CopyEncInfo
  <2>7. PICK l \in Ids \cup {None} : held' = [held EXCEPT ![p] = [held[p] EXCEPT !.key = l]]
    BY <1>3, <2>4 DEF CopyEncInfo, GetAllMetadata, Row
  <2>5. held'[p].SHA1 = held[p].SHA1
    BY <2>4, <2>7 DEF Row
  <2>9. NewFile(p) /\ pc'[p] \in {"save", "removeOld"}
    <3>1. pc[p] = "copyInfo" /\ pc'[p] \in {"save", "removeOld"}
      BY <1>3 DEF CopyEncInfo
    <3> QED BY <3>1
  <2>8. Owner(p)' = p
    BY <2>9
  <2>6. ~NoNewContent
    BY <1>3 DEF CopyEncInfo
  <2>1. HashesStored'
    BY <1>3 DEF CopyEncInfo, Found
  <2>2. (HasRow(p) => HasHash(held[p], Owner(p)))'
    BY <2>4, <2>5, <2>6, <2>8
  <2>3. \A f \in DOMAIN run'[p].rows : HasHash(run[p].rows[f], f)'
    BY <1>3 DEF CopyEncInfo, Found
  <2> HIDE DEF HashesStored, HasHash, Owner, NoNewContent
  <2> QED BY <2>1, <2>2, <2>3
<1>4. CASE RemoveOldSource(p)
  BY <1>4 DEF RemoveOldSource, Found
<1>5. CASE MoveToFilesystem(p)
  BY <1>5 DEF MoveToFilesystem, Found
<1>6. CASE Kind[p] \in {"upload", "add", "duplicate"} /\ SaveNewFile(p)
  BY <1>6 DEF SaveNewFile, Found
<1> QED BY <1>1, <1>2, <1>3, <1>4, <1>5, <1>6 DEF Upload

LEMMA ModifyHashes ==
  ASSUME TypeInv, TypeInv', StagesKept, HashInv, NoReplacement, scenario' = scenario,
         NEW p \in Procs, Modify(p)
  PROVE  HashesStored' /\ HashesHeld(p)'
<1> USE ScenarioFacts, FixedKept, HashesFixed DEF TypeInv, Ready, StagesKept, Stages, Deleting,
        CleanUpStages,
       Kinds, Goto, Hold, HashInv, HashesStored, HashesHeld, HasHash, Owner, NewFile, HasRow, Removing,
       NoReplacement, NoNewContent, Removals, SaveMetaData, stored, table, local
<1>1. CASE DuplicateRead(p)
  <2>4. held'[p] = files[Target[p]] /\ pc'[p] \notin {"referenced", "remove", "dropRow"}
    BY <1>1 DEF DuplicateRead, Found
  <2>7. Target[p] = Target[p] /\ (HasRow(p)' => files[Target[p]] # None)
    BY <1>1 DEF DuplicateRead, Found, GetFile
  <2>5. HasRow(p)' => HasHash(files[Target[p]], Target[p]) /\ Target[p] = Target[p]
    BY <2>7 DEF Ids
  <2>6. Owner(p)' = Target[p]
    BY <1>1, <2>4 DEF DuplicateRead, Found
  <2>1. HashesStored'
    BY <1>1 DEF DuplicateRead, Found, AfterReplace
  <2>2. (HasRow(p) => HasHash(held[p], Owner(p)))'
    BY <2>4, <2>5, <2>6
  <2>3. \A f \in DOMAIN run'[p].rows : HasHash(run[p].rows[f], f)'
    BY <1>1 DEF DuplicateRead, Found, AfterReplace
  <2> HIDE DEF HashesStored, HasHash, Owner, NoNewContent
  <2> QED BY <2>1, <2>2, <2>3
<1>2. CASE DuplicateHotlink(p)
  <2>4. held[p] \in Row /\ HasHash(held[p], Target[p]) /\ p \in Ids \ Files
    BY <1>2, ScenariosAssumption DEF DuplicateHotlink, Ids
  <2>5. held'[p].SHA1 = held[p].SHA1 /\ Owner(p)' = p
    BY <1>2, <2>4 DEF DuplicateHotlink, Row
  <2>6. HashOf[p] = HashOf[Target[p]] /\ p \in Known /\ ~NoNewContent
    BY <1>2, <2>4, SMTT(20), ZenonT(60) DEF DuplicateHotlink, HashOf, Known, Ids
  <2>1. HashesStored'
    BY <1>2 DEF DuplicateHotlink, Found, AfterReplace
  <2>2. (HasRow(p) => HasHash(held[p], Owner(p)))'
    BY <2>4, <2>5, <2>6
  <2>3. \A f \in DOMAIN run'[p].rows : HasHash(run[p].rows[f], f)'
    BY <1>2 DEF DuplicateHotlink, Found, AfterReplace
  <2> HIDE DEF HashesStored, HasHash, Owner, NoNewContent
  <2> QED BY <2>1, <2>2, <2>3
<1>3. CASE EditRead(p)
  <2>4. held'[p] = files[Target[p]] /\ pc'[p] \notin {"referenced", "remove", "dropRow"}
    BY <1>3 DEF EditRead, Found
  <2>7. Target[p] = Target[p] /\ (HasRow(p)' => files[Target[p]] # None)
    BY <1>3 DEF EditRead, Found, GetFile
  <2>5. HasRow(p)' => HasHash(files[Target[p]], Target[p]) /\ Target[p] = Target[p]
    BY <2>7 DEF Ids
  <2>6. Owner(p)' = Target[p]
    BY <1>3, <2>4 DEF EditRead, Found
  <2>1. HashesStored'
    BY <1>3 DEF EditRead, Found, AfterReplace
  <2>2. (HasRow(p) => HasHash(held[p], Owner(p)))'
    BY <2>4, <2>5, <2>6
  <2>3. \A f \in DOMAIN run'[p].rows : HasHash(run[p].rows[f], f)'
    BY <1>3 DEF EditRead, Found, AfterReplace
  <2> HIDE DEF HashesStored, HasHash, Owner, NoNewContent
  <2> QED BY <2>1, <2>2, <2>3
<1>4. CASE EditHotlink(p)
  BY <1>4 DEF EditHotlink, Found, AfterReplace
<1>5. CASE EditSave(p)
  BY <1>5, SMTT(20), ZenonT(60) DEF EditSave, Found, AfterReplace
<1>6. CASE ReplaceRead(p)
  BY <1>6 DEF ReplaceRead, Found, AfterReplace
<1>7. CASE ReplaceContent(p)
  BY <1>7, SMTT(20), ZenonT(60) DEF ReplaceContent, Found, AfterReplace
<1>8. CASE ReplaceFails(p)
  BY <1>8 DEF ReplaceFails, Found, AfterReplace
<1>9. CASE ReplaceSave(p)
  BY <1>9, SMTT(20), ZenonT(60) DEF ReplaceSave, Found, AfterReplace
<1>10. CASE StillReferenced(p)
  BY <1>10 DEF StillReferenced, Found, AfterReplace
<1>11. CASE DropReplacedSource(p)
  BY <1>11 DEF DropReplacedSource, Found, AfterReplace
<1> QED BY <1>1, <1>2, <1>3, <1>4, <1>5, <1>6, <1>7, <1>8, <1>9, <1>10, <1>11 DEF Modify

LEMMA DeleteHashes ==
  ASSUME TypeInv, TypeInv', StagesKept, HashInv, NoReplacement, scenario' = scenario,
         NEW p \in Procs, Delete(p)
  PROVE  HashesStored' /\ HashesHeld(p)'
<1> USE ScenarioFacts, FixedKept, HashesFixed DEF TypeInv, Ready, StagesKept, Stages, Deleting,
        CleanUpStages,
       Kinds, Goto, Hold, HashInv, HashesStored, HashesHeld, HasHash, Owner, NewFile, HasRow, Removing,
       NoReplacement, NoNewContent, Removals, SaveMetaData, stored, table, local
<1>1. CASE DeleteRequest(p)
  BY <1>1 DEF DeleteRequest, Found
<1>2. CASE DeleteRead(p)
  <2>4. held'[p] = files[Deleted(p)] /\ pc'[p] \notin {"referenced", "remove", "dropRow"}
    BY <1>2 DEF DeleteRead, Found, Deleted
  <2>7. Deleted(p) = Target[p] /\ (HasRow(p)' => files[Target[p]] # None)
    BY <1>2 DEF DeleteRead, Found, GetFile, Deleted
  <2>5. HasRow(p)' => HasHash(files[Target[p]], Target[p]) /\ Deleted(p) = Target[p]
    BY <2>7 DEF Ids
  <2>6. Owner(p)' = Target[p]
    BY <1>2, <2>4 DEF DeleteRead, Found
  <2>1. HashesStored'
    BY <1>2 DEF DeleteRead, Found
  <2>2. (HasRow(p) => HasHash(held[p], Owner(p)))'
    BY <2>4, <2>5, <2>6
  <2>3. \A f \in DOMAIN run'[p].rows : HasHash(run[p].rows[f], f)'
    BY <1>2 DEF DeleteRead, Found
  <2> HIDE DEF HashesStored, HasHash, Owner, NoNewContent
  <2> QED BY <2>1, <2>2, <2>3
<1>3. CASE DeleteSave(p)
  <2>6. held[p] \in Row /\ ~NewFile(p) /\ Owner(p) = Target[p] /\ Deleted(p) = Target[p]
    BY <1>3 DEF DeleteSave, Deleted
  <2>7. HasRow(p)
    BY <1>3 DEF DeleteSave
  <2>4. /\ held[p] \in Row /\ HasHash(held[p], Target[p]) /\ Target[p] \in Ids
        /\ files' = [files EXCEPT ![Target[p]] = [held[p] EXCEPT !.ExpireAt = 0]]
    BY <1>3, <2>6, <2>7 DEF DeleteSave, Ids
  <2>5. LET row == [held[p] EXCEPT !.ExpireAt = 0] IN row.SHA1 = held[p].SHA1 /\ row.key = held[p].key
    BY <2>4 DEF Row
  <2>1. HashesStored'
    BY <2>4, <2>5
  <2>2. (HasRow(p) => HasHash(held[p], Owner(p)))'
    BY <1>3 DEF DeleteSave, Found
  <2>3. \A f \in DOMAIN run'[p].rows : HasHash(run[p].rows[f], f)'
    BY <1>3 DEF DeleteSave, Found
  <2> HIDE DEF HashesStored, HasHash, Owner, NoNewContent
  <2> QED BY <2>1, <2>2, <2>3
<1>4. CASE SetAllComplete(p)
  BY <1>4 DEF SetAllComplete, Found
<1>5. CASE ScheduleRead(p)
  <2>4. held'[p] = files[Target[p]] /\ pc'[p] \notin {"referenced", "remove", "dropRow"}
    BY <1>5 DEF ScheduleRead, Found
  <2>7. Target[p] = Target[p] /\ (HasRow(p)' => files[Target[p]] # None)
    BY <1>5 DEF ScheduleRead, Found, GetFile
  <2>5. HasRow(p)' => HasHash(files[Target[p]], Target[p]) /\ Target[p] = Target[p]
    BY <2>7 DEF Ids
  <2>6. Owner(p)' = Target[p]
    BY <1>5, <2>4 DEF ScheduleRead, Found
  <2>1. HashesStored'
    BY <1>5 DEF ScheduleRead, Found
  <2>2. (HasRow(p) => HasHash(held[p], Owner(p)))'
    BY <2>4, <2>5, <2>6
  <2>3. \A f \in DOMAIN run'[p].rows : HasHash(run[p].rows[f], f)'
    BY <1>5 DEF ScheduleRead, Found
  <2> HIDE DEF HashesStored, HasHash, Owner, NoNewContent
  <2> QED BY <2>1, <2>2, <2>3
<1>6. CASE ScheduleSave(p)
  <2>6. held[p] \in Row /\ Owner(p) = Target[p] /\ HasRow(p)
    BY <1>6 DEF ScheduleSave
  <2>7. HasHash(held[p], Target[p])
    <3> HIDE DEF HasHash, HasRow, Owner
    <3> QED BY <2>6
  <2>4. /\ HasHash(held[p], Target[p]) /\ Target[p] \in Ids
        /\ files' = [files EXCEPT ![Target[p]] = [held[p] EXCEPT !.PendingDeletion = now + Delay]]
    BY <1>6, <2>7 DEF ScheduleSave, Ids
  <2>5. LET row == [held[p] EXCEPT !.PendingDeletion = now + Delay]
        IN  row.SHA1 = held[p].SHA1 /\ row.key = held[p].key
    BY <2>6 DEF Row
  <2>1. HashesStored'
    BY <2>4, <2>5
  <2>2. (HasRow(p) => HasHash(held[p], Owner(p)))'
    BY <1>6 DEF ScheduleSave, Found
  <2>3. \A f \in DOMAIN run'[p].rows : HasHash(run[p].rows[f], f)'
    BY <1>6 DEF ScheduleSave, Found
  <2> HIDE DEF HashesStored, HasHash, Owner, NoNewContent
  <2> QED BY <2>1, <2>2, <2>3
<1>7. CASE ScheduleWakes(p)
  BY <1>7 DEF ScheduleWakes, Found
<1>8. CASE RestoreRead(p)
  <2>4. held'[p] = files[Target[p]] /\ pc'[p] \notin {"referenced", "remove", "dropRow"}
    BY <1>8 DEF RestoreRead, Found
  <2>7. Target[p] = Target[p] /\ (HasRow(p)' => files[Target[p]] # None)
    BY <1>8 DEF RestoreRead, Found, GetFile
  <2>5. HasRow(p)' => HasHash(files[Target[p]], Target[p]) /\ Target[p] = Target[p]
    BY <2>7 DEF Ids
  <2>6. Owner(p)' = Target[p]
    BY <1>8, <2>4 DEF RestoreRead, Found
  <2>1. HashesStored'
    BY <1>8 DEF RestoreRead, Found
  <2>2. (HasRow(p) => HasHash(held[p], Owner(p)))'
    BY <2>4, <2>5, <2>6
  <2>3. \A f \in DOMAIN run'[p].rows : HasHash(run[p].rows[f], f)'
    BY <1>8 DEF RestoreRead, Found
  <2> HIDE DEF HashesStored, HasHash, Owner, NoNewContent
  <2> QED BY <2>1, <2>2, <2>3
<1>9. CASE RestoreSave(p)
  BY <1>9, SMTT(30) DEF RestoreSave, Found
<1>10. CASE DeleteUserRead(p)
  BY <1>10 DEF DeleteUserRead, Found
<1>11. CASE DeleteUserRow(p)
  <2>4. \A f \in Ids : files'[f] = None \/ files'[f] = files[f]
    BY <1>11 DEF DeleteUserRow, Runs
  <2>5. run'[p].rows = run[p].rows
    BY <1>11 DEF DeleteUserRow, Runs
  <2>1. HashesStored'
    BY <2>4
  <2>2. (HasRow(p) => HasHash(held[p], Owner(p)))'
    BY <1>11 DEF DeleteUserRow, Found
  <2>3. \A f \in DOMAIN run'[p].rows : HasHash(run[p].rows[f], f)'
    BY <2>5
  <2> HIDE DEF HashesStored, HasHash, Owner, NoNewContent
  <2> QED BY <2>1, <2>2, <2>3
<1>12. CASE DeleteUserEnds(p)
  BY <1>12 DEF DeleteUserEnds, Found
<1> QED BY <1>1, <1>2, <1>3, <1>4, <1>5, <1>6, <1>7, <1>8, <1>9, <1>10, <1>11, <1>12 DEF Delete

LEMMA DownloadHashes ==
  ASSUME TypeInv, TypeInv', StagesKept, HashInv, NoReplacement, scenario' = scenario,
         NEW p \in Procs, Download(p)
  PROVE  HashesStored' /\ HashesHeld(p)'
<1> USE ScenarioFacts, FixedKept, HashesFixed DEF TypeInv, Ready, StagesKept, Stages, Deleting,
        CleanUpStages,
       Kinds, Goto, Hold, HashInv, HashesStored, HashesHeld, HasHash, Owner, NewFile, HasRow, Removing,
       NoReplacement, NoNewContent, Removals, SaveMetaData, stored, table, local
<1>1. CASE DownloadRead(p)
  <2>4. held'[p] = files[Target[p]] /\ pc'[p] \notin {"referenced", "remove", "dropRow"}
    BY <1>1 DEF DownloadRead, Found
  <2>7. Target[p] = Target[p] /\ (HasRow(p)' => files[Target[p]] # None)
    BY <1>1 DEF DownloadRead, Found, GetFile
  <2>5. HasRow(p)' => HasHash(files[Target[p]], Target[p]) /\ Target[p] = Target[p]
    BY <2>7 DEF Ids
  <2>6. Owner(p)' = Target[p]
    BY <1>1, <2>4 DEF DownloadRead, Found
  <2>1. HashesStored'
    BY <1>1 DEF DownloadRead, Found
  <2>2. (HasRow(p) => HasHash(held[p], Owner(p)))'
    BY <2>4, <2>5, <2>6
  <2>3. \A f \in DOMAIN run'[p].rows : HasHash(run[p].rows[f], f)'
    BY <1>1 DEF DownloadRead, Found
  <2> HIDE DEF HashesStored, HasHash, Owner, NoNewContent
  <2> QED BY <2>1, <2>2, <2>3
<1>2. CASE DownloadCount(p)
  <2>4. \/ files' = files
        \/ files' = [files EXCEPT ![Target[p]] = [files[Target[p]] EXCEPT !.DownloadsRemaining = @ - 1]]
    BY <1>2 DEF DownloadCount
  <2>7. Target[p] \in Ids /\ \A f \in Ids : files[f] # None => HasHash(files[f], f)
    BY DEF Ids
  <2>5. ASSUME files[Target[p]] # None
        PROVE  LET row == [files[Target[p]] EXCEPT !.DownloadsRemaining = @ - 1]
               IN  row.SHA1 = files[Target[p]].SHA1 /\ row.key = files[Target[p]].key
    BY <2>5, <2>7 DEF Row
  <2>8. \A f \in Ids \ {Target[p]} : files'[f] = files[f]
    BY <2>4
  <2>6. files' # files => files[Target[p]] # None
    <3>1. SUFFICES ASSUME files[Target[p]] = None PROVE files' = files
      OBVIOUS
    <3>2. held[p] \in Row
      BY <1>2 DEF DownloadCount
    <3>3. IsExpiredFile([held[p] EXCEPT !.DownloadsRemaining = 0], now)
      BY <3>2 DEF Row, IsExpiredFile
    <3> QED BY <1>2, <3>1, <3>3 DEF DownloadCount
  <2>9. ASSUME NEW f \in Ids, files'[f] # None
        PROVE  files[f] # None /\ files'[f].SHA1 = files[f].SHA1 /\ files'[f].key = files[f].key
    <3>1. CASE f # Target[p] \/ files' = files
      BY <2>8, <2>9, <3>1
    <3>2. CASE f = Target[p] /\ files' # files
      <4>1. files'[f] = [files[Target[p]] EXCEPT !.DownloadsRemaining = @ - 1]
        BY <2>4, <2>7, <3>2
      <4> QED BY <2>5, <2>6, <3>2, <4>1
    <3> QED BY <3>1, <3>2
  <2>1. HashesStored'
    BY <2>7, <2>9
  <2>2. (HasRow(p) => HasHash(held[p], Owner(p)))'
    BY <1>2 DEF DownloadCount, Found
  <2>3. \A f \in DOMAIN run'[p].rows : HasHash(run[p].rows[f], f)'
    BY <1>2 DEF DownloadCount, Found
  <2> HIDE DEF HashesStored, HasHash, Owner, NoNewContent
  <2> QED BY <2>1, <2>2, <2>3
<1>3. CASE OpenSource(p)
  BY <1>3 DEF OpenSource, Found
<1>4. CASE SetDownload(p)
  BY <1>4 DEF SetDownload, Found
<1>5. CASE SetComplete(p)
  BY <1>5 DEF SetComplete, Found
<1> QED BY <1>1, <1>2, <1>3, <1>4, <1>5 DEF Download

LEMMA CleaningHashes ==
  ASSUME TypeInv, TypeInv', StagesKept, HashInv, NoReplacement, scenario' = scenario,
         NEW p \in Procs, Cleaning(p)
  PROVE  HashesStored' /\ HashesHeld(p)'
<1> USE ScenarioFacts, FixedKept, HashesFixed DEF TypeInv, Ready, StagesKept, Stages, Deleting,
        CleanUpStages,
       Kinds, Goto, Hold, HashInv, HashesStored, HashesHeld, HasHash, Owner, NewFile, HasRow, Removing,
       NoReplacement, NoNewContent, Removals, SaveMetaData, stored, table, local
<1>1. CASE CleanUpBegins(p)
  BY <1>1 DEF CleanUpBegins, Found
<1>2. CASE CleanUp(p)
  <2>4. run'[p].rows = GetAllMetadata
    BY <1>2 DEF CleanUp, Runs
  <2>5. \A f \in DOMAIN GetAllMetadata : HasHash(GetAllMetadata[f], f)
    BY DEF GetAllMetadata
  <2>1. HashesStored'
    BY <1>2 DEF CleanUp, Found
  <2>2. (HasRow(p) => HasHash(held[p], Owner(p)))'
    BY <1>2 DEF CleanUp, Found
  <2>3. \A f \in DOMAIN run'[p].rows : HasHash(run[p].rows[f], f)'
    BY <2>4, <2>5
  <2> HIDE DEF HashesStored, HasHash, Owner, NoNewContent
  <2> QED BY <2>1, <2>2, <2>3
<1>3. CASE SkipElement(p)
  <2>4. PICK g \in DOMAIN run[p].rows : run' = [run EXCEPT ![p].rows = Without(@, g)]
    BY <1>3 DEF SkipElement
  <2>5. run'[p].rows = Without(run[p].rows, g)
    BY <2>4 DEF Runs
  <2>1. HashesStored'
    BY <1>3 DEF SkipElement, Found
  <2>2. (HasRow(p) => HasHash(held[p], Owner(p)))'
    BY <1>3 DEF SkipElement, Found
  <2>3. \A f \in DOMAIN run'[p].rows : HasHash(run[p].rows[f], f)'
    BY <2>5 DEF Without
  <2> HIDE DEF HashesStored, HasHash, Owner, NoNewContent
  <2> QED BY <2>1, <2>2, <2>3
<1>4. CASE CheckElement(p)
  <2>4. PICK g \in DOMAIN run[p].rows :
          run' = [run EXCEPT ![p].rows = Without(@, g), ![p].element = g]
    BY <1>4 DEF CheckElement
  <2>5. run'[p].rows = Without(run[p].rows, g)
    BY <2>4 DEF Runs
  <2>1. HashesStored'
    BY <1>4 DEF CheckElement, Found
  <2>2. (HasRow(p) => HasHash(held[p], Owner(p)))'
    BY <1>4, SMTT(30) DEF CheckElement, Found
  <2>3. \A f \in DOMAIN run'[p].rows : HasHash(run[p].rows[f], f)'
    BY <2>5 DEF Without
  <2> HIDE DEF HashesStored, HasHash, Owner, NoNewContent
  <2> QED BY <2>1, <2>2, <2>3
<1>5. CASE CheckReferenced(p)
  BY <1>5 DEF CheckReferenced, Found
<1>6. CASE RemoveSource(p)
  BY <1>6 DEF RemoveSource, Found
<1>7. CASE RemoveRow(p)
  BY <1>7, SMTT(30) DEF RemoveRow, Found
<1>8. CASE LoopEnds(p)
  BY <1>8 DEF LoopEnds, Found
<1>9. CASE CheckHotlink(p)
  BY <1>9 DEF CheckHotlink, Found
<1>10. CASE DeleteHotlink(p)
  BY <1>10 DEF DeleteHotlink, Found
<1>11. CASE CleanUpReturns(p)
  <2>4. run'[p].rows = NoRows \/ run'[p].rows = run[p].rows
    BY <1>11 DEF CleanUpReturns, Runs, Idle
  <2>1. HashesStored'
    BY <1>11 DEF CleanUpReturns, Found
  <2>2. (HasRow(p) => HasHash(held[p], Owner(p)))'
    BY <1>11 DEF CleanUpReturns, Found
  <2>3. \A f \in DOMAIN run'[p].rows : HasHash(run[p].rows[f], f)'
    BY <2>4 DEF NoRows
  <2> HIDE DEF HashesStored, HasHash, Owner, NoNewContent
  <2> QED BY <2>1, <2>2, <2>3
<1> QED BY <1>1, <1>2, <1>3, <1>4, <1>5, <1>6, <1>7, <1>8, <1>9, <1>10, <1>11 DEF Cleaning

LEMMA HashesOfOthers ==
  ASSUME HashInv, NoReplacement, scenario' = scenario, NEW q \in Procs,
         pc'[q] = pc[q], held'[q] = held[q], run'[q] = run[q]
  PROVE  HashesHeld(q)'
BY FixedKept, HashesFixed DEF HashInv, HashesHeld, HasHash, HasRow, Owner, NewFile, Removing

LEMMA HashesNext ==
  TypeInv /\ TypeInv' /\ StagesKept /\ HashInv /\ [Next]_vars => HashInv'
<1> SUFFICES ASSUME TypeInv, TypeInv', StagesKept, HashInv, [Next]_vars, NoReplacement'
             PROVE  HashesStored' /\ \A p \in Procs : HashesHeld(p)'
  BY DEF HashInv
<1>1. scenario' = scenario
  BY DEF Next, vars
<1>2. NoReplacement
  BY <1>1, HashesFixed
<1>3. ASSUME files' = files PROVE HashesStored'
  BY <1>1, <1>2, <1>3, FixedKept, HashesFixed DEF HashInv, HashesStored, HasHash
<1>4. CASE UNCHANGED vars \/ Tick
  <2>1. files' = files /\ \A q \in Procs : pc'[q] = pc[q] /\ held'[q] = held[q] /\ run'[q] = run[q]
    BY <1>4 DEF vars, Tick, stored, table, local
  <2> QED BY <1>1, <1>2, <1>3, <2>1, HashesOfOthers
<1>5. CASE Crash
  <2>1. files' = files /\ \A q \in Procs : pc'[q] \in {"start", "done"} /\ run'[q].rows = NoRows
    BY <1>5 DEF Crash, stored, table, Idle
  <2>2. ASSUME NEW q \in Procs PROVE HashesHeld(q)'
    BY <2>1 DEF HashesHeld, HasRow, Removing, NoRows
  <2> QED BY <1>3, <2>1, <2>2
<1>6. ASSUME NEW p \in Procs, Step(p)
      PROVE  HashesStored' /\ \A q \in Procs : HashesHeld(q)'
  <2>1. \A q \in Procs \ {p} : HashesHeld(q)'
    BY <1>1, <1>2, <1>6, StepFrame, HashesOfOthers DEF Frame
  <2>2. CASE NotFound(p) \/ StatusExpires(p)
    <3>1. /\ files' = files /\ held'[p] = held[p] /\ run'[p] = run[p]
          /\ pc'[p] = pc[p] \/ pc'[p] = "failed"
      BY <2>2 DEF NotFound, StatusExpires, Goto, TypeInv, stored, table, local
    <3>2. CASE pc'[p] = pc[p]
      BY <1>1, <1>2, <1>3, <2>1, <3>1, <3>2, HashesOfOthers
    <3>3. CASE pc'[p] = "failed"
      <4>1. HashesHeld(p)'
        BY <1>1, <1>2, <3>1, <3>3, FixedKept, HashesFixed
           DEF HashInv, HashesHeld, HasRow, Removing, HasHash
      <4> QED BY <1>3, <2>1, <3>1, <4>1
    <3> QED BY <3>1, <3>2, <3>3
  <2>3. CASE Upload(p) \/ Modify(p) \/ Delete(p) \/ Download(p) \/ Cleaning(p)
    <3>1. HashesStored' /\ HashesHeld(p)'
      BY <1>1, <1>2, <2>3, UploadHashes, ModifyHashes, DeleteHashes, DownloadHashes, CleaningHashes
    <3> QED BY <2>1, <3>1
  <2> QED BY <1>6, <2>2, <2>3 DEF Step
<1> QED BY <1>4, <1>5, <1>6 DEF Next

LEMMA InitHashes == Init => HashInv
<1> SUFFICES ASSUME Init, NoReplacement PROVE HashesStored /\ \A p \in Procs : HashesHeld(p)
  BY DEF HashInv
<1>1. HashesStored
  BY DEF Init, HashesStored, HasHash, HashOf, Known, Ids
<1>2. \A p \in Procs : HashesHeld(p)
  BY DEF Init, HashesHeld, HasRow, Removing, Idle, NoRows
<1> QED BY <1>1, <1>2

-----------------------------------------------------------------------------
(* What a step does to the rows and to the sources                           *)
RowSaved == \E f \in Ids, row \in Row : SaveMetaData(f, row)
RowRemoved(p) ==
    \E f \in Ids : /\ SaveMetaData(f, None)
                   /\ DeleteUserRow(p) \/ (RemoveRow(p) /\ run[p].element = f)
RowsStep(p) == (files' = files /\ revived' = revived) \/ RowSaved \/ RowRemoved(p)

LEMMA DownloadSaves ==
  ASSUME TypeInv, NEW p \in Procs, DownloadCount(p)
  PROVE  LET row == [files[Target[p]] EXCEPT !.DownloadsRemaining = @ - 1]
         IN  /\ Target[p] \in Ids
             /\ UNCHANGED table \/ (row \in Row /\ SaveMetaData(Target[p], row))
<1> DEFINE was == files[Target[p]]
           row == [files[Target[p]] EXCEPT !.DownloadsRemaining = @ - 1]
           remaining == IF was = None THEN 0 ELSE was.DownloadsRemaining
           seen == [held[p] EXCEPT !.DownloadsRemaining = remaining]
<1>1. Target[p] \in Ids /\ held[p] \in Row /\ was \in Row \cup {None}
  BY ScenarioFacts DEF Ids, TypeInv, Ready, HasRow, DownloadCount, Goto
<1>2. CASE IsExpiredFile(seen, now)
  BY <1>1, <1>2 DEF DownloadCount
<1>3. CASE ~IsExpiredFile(seen, now)
  <2>1. SaveMetaData(Target[p], row)
    BY <1>3 DEF DownloadCount
  <2>2. ~(seen.DownloadsRemaining < 1) /\ seen.DownloadsRemaining = remaining
    BY <1>1, <1>3 DEF IsExpiredFile, Row
  <2>3. was \in Row /\ was.DownloadsRemaining \in Nat /\ was.DownloadsRemaining >= 1
    <3>1. was # None
      BY <2>2
    <3>2. was \in Row
      BY <1>1, <3>1
    <3> HIDE DEF was, seen
    <3> QED BY <2>2, <3>1, <3>2 DEF Row
  <2>4. row \in Row
    <3>1. was.DownloadsRemaining - 1 \in Nat
      BY <2>3
    <3> QED BY <2>3, <3>1 DEF Row
  <2> QED BY <1>1, <2>1, <2>4
<1> QED BY <1>2, <1>3

LEMMA UploadRows ==
  ASSUME TypeInv, NEW p \in Procs, Upload(p)
  PROVE  RowsStep(p)
<1> USE DEF RowsStep, RowSaved, RowRemoved, TypeInv, Ready, HasRow, Removing, Goto, stored, table
<1>1. CASE createNewMetaData(p)
  BY <1>1 DEF createNewMetaData, Found
<1>2. CASE CheckExists(p)
  BY <1>2 DEF CheckExists, Found
<1>3. CASE CopyEncInfo(p)
  BY <1>3 DEF CopyEncInfo, Found
<1>4. CASE RemoveOldSource(p)
  BY <1>4 DEF RemoveOldSource, Found
<1>5. CASE MoveToFilesystem(p)
  BY <1>5 DEF MoveToFilesystem, Found
<1>6. CASE SaveNewFile(p)
  <2>2. p \in Ids /\ held[p] \in Row
    BY <1>6, ScenarioFacts DEF SaveNewFile, Ids, Row, Times
  <2>3. SaveMetaData(p, held[p])
    BY <1>6 DEF SaveNewFile
  <2> HIDE DEF SaveMetaData
  <2>1. RowsStep(p)
    BY <2>2, <2>3
  <2> HIDE DEF TypeInv
  <2> QED BY <2>1
<1> QED BY <1>1, <1>2, <1>3, <1>4, <1>5, <1>6 DEF Upload

LEMMA ModifyRows ==
  ASSUME TypeInv, NEW p \in Procs, Modify(p)
  PROVE  RowsStep(p)
<1> USE DEF RowsStep, RowSaved, RowRemoved, TypeInv, Ready, HasRow, Removing, Goto, stored, table
<1>1. CASE DuplicateRead(p)
  BY <1>1 DEF DuplicateRead, Found
<1>2. CASE DuplicateHotlink(p)
  BY <1>2 DEF DuplicateHotlink, Found
<1>3. CASE EditRead(p)
  BY <1>3 DEF EditRead, Found
<1>4. CASE EditHotlink(p)
  BY <1>4 DEF EditHotlink, Found
<1>5. CASE EditSave(p)
  <2>2. Target[p] \in Ids /\ held[p] \in Row
    BY <1>5, ScenarioFacts DEF EditSave, Ids, Row, Times
  <2>3. SaveMetaData(Target[p], held[p])
    BY <1>5 DEF EditSave
  <2> HIDE DEF SaveMetaData
  <2>1. RowsStep(p)
    BY <2>2, <2>3
  <2> HIDE DEF TypeInv
  <2> QED BY <2>1
<1>6. CASE ReplaceRead(p)
  BY <1>6 DEF ReplaceRead, Found
<1>7. CASE ReplaceContent(p)
  BY <1>7 DEF ReplaceContent, Found
<1>8. CASE ReplaceFails(p)
  BY <1>8 DEF ReplaceFails, Found
<1>9. CASE ReplaceSave(p)
  <2> DEFINE new == run[p].rows[Replacement]
             row == [held[p] EXCEPT !.SHA1 = new.SHA1, !.key = new.key]
  <2>2. Target[p] \in Ids /\ row \in Row
    <3>1. run[p].rows \in RowMaps /\ Replacement \in DOMAIN run[p].rows /\ held[p] \in Row
      BY <1>9 DEF ReplaceSave, Runs
    <3>2. new \in Row
      BY <3>1, RowMapFacts
    <3> QED BY <3>1, <3>2, ScenarioFacts DEF Ids, Row
  <2>3. SaveMetaData(Target[p], row)
    BY <1>9 DEF ReplaceSave
  <2> HIDE DEF SaveMetaData, row
  <2>1. RowsStep(p)
    BY <2>2, <2>3
  <2> HIDE DEF TypeInv
  <2> QED BY <2>1
<1>10. CASE StillReferenced(p)
  BY <1>10 DEF StillReferenced, Found
<1>11. CASE DropReplacedSource(p)
  BY <1>11 DEF DropReplacedSource, Found
<1> QED BY <1>1, <1>2, <1>3, <1>4, <1>5, <1>6, <1>7, <1>8, <1>9, <1>10, <1>11 DEF Modify

LEMMA DeleteRows ==
  ASSUME TypeInv, NEW p \in Procs, Delete(p)
  PROVE  RowsStep(p)
<1> USE DEF RowsStep, RowSaved, RowRemoved, TypeInv, Ready, HasRow, Removing, Goto, stored, table
<1>1. CASE DeleteRequest(p)
  BY <1>1 DEF DeleteRequest, Found
<1>2. CASE DeleteRead(p)
  BY <1>2 DEF DeleteRead, Found
<1>3. CASE DeleteSave(p)
  <2>2. Deleted(p) \in Ids /\ [held[p] EXCEPT !.ExpireAt = 0] \in Row
    BY <1>3, ScenarioFacts DEF DeleteSave, Ids, Row, Times, Deleted
  <2>3. SaveMetaData(Deleted(p), [held[p] EXCEPT !.ExpireAt = 0])
    BY <1>3 DEF DeleteSave, Deleted
  <2> HIDE DEF SaveMetaData
  <2>1. RowsStep(p)
    BY <2>2, <2>3
  <2> HIDE DEF TypeInv
  <2> QED BY <2>1
<1>4. CASE SetAllComplete(p)
  BY <1>4 DEF SetAllComplete, Found
<1>5. CASE ScheduleRead(p)
  BY <1>5 DEF ScheduleRead, Found
<1>6. CASE ScheduleSave(p)
  <2>0. now + Delay \in Nat
    BY ScenariosAssumption
  <2>2. Target[p] \in Ids /\ [held[p] EXCEPT !.PendingDeletion = now + Delay] \in Row
    BY <1>6, <2>0, ScenarioFacts, SMTT(20), ZenonT(60) DEF ScheduleSave, Ids, Row, Times
  <2>3. SaveMetaData(Target[p], [held[p] EXCEPT !.PendingDeletion = now + Delay])
    BY <1>6 DEF ScheduleSave
  <2> HIDE DEF SaveMetaData
  <2>1. RowsStep(p)
    BY <2>2, <2>3
  <2> HIDE DEF TypeInv
  <2> QED BY <2>1
<1>7. CASE ScheduleWakes(p)
  BY <1>7 DEF ScheduleWakes, Found
<1>8. CASE RestoreRead(p)
  BY <1>8 DEF RestoreRead, Found
<1>9. CASE RestoreSave(p)
  <2>2. Target[p] \in Ids /\ [held[p] EXCEPT !.PendingDeletion = 0] \in Row
    BY <1>9, ScenarioFacts DEF RestoreSave, Ids, Row, Times
  <2>3. SaveMetaData(Target[p], [held[p] EXCEPT !.PendingDeletion = 0])
    BY <1>9 DEF RestoreSave
  <2> HIDE DEF SaveMetaData
  <2>1. RowsStep(p)
    BY <2>2, <2>3
  <2> HIDE DEF TypeInv
  <2> QED BY <2>1
<1>10. CASE DeleteUserRead(p)
  BY <1>10 DEF DeleteUserRead, Found
<1>11. CASE DeleteUserRow(p)
  <2>2. PICK f \in run[p].links : SaveMetaData(f, None)
    BY <1>11 DEF DeleteUserRow
  <2>3. f \in Ids
    BY <2>2 DEF Runs
  <2>4. DeleteUserRow(p)
    BY <1>11
  <2> HIDE DEF SaveMetaData, DeleteUserRow
  <2>1. RowsStep(p)
    BY <2>2, <2>3, <2>4
  <2> HIDE DEF TypeInv
  <2> QED BY <2>1
<1>12. CASE DeleteUserEnds(p)
  BY <1>12 DEF DeleteUserEnds, Found
<1> QED BY <1>1, <1>2, <1>3, <1>4, <1>5, <1>6, <1>7, <1>8, <1>9, <1>10, <1>11, <1>12 DEF Delete

LEMMA DownloadRows ==
  ASSUME TypeInv, NEW p \in Procs, Download(p)
  PROVE  RowsStep(p)
<1> USE DEF RowsStep, RowSaved, RowRemoved, TypeInv, Ready, HasRow, Removing, Goto, stored, table
<1>1. CASE DownloadRead(p)
  BY <1>1 DEF DownloadRead, Found
<1>2. CASE DownloadCount(p)
  <2> DEFINE row == [files[Target[p]] EXCEPT !.DownloadsRemaining = @ - 1]
  <2>2. Target[p] \in Ids /\ (UNCHANGED table \/ (row \in Row /\ SaveMetaData(Target[p], row)))
    BY DownloadSaves, <1>2
  <2> HIDE DEF SaveMetaData, row
  <2>1. RowsStep(p)
    BY <2>2
  <2> HIDE DEF TypeInv
  <2> QED BY <2>1
<1>3. CASE OpenSource(p)
  BY <1>3 DEF OpenSource, Found
<1>4. CASE SetDownload(p)
  BY <1>4 DEF SetDownload, Found
<1>5. CASE SetComplete(p)
  BY <1>5 DEF SetComplete, Found
<1> QED BY <1>1, <1>2, <1>3, <1>4, <1>5 DEF Download

LEMMA CleaningRows ==
  ASSUME TypeInv, NEW p \in Procs, Cleaning(p)
  PROVE  RowsStep(p)
<1> USE DEF RowsStep, RowSaved, RowRemoved, TypeInv, Ready, HasRow, Removing, Goto, stored, table
<1>1. CASE CleanUpBegins(p)
  BY <1>1 DEF CleanUpBegins, Found
<1>2. CASE CleanUp(p)
  BY <1>2 DEF CleanUp, Found
<1>3. CASE SkipElement(p)
  BY <1>3 DEF SkipElement, Found
<1>4. CASE CheckElement(p)
  BY <1>4 DEF CheckElement, Found
<1>5. CASE CheckReferenced(p)
  BY <1>5 DEF CheckReferenced, Found
<1>6. CASE RemoveSource(p)
  BY <1>6 DEF RemoveSource, Found
<1>7. CASE RemoveRow(p)
  BY <1>7 DEF RemoveRow, Found
<1>8. CASE LoopEnds(p)
  BY <1>8 DEF LoopEnds, Found
<1>9. CASE CheckHotlink(p)
  BY <1>9 DEF CheckHotlink, Found
<1>10. CASE DeleteHotlink(p)
  BY <1>10 DEF DeleteHotlink, Found
<1>11. CASE CleanUpReturns(p)
  BY <1>11 DEF CleanUpReturns, Found
<1> QED BY <1>1, <1>2, <1>3, <1>4, <1>5, <1>6, <1>7, <1>8, <1>9, <1>10, <1>11 DEF Cleaning

LEMMA StepRows ==
  ASSUME TypeInv, NEW p \in Procs, Step(p)
  PROVE  RowsStep(p)
<1>1. CASE NotFound(p) \/ StatusExpires(p)
  BY <1>1 DEF NotFound, StatusExpires, RowsStep, stored, table
<1> QED BY <1>1, UploadRows, ModifyRows, DeleteRows, DownloadRows, CleaningRows DEF Step

(* A file whose row has been due for removal, or gone, stays so, or is       *)
(* revived by a save.                                                        *)
Gone(f) == Due(files[f]) \/ f \in revived

LEMMA DueLater ==
  ASSUME NEW row \in Row \cup {None}, now \in Nat, now' = now + 1, Due(row)
  PROVE  row = None \/ IsExpiredFile(row, now') \/ row.PendingDeletion \in 1 .. now'
BY DEF Due, IsExpiredFile, Row, Times

LEMMA GoneKept ==
  ASSUME TypeInv, [Next]_vars, NEW f \in Files, Gone(f)
  PROVE  Gone(f)'
<1>1. CASE UNCHANGED vars
  BY <1>1 DEF vars, stored, table, outside, Gone, Due
<1>2. CASE Tick
  <2>1. /\ files[f] \in Row \cup {None} /\ now \in Nat /\ now' = now + 1
        /\ files' = files /\ revived' = revived
    BY <1>2 DEF TypeInv, Tick, Ids, stored, table
  <2> QED BY <2>1, DueLater DEF Gone, Due
<1>3. CASE Crash
  BY <1>3 DEF Crash, stored, table, Gone, Due
<1>4. ASSUME NEW p \in Procs, Step(p) PROVE Gone(f)'
  <2>1. now' = now
    BY <1>4, StepFrame DEF Frame
  <2>2. ASSUME NEW g \in Ids, NEW row \in Row \cup {None}, SaveMetaData(g, row)
        PROVE  Gone(f)'
    <3>1. CASE f = g
      <4>1. files'[f] = row
        BY <2>2, <3>1 DEF SaveMetaData, TypeInv
      <4>2. Due(files[f]) /\ ~Due(row) => f \in revived'
        BY <2>2, <3>1 DEF SaveMetaData
      <4>3. revived \subseteq revived'
        BY <2>2 DEF SaveMetaData
      <4>4. Due(files[f])' <=> Due(row)
        BY <2>1, <4>1 DEF Due
      <4> QED BY <4>2, <4>3, <4>4 DEF Gone
    <3>2. CASE f # g
      <4>1. files'[f] = files[f] /\ revived \subseteq revived'
        BY <2>2, <3>2 DEF SaveMetaData, TypeInv, Ids
      <4> QED BY <2>1, <4>1 DEF Gone, Due
    <3> QED BY <3>1, <3>2
  <2>3. CASE files' = files /\ revived' = revived
    BY <2>1, <2>3 DEF Gone, Due
  <2> QED BY <1>4, <2>2, <2>3, StepRows DEF RowsStep, RowSaved, RowRemoved
<1> QED BY <1>1, <1>2, <1>3, <1>4 DEF Next

-----------------------------------------------------------------------------
(* While nothing is uploaded or duplicated, clean-ups take the source of no  *)
(* file that is neither due for removal nor revived: what they have decided  *)
(* to remove stays due.                                                      *)
DueAt(row, t) == IsExpiredFile(row, t) \/ isPendingToBeDeleted(row, t)
InLoop(p) == pc[p] = "elements" \/ Removing(p)

SourcesKept == \A f \in Files : ~Gone(f) => source[HashOf[f]] = Stored[f].key
RemovesGone(p) ==
    /\ InLoop(p) => \A f \in DOMAIN run[p].rows : DueAt(run[p].rows[f], stamp[p]) => Gone(f)
    /\ Removing(p) => Gone(run[p].element)
    /\ pc[p] = "remove" => \A f \in Files : HashOf[f] = held[p].SHA1 => Gone(f)
RemovalInv == NoNewContent => SourcesKept /\ \A p \in Procs : RemovesGone(p)

LEMMA RemovalKinds ==
  ASSUME scenario \in DOMAIN Scenarios, NoNewContent
  PROVE  /\ NoReplacement /\ Known \subseteq Procs \cup Files
         /\ \A p \in Procs : ~NewFile(p) /\ Kind[p] \notin {"upload", "add", "duplicate", "replace"}
BY ScenarioFacts DEF NoNewContent, Removals, NoReplacement, Known, NewFile

LEMMA RemovalFiles ==
  ASSUME TypeInv, HashInv, NoNewContent, NEW p \in Procs
  PROVE  /\ DOMAIN run[p].rows \subseteq Files
         /\ Removing(p) => run[p].element \in Files /\ held[p].SHA1 = HashOf[run[p].element]
BY RemovalKinds DEF TypeInv, HashInv, HashesHeld, HasHash, HasRow, Owner, Removing

(* Those that are not at work in the loop of CleanUp remove nothing.         *)
LEMMA RemovesOfOthers ==
  ASSUME TypeInv, HashInv, RemovalInv, NoNewContent, [Next]_vars, scenario' = scenario,
         NEW q \in Procs,
         pc'[q] = pc[q], held'[q] = held[q], run'[q] = run[q], stamp'[q] = stamp[q]
  PROVE  RemovesGone(q)'
<1>1. /\ InLoop(q)' <=> InLoop(q)
      /\ Removing(q)' <=> Removing(q)
  BY FixedKept DEF InLoop, Removing
<1>2. \A f \in Files : Gone(f) => Gone(f)'
  BY GoneKept
<1>3. RemovesGone(q)
  BY DEF RemovalInv
<1>4. DOMAIN run[q].rows \subseteq Files /\ (Removing(q) => run[q].element \in Files)
  BY RemovalFiles
<1>5. HashOf' = HashOf
  BY HashesFixed
<1>6. InLoop(q)' => \A f \in DOMAIN run'[q].rows : DueAt(run[q].rows[f], stamp[q])' => Gone(f)'
  BY <1>1, <1>2, <1>3, <1>4 DEF RemovesGone, DueAt, IsExpiredFile, isPendingToBeDeleted,
      IsPendingForDeletion
<1> QED BY <1>1, <1>2, <1>3, <1>4, <1>5, <1>6 DEF RemovesGone

LEMMA UploadOutside ==
  ASSUME TypeInv, StagesKept, NoNewContent, scenario' = scenario, NEW p \in Procs, Upload(p)
  PROVE  source' = source /\ InLoop(p)' = FALSE
<1> USE ScenarioFacts, FixedKept, RemovalKinds DEF TypeInv, StagesKept, Stages, Deleting,
        CleanUpStages,
       Kinds, Goto, InLoop, Removing, NewFile, stored, table
<1>1. CASE createNewMetaData(p)
  BY <1>1 DEF createNewMetaData, Found
<1>2. CASE CheckExists(p)
  BY <1>2 DEF CheckExists, Found
<1>3. CASE CopyEncInfo(p)
  BY <1>3 DEF CopyEncInfo, Found
<1>4. CASE RemoveOldSource(p)
  BY <1>4 DEF RemoveOldSource, Found
<1>5. CASE MoveToFilesystem(p)
  BY <1>5 DEF MoveToFilesystem, Found
<1>6. CASE Kind[p] \in {"upload", "add", "duplicate"} /\ SaveNewFile(p)
  BY <1>6 DEF SaveNewFile, Found
<1> QED BY <1>1, <1>2, <1>3, <1>4, <1>5, <1>6 DEF Upload

LEMMA ModifyOutside ==
  ASSUME TypeInv, StagesKept, NoNewContent, scenario' = scenario, NEW p \in Procs, Modify(p)
  PROVE  source' = source /\ InLoop(p)' = FALSE
<1> USE ScenarioFacts, FixedKept, RemovalKinds DEF TypeInv, StagesKept, Stages, Deleting,
        CleanUpStages,
       Kinds, Goto, InLoop, Removing, NewFile, stored, table
<1>1. CASE DuplicateRead(p)
  BY <1>1 DEF DuplicateRead, Found, AfterReplace
<1>2. CASE DuplicateHotlink(p)
  BY <1>2 DEF DuplicateHotlink, Found, AfterReplace
<1>3. CASE EditRead(p)
  BY <1>3 DEF EditRead, Found, AfterReplace
<1>4. CASE EditHotlink(p)
  BY <1>4 DEF EditHotlink, Found, AfterReplace
<1>5. CASE EditSave(p)
  BY <1>5 DEF EditSave, Found, AfterReplace
<1>6. CASE ReplaceRead(p)
  BY <1>6 DEF ReplaceRead, Found, AfterReplace
<1>7. CASE ReplaceContent(p)
  BY <1>7 DEF ReplaceContent, Found, AfterReplace
<1>8. CASE ReplaceFails(p)
  BY <1>8 DEF ReplaceFails, Found, AfterReplace
<1>9. CASE ReplaceSave(p)
  BY <1>9 DEF ReplaceSave, Found, AfterReplace
<1>10. CASE StillReferenced(p)
  BY <1>10 DEF StillReferenced, Found, AfterReplace
<1>11. CASE DropReplacedSource(p)
  BY <1>11 DEF DropReplacedSource, Found, AfterReplace
<1> QED BY <1>1, <1>2, <1>3, <1>4, <1>5, <1>6, <1>7, <1>8, <1>9, <1>10, <1>11 DEF Modify

LEMMA DeleteOutside ==
  ASSUME TypeInv, StagesKept, NoNewContent, scenario' = scenario, NEW p \in Procs, Delete(p)
  PROVE  source' = source /\ InLoop(p)' = FALSE
<1> USE ScenarioFacts, FixedKept, RemovalKinds DEF TypeInv, StagesKept, Stages, Deleting,
        CleanUpStages,
       Kinds, Goto, InLoop, Removing, NewFile, stored, table
<1>1. CASE DeleteRequest(p)
  BY <1>1 DEF DeleteRequest, Found
<1>2. CASE DeleteRead(p)
  BY <1>2 DEF DeleteRead, Found
<1>3. CASE DeleteSave(p)
  BY <1>3 DEF DeleteSave, Found
<1>4. CASE SetAllComplete(p)
  BY <1>4 DEF SetAllComplete, Found
<1>5. CASE ScheduleRead(p)
  BY <1>5 DEF ScheduleRead, Found
<1>6. CASE ScheduleSave(p)
  BY <1>6 DEF ScheduleSave, Found
<1>7. CASE ScheduleWakes(p)
  BY <1>7 DEF ScheduleWakes, Found
<1>8. CASE RestoreRead(p)
  BY <1>8 DEF RestoreRead, Found
<1>9. CASE RestoreSave(p)
  BY <1>9 DEF RestoreSave, Found
<1>10. CASE DeleteUserRead(p)
  BY <1>10 DEF DeleteUserRead, Found
<1>11. CASE DeleteUserRow(p)
  BY <1>11 DEF DeleteUserRow, Found
<1>12. CASE DeleteUserEnds(p)
  BY <1>12 DEF DeleteUserEnds, Found
<1> QED BY <1>1, <1>2, <1>3, <1>4, <1>5, <1>6, <1>7, <1>8, <1>9, <1>10, <1>11, <1>12 DEF Delete

LEMMA DownloadOutside ==
  ASSUME TypeInv, StagesKept, NoNewContent, scenario' = scenario, NEW p \in Procs, Download(p)
  PROVE  source' = source /\ InLoop(p)' = FALSE
<1> USE ScenarioFacts, FixedKept, RemovalKinds DEF TypeInv, StagesKept, Stages, Deleting,
        CleanUpStages,
       Kinds, Goto, InLoop, Removing, NewFile, stored, table
<1>1. CASE DownloadRead(p)
  BY <1>1 DEF DownloadRead, Found
<1>2. CASE DownloadCount(p)
  BY <1>2 DEF DownloadCount, Found
<1>3. CASE OpenSource(p)
  BY <1>3 DEF OpenSource, Found
<1>4. CASE SetDownload(p)
  BY <1>4 DEF SetDownload, Found
<1>5. CASE SetComplete(p)
  BY <1>5 DEF SetComplete, Found
<1> QED BY <1>1, <1>2, <1>3, <1>4, <1>5 DEF Download

LEMMA CleaningRemoves ==
  ASSUME TypeInv, StagesKept, HashInv, RemovalInv, NoNewContent, [Next]_vars,
         scenario' = scenario, NEW p \in Procs, Cleaning(p)
  PROVE  /\ RemovesGone(p)'
         /\ source' = source \/ (pc[p] = "remove" /\ source' = [source EXCEPT ![held[p].SHA1] = Missing])
<1>1. \A f \in Files : Gone(f) => Gone(f)'
  BY GoneKept
<1>2. RemovesGone(p) /\ SourcesKept
  BY DEF RemovalInv
<1>3. /\ DOMAIN run[p].rows \subseteq Files
      /\ Removing(p) => run[p].element \in Files /\ held[p].SHA1 = HashOf[run[p].element]
  BY RemovalFiles
<1>4. HashOf' = HashOf /\ Kind' = Kind
  BY FixedKept, HashesFixed
<1>5. pc \in [Procs -> PCs] /\ run \in [Procs -> Runs] /\ held \in [Procs -> Row \cup {None}]
      /\ stamp \in [Procs -> Times]
  BY DEF TypeInv
<1>6. ASSUME ~InLoop(p)' PROVE RemovesGone(p)'
  BY <1>6 DEF RemovesGone, InLoop, Removing
<1>7. ASSUME NEW rows, DOMAIN rows \subseteq DOMAIN run[p].rows,
             \A f \in DOMAIN rows : rows[f] = run[p].rows[f],
             run'[p].rows = rows, stamp'[p] = stamp[p], InLoop(p)
      PROVE  \A f \in DOMAIN run'[p].rows : DueAt(run[p].rows[f], stamp[p])' => Gone(f)'
  BY <1>1, <1>2, <1>3, <1>7
     DEF RemovesGone, DueAt, IsExpiredFile, isPendingToBeDeleted, IsPendingForDeletion
<1>8. CASE CleanUpBegins(p) \/ LoopEnds(p) \/ CheckHotlink(p) \/ DeleteHotlink(p) \/ CleanUpReturns(p)
  <2>1. source' = source /\ pc'[p] \in {"clean", "links", "dropLink", "start", "done"}
    BY <1>5, <1>8 DEF CleanUpBegins, LoopEnds, CheckHotlink, DeleteHotlink, CleanUpReturns, Goto,
                      stored, table
  <2> QED BY <1>6, <2>1 DEF InLoop, Removing
<1>9. CASE CleanUp(p)
  <2>1. /\ source' = source /\ files' = files /\ pc'[p] = "elements"
        /\ run'[p].rows = GetAllMetadata /\ stamp'[p] = now
    BY <1>5, <1>9 DEF CleanUp, Goto, stored, table, Runs
  <2>2. GetAllMetadata \in RowMaps
    BY TableMaps
  <2>3. ASSUME NEW f \in DOMAIN GetAllMetadata, DueAt(files[f], now)
        PROVE  Gone(f)'
    <3>1. f \in Files /\ files[f] \in Row
      <4>1. f \in Ids /\ files[f] # None
        BY DEF GetAllMetadata
      <4>2. HasHash(files[f], f)
        BY <4>1, RemovalKinds DEF HashInv, HashesStored, TypeInv
      <4> QED BY <4>1, <4>2 DEF HasHash, TypeInv
    <3>2. now \in Nat /\ files[f].PendingDeletion \in Nat
      BY <3>1, ScenarioFacts DEF TypeInv, Row, Times
    <3>3. Due(files[f])
      BY <2>3, <3>2 DEF DueAt, Due, isPendingToBeDeleted, IsPendingForDeletion
    <3> QED BY <1>1, <3>1, <3>3 DEF Gone
  <2>4. \A f \in DOMAIN GetAllMetadata : GetAllMetadata[f] = files[f]
    BY DEF GetAllMetadata
  <2>5. ASSUME NEW f \in DOMAIN run'[p].rows, DueAt(run[p].rows[f], stamp[p])'
        PROVE  Gone(f)'
    <3>1. DueAt(files[f], now)
      BY <2>1, <2>4, <2>5 DEF DueAt, IsExpiredFile, isPendingToBeDeleted, IsPendingForDeletion
    <3> QED BY <2>1, <2>3, <2>5, <3>1
  <2> QED BY <2>1, <2>5 DEF RemovesGone, Removing
<1>10. CASE SkipElement(p)
  <2>1. PICK f \in DOMAIN run[p].rows : run' = [run EXCEPT ![p].rows = Without(@, f)]
    BY <1>10 DEF SkipElement
  <2>2. run'[p].rows = Without(run[p].rows, f)
    BY <1>5, <2>1 DEF Runs
  <2>3. source' = source /\ pc[p] = "elements" /\ pc'[p] = "elements" /\ stamp'[p] = stamp[p]
    BY <1>5, <1>10 DEF SkipElement, Goto, stored, table
  <2>4. /\ DOMAIN Without(run[p].rows, f) \subseteq DOMAIN run[p].rows
        /\ \A g \in DOMAIN Without(run[p].rows, f) : Without(run[p].rows, f)[g] = run[p].rows[g]
    BY DEF Without
  <2>5. \A g \in DOMAIN run'[p].rows : DueAt(run[p].rows[g], stamp[p])' => Gone(g)'
    BY <1>7, <2>2, <2>3, <2>4 DEF InLoop
  <2> QED BY <2>3, <2>5 DEF RemovesGone, Removing
<1>11. CASE CheckElement(p)
  <2>1. PICK f \in DOMAIN run[p].rows :
          /\ Removable(f, run[p].rows[f], stamp[p])
          /\ run' = [run EXCEPT ![p].rows = Without(@, f), ![p].element = f]
    BY <1>11 DEF CheckElement
  <2>2. run'[p].rows = Without(run[p].rows, f) /\ run'[p].element = f
    BY <1>5, <2>1 DEF Runs
  <2>3. /\ source' = source /\ pc[p] = "elements" /\ stamp'[p] = stamp[p]
        /\ pc'[p] \in {"referenced", "dropRow"}
    BY <1>5, <1>11 DEF CheckElement, Goto, stored, table
  <2>4. /\ DOMAIN Without(run[p].rows, f) \subseteq DOMAIN run[p].rows
        /\ \A g \in DOMAIN Without(run[p].rows, f) : Without(run[p].rows, f)[g] = run[p].rows[g]
    BY DEF Without
  <2>5. \A g \in DOMAIN run'[p].rows : DueAt(run[p].rows[g], stamp[p])' => Gone(g)'
    BY <1>7, <2>2, <2>3, <2>4 DEF InLoop
  <2>6. Gone(f)
    <3>1. CASE source[run[p].rows[f].SHA1] = Missing
      <4>1. HasHash(run[p].rows[f], f)
        BY RemovalKinds DEF HashInv, HashesHeld, TypeInv
      <4>2. f \in Files /\ source[HashOf[f]] = Missing
        BY <3>1, <4>1 DEF HasHash
      <4>3. Stored[f].key # Missing
        <5>1. f \in Files /\ f \in Known
          BY <4>1, <4>2 DEF HasHash
        <5>2. Stored[f] # None
          BY <5>1, ScenariosAssumption DEF Known
        <5>3. Stored[f] \in Row
          BY <5>1, <5>2, ScenarioFacts DEF TypeInv
        <5> QED BY <5>3, ScenariosAssumption DEF Row, Ids
      <4> QED BY <1>2, <4>2, <4>3 DEF SourcesKept
    <3>2. CASE source[run[p].rows[f].SHA1] # Missing
      <4>1. DueAt(run[p].rows[f], stamp[p])
        BY <2>1, <3>2 DEF Removable, FileExists, DueAt
      <4> QED BY <1>2, <2>3, <4>1 DEF RemovesGone, InLoop
    <3> QED BY <3>1, <3>2
  <2> QED BY <1>1, <1>3, <2>2, <2>3, <2>5, <2>6 DEF RemovesGone
<1>12. CASE CheckReferenced(p)
  <2>1. /\ source' = source /\ pc[p] = "referenced" /\ stamp'[p] = stamp[p]
        /\ run'[p] = run[p] /\ held'[p] = held[p] /\ pc'[p] \in {"remove", "dropRow"}
    BY <1>5, <1>12 DEF CheckReferenced, Goto, stored, table, local
  <2>2. \A g \in DOMAIN run'[p].rows : DueAt(run[p].rows[g], stamp[p])' => Gone(g)'
    BY <1>7, <2>1 DEF InLoop, Removing
  <2>3. ASSUME pc'[p] = "remove", NEW f \in Files, HashOf[f] = held[p].SHA1
        PROVE  Gone(f)
    <3>1. CASE f = run[p].element
      BY <1>2, <2>1, <3>1 DEF RemovesGone, Removing
    <3>2. CASE f # run[p].element
      <4>1. f \in Ids /\ (files[f] = None \/ files[f].SHA1 # held[p].SHA1)
        BY <1>5, <1>12, <2>3, <3>2 DEF CheckReferenced, Goto, Ids
      <4>2. files[f] = None
        BY <2>3, <4>1, RemovalKinds DEF HashInv, HashesStored, HasHash, TypeInv
      <4> QED BY <4>2 DEF Gone, Due
    <3> QED BY <3>1, <3>2
  <2>4. Gone(run[p].element) /\ run[p].element \in Files
    BY <1>2, <1>3, <2>1 DEF RemovesGone, Removing
  <2> QED BY <1>1, <1>4, <2>1, <2>2, <2>3, <2>4 DEF RemovesGone
<1>13. CASE RemoveSource(p)
  <2>1. /\ source' = [source EXCEPT ![held[p].SHA1] = Missing] /\ pc[p] = "remove"
        /\ stamp'[p] = stamp[p] /\ run'[p] = run[p] /\ held'[p] = held[p] /\ pc'[p] = "dropRow"
    BY <1>5, <1>13 DEF RemoveSource, deleteSource, Goto, local
  <2>2. \A g \in DOMAIN run'[p].rows : DueAt(run[p].rows[g], stamp[p])' => Gone(g)'
    BY <1>7, <2>1 DEF InLoop, Removing
  <2>3. Gone(run[p].element) /\ run[p].element \in Files
    BY <1>2, <1>3, <2>1 DEF RemovesGone, Removing
  <2> QED BY <1>1, <2>1, <2>2, <2>3 DEF RemovesGone
<1>14. CASE RemoveRow(p)
  <2>1. /\ source' = source /\ pc[p] = "dropRow" /\ Kind[p] # "deleteUser" /\ pc'[p] = "elements"
        /\ stamp'[p] = stamp[p] /\ run'[p].rows = run[p].rows
    BY <1>5, <1>14 DEF RemoveRow, Goto, Runs
  <2>2. \A g \in DOMAIN run'[p].rows : DueAt(run[p].rows[g], stamp[p])' => Gone(g)'
    BY <1>7, <2>1 DEF InLoop, Removing
  <2> QED BY <2>1, <2>2 DEF RemovesGone, Removing
<1> QED BY <1>8, <1>9, <1>10, <1>11, <1>12, <1>13, <1>14 DEF Cleaning

LEMMA RemovalStep ==
  ASSUME TypeInv, StagesKept, HashInv, RemovalInv, NoNewContent, [Next]_vars,
         scenario' = scenario, NEW p \in Procs, Step(p)
  PROVE  /\ RemovesGone(p)'
         /\ source' = source \/ (pc[p] = "remove" /\ source' = [source EXCEPT ![held[p].SHA1] = Missing])
<1>1. CASE NotFound(p) \/ StatusExpires(p)
  <2>1. /\ source' = source /\ held'[p] = held[p] /\ run'[p] = run[p] /\ stamp'[p] = stamp[p]
        /\ pc'[p] = pc[p] \/ pc'[p] = "failed"
    BY <1>1 DEF NotFound, StatusExpires, Goto, TypeInv, stored, local
  <2>2. CASE pc'[p] = pc[p]
    BY <2>1, <2>2, RemovesOfOthers
  <2>3. CASE pc'[p] = "failed"
    BY <2>1, <2>3 DEF RemovesGone, InLoop, Removing
  <2> QED BY <2>1, <2>2, <2>3
<1>2. CASE Upload(p) \/ Modify(p) \/ Delete(p) \/ Download(p)
  <2>1. source' = source /\ ~InLoop(p)'
    BY <1>2, UploadOutside, ModifyOutside, DeleteOutside, DownloadOutside
  <2> QED BY <2>1 DEF RemovesGone, InLoop, Removing
<1>3. CASE Cleaning(p)
  BY <1>3, CleaningRemoves
<1> QED BY <1>1, <1>2, <1>3 DEF Step

LEMMA RemovalNext ==
  TypeInv /\ StagesKept /\ HashInv /\ RemovalInv /\ [Next]_vars => RemovalInv'
<1> SUFFICES ASSUME TypeInv, StagesKept, HashInv, RemovalInv, [Next]_vars, NoNewContent'
             PROVE  SourcesKept' /\ \A p \in Procs : RemovesGone(p)'
  BY DEF RemovalInv
<1>1. scenario' = scenario
  BY DEF Next, vars
<1>2. NoNewContent /\ HashOf' = HashOf /\ Stored' = Stored
  BY <1>1, FixedKept, HashesFixed
<1>3. \A f \in Files : Gone(f) => Gone(f)'
  BY GoneKept
<1>4. ASSUME source' = source PROVE SourcesKept'
  BY <1>2, <1>3, <1>4 DEF RemovalInv, SourcesKept
<1>5. CASE UNCHANGED vars \/ Tick
  <2>1. /\ source' = source
        /\ \A q \in Procs : /\ pc'[q] = pc[q] /\ held'[q] = held[q]
                            /\ run'[q] = run[q] /\ stamp'[q] = stamp[q]
    BY <1>5 DEF vars, Tick, stored, local
  <2> QED BY <1>1, <1>2, <1>4, <2>1, RemovesOfOthers
<1>6. CASE Crash
  <2>1. source' = source /\ \A q \in Procs : pc'[q] \in {"start", "done"}
    BY <1>6 DEF Crash, stored
  <2> QED BY <1>4, <2>1 DEF RemovesGone, InLoop, Removing
<1>7. ASSUME NEW p \in Procs, Step(p)
      PROVE  SourcesKept' /\ \A q \in Procs : RemovesGone(q)'
  <2>1. \A q \in Procs \ {p} : RemovesGone(q)'
    BY <1>1, <1>2, <1>7, StepFrame, RemovesOfOthers DEF Frame
  <2>2. /\ RemovesGone(p)'
        /\ source' = source \/ (pc[p] = "remove" /\ source' = [source EXCEPT ![held[p].SHA1] = Missing])
    BY <1>1, <1>2, <1>7, RemovalStep
  <2>3. SourcesKept'
    <3>1. CASE source' = source
      BY <1>4, <3>1
    <3>2. CASE pc[p] = "remove" /\ source' = [source EXCEPT ![held[p].SHA1] = Missing]
      <4>1. ASSUME NEW f \in Files, ~Gone(f)' PROVE source'[HashOf[f]] = Stored[f].key
        <5>1. ~Gone(f)
          BY <1>3, <4>1
        <5>2. source[HashOf[f]] = Stored[f].key /\ HashOf[f] # held[p].SHA1
          BY <1>2, <3>2, <5>1 DEF RemovalInv, SourcesKept, RemovesGone
        <5> QED BY <3>2, <5>2 DEF TypeInv
      <4> QED BY <1>2, <4>1 DEF SourcesKept
    <3> QED BY <2>2, <3>1, <3>2
  <2> QED BY <2>1, <2>2, <2>3
<1> QED BY <1>5, <1>6, <1>7 DEF Next

LEMMA InitSources ==
  ASSUME Init, NEW f \in Files, Stored[f] # None
  PROVE  source[Stored[f].SHA1] = Stored[f].key
<1> DEFINE present == {files[g] : g \in {e \in Ids : files[e] # None}}
           keys(h) == {row.key : row \in {r \in present : r.SHA1 = h}}
           h == Stored[f].SHA1
<1>1. f \in Ids /\ files[f] = Stored[f] /\ files[f] # None /\ h \in Hashes
  <2>1. Stored[f] \in Row
    BY ScenarioFacts DEF Init
  <2> QED BY <2>1 DEF Init, Ids, Row
<1>2. ASSUME NEW row \in present, row.SHA1 = h PROVE row.key = Stored[f].key
  <2>1. PICK g \in Ids : files[g] # None /\ row = files[g]
    OBVIOUS
  <2>2. g \in Files /\ row = Stored[g] /\ Stored[g] # None
    BY <2>1 DEF Init
  <2> QED BY <1>1, <1>2, <2>2, ScenarioFacts DEF SourceShared, Init
<1>3. keys(h) = {Stored[f].key}
  <2>1. files[f] \in present /\ files[f].SHA1 = h
    BY <1>1
  <2> QED BY <1>1, <1>2, <2>1
<1>4. source[h] = IF keys(h) = {} THEN Missing ELSE CHOOSE key \in keys(h) : TRUE
  BY <1>1 DEF Init
<1> HIDE DEF keys, h
<1>5. (CHOOSE key \in keys(h) : TRUE) \in keys(h)
  BY <1>3
<1>6. source[h] = Stored[f].key
  BY <1>3, <1>4, <1>5
<1> QED BY <1>6 DEF h

LEMMA InitRemoval == Init => RemovalInv
<1> SUFFICES ASSUME Init, NoNewContent PROVE SourcesKept /\ \A p \in Procs : RemovesGone(p)
  BY DEF RemovalInv
<1>1. \A p \in Procs : RemovesGone(p)
  BY DEF Init, RemovesGone, InLoop, Removing
<1>2. ASSUME NEW f \in Files, ~Gone(f) PROVE source[HashOf[f]] = Stored[f].key
  <2>1. Stored[f] # None /\ HashOf[f] = Stored[f].SHA1
    BY <1>2 DEF Init, Ids, Gone, Due, HashOf
  <2> QED BY <2>1, InitSources
<1> QED BY <1>1, <1>2 DEF SourcesKept

Inv == TypeInv /\ StagesKept /\ HashInv /\ RemovalInv

LEMMA SpecInv == Spec => []Inv
<1>1. Init => Inv
  BY InitTypeInv, InitStages, InitHashes, InitRemoval DEF Inv
<1>2. Inv /\ [Next]_vars => Inv'
  BY NextTypes, StagesInv, HashesNext, RemovalNext DEF Inv
<1> QED BY <1>1, <1>2, PTL DEF Spec

LEMMA LiveFiles == Inv /\ NoNewContent => LiveFilesStored
<1> SUFFICES ASSUME Inv, NoNewContent, NEW f \in Ids \ revived, ~Due(files[f])
             PROVE  source[files[f].SHA1] = files[f].key
  BY DEF LiveFilesStored
<1>1. files[f] # None /\ ~Gone(f)
  BY DEF Due, Gone
<1>2. HasHash(files[f], f)
  BY <1>1, RemovalKinds DEF Inv, TypeInv, HashInv, HashesStored
<1>3. f \in Files /\ source[HashOf[f]] = Stored[f].key
  BY <1>1, <1>2 DEF Inv, RemovalInv, SourcesKept, HasHash
<1> QED BY <1>2, <1>3 DEF HasHash

(* However many requests delete, schedule, restore, edit or download files,  *)
(* and however many clean-ups run at once, with crashes in between: a file   *)
(* that is not due for removal has its content, under the key of its row,    *)
(* although files share it.  storage_upload_race shows that an upload of the *)
(* same content can break it.                                                *)
THEOREM LiveSources == Spec => [](NoNewContent => LiveFilesStored)
BY SpecInv, LiveFiles, PTL

(* Only the deletion of a user and CleanUp make a row disappear.             *)
LEMMA OnlyRemoved ==
  ASSUME TypeInv, NEW p \in Procs, Step(p), NEW f \in Ids, files[f] # None, files'[f] = None
  PROVE  DeleteUserRow(p) \/ (RemoveRow(p) /\ run[p].element = f)
<1>1. ~RowSaved
  BY ScenariosAssumption DEF RowSaved, SaveMetaData, TypeInv
<1>2. RowRemoved(p)
  BY <1>1, StepRows DEF RowsStep
<1> QED BY <1>2 DEF RowRemoved, SaveMetaData, TypeInv

(* In the same cases a clean-up takes the row of no file that can be served: *)
(* what it decided to remove has not become available meanwhile.             *)
THEOREM ServedRows == Spec /\ NoNewContent => AvailableRowsKept
<1>1. NoNewContent /\ [Next]_vars => NoNewContent'
  BY FixedKept, HashesFixed DEF Next, vars
<1>2. ASSUME Inv, NoNewContent, [Next]_vars, NEW f \in Ids \ revived, GetFile(f),
             files'[f] = None
      PROVE  \E p \in Procs : Kind[p] = "deleteUser" /\ pc[p] = "dropRow"
  <2>1. files[f] # None /\ ~Gone(f)
    BY <1>2 DEF GetFile, Gone, Due, IsPendingForDeletion
  <2>2. f \in Files
    BY <1>2, <2>1, RemovalKinds DEF Inv, TypeInv, HashInv, HashesStored, HasHash
  <2>3. PICK p \in Procs : Step(p)
    <3>1. CASE UNCHANGED vars \/ Tick \/ Crash
      BY <1>2, <2>1, <3>1 DEF vars, Tick, Crash, stored, table
    <3> QED BY <1>2, <3>1 DEF Next
  <2>4. DeleteUserRow(p) \/ (RemoveRow(p) /\ run[p].element = f)
    BY <1>2, <2>1, <2>2, <2>3, OnlyRemoved DEF Inv
  <2>5. CASE DeleteUserRow(p)
    BY <2>5 DEF DeleteUserRow
  <2>6. CASE RemoveRow(p) /\ run[p].element = f
    <3>1. Removing(p)
      BY <2>6 DEF RemoveRow, Removing, Goto
    <3> QED BY <1>2, <2>1, <2>6, <3>1 DEF Inv, RemovalInv, RemovesGone
  <2> QED BY <2>4, <2>5, <2>6
<1>3. Inv /\ NoNewContent /\ [Next]_vars =>
        [\A f \in Ids \ revived : GetFile(f) /\ files'[f] = None =>
            \/ \E p \in Procs : Kind[p] = "deleteUser" /\ pc[p] = "dropRow"
            \/ ReplacedSince(f)]_vars
  BY <1>2
<1> QED BY <1>1, <1>3, SpecInv, PTL DEF Spec, AvailableRowsKept

-----------------------------------------------------------------------------
(* A file that no request is about keeps its row and its source until it     *)
(* expires, whatever is uploaded, replaced, deleted and cleaned up meanwhile,*)
(* with the same content or another.                                         *)
Untouched(f) ==
    /\ Stored[f] # None /\ Stored[f].DownloadsRemaining >= 1 /\ Stored[f].PendingDeletion = 0
    /\ \A p \in Procs :
         /\ Target[p] = f =>
                Kind[p] \in {"upload", "add", "duplicate", "deleteUser", "cleaner", "absent"}
         /\ Kind[p] = "deleteUser" => f \notin Owned
         /\ Kind[p] = "replace" => f # Replacement

Kept(f) == files[f] = Stored[f] /\ source[Stored[f].SHA1] = Stored[f].key
Spares(p, f) ==
    /\ pc[p] = "hashed" => held[p].SHA1 = Content
    /\ pc[p] \in {"move", "removeOld"} => Stored[f].SHA1 # Content
    /\ pc[p] \in {"dropSource", "remove"} => Stored[f].SHA1 # held[p].SHA1
    /\ InLoop(p) => stamp[p] <= now /\ (f \in DOMAIN run[p].rows => run[p].rows[f] = Stored[f])
    /\ Removing(p) => run[p].element # f
    /\ Kind[p] = "deleteUser" => f \notin run[p].links
Available(f) == Untouched(f) /\ now <= Stored[f].ExpireAt
UntouchedInv == \A f \in Files : Available(f) => Kept(f) /\ \A p \in Procs : Spares(p, f)

LEMMA UntouchedRow ==
  ASSUME scenario \in DOMAIN Scenarios, NEW f \in Files, Untouched(f)
  PROVE  Stored[f] \in Row /\ Stored[f].SHA1 \in Hashes /\ Stored[f].key # Missing
         /\ Stored[f].ExpireAt \in Nat /\ Stored[f].DownloadsRemaining \in Nat
<1>1. Stored[f] \in Row
  BY ScenarioFacts DEF Untouched
<1> QED BY <1>1, ScenariosAssumption DEF Row, Times, Ids

LEMMA UntouchedFixed ==
  ASSUME scenario' = scenario
  PROVE  \A f : Untouched(f)' <=> Untouched(f)
BY FixedKept DEF Untouched

LEMMA UploadSpares ==
  ASSUME TypeInv, TypeInv', StagesKept, scenario' = scenario, NEW f \in Files, Untouched(f),
         now <= Stored[f].ExpireAt, Kept(f), \A q \in Procs : Spares(q, f), NEW p \in Procs, Upload(p)
  PROVE  Kept(f)' /\ Spares(p, f)'
<1> USE ScenarioFacts, FixedKept, ScenariosAssumption, UntouchedRow
       DEF TypeInv, Ready, HasRow, Removing, InLoop, StagesKept, Stages, Deleting, CleanUpStages,
           Kinds,
       Goto, Hold, Ids, stored, table, outside, local, SaveMetaData, deleteSource, Untouched, Kept, Spares
<1>1. CASE createNewMetaData(p)
  BY <1>1 DEF createNewMetaData, Found, NewRow, FileExists, GetAllMetadata
<1>2. CASE CheckExists(p)
  BY <1>2 DEF CheckExists, Found, NewRow, FileExists, GetAllMetadata
<1>3. CASE CopyEncInfo(p)
  BY <1>3 DEF CopyEncInfo, Found, NewRow, FileExists, GetAllMetadata
<1>4. CASE RemoveOldSource(p)
  BY <1>4 DEF RemoveOldSource, Found, NewRow, FileExists, GetAllMetadata
<1>5. CASE MoveToFilesystem(p)
  BY <1>5 DEF MoveToFilesystem, Found, NewRow, FileExists, GetAllMetadata
<1>6. CASE Kind[p] \in {"upload", "add", "duplicate"} /\ SaveNewFile(p)
  BY <1>6 DEF SaveNewFile, Found, NewRow, FileExists, GetAllMetadata
<1> QED BY <1>1, <1>2, <1>3, <1>4, <1>5, <1>6 DEF Upload

LEMMA ModifySpares ==
  ASSUME TypeInv, TypeInv', StagesKept, scenario' = scenario, NEW f \in Files, Untouched(f),
         now <= Stored[f].ExpireAt, Kept(f), \A q \in Procs : Spares(q, f), NEW p \in Procs, Modify(p)
  PROVE  Kept(f)' /\ Spares(p, f)'
<1> USE ScenarioFacts, FixedKept, ScenariosAssumption, UntouchedRow
       DEF TypeInv, Ready, HasRow, Removing, InLoop, StagesKept, Stages, Deleting, CleanUpStages,
           Kinds,
       Goto, Hold, Ids, stored, table, outside, local, SaveMetaData, deleteSource, Untouched, Kept, Spares
<1>1. CASE DuplicateRead(p)
  BY <1>1 DEF DuplicateRead, Found, AfterReplace
<1>2. CASE DuplicateHotlink(p)
  BY <1>2 DEF DuplicateHotlink, Found, AfterReplace
<1>3. CASE EditRead(p)
  BY <1>3 DEF EditRead, Found, AfterReplace
<1>4. CASE EditHotlink(p)
  BY <1>4 DEF EditHotlink, Found, AfterReplace
<1>5. CASE EditSave(p)
  BY <1>5 DEF EditSave, Found, AfterReplace
<1>6. CASE ReplaceRead(p)
  BY <1>6 DEF ReplaceRead, Found, AfterReplace
<1>7. CASE ReplaceContent(p)
  BY <1>7 DEF ReplaceContent, Found, AfterReplace
<1>8. CASE ReplaceFails(p)
  BY <1>8 DEF ReplaceFails, Found, AfterReplace
<1>9. CASE ReplaceSave(p)
  BY <1>9 DEF ReplaceSave, Found, AfterReplace
<1>10. CASE StillReferenced(p)
  <2>3. /\ files' = files /\ source' = source /\ run' = run /\ held' = held
        /\ pc'[p] \in {"done", "delete", "dropSource"} /\ Kind[p] # "deleteUser"
    BY <1>10 DEF StillReferenced, AfterReplace
  <2>4. pc'[p] = "dropSource" => files[f].SHA1 # held[p].SHA1
    <3>1. files[f] # None /\ f \in Ids
      OBVIOUS
    <3> QED BY <1>10, <3>1 DEF StillReferenced, AfterReplace, GetAllMetadata
  <2>1. Kept(f)'
    BY <2>3
  <2>2. Spares(p, f)'
    BY <2>3, <2>4
  <2> HIDE DEF Kept, Spares
  <2> QED BY <2>1, <2>2
<1>11. CASE DropReplacedSource(p)
  BY <1>11 DEF DropReplacedSource, Found, AfterReplace
<1> QED BY <1>1, <1>2, <1>3, <1>4, <1>5, <1>6, <1>7, <1>8, <1>9, <1>10, <1>11 DEF Modify

LEMMA DeleteSpares ==
  ASSUME TypeInv, TypeInv', StagesKept, scenario' = scenario, NEW f \in Files, Untouched(f),
         now <= Stored[f].ExpireAt, Kept(f), \A q \in Procs : Spares(q, f), NEW p \in Procs, Delete(p)
  PROVE  Kept(f)' /\ Spares(p, f)'
<1> USE ScenarioFacts, FixedKept, ScenariosAssumption, UntouchedRow
       DEF TypeInv, Ready, HasRow, Removing, InLoop, StagesKept, Stages, Deleting, CleanUpStages,
           Kinds,
       Goto, Hold, Ids, stored, table, outside, local, SaveMetaData, deleteSource, Untouched, Kept, Spares
<1>1. CASE DeleteRequest(p)
  BY <1>1 DEF DeleteRequest, Found
<1>2. CASE DeleteRead(p)
  BY <1>2 DEF DeleteRead, Found
<1>3. CASE DeleteSave(p)
  <2>3. /\ Deleted(p) # f /\ files' = [files EXCEPT ![Deleted(p)] = [held[p] EXCEPT !.ExpireAt = 0]]
        /\ source' = source /\ run' = run /\ pc'[p] = "complete"
    BY <1>3 DEF DeleteSave, Deleted
  <2>1. Kept(f)'
    BY <2>3
  <2>2. Spares(p, f)'
    BY <2>3
  <2> HIDE DEF Kept, Spares
  <2> QED BY <2>1, <2>2
<1>4. CASE SetAllComplete(p)
  BY <1>4 DEF SetAllComplete, Found
<1>5. CASE ScheduleRead(p)
  BY <1>5 DEF ScheduleRead, Found
<1>6. CASE ScheduleSave(p)
  BY <1>6 DEF ScheduleSave, Found
<1>7. CASE ScheduleWakes(p)
  BY <1>7 DEF ScheduleWakes, Found
<1>8. CASE RestoreRead(p)
  BY <1>8 DEF RestoreRead, Found
<1>9. CASE RestoreSave(p)
  BY <1>9 DEF RestoreSave, Found
<1>10. CASE DeleteUserRead(p)
  BY <1>10 DEF DeleteUserRead, Found
<1>11. CASE DeleteUserRow(p)
  BY <1>11 DEF DeleteUserRow, Found
<1>12. CASE DeleteUserEnds(p)
  BY <1>12 DEF DeleteUserEnds, Found
<1> QED BY <1>1, <1>2, <1>3, <1>4, <1>5, <1>6, <1>7, <1>8, <1>9, <1>10, <1>11, <1>12 DEF Delete

LEMMA DownloadSpares ==
  ASSUME TypeInv, TypeInv', StagesKept, scenario' = scenario, NEW f \in Files, Untouched(f),
         now <= Stored[f].ExpireAt, Kept(f), \A q \in Procs : Spares(q, f), NEW p \in Procs, Download(p)
  PROVE  Kept(f)' /\ Spares(p, f)'
<1> USE ScenarioFacts, FixedKept, ScenariosAssumption, UntouchedRow
       DEF TypeInv, Ready, HasRow, Removing, InLoop, StagesKept, Stages, Deleting, CleanUpStages,
           Kinds,
       Goto, Hold, Ids, stored, table, outside, local, SaveMetaData, deleteSource, Untouched, Kept, Spares
<1>1. CASE DownloadRead(p)
  BY <1>1 DEF DownloadRead, Found
<1>2. CASE DownloadCount(p)
  BY <1>2 DEF DownloadCount, Found
<1>3. CASE OpenSource(p)
  BY <1>3 DEF OpenSource, Found
<1>4. CASE SetDownload(p)
  BY <1>4 DEF SetDownload, Found
<1>5. CASE SetComplete(p)
  BY <1>5 DEF SetComplete, Found
<1> QED BY <1>1, <1>2, <1>3, <1>4, <1>5 DEF Download

LEMMA CleaningSpares ==
  ASSUME TypeInv, TypeInv', StagesKept, scenario' = scenario, NEW f \in Files, Untouched(f),
         now <= Stored[f].ExpireAt, Kept(f), \A q \in Procs : Spares(q, f), NEW p \in Procs, Cleaning(p)
  PROVE  Kept(f)' /\ Spares(p, f)'
<1> USE ScenarioFacts, FixedKept, ScenariosAssumption, UntouchedRow
       DEF TypeInv, Ready, HasRow, Removing, InLoop, StagesKept, Stages, Deleting, CleanUpStages,
           Kinds,
       Goto, Hold, Ids, stored, table, outside, local, SaveMetaData, deleteSource, Untouched, Kept, Spares
<1>1. CASE CleanUpBegins(p)
  BY <1>1 DEF CleanUpBegins, Found
<1>2. CASE CleanUp(p)
  <2>3. /\ files' = files /\ source' = source /\ stamp'[p] = now /\ now' = now /\ pc'[p] = "elements"
        /\ run'[p].rows = GetAllMetadata /\ Kind[p] # "deleteUser"
    BY <1>2 DEF CleanUp, Runs
  <2>4. f \in DOMAIN run'[p].rows => run'[p].rows[f] = Stored[f]
    BY <2>3 DEF GetAllMetadata
  <2>5. now \in Nat
    BY ScenarioFacts
  <2>1. Kept(f)'
    BY <2>3
  <2>2. Spares(p, f)'
    BY <2>3, <2>4, <2>5
  <2> HIDE DEF Kept, Spares
  <2> QED BY <2>1, <2>2
<1>3. CASE SkipElement(p)
  <2>4. PICK e \in DOMAIN run[p].rows : run' = [run EXCEPT ![p].rows = Without(@, e)]
    BY <1>3 DEF SkipElement
  <2>3. /\ files' = files /\ source' = source /\ stamp' = stamp /\ now' = now
        /\ pc[p] = "elements" /\ pc'[p] = "elements"
        /\ run'[p].rows = Without(run[p].rows, e) /\ Kind[p] # "deleteUser"
    BY <1>3, <2>4, SMTT(30) DEF SkipElement, Runs
  <2>5. f \in DOMAIN run'[p].rows => run'[p].rows[f] = Stored[f]
    BY <2>3 DEF Without
  <2>1. Kept(f)'
    BY <2>3
  <2>2. Spares(p, f)'
    BY <2>3, <2>5
  <2> HIDE DEF Kept, Spares
  <2> QED BY <2>1, <2>2
<1>4. CASE CheckElement(p)
  <2>4. PICK e \in DOMAIN run[p].rows :
          /\ Removable(e, run[p].rows[e], stamp[p])
          /\ run' = [run EXCEPT ![p].rows = Without(@, e), ![p].element = e]
    BY <1>4 DEF CheckElement
  <2>3. /\ files' = files /\ source' = source /\ stamp' = stamp /\ now' = now
        /\ pc[p] = "elements" /\ pc'[p] \in {"referenced", "dropRow"}
        /\ run'[p].rows = Without(run[p].rows, e) /\ run'[p].element = e /\ Kind[p] # "deleteUser"
    BY <1>4, <2>4, SMTT(30) DEF CheckElement, Runs
  <2>5. f \in DOMAIN run'[p].rows => run'[p].rows[f] = Stored[f]
    BY <2>3 DEF Without
  <2>6. ASSUME e = f PROVE FALSE
    <3>1. run[p].rows[f] = Stored[f] /\ stamp[p] <= now
      BY <2>3, <2>4, <2>6
    <3>2. stamp[p] \in Nat /\ now \in Nat
      BY ScenarioFacts DEF Times
    <3>3. ~IsExpiredFile(Stored[f], stamp[p])
      BY <3>1, <3>2, UntouchedRow DEF IsExpiredFile
    <3>4. ~isPendingToBeDeleted(Stored[f], stamp[p]) /\ FileExists(Stored[f])
      BY UntouchedRow DEF isPendingToBeDeleted, IsPendingForDeletion, FileExists
    <3> QED BY <2>4, <2>6, <3>1, <3>3, <3>4 DEF Removable
  <2>1. Kept(f)'
    BY <2>3
  <2>2. Spares(p, f)'
    BY <2>3, <2>5, <2>6
  <2> HIDE DEF Kept, Spares
  <2> QED BY <2>1, <2>2
<1>5. CASE CheckReferenced(p)
  BY <1>5 DEF CheckReferenced, Found
<1>6. CASE RemoveSource(p)
  BY <1>6 DEF RemoveSource, Found
<1>7. CASE RemoveRow(p)
  BY <1>7 DEF RemoveRow, Found
<1>8. CASE LoopEnds(p)
  BY <1>8 DEF LoopEnds, Found
<1>9. CASE CheckHotlink(p)
  BY <1>9 DEF CheckHotlink, Found
<1>10. CASE DeleteHotlink(p)
  BY <1>10 DEF DeleteHotlink, Found
<1>11. CASE CleanUpReturns(p)
  BY <1>11 DEF CleanUpReturns, Found
<1> QED BY <1>1, <1>2, <1>3, <1>4, <1>5, <1>6, <1>7, <1>8, <1>9, <1>10, <1>11 DEF Cleaning

LEMMA UntouchedNext ==
  TypeInv /\ TypeInv' /\ StagesKept /\ UntouchedInv /\ [Next]_vars => UntouchedInv'
<1> SUFFICES ASSUME TypeInv, TypeInv', StagesKept, UntouchedInv, [Next]_vars,
                    NEW f \in Files, Available(f)'
             PROVE  Kept(f)' /\ \A q \in Procs : Spares(q, f)'
  BY DEF UntouchedInv
<1>1. scenario' = scenario
  BY DEF Next, vars
<1>2. Untouched(f) /\ Stored' = Stored /\ Kind' = Kind /\ Content' = Content
  BY <1>1, FixedKept, UntouchedFixed DEF Available
<1>3. now \in Nat /\ (now' = now \/ now' = now + 1)
  <2>1. now \in Nat
    BY ScenarioFacts DEF TypeInv
  <2>2. now' = now \/ now' = now + 1
    BY StepFrame DEF Next, vars, outside, Tick, Crash, Frame
  <2> QED BY <2>1, <2>2
<1>4. now <= Stored[f].ExpireAt
  BY <1>1, <1>2, <1>3, UntouchedRow DEF Available, TypeInv
<1>5. Kept(f) /\ \A q \in Procs : Spares(q, f)
  BY <1>2, <1>4 DEF UntouchedInv, Available
<1>6. ASSUME NEW q \in Procs, pc'[q] = pc[q], held'[q] = held[q], run'[q] = run[q],
             stamp'[q] = stamp[q]
      PROVE  Spares(q, f)'
  <2>1. stamp[q] \in Nat
    BY DEF TypeInv, Times
  <2> QED BY <1>2, <1>3, <1>5, <1>6, <2>1 DEF Spares, InLoop, Removing
<1>7. CASE UNCHANGED vars \/ Tick
  <2>1. /\ files' = files /\ source' = source
        /\ \A q \in Procs : /\ pc'[q] = pc[q] /\ held'[q] = held[q]
                            /\ run'[q] = run[q] /\ stamp'[q] = stamp[q]
    BY <1>7 DEF vars, Tick, stored, table, local
  <2> QED BY <1>2, <1>5, <1>6, <2>1 DEF Kept
<1>8. CASE Crash
  <2>1. /\ files' = files /\ source' = source
        /\ \A q \in Procs : pc'[q] \in {"start", "done"} /\ run'[q].links = {}
    BY <1>8 DEF Crash, stored, table, Idle
  <2> QED BY <1>2, <1>5, <2>1 DEF Kept, Spares, InLoop, Removing
<1>9. ASSUME NEW p \in Procs, Step(p)
      PROVE  Kept(f)' /\ \A q \in Procs : Spares(q, f)'
  <2>1. \A q \in Procs \ {p} : Spares(q, f)'
    BY <1>6, <1>9, StepFrame DEF Frame
  <2>2. CASE NotFound(p) \/ StatusExpires(p)
    <3>1. /\ files' = files /\ source' = source
          /\ held'[p] = held[p] /\ run'[p] = run[p] /\ stamp'[p] = stamp[p]
          /\ pc'[p] = pc[p] \/ pc'[p] = "failed"
      BY <2>2 DEF NotFound, StatusExpires, Goto, TypeInv, stored, table, local
    <3>2. Spares(p, f)'
      <4>1. CASE pc'[p] = pc[p]
        BY <1>6, <3>1, <4>1
      <4>2. CASE pc'[p] = "failed"
        BY <1>2, <1>5, <3>1, <4>2 DEF Spares, InLoop, Removing
      <4> QED BY <3>1, <4>1, <4>2
    <3> QED BY <1>2, <1>5, <2>1, <3>1, <3>2 DEF Kept
  <2>3. CASE Upload(p) \/ Modify(p) \/ Delete(p) \/ Download(p) \/ Cleaning(p)
    <3>1. Kept(f)' /\ Spares(p, f)'
      BY <1>1, <1>2, <1>4, <1>5, <2>3, UploadSpares, ModifySpares, DeleteSpares, DownloadSpares,
         CleaningSpares
    <3> QED BY <2>1, <3>1
  <2> QED BY <1>9, <2>2, <2>3 DEF Step
<1> QED BY <1>7, <1>8, <1>9 DEF Next

LEMMA InitUntouched == Init => UntouchedInv
<1> SUFFICES ASSUME Init, NEW f \in Files, Available(f)
             PROVE  Kept(f) /\ \A q \in Procs : Spares(q, f)
  BY DEF UntouchedInv
<1>1. files[f] = Stored[f] /\ Stored[f] # None /\ f \in Ids
  BY DEF Init, Available, Untouched, Ids
<1>2. source[Stored[f].SHA1] = Stored[f].key
  BY <1>1, InitSources
<1>3. \A q \in Procs : Spares(q, f)
  BY DEF Init, Spares, InLoop, Removing, Idle
<1> QED BY <1>1, <1>2, <1>3 DEF Kept

LEMMA SpecUntouched == Spec => []UntouchedInv
<1>1. Init => TypeInv /\ StagesKept /\ UntouchedInv
  BY InitTypeInv, InitStages, InitUntouched
<1>2. TypeInv /\ StagesKept /\ UntouchedInv /\ [Next]_vars => (TypeInv /\ StagesKept /\ UntouchedInv)'
  BY NextTypes, StagesInv, UntouchedNext
<1> QED BY <1>1, <1>2, PTL DEF Spec

(* A file that no request is about has its row and its source until it has   *)
(* expired, although uploads reuse the source, files with the same content   *)
(* are deleted or replaced, clean-ups run at once and the server crashes.    *)
THEOREM UntouchedKept ==
  Spec => [](\A f \in Files : Untouched(f) /\ ~IsExpiredFile(Stored[f], now) => Kept(f))
<1>1. TypeInv /\ UntouchedInv =>
        \A f \in Files : Untouched(f) /\ ~IsExpiredFile(Stored[f], now) => Kept(f)
  <2> SUFFICES ASSUME TypeInv, UntouchedInv, NEW f \in Files, Untouched(f),
                      ~IsExpiredFile(Stored[f], now)
               PROVE  Kept(f)
    OBVIOUS
  <2>1. now \in Nat /\ Stored[f].ExpireAt \in Nat
    BY UntouchedRow, ScenarioFacts DEF TypeInv
  <2>2. now <= Stored[f].ExpireAt
    BY <2>1 DEF IsExpiredFile
  <2> QED BY <2>2 DEF UntouchedInv, Available
<1> QED BY <1>1, SpecTypeInv, SpecUntouched, PTL

-----------------------------------------------------------------------------
(* Orphans: what a step does to the sources, and to what CleanUp has read    *)
Uploaded(p) == Kind[p] \in {"upload", "add"}
Uploading(p) == Uploaded(p) /\ pc[p] = "save"
SourceStep(p) ==
    \/ source' = source
    \/ \E h \in Hashes : source' = [source EXCEPT ![h] = Missing]
    \/ MoveToFilesystem(p)

(* When CleanUp gets to the removal of a row, and when a new file is saved   *)
Advance(p) ==
    /\ pc'[p] = "dropRow" /\ Kind[p] # "deleteUser" =>
           CheckElement(p) \/ CheckReferenced(p) \/ RemoveSource(p)
    /\ Uploading(p) => SaveNewFile(p)

(* What is not in the table is not read, and not removed.                    *)
Reads(p) ==
    /\ \A f \in Ids : f \in DOMAIN run'[p].rows => f \in DOMAIN run[p].rows \/ files[f] # None
    /\ Removing(p)' => \/ run'[p].element \in DOMAIN run[p].rows
                       \/ Removing(p) /\ run'[p].element = run[p].element

(* Only its own upload puts a new file into the table.                       *)
NewRows(p) ==
    /\ \A q \in Procs : files[q] = None /\ files'[q] # None => q = p /\ pc'[q] = "done"
    /\ pc[p] = "done" => pc'[p] = "done"

LEMMA UploadSource ==
  ASSUME TypeInv, NEW p \in Procs, Upload(p)
  PROVE  SourceStep(p)
<1> USE ScenarioFacts DEF TypeInv, Ready, HasRow, Removing, Row, Goto, SourceStep, deleteSource,
        stored, table
<1>1. CASE createNewMetaData(p)
  BY <1>1 DEF createNewMetaData, Found
<1>2. CASE CheckExists(p)
  BY <1>2 DEF CheckExists, Found
<1>3. CASE CopyEncInfo(p)
  BY <1>3 DEF CopyEncInfo, Found
<1>4. CASE RemoveOldSource(p)
  BY <1>4 DEF RemoveOldSource, Found
<1>5. CASE MoveToFilesystem(p)
  BY <1>5 DEF MoveToFilesystem, Found
<1>6. CASE Kind[p] \in {"upload", "add", "duplicate"} /\ SaveNewFile(p)
  BY <1>6 DEF SaveNewFile, Found
<1> QED BY <1>1, <1>2, <1>3, <1>4, <1>5, <1>6 DEF Upload

LEMMA UploadAdvance ==
  ASSUME TypeInv, StagesKept, scenario' = scenario, NEW p \in Procs, Upload(p)
  PROVE  Advance(p)
<1> USE ScenarioFacts DEF TypeInv, StagesKept, Stages, Deleting, CleanUpStages, Kinds, Goto,
        Removing, Advance, Uploading, Uploaded
<1>1. CASE createNewMetaData(p)
  BY <1>1 DEF createNewMetaData, Found
<1>2. CASE CheckExists(p)
  BY <1>2 DEF CheckExists, Found
<1>3. CASE CopyEncInfo(p)
  BY <1>3 DEF CopyEncInfo, Found
<1>4. CASE RemoveOldSource(p)
  BY <1>4 DEF RemoveOldSource, Found
<1>5. CASE MoveToFilesystem(p)
  BY <1>5 DEF MoveToFilesystem, Found
<1>6. CASE Kind[p] \in {"upload", "add", "duplicate"} /\ SaveNewFile(p)
  BY <1>6 DEF SaveNewFile, Found
<1> QED BY <1>1, <1>2, <1>3, <1>4, <1>5, <1>6 DEF Upload

LEMMA UploadReads ==
  ASSUME TypeInv, scenario' = scenario, NEW p \in Procs, Upload(p)
  PROVE  Reads(p)
<1> USE ScenarioFacts, FixedKept DEF TypeInv, Reads, Removing, Goto, Runs, local
<1>1. CASE createNewMetaData(p)
  BY <1>1 DEF createNewMetaData, Found
<1>2. CASE CheckExists(p)
  BY <1>2 DEF CheckExists, Found
<1>3. CASE CopyEncInfo(p)
  BY <1>3 DEF CopyEncInfo, Found
<1>4. CASE RemoveOldSource(p)
  BY <1>4 DEF RemoveOldSource, Found
<1>5. CASE MoveToFilesystem(p)
  BY <1>5 DEF MoveToFilesystem, Found
<1>6. CASE Kind[p] \in {"upload", "add", "duplicate"} /\ SaveNewFile(p)
  BY <1>6 DEF SaveNewFile, Found
<1> QED BY <1>1, <1>2, <1>3, <1>4, <1>5, <1>6 DEF Upload

LEMMA UploadNewRows ==
  ASSUME TypeInv, NEW p \in Procs, Upload(p)
  PROVE  NewRows(p)
<1> USE ScenarioFacts, ScenariosAssumption DEF TypeInv, NewRows, SaveMetaData, Goto, stored, table
<1>1. CASE createNewMetaData(p)
  BY <1>1 DEF createNewMetaData, Found
<1>2. CASE CheckExists(p)
  BY <1>2 DEF CheckExists, Found
<1>3. CASE CopyEncInfo(p)
  BY <1>3 DEF CopyEncInfo, Found
<1>4. CASE RemoveOldSource(p)
  BY <1>4 DEF RemoveOldSource, Found
<1>5. CASE MoveToFilesystem(p)
  BY <1>5 DEF MoveToFilesystem, Found
<1>6. CASE Kind[p] \in {"upload", "add", "duplicate"} /\ SaveNewFile(p)
  BY <1>6 DEF SaveNewFile, Found
<1> QED BY <1>1, <1>2, <1>3, <1>4, <1>5, <1>6 DEF Upload

LEMMA ModifySource ==
  ASSUME TypeInv, NEW p \in Procs, Modify(p)
  PROVE  SourceStep(p)
<1> USE ScenarioFacts DEF TypeInv, Ready, HasRow, Removing, Row, Goto, SourceStep, deleteSource,
        stored, table
<1>1. CASE DuplicateRead(p)
  BY <1>1 DEF DuplicateRead, Found
<1>2. CASE DuplicateHotlink(p)
  BY <1>2 DEF DuplicateHotlink, Found
<1>3. CASE EditRead(p)
  BY <1>3 DEF EditRead, Found
<1>4. CASE EditHotlink(p)
  BY <1>4 DEF EditHotlink, Found
<1>5. CASE EditSave(p)
  BY <1>5 DEF EditSave, Found
<1>6. CASE ReplaceRead(p)
  BY <1>6 DEF ReplaceRead, Found
<1>7. CASE ReplaceContent(p)
  BY <1>7 DEF ReplaceContent, Found
<1>8. CASE ReplaceFails(p)
  BY <1>8 DEF ReplaceFails, Found
<1>9. CASE ReplaceSave(p)
  BY <1>9 DEF ReplaceSave, Found
<1>10. CASE StillReferenced(p)
  BY <1>10 DEF StillReferenced, Found
<1>11. CASE DropReplacedSource(p)
  BY <1>11 DEF DropReplacedSource, Found
<1> QED BY <1>1, <1>2, <1>3, <1>4, <1>5, <1>6, <1>7, <1>8, <1>9, <1>10, <1>11 DEF Modify

LEMMA ModifyAdvance ==
  ASSUME TypeInv, StagesKept, scenario' = scenario, NEW p \in Procs, Modify(p)
  PROVE  Advance(p)
<1> USE ScenarioFacts DEF TypeInv, StagesKept, Stages, Deleting, CleanUpStages, Kinds, Goto,
        Removing, Advance, Uploading, Uploaded
<1>1. CASE DuplicateRead(p)
  BY <1>1 DEF DuplicateRead, Found, AfterReplace
<1>2. CASE DuplicateHotlink(p)
  BY <1>2 DEF DuplicateHotlink, Found, AfterReplace
<1>3. CASE EditRead(p)
  BY <1>3 DEF EditRead, Found, AfterReplace
<1>4. CASE EditHotlink(p)
  BY <1>4 DEF EditHotlink, Found, AfterReplace
<1>5. CASE EditSave(p)
  BY <1>5 DEF EditSave, Found, AfterReplace
<1>6. CASE ReplaceRead(p)
  BY <1>6 DEF ReplaceRead, Found, AfterReplace
<1>7. CASE ReplaceContent(p)
  BY <1>7 DEF ReplaceContent, Found, AfterReplace
<1>8. CASE ReplaceFails(p)
  BY <1>8 DEF ReplaceFails, Found, AfterReplace
<1>9. CASE ReplaceSave(p)
  BY <1>9 DEF ReplaceSave, Found, AfterReplace
<1>10. CASE StillReferenced(p)
  BY <1>10 DEF StillReferenced, Found, AfterReplace
<1>11. CASE DropReplacedSource(p)
  BY <1>11 DEF DropReplacedSource, Found, AfterReplace
<1> QED BY <1>1, <1>2, <1>3, <1>4, <1>5, <1>6, <1>7, <1>8, <1>9, <1>10, <1>11 DEF Modify

LEMMA ModifyReads ==
  ASSUME TypeInv, scenario' = scenario, NEW p \in Procs, Modify(p)
  PROVE  Reads(p)
<1> USE ScenarioFacts, FixedKept DEF TypeInv, Reads, Removing, Goto, Runs, local
<1>1. CASE DuplicateRead(p)
  BY <1>1 DEF DuplicateRead, Found, AfterReplace
<1>2. CASE DuplicateHotlink(p)
  BY <1>2 DEF DuplicateHotlink, Found, AfterReplace
<1>3. CASE EditRead(p)
  BY <1>3 DEF EditRead, Found, AfterReplace
<1>4. CASE EditHotlink(p)
  BY <1>4 DEF EditHotlink, Found, AfterReplace
<1>5. CASE EditSave(p)
  BY <1>5 DEF EditSave, Found, AfterReplace
<1>6. CASE ReplaceRead(p)
  BY <1>6 DEF ReplaceRead, Found, AfterReplace
<1>7. CASE ReplaceContent(p)
  BY <1>7 DEF ReplaceContent, GetFile
<1>8. CASE ReplaceFails(p)
  BY <1>8 DEF ReplaceFails, Found, AfterReplace
<1>9. CASE ReplaceSave(p)
  BY <1>9 DEF ReplaceSave, NoRows
<1>10. CASE StillReferenced(p)
  BY <1>10 DEF StillReferenced, Found, AfterReplace
<1>11. CASE DropReplacedSource(p)
  BY <1>11 DEF DropReplacedSource, Found, AfterReplace
<1> QED BY <1>1, <1>2, <1>3, <1>4, <1>5, <1>6, <1>7, <1>8, <1>9, <1>10, <1>11 DEF Modify

LEMMA ModifyNewRows ==
  ASSUME TypeInv, NEW p \in Procs, Modify(p)
  PROVE  NewRows(p)
<1> USE ScenarioFacts, ScenariosAssumption DEF TypeInv, NewRows, SaveMetaData, Goto, stored, table
<1>1. CASE DuplicateRead(p)
  BY <1>1 DEF DuplicateRead, Found, AfterReplace
<1>2. CASE DuplicateHotlink(p)
  BY <1>2 DEF DuplicateHotlink, Found, AfterReplace
<1>3. CASE EditRead(p)
  BY <1>3 DEF EditRead, Found, AfterReplace
<1>4. CASE EditHotlink(p)
  BY <1>4 DEF EditHotlink, Found, AfterReplace
<1>5. CASE EditSave(p)
  BY <1>5 DEF EditSave, Found, AfterReplace
<1>6. CASE ReplaceRead(p)
  BY <1>6 DEF ReplaceRead, Found, AfterReplace
<1>7. CASE ReplaceContent(p)
  BY <1>7 DEF ReplaceContent, Found, AfterReplace
<1>8. CASE ReplaceFails(p)
  BY <1>8 DEF ReplaceFails, Found, AfterReplace
<1>9. CASE ReplaceSave(p)
  BY <1>9 DEF ReplaceSave, Found, AfterReplace
<1>10. CASE StillReferenced(p)
  BY <1>10 DEF StillReferenced, Found, AfterReplace
<1>11. CASE DropReplacedSource(p)
  BY <1>11 DEF DropReplacedSource, Found, AfterReplace
<1> QED BY <1>1, <1>2, <1>3, <1>4, <1>5, <1>6, <1>7, <1>8, <1>9, <1>10, <1>11 DEF Modify

LEMMA DeleteSource ==
  ASSUME TypeInv, NEW p \in Procs, Delete(p)
  PROVE  SourceStep(p)
<1> USE ScenarioFacts DEF TypeInv, Ready, HasRow, Removing, Row, Goto, SourceStep, deleteSource,
        stored, table
<1>1. CASE DeleteRequest(p)
  BY <1>1 DEF DeleteRequest, Found
<1>2. CASE DeleteRead(p)
  BY <1>2 DEF DeleteRead, Found
<1>3. CASE DeleteSave(p)
  BY <1>3 DEF DeleteSave, Found
<1>4. CASE SetAllComplete(p)
  BY <1>4 DEF SetAllComplete, Found
<1>5. CASE ScheduleRead(p)
  BY <1>5 DEF ScheduleRead, Found
<1>6. CASE ScheduleSave(p)
  BY <1>6 DEF ScheduleSave, Found
<1>7. CASE ScheduleWakes(p)
  BY <1>7 DEF ScheduleWakes, Found
<1>8. CASE RestoreRead(p)
  BY <1>8 DEF RestoreRead, Found
<1>9. CASE RestoreSave(p)
  BY <1>9 DEF RestoreSave, Found
<1>10. CASE DeleteUserRead(p)
  BY <1>10 DEF DeleteUserRead, Found
<1>11. CASE DeleteUserRow(p)
  BY <1>11 DEF DeleteUserRow, Found
<1>12. CASE DeleteUserEnds(p)
  BY <1>12 DEF DeleteUserEnds, Found
<1> QED BY <1>1, <1>2, <1>3, <1>4, <1>5, <1>6, <1>7, <1>8, <1>9, <1>10, <1>11, <1>12 DEF Delete

LEMMA DeleteAdvance ==
  ASSUME TypeInv, StagesKept, scenario' = scenario, NEW p \in Procs, Delete(p)
  PROVE  Advance(p)
<1> USE ScenarioFacts DEF TypeInv, StagesKept, Stages, Deleting, CleanUpStages, Kinds, Goto,
        Removing, Advance, Uploading, Uploaded
<1>1. CASE DeleteRequest(p)
  BY <1>1 DEF DeleteRequest, Found
<1>2. CASE DeleteRead(p)
  BY <1>2 DEF DeleteRead, Found
<1>3. CASE DeleteSave(p)
  BY <1>3 DEF DeleteSave, Found
<1>4. CASE SetAllComplete(p)
  BY <1>4 DEF SetAllComplete, Found
<1>5. CASE ScheduleRead(p)
  BY <1>5 DEF ScheduleRead, Found
<1>6. CASE ScheduleSave(p)
  BY <1>6 DEF ScheduleSave, Found
<1>7. CASE ScheduleWakes(p)
  BY <1>7 DEF ScheduleWakes, Found
<1>8. CASE RestoreRead(p)
  BY <1>8 DEF RestoreRead, Found
<1>9. CASE RestoreSave(p)
  BY <1>9 DEF RestoreSave, Found
<1>10. CASE DeleteUserRead(p)
  BY <1>10 DEF DeleteUserRead, Found
<1>11. CASE DeleteUserRow(p)
  BY <1>11 DEF DeleteUserRow, Found
<1>12. CASE DeleteUserEnds(p)
  BY <1>12 DEF DeleteUserEnds, Found
<1> QED BY <1>1, <1>2, <1>3, <1>4, <1>5, <1>6, <1>7, <1>8, <1>9, <1>10, <1>11, <1>12 DEF Delete

LEMMA DeleteReads ==
  ASSUME TypeInv, scenario' = scenario, NEW p \in Procs, Delete(p)
  PROVE  Reads(p)
<1> USE ScenarioFacts, FixedKept DEF TypeInv, Reads, Removing, Goto, Runs, local
<1>1. CASE DeleteRequest(p)
  BY <1>1 DEF DeleteRequest, Found
<1>2. CASE DeleteRead(p)
  BY <1>2 DEF DeleteRead, Found
<1>3. CASE DeleteSave(p)
  BY <1>3 DEF DeleteSave, Found
<1>4. CASE SetAllComplete(p)
  BY <1>4 DEF SetAllComplete, Found
<1>5. CASE ScheduleRead(p)
  BY <1>5 DEF ScheduleRead, Found
<1>6. CASE ScheduleSave(p)
  BY <1>6 DEF ScheduleSave, Found
<1>7. CASE ScheduleWakes(p)
  BY <1>7 DEF ScheduleWakes, Found
<1>8. CASE RestoreRead(p)
  BY <1>8 DEF RestoreRead, Found
<1>9. CASE RestoreSave(p)
  BY <1>9 DEF RestoreSave, Found
<1>10. CASE DeleteUserRead(p)
  BY <1>10 DEF DeleteUserRead, Found
<1>11. CASE DeleteUserRow(p)
  BY <1>11 DEF DeleteUserRow, Found
<1>12. CASE DeleteUserEnds(p)
  BY <1>12 DEF DeleteUserEnds, Found
<1> QED BY <1>1, <1>2, <1>3, <1>4, <1>5, <1>6, <1>7, <1>8, <1>9, <1>10, <1>11, <1>12 DEF Delete

LEMMA DeleteNewRows ==
  ASSUME TypeInv, NEW p \in Procs, Delete(p)
  PROVE  NewRows(p)
<1> USE ScenarioFacts, ScenariosAssumption DEF TypeInv, NewRows, SaveMetaData, Goto, stored, table
<1>1. CASE DeleteRequest(p)
  BY <1>1 DEF DeleteRequest, Found
<1>2. CASE DeleteRead(p)
  BY <1>2 DEF DeleteRead, Found
<1>3. CASE DeleteSave(p)
  BY <1>3 DEF DeleteSave, Deleted
<1>4. CASE SetAllComplete(p)
  BY <1>4 DEF SetAllComplete, Found
<1>5. CASE ScheduleRead(p)
  BY <1>5 DEF ScheduleRead, Found
<1>6. CASE ScheduleSave(p)
  BY <1>6 DEF ScheduleSave, Found
<1>7. CASE ScheduleWakes(p)
  BY <1>7 DEF ScheduleWakes, Found
<1>8. CASE RestoreRead(p)
  BY <1>8 DEF RestoreRead, Found
<1>9. CASE RestoreSave(p)
  BY <1>9 DEF RestoreSave, Found
<1>10. CASE DeleteUserRead(p)
  BY <1>10 DEF DeleteUserRead, Found
<1>11. CASE DeleteUserRow(p)
  BY <1>11 DEF DeleteUserRow, Found
<1>12. CASE DeleteUserEnds(p)
  BY <1>12 DEF DeleteUserEnds, Found
<1> QED BY <1>1, <1>2, <1>3, <1>4, <1>5, <1>6, <1>7, <1>8, <1>9, <1>10, <1>11, <1>12 DEF Delete

LEMMA DownloadSource ==
  ASSUME TypeInv, NEW p \in Procs, Download(p)
  PROVE  SourceStep(p)
<1> USE ScenarioFacts DEF TypeInv, Ready, HasRow, Removing, Row, Goto, SourceStep, deleteSource,
        stored, table
<1>1. CASE DownloadRead(p)
  BY <1>1 DEF DownloadRead, Found
<1>2. CASE DownloadCount(p)
  BY <1>2 DEF DownloadCount, Found
<1>3. CASE OpenSource(p)
  BY <1>3 DEF OpenSource, Found
<1>4. CASE SetDownload(p)
  BY <1>4 DEF SetDownload, Found
<1>5. CASE SetComplete(p)
  BY <1>5 DEF SetComplete, Found
<1> QED BY <1>1, <1>2, <1>3, <1>4, <1>5 DEF Download

LEMMA DownloadAdvance ==
  ASSUME TypeInv, StagesKept, scenario' = scenario, NEW p \in Procs, Download(p)
  PROVE  Advance(p)
<1> USE ScenarioFacts DEF TypeInv, StagesKept, Stages, Deleting, CleanUpStages, Kinds, Goto,
        Removing, Advance, Uploading, Uploaded
<1>1. CASE DownloadRead(p)
  BY <1>1 DEF DownloadRead, Found
<1>2. CASE DownloadCount(p)
  BY <1>2 DEF DownloadCount, Found
<1>3. CASE OpenSource(p)
  BY <1>3 DEF OpenSource, Found
<1>4. CASE SetDownload(p)
  BY <1>4 DEF SetDownload, Found
<1>5. CASE SetComplete(p)
  BY <1>5 DEF SetComplete, Found
<1> QED BY <1>1, <1>2, <1>3, <1>4, <1>5 DEF Download

LEMMA DownloadReads ==
  ASSUME TypeInv, scenario' = scenario, NEW p \in Procs, Download(p)
  PROVE  Reads(p)
<1> USE ScenarioFacts, FixedKept DEF TypeInv, Reads, Removing, Goto, Runs, local
<1>1. CASE DownloadRead(p)
  BY <1>1 DEF DownloadRead, Found
<1>2. CASE DownloadCount(p)
  BY <1>2 DEF DownloadCount, Found
<1>3. CASE OpenSource(p)
  BY <1>3 DEF OpenSource, Found
<1>4. CASE SetDownload(p)
  BY <1>4 DEF SetDownload, Found
<1>5. CASE SetComplete(p)
  BY <1>5 DEF SetComplete, Found
<1> QED BY <1>1, <1>2, <1>3, <1>4, <1>5 DEF Download

LEMMA DownloadNewRows ==
  ASSUME TypeInv, NEW p \in Procs, Download(p)
  PROVE  NewRows(p)
<1> USE ScenarioFacts, ScenariosAssumption DEF TypeInv, NewRows, SaveMetaData, Goto, stored, table
<1>1. CASE DownloadRead(p)
  BY <1>1 DEF DownloadRead, Found
<1>2. CASE DownloadCount(p)
  <2> DEFINE row == [files[Target[p]] EXCEPT !.DownloadsRemaining = @ - 1]
  <2>1. Target[p] \in Files /\ (UNCHANGED table \/ (row \in Row /\ SaveMetaData(Target[p], row)))
    BY DownloadSaves, <1>2
  <2> HIDE DEF row
  <2>2. \A q \in Procs : files'[q] = files[q]
    BY <2>1 DEF Ids
  <2> QED BY <1>2, <2>2 DEF DownloadCount
<1>3. CASE OpenSource(p)
  BY <1>3 DEF OpenSource, Found
<1>4. CASE SetDownload(p)
  BY <1>4 DEF SetDownload, Found
<1>5. CASE SetComplete(p)
  BY <1>5 DEF SetComplete, Found
<1> QED BY <1>1, <1>2, <1>3, <1>4, <1>5 DEF Download

LEMMA CleaningSource ==
  ASSUME TypeInv, NEW p \in Procs, Cleaning(p)
  PROVE  SourceStep(p)
<1> USE ScenarioFacts DEF TypeInv, Ready, HasRow, Removing, Row, Goto, SourceStep, deleteSource,
        stored, table
<1>1. CASE CleanUpBegins(p)
  BY <1>1 DEF CleanUpBegins, Found
<1>2. CASE CleanUp(p)
  BY <1>2 DEF CleanUp, Found
<1>3. CASE SkipElement(p)
  BY <1>3 DEF SkipElement, Found
<1>4. CASE CheckElement(p)
  BY <1>4 DEF CheckElement, Found
<1>5. CASE CheckReferenced(p)
  BY <1>5 DEF CheckReferenced, Found
<1>6. CASE RemoveSource(p)
  BY <1>6 DEF RemoveSource, Found
<1>7. CASE RemoveRow(p)
  BY <1>7 DEF RemoveRow, Found
<1>8. CASE LoopEnds(p)
  BY <1>8 DEF LoopEnds, Found
<1>9. CASE CheckHotlink(p)
  BY <1>9 DEF CheckHotlink, Found
<1>10. CASE DeleteHotlink(p)
  BY <1>10 DEF DeleteHotlink, Found
<1>11. CASE CleanUpReturns(p)
  BY <1>11 DEF CleanUpReturns, Found
<1> QED BY <1>1, <1>2, <1>3, <1>4, <1>5, <1>6, <1>7, <1>8, <1>9, <1>10, <1>11 DEF Cleaning

LEMMA CleaningAdvance ==
  ASSUME TypeInv, StagesKept, scenario' = scenario, NEW p \in Procs, Cleaning(p)
  PROVE  Advance(p)
<1> USE ScenarioFacts DEF TypeInv, StagesKept, Stages, Deleting, CleanUpStages, Kinds, Goto,
        Removing, Advance, Uploading, Uploaded
<1>1. CASE CleanUpBegins(p)
  BY <1>1 DEF CleanUpBegins, Found
<1>2. CASE CleanUp(p)
  BY <1>2 DEF CleanUp, Found
<1>3. CASE SkipElement(p)
  BY <1>3 DEF SkipElement, Found
<1>4. CASE CheckElement(p)
  BY <1>4 DEF CheckElement, Found
<1>5. CASE CheckReferenced(p)
  BY <1>5 DEF CheckReferenced, Found
<1>6. CASE RemoveSource(p)
  BY <1>6 DEF RemoveSource, Found
<1>7. CASE RemoveRow(p)
  BY <1>7 DEF RemoveRow, Found
<1>8. CASE LoopEnds(p)
  BY <1>8 DEF LoopEnds, Found
<1>9. CASE CheckHotlink(p)
  BY <1>9 DEF CheckHotlink, Found
<1>10. CASE DeleteHotlink(p)
  BY <1>10 DEF DeleteHotlink, Found
<1>11. CASE CleanUpReturns(p)
  BY <1>11 DEF CleanUpReturns, Found
<1> QED BY <1>1, <1>2, <1>3, <1>4, <1>5, <1>6, <1>7, <1>8, <1>9, <1>10, <1>11 DEF Cleaning

LEMMA CleaningReads ==
  ASSUME TypeInv, scenario' = scenario, NEW p \in Procs, Cleaning(p)
  PROVE  Reads(p)
<1> USE ScenarioFacts, FixedKept DEF TypeInv, Reads, Removing, Goto, Runs, local
<1>1. CASE CleanUpBegins(p)
  BY <1>1 DEF CleanUpBegins, Found
<1>2. CASE CleanUp(p)
  <2>1. run'[p].rows = GetAllMetadata
    BY <1>2 DEF CleanUp
  <2>2. pc'[p] = "elements"
    BY <1>2 DEF CleanUp
  <2> QED BY <2>1, <2>2 DEF GetAllMetadata
<1>3. CASE SkipElement(p)
  <2>1. PICK f \in DOMAIN run[p].rows : run' = [run EXCEPT ![p].rows = Without(@, f)]
    BY <1>3 DEF SkipElement
  <2>2. run'[p].rows = Without(run[p].rows, f) /\ pc'[p] = "elements"
    BY <1>3, <2>1 DEF SkipElement
  <2> QED BY <2>2 DEF Without
<1>4. CASE CheckElement(p)
  <2>1. PICK f \in DOMAIN run[p].rows :
          run' = [run EXCEPT ![p].rows = Without(@, f), ![p].element = f]
    BY <1>4 DEF CheckElement
  <2>2. run'[p].rows = Without(run[p].rows, f) /\ run'[p].element = f
    BY <2>1
  <2> QED BY <2>2 DEF Without
<1>5. CASE CheckReferenced(p)
  BY <1>5 DEF CheckReferenced, Found
<1>6. CASE RemoveSource(p)
  BY <1>6 DEF RemoveSource, Found
<1>7. CASE RemoveRow(p)
  BY <1>7 DEF RemoveRow, Found
<1>8. CASE LoopEnds(p)
  BY <1>8 DEF LoopEnds, Found
<1>9. CASE CheckHotlink(p)
  BY <1>9 DEF CheckHotlink, Found
<1>10. CASE DeleteHotlink(p)
  BY <1>10 DEF DeleteHotlink, Found
<1>11. CASE CleanUpReturns(p)
  <2>1. run'[p].rows = NoRows \/ run'[p].rows = run[p].rows
    BY <1>11 DEF CleanUpReturns, Idle
  <2>2. pc'[p] \in {"links", "start", "done"}
    BY <1>11 DEF CleanUpReturns
  <2> QED BY <2>1, <2>2 DEF NoRows
<1> QED BY <1>1, <1>2, <1>3, <1>4, <1>5, <1>6, <1>7, <1>8, <1>9, <1>10, <1>11 DEF Cleaning

LEMMA CleaningNewRows ==
  ASSUME TypeInv, NEW p \in Procs, Cleaning(p)
  PROVE  NewRows(p)
<1> USE ScenarioFacts, ScenariosAssumption DEF TypeInv, NewRows, SaveMetaData, Goto, stored, table
<1>1. CASE CleanUpBegins(p)
  BY <1>1 DEF CleanUpBegins, Found
<1>2. CASE CleanUp(p)
  BY <1>2 DEF CleanUp, Found
<1>3. CASE SkipElement(p)
  BY <1>3 DEF SkipElement, Found
<1>4. CASE CheckElement(p)
  BY <1>4 DEF CheckElement, Found
<1>5. CASE CheckReferenced(p)
  BY <1>5 DEF CheckReferenced, Found
<1>6. CASE RemoveSource(p)
  BY <1>6 DEF RemoveSource, Found
<1>7. CASE RemoveRow(p)
  BY <1>7 DEF RemoveRow, Found
<1>8. CASE LoopEnds(p)
  BY <1>8 DEF LoopEnds, Found
<1>9. CASE CheckHotlink(p)
  BY <1>9 DEF CheckHotlink, Found
<1>10. CASE DeleteHotlink(p)
  BY <1>10 DEF DeleteHotlink, Found
<1>11. CASE CleanUpReturns(p)
  BY <1>11 DEF CleanUpReturns, Found
<1> QED BY <1>1, <1>2, <1>3, <1>4, <1>5, <1>6, <1>7, <1>8, <1>9, <1>10, <1>11 DEF Cleaning

LEMMA OrphanSteps ==
  ASSUME TypeInv, StagesKept, scenario' = scenario, NEW p \in Procs, Step(p), ~StatusExpires(p)
  PROVE  SourceStep(p) /\ Advance(p) /\ Reads(p) /\ NewRows(p)
<1>1. CASE NotFound(p)
  <2>1. /\ files' = files /\ source' = source /\ run' = run /\ Kind' = Kind
        /\ pc[p] = "start" /\ pc' = [pc EXCEPT ![p] = "failed"]
    BY <1>1, FixedKept DEF NotFound, stored, table, local, Goto
  <2> QED BY <2>1 DEF SourceStep, Advance, Uploading, Reads, NewRows, Removing, TypeInv
<1>2. CASE Upload(p)
  BY <1>2, UploadSource, UploadAdvance, UploadReads, UploadNewRows
<1>3. CASE Modify(p)
  BY <1>3, ModifySource, ModifyAdvance, ModifyReads, ModifyNewRows
<1>4. CASE Delete(p)
  BY <1>4, DeleteSource, DeleteAdvance, DeleteReads, DeleteNewRows
<1>5. CASE Download(p)
  BY <1>5, DownloadSource, DownloadAdvance, DownloadReads, DownloadNewRows
<1>6. CASE Cleaning(p)
  BY <1>6, CleaningSource, CleaningAdvance, CleaningReads, CleaningNewRows
<1> QED BY <1>1, <1>2, <1>3, <1>4, <1>5, <1>6 DEF Step

-----------------------------------------------------------------------------
(* Every source has a row, or an upload that has found or stored it and is   *)
(* about to save its row; a clean-up that has kept a source knows another    *)
(* row with it, or such an upload.                                           *)
OneCleanUp == \A p, q \in Procs : InLoop(p) /\ InLoop(q) => p = q
Arriving(h) == \E p \in Procs : Uploading(p) /\ held[p].SHA1 = h
Pending(p) == NewFile(p) /\ pc[p] # "done"
Backed(p) ==
    \/ \E f \in Ids \ {run[p].element} : files[f] # None /\ files[f].SHA1 = held[p].SHA1
    \/ Arriving(held[p].SHA1)

SourcesReferenced == \A h \in Hashes : source[h] # Missing => Referenced(h) \/ Arriving(h)
NewFilesUnread ==
    \A p \in Procs : Pending(p) =>
        /\ files[p] = None
        /\ \A q \in Procs : p \notin DOMAIN run[q].rows /\ (Removing(q) => run[q].element # p)
KeptSourcesBacked ==
    \A p \in Procs : pc[p] = "dropRow" /\ source[held[p].SHA1] # Missing => Backed(p)
OrphanInv ==
    NoReplacement /\ ~Abandoning => SourcesReferenced /\ NewFilesUnread /\ KeptSourcesBacked

(* A step of p outside of a crash, while one clean-up is at work             *)
LEMMA OrphanStep ==
  ASSUME TypeInv, TypeInv', StagesKept, HashInv, HashInv', scenario' = scenario,
         NoReplacement, \A p \in Procs : Kind[p] # "deleteUser", OneCleanUp,
         SourcesReferenced, NewFilesUnread, KeptSourcesBacked,
         NEW p \in Procs, Step(p), ~StatusExpires(p)
  PROVE  SourcesReferenced' /\ NewFilesUnread' /\ KeptSourcesBacked'
<1>1. SourceStep(p) /\ Advance(p) /\ Reads(p) /\ NewRows(p)
  BY OrphanSteps
<1>2. /\ \A q \in Procs \ {p} : pc'[q] = pc[q] /\ held'[q] = held[q] /\ run'[q] = run[q]
      /\ Kind' = Kind
  BY StepFrame, FixedKept DEF Frame
<1>3. \A f \in Ids : files[f] # None /\ files'[f] # None => files'[f].SHA1 = files[f].SHA1
  BY HashesFixed DEF HashInv, HashesStored, HasHash
<1>4. \A f \in Ids : files[f] # None /\ files'[f] = None => RemoveRow(p) /\ run[p].element = f
  BY OnlyRemoved DEF DeleteUserRow
<1>5. ASSUME NEW h, Arriving(h)
      PROVE  Arriving(h)' \/ \E q \in Procs : Pending(q) /\ files'[q] # None /\ files'[q].SHA1 = h
  <2>1. PICK q \in Procs : Uploading(q) /\ held[q].SHA1 = h
    BY <1>5 DEF Arriving
  <2>2. CASE q # p
    BY <1>2, <2>1, <2>2 DEF Arriving, Uploading, Uploaded
  <2>3. CASE q = p
    <3>1. held[p] \in Row /\ SaveNewFile(p) /\ Pending(p)
      BY <1>1, <2>1, <2>3 DEF Advance, TypeInv, Ready, HasRow, Pending, NewFile, Uploading, Uploaded
    <3>2. files'[p] = held[p] /\ held[p] # None
      BY <3>1, ScenariosAssumption DEF SaveNewFile, SaveMetaData, TypeInv, Ids
    <3> QED BY <2>1, <2>3, <3>1, <3>2
  <2> QED BY <2>2, <2>3
<1>6. ASSUME NEW h \in Hashes, source'[h] # Missing
      PROVE  source[h] # Missing \/ Arriving(h)'
  <2>1. CASE MoveToFilesystem(p) /\ h = Content
    <3>1. Uploaded(p) /\ NewFile(p) /\ ~Removing(p) /\ HasRow(p)
      BY <2>1, ScenarioFacts DEF MoveToFilesystem, Goto, StagesKept, Stages, Deleting,
          CleanUpStages,
            Kinds, Uploaded, NewFile, Removing, HasRow, TypeInv
    <3>2. held[p].SHA1 = Content
      BY <2>1, <3>1, ScenarioFacts, ScenariosAssumption
         DEF HashInv, HashesHeld, HasHash, Owner, HashOf, Ids, MoveToFilesystem, Goto, Uploaded,
             TypeInv
    <3>3. pc'[p] = "save" /\ held' = held
      BY <2>1 DEF MoveToFilesystem, Goto, local, TypeInv
    <3> QED BY <1>2, <2>1, <3>1, <3>2, <3>3 DEF Arriving, Uploading, Uploaded
  <2>2. CASE MoveToFilesystem(p) /\ h # Content
    BY <1>6, <2>2 DEF MoveToFilesystem, TypeInv
  <2>3. CASE source' = source
    BY <1>6, <2>3
  <2>4. ASSUME NEW g \in Hashes, source' = [source EXCEPT ![g] = Missing]
        PROVE  source[h] # Missing
    BY <1>6, <2>4 DEF TypeInv
  <2> QED BY <1>1, <2>1, <2>2, <2>3, <2>4 DEF SourceStep
<1>7. ASSUME NEW q \in Procs, NEW h, Removing(q), pc[q] = "dropRow", held[q].SHA1 = h,
          source[h] # Missing
      PROVE  \/ \E f \in Ids \ {run[q].element} : files'[f] # None /\ files'[f].SHA1 = h
             \/ Arriving(h)'
  <2>1. CASE Arriving(h)
    <3>1. ASSUME NEW r \in Procs, Pending(r) PROVE r \in Ids \ {run[q].element}
      BY <1>7, <3>1 DEF NewFilesUnread, Ids
    <3> QED BY <1>5, <2>1, <3>1
  <2>2. ASSUME NEW f \in Ids \ {run[q].element}, files[f] # None, files[f].SHA1 = h
        PROVE  files'[f] # None /\ files'[f].SHA1 = h
    <3>1. CASE files'[f] # None
      BY <1>3, <2>2, <3>1
    <3>2. CASE files'[f] = None
      <4>1. RemoveRow(p) /\ run[p].element = f
        BY <1>4, <2>2, <3>2
      <4>2. InLoop(p) /\ InLoop(q)
        BY <1>7, <4>1 DEF RemoveRow, Goto, InLoop, Removing
      <4> QED BY <2>2, <4>1, <4>2 DEF OneCleanUp
    <3> QED BY <3>1, <3>2
  <2> QED BY <1>7, <2>1, <2>2 DEF KeptSourcesBacked, Backed
<1>8. SourcesReferenced'
  <2> SUFFICES ASSUME NEW h \in Hashes, source'[h] # Missing, ~Arriving(h)' PROVE Referenced(h)'
    BY DEF SourcesReferenced
  <2>1. source[h] # Missing
    BY <1>6
  <2>2. CASE Arriving(h)
    BY <1>5, <2>2 DEF Referenced, Ids
  <2>3. ASSUME NEW f \in Ids, files[f] # None, files[f].SHA1 = h PROVE Referenced(h)'
    <3>1. CASE files'[f] # None
      BY <1>3, <2>3, <3>1 DEF Referenced
    <3>2. CASE files'[f] = None
      <4>1. RemoveRow(p) /\ run[p].element = f
        BY <1>4, <2>3, <3>2
      <4>2. Removing(p) /\ HasRow(p) /\ pc[p] = "dropRow"
        BY <4>1 DEF RemoveRow, Goto, Removing, HasRow
      <4>3. held[p].SHA1 = h
        BY <2>3, <4>1, <4>2 DEF HashInv, HashesStored, HashesHeld, HasHash, Owner
      <4> QED BY <1>7, <2>1, <4>2, <4>3 DEF Referenced
    <3> QED BY <3>1, <3>2
  <2> QED BY <2>1, <2>2, <2>3 DEF SourcesReferenced, Referenced
<1>9. NewFilesUnread'
  <2> SUFFICES ASSUME NEW q \in Procs, Pending(q)'
               PROVE  /\ files'[q] = None
                      /\ \A r \in Procs : q \notin DOMAIN run'[r].rows
                                          /\ (Removing(r)' => run'[r].element # q)
    BY DEF NewFilesUnread
  <2>1. Pending(q)
    BY <1>1, <1>2 DEF Pending, NewFile, NewRows
  <2>2. files[q] = None /\ q \in Ids
    BY <2>1 DEF NewFilesUnread, Ids
  <2>3. files'[q] = None
    BY <1>1, <2>2 DEF NewRows, Pending
  <2>4. ASSUME NEW r \in Procs
        PROVE  q \notin DOMAIN run'[r].rows /\ (Removing(r)' => run'[r].element # q)
    <3>1. q \notin DOMAIN run[r].rows /\ (Removing(r) => run[r].element # q)
      BY <2>1 DEF NewFilesUnread
    <3>2. CASE r # p
      BY <1>2, <3>1, <3>2 DEF Removing
    <3>3. CASE r = p
      BY <1>1, <2>2, <3>1, <3>3 DEF Reads
    <3> QED BY <3>2, <3>3
  <2> QED BY <2>3, <2>4
<1>10. KeptSourcesBacked'
  <2> SUFFICES ASSUME NEW q \in Procs, pc'[q] = "dropRow", source'[held'[q].SHA1] # Missing
               PROVE  Backed(q)'
    BY DEF KeptSourcesBacked
  <2>1. held'[q] \in Row /\ held'[q].SHA1 \in Hashes
    BY <1>2 DEF TypeInv, Ready, HasRow, Removing, Row
  <2>2. CASE q # p
    <3>1. pc[q] = "dropRow" /\ held'[q] = held[q] /\ run'[q] = run[q] /\ Removing(q)
      BY <1>2, <2>2 DEF Removing
    <3>2. CASE source[held[q].SHA1] # Missing
      BY <1>7, <3>1, <3>2 DEF Backed
    <3>3. CASE source[held[q].SHA1] = Missing
      BY <1>6, <2>1, <3>1, <3>3 DEF Backed
    <3> QED BY <3>2, <3>3
  <2>3. CASE q = p
    <3>1. CASE CheckElement(p)
      <4>1. PICK f \in DOMAIN run[p].rows :
                pc' = [pc EXCEPT ![p] = IF FileExists(run[p].rows[f]) THEN "referenced" ELSE "dropRow"]
                /\ held' = [held EXCEPT ![p] = run[p].rows[f]]
        BY <3>1 DEF CheckElement, Goto, Hold
      <4>2. source' = source
        BY <3>1 DEF CheckElement, stored
      <4> QED BY <2>3, <4>1, <4>2 DEF FileExists, TypeInv
    <3>2. CASE CheckReferenced(p)
      <4>1. /\ files' = files /\ held' = held /\ run' = run
            /\ \E f \in Ids \ {run[p].element} : files[f] # None /\ files[f].SHA1 = held[p].SHA1
        BY <2>3, <3>2 DEF CheckReferenced, Goto, stored, table, local, TypeInv
      <4> QED BY <2>3, <4>1 DEF Backed
    <3>3. CASE RemoveSource(p)
      BY <2>1, <2>3, <3>3 DEF RemoveSource, deleteSource, local, TypeInv
    <3> QED BY <1>1, <2>3, <3>1, <3>2, <3>3 DEF Advance
  <2> QED BY <2>2, <2>3
<1> QED BY <1>8, <1>9, <1>10

LEMMA OrphanNext ==
  ASSUME TypeInv, TypeInv', StagesKept, HashInv, HashInv', OrphanInv, OneCleanUp, [Next]_vars
  PROVE  OrphanInv'
<1> SUFFICES ASSUME NoReplacement', ~Abandoning'
             PROVE  SourcesReferenced' /\ NewFilesUnread' /\ KeptSourcesBacked'
  BY DEF OrphanInv
<1>1. scenario' = scenario
  BY DEF Next, vars
<1>2. NoReplacement /\ Kind' = Kind /\ \A p \in Procs : Kind[p] # "deleteUser"
  BY <1>1, HashesFixed, FixedKept DEF Abandoning, Some
<1>3. ASSUME source' = source, files' = files, pc' = pc, held' = held, run' = run, ~Abandoning
      PROVE  SourcesReferenced' /\ NewFilesUnread' /\ KeptSourcesBacked'
  <2>1. SourcesReferenced /\ NewFilesUnread /\ KeptSourcesBacked
    BY <1>2, <1>3 DEF OrphanInv
  <2> QED BY <1>2, <1>3, <2>1 DEF SourcesReferenced, NewFilesUnread, KeptSourcesBacked, Backed,
          Arriving,
             Uploading, Uploaded, Pending, NewFile, Removing, Referenced
<1>4. CASE UNCHANGED vars \/ Tick
  BY <1>2, <1>3, <1>4 DEF vars, Tick, stored, table, outside, local, Abandoning, Some
<1>5. CASE Crash
  BY <1>5 DEF Crash, Abandoning, Some, TypeInv
<1>6. ASSUME NEW p \in Procs, Step(p)
      PROVE  SourcesReferenced' /\ NewFilesUnread' /\ KeptSourcesBacked'
  <2>1. ~Abandoning
    BY <1>2, <1>6, StepFrame DEF Frame, Abandoning, Some
  <2>2. CASE StatusExpires(p)
    BY <1>3, <2>1, <2>2 DEF StatusExpires, stored, table, local
  <2>3. CASE ~StatusExpires(p)
    BY <1>1, <1>2, <1>6, <2>1, <2>3, OrphanStep DEF OrphanInv
  <2> QED BY <2>2, <2>3
<1> QED BY <1>4, <1>5, <1>6 DEF Next

LEMMA InitOrphans == Init => OrphanInv
<1> SUFFICES ASSUME Init PROVE SourcesReferenced /\ NewFilesUnread /\ KeptSourcesBacked
  BY DEF OrphanInv
<1>1. SourcesReferenced
  <2> SUFFICES ASSUME NEW h \in Hashes, source[h] # Missing PROVE Referenced(h)
    BY DEF SourcesReferenced
  <2> DEFINE present == {files[f] : f \in {g \in Ids : files[g] # None}}
             keys == {row.key : row \in {r \in present : r.SHA1 = h}}
  <2>1. source[h] = IF keys = {} THEN Missing ELSE CHOOSE key \in keys : TRUE
    BY DEF Init
  <2>2. keys # {}
    BY <2>1
  <2> QED BY <2>2 DEF Referenced
<1>2. /\ \A p \in Procs : pc[p] \in {"start", "done"} /\ run[p] = Idle
      /\ \A p \in Procs : files[p] = None
  BY ScenariosAssumption DEF Init, Ids
<1>3. NewFilesUnread
  BY <1>2 DEF NewFilesUnread, Pending, Removing, Idle, NoRows
<1>4. KeptSourcesBacked
  BY <1>2 DEF KeptSourcesBacked
<1> QED BY <1>1, <1>3, <1>4

LEMMA QuietNoOrphans ==
  ASSUME TypeInv, OrphanInv, NoReplacement
  PROVE  NoOrphans
<1> SUFFICES ASSUME Quiet, ~Abandoning, NEW h \in Hashes, source[h] # Missing PROVE Referenced(h)
  BY DEF NoOrphans
<1>1. ~Arriving(h)
  BY DEF Arriving, Uploading, Quiet
<1> QED BY <1>1 DEF OrphanInv, SourcesReferenced

(* However many files are uploaded, duplicated, deleted, edited and          *)
(* downloaded at once: as long as no two clean-ups are in their loops at the *)
(* same time, and nothing is replaced, no source is left without a row.      *)
(* storage_two_clean_ups shows that two clean-ups can leave one.             *)
THEOREM SourcesFound == Spec /\ NoReplacement /\ []OneCleanUp => []NoOrphans
<1>1. NoReplacement /\ [Next]_vars => NoReplacement'
  BY HashesFixed DEF Next, vars
<1>2. Inv /\ Inv' /\ OrphanInv /\ OneCleanUp /\ [Next]_vars => OrphanInv'
  BY OrphanNext DEF Inv
<1>3. Inv /\ OrphanInv /\ NoReplacement => NoOrphans
  BY QuietNoOrphans DEF Inv
<1> QED BY <1>1, <1>2, <1>3, InitOrphans, SpecInv, PTL DEF Spec

=============================================================================
