----------------------------- MODULE EndToEndPage ---------------------------
(***************************************************************************)
(* End-to-end encrypted uploads (end2end_admin.js, requestFileInfo, and    *)
(* the WebAssembly program of cmd/wasme2e).  The key of every file is kept *)
(* in one document that the server stores for the user; a tab reads it     *)
(* when it is opened, and rewrites it for every upload, between a lock and *)
(* an unlock request.  E2eMutex.tla has the details of the lock.           *)
(***************************************************************************)
EXTENDS UploadPage

VARIABLES
    go,         \* go[t]: the WebAssembly program
    fileInfo,   \* fileInfo[t]: the files whose keys the program knows
    uploads,    \* uploads[t]: uploads whose cipher it has made
    storedKeys, \* the files whose keys are in the document on the server
    lock,       \* the mutex of the user is locked
    chains,     \* the promise chains of getE2EInfo and requestFileInfo
    broken      \* history: a lock has expired, or a lock request has failed

e2eVars == <<go, fileInfo, uploads, storedKeys, lock, chains, broken>>

Chains == [tab : Tabs, file : Files \cup {NoFile}, n : Nat, keys : SUBSET Files,
           at : {"lock", "get", "parse", "store", "stored", "unlock"}]

E2eTypeOK ==
    /\ go \in [Tabs -> {"off", "ready", "exited"}]
    /\ fileInfo \in [Tabs -> SUBSET Files]
    /\ uploads \in [Tabs -> SUBSET Files]
    /\ storedKeys \in SUBSET Files
    /\ lock \in BOOLEAN
    /\ chains \subseteq Chains
    /\ broken \in BOOLEAN

E2eInit ==
    /\ go = [t \in Tabs |-> "off"]
    /\ fileInfo = [t \in Tabs |-> {}]
    /\ uploads = [t \in Tabs |-> {}]
    /\ storedKeys = IF Now.e2e THEN Now.present ELSE {}
    /\ lock = FALSE /\ chains = {} /\ broken = FALSE

-----------------------------------------------------------------------------
(* getE2EInfo is a chain without a file. *)
NewChain(t, f) ==
    LET same == {k.n : k \in {x \in chains : x.tab = t /\ x.file = f}}
    IN  [tab |-> t, file |-> f, n |-> Unused(same), keys |-> {}, at |-> "lock"]

Goto(k, at, keys) == chains' = (chains \ {k}) \cup {[k EXCEPT !.at = at, !.keys = keys]}

(* The program is ready, the document is asked for, and uploads are allowed  *)
(* before it has come.                                                       *)
checkIfE2EKeyIsSet(t) ==
    /\ Now.e2e /\ tab[t] = "open" /\ go[t] = "off"
    /\ go' = [go EXCEPT ![t] = "ready"]
    /\ chains' = chains \cup {NewChain(t, NoFile)}
    /\ UNCHANGED <<workerVars, statusVars, pageVars, fileInfo, uploads, storedKeys, lock, broken>>

(* GokapiE2EEncryptNew, at the first chunk.  Every call throws when the      *)
(* program has exited, and the upload stays where it is.                     *)
EncryptNew(f) ==
    /\ Now.e2e /\ upload[f] = "sending" /\ go[Uploader] = "ready"
    /\ f \notin uploads[Uploader]
    /\ uploads' = [uploads EXCEPT ![Uploader] = @ \cup {f}]
    /\ UNCHANGED <<workerVars, statusVars, pageVars, go, fileInfo, storedKeys, lock, chains, broken>>

(* uploadChunk until the last chunk; then chunksUploaded is called. *)
uploadChunk(f) ==
    /\ Now.e2e /\ go[Uploader] = "ready" /\ f \in uploads[Uploader]
    /\ sendChunkComplete(f)
    /\ UNCHANGED e2eVars

(* decryptFileEntries looks for a button in the column of the status, and    *)
(* fails at the first listed file that has a key; the exception ends the     *)
(* program.                                                                  *)
decryptFileEntries(t, keys, table) ==
    go' = [go EXCEPT ![t] = IF \E f \in keys : table[t][f] # <<>> THEN "exited" ELSE @]

(* The answers of UploadPage.tla: the file information starts a chain, and   *)
(* a restored file is decrypted in the list.                                 *)
AnswerAnd(c) ==
    /\ Answer(c)
    /\ chains' = IF Now.e2e /\ c.kind = "info" /\ c.phase = "done"
                 THEN chains \cup {NewChain(c.tab, c.file)} ELSE chains
    /\ IF Now.e2e /\ c.kind = "restore" /\ c.phase = "done" /\ go[c.tab] = "ready"
       THEN decryptFileEntries(c.tab, fileInfo[c.tab], rows') ELSE UNCHANGED go
    /\ UNCHANGED <<fileInfo, uploads, storedKeys, lock, broken>>

-----------------------------------------------------------------------------
(* The links of a chain.  `catch' marks the upload, `finally' unlocks.       *)
Throws(k) ==
    /\ Goto(k, "unlock", {})
    /\ IF k.file = NoFile THEN UNCHANGED upload ELSE ShowError(k.file)

(* Mutant of apiE2eMutexLock: the lock is granted to everyone. *)
GrantedToAll(k) ==
    /\ k.at = "lock"
    /\ lock' = TRUE
    /\ Goto(k, "get", {})
    /\ UNCHANGED <<upload, go, fileInfo, uploads, storedKeys, broken>>

apiE2eMutexLock(k) ==
    /\ k.at = "lock" /\ ~lock
    /\ lock' = TRUE
    /\ Goto(k, "get", {})
    /\ UNCHANGED <<upload, go, fileInfo, uploads, storedKeys, broken>>

(* IsExpiredFile does not look at a scheduled deletion. *)
AvailableFiles == {f \in Files : file[f] \in {"live", "pending"}}

apiE2eGet(k) ==
    /\ k.at = "get"
    /\ IF lock THEN Goto(k, "parse", storedKeys \cap AvailableFiles) /\ UNCHANGED upload
               ELSE Throws(k)
    /\ UNCHANGED <<go, fileInfo, uploads, storedKeys, lock, broken>>

(* The answer has come: InfoParse, then DecryptMenu, or AddFile, which       *)
(* forgets the cipher, and InfoEncrypt.                                      *)
InfoParse(k) ==
    LET t == k.tab
        known == k.keys \cup {k.file}
    IN  /\ k.at = "parse"
        /\ IF go[t] = "exited" THEN Throws(k) /\ UNCHANGED <<go, fileInfo, uploads>>
           ELSE IF k.file = NoFile
           THEN /\ fileInfo' = [fileInfo EXCEPT ![t] = k.keys]
                /\ decryptFileEntries(t, k.keys, rows)
                /\ Goto(k, "unlock", {}) /\ UNCHANGED <<upload, uploads>>
           ELSE IF k.file \notin uploads[t]
           THEN /\ fileInfo' = [fileInfo EXCEPT ![t] = k.keys]
                /\ Throws(k) /\ UNCHANGED <<go, uploads>>
           ELSE /\ fileInfo' = [fileInfo EXCEPT ![t] = known]
                /\ uploads' = [uploads EXCEPT ![t] = @ \ {k.file}]
                /\ Goto(k, "store", known) /\ UNCHANGED <<upload, go>>
        /\ UNCHANGED <<storedKeys, lock, broken>>

apiE2eStore(k) ==
    /\ k.at = "store"
    /\ IF lock THEN storedKeys' = k.keys /\ Goto(k, "stored", {}) /\ UNCHANGED upload
               ELSE Throws(k) /\ UNCHANGED storedKeys
    /\ UNCHANGED <<go, fileInfo, uploads, lock, broken>>

Stored(k) ==
    /\ k.at = "stored"
    /\ IF go[k.tab] = "exited" THEN Throws(k) /\ UNCHANGED go
       ELSE /\ decryptFileEntries(k.tab, fileInfo[k.tab], rows)
            /\ upload' = [upload EXCEPT ![k.file] = "removed"]
            /\ Goto(k, "unlock", {})
    /\ UNCHANGED <<fileInfo, uploads, storedKeys, lock, broken>>

(* The lock is released, whoever has it. *)
apiE2eMutexUnlock(k) ==
    /\ k.at = "unlock"
    /\ lock' = FALSE
    /\ chains' = chains \ {k}
    /\ UNCHANGED <<upload, go, fileInfo, uploads, storedKeys, broken>>

ChainStep(k) ==
    /\ \/ apiE2eMutexLock(k) \/ apiE2eGet(k) \/ InfoParse(k)
       \/ apiE2eStore(k) \/ Stored(k) \/ apiE2eMutexUnlock(k)
    /\ UNCHANGED <<workerVars, statusVars, scenario, clicks, session, tab, rows, rowCount, toast,
                   calls, faults, excused>>

(* A request fails; the answer to a lock request may be lost while the       *)
(* server still waits for the lock or has taken it.                          *)
ChainFails(k) ==
    /\ faults < Now.maxFaults /\ k.at \in {"lock", "get", "parse", "store", "stored"}
    /\ faults' = faults + 1
    /\ Throws(k)
    /\ broken' = (broken \/ k.at = "lock")
    /\ UNCHANGED <<workerVars, statusVars, scenario, clicks, session, tab, rows, rowCount, toast,
                   calls, excused, go, fileInfo, uploads, storedKeys, lock>>

(* The timer of the mutex, 30 seconds after it was locked *)
LockExpires ==
    /\ Happens("lockExpires") /\ lock
    /\ lock' = FALSE /\ broken' = TRUE
    /\ UNCHANGED <<workerVars, statusVars, pageVars, go, fileInfo, uploads, storedKeys, chains>>

E2eMay ==
    \/ \E k \in chains : ChainFails(k)
    \/ LockExpires

-----------------------------------------------------------------------------
(* An encrypted file cannot be opened without its key.  Whenever the page    *)
(* shows an upload as done its key is in the document, and stays there while *)
(* the file can be downloaded or restored, whatever other uploads write into *)
(* the document; as long as no lock has expired or failed.                   *)
KeysKept ==
    Now.e2e /\ ~broken => \A f \in Files :
        file[f] \in {"live", "pending"} /\ (f \in Now.present \/ upload[f] = "removed")
            => f \in storedKeys
=============================================================================
