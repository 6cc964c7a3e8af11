------------------------- MODULE UploadSystem_proofs ------------------------
(* Proofs about UploadSystem.tla, for any set of tabs and files: the shared  *)
(* worker, the types of all that the upload page consists of, the keys of    *)
(* encrypted files, the dialog of the limits and the tables of the tabs.     *)
EXTENDS UploadSystem, FiniteSetTheorems, SequenceTheorems, TLAPS

(* The inductive invariant: without OneConnection the number of streams     *)
(* could fall below zero.                                                   *)
WorkerInv == WorkerTypeOK /\ OneConnection

-----------------------------------------------------------------------------
(* A broadcast leaves every queue a sequence of messages to tabs. *)
LEMMA BroadcastType ==
  ASSUME inbox \in [Tabs -> Seq(ToTab)], NEW receivers, NEW msg \in ToTab,
         broadcastTo(receivers, msg)
  PROVE  inbox' \in [Tabs -> Seq(ToTab)]
<1> DEFINE list(t) == IF t \in receivers \cap attached
                       THEN Append(inbox[t], msg) ELSE inbox[t]
<1>1. inbox' = [t \in Tabs |-> list(t)]
  BY DEF broadcastTo
<1>2. ASSUME NEW t \in Tabs PROVE list(t) \in Seq(ToTab)
  <2>1. inbox[t] \in Seq(ToTab)
    OBVIOUS
  <2>2. Append(inbox[t], msg) \in Seq(ToTab)
    BY <2>1
  <2> QED BY <2>1, <2>2
<1> HIDE DEF list
<1> QED BY <1>1, <1>2

(* The head of a queue is one of its messages, and the rest is a queue. *)
LEMMA HeadAndTail ==
  ASSUME NEW S, NEW s \in Seq(S), s # <<>>
  PROVE  Head(s) \in S /\ Tail(s) \in Seq(S)
  OBVIOUS

(* What the worker sends to a tab is among the messages a tab expects. *)
LEMMA Messages ==
  /\ Connect \in ToWorker /\ Shutdown \in ToTab
  /\ \A s \in Statuses : Status(s) \in ToTab
  /\ \A msg \in ToWorker : msg.type = "notice" => msg \in ToTab
<1>1. Connect \in ToWorker /\ Shutdown \in ToTab /\ \A s \in Statuses : Status(s) \in ToTab
  BY Zenon DEF ToWorker, ToTab
<1>2. ASSUME NEW msg \in ToWorker, msg.type = "notice" PROVE msg \in ToTab
  <2>1. msg # Connect /\ msg # Shutdown
    BY <1>2 DEF Connect, Shutdown
  <2>2. PICK n \in Notices : msg = Notice(n)
    BY <1>2, <2>1, Zenon DEF ToWorker
  <2> QED BY <2>2, Zenon DEF ToTab
<1> QED BY <1>1, <1>2

-----------------------------------------------------------------------------
(* The invariant holds of a worker without tabs. *)
LEMMA InitInv == WorkerInit => WorkerInv
<1> SUFFICES ASSUME WorkerInit PROVE WorkerTypeOK /\ OneConnection
  BY DEF WorkerInv
<1>1. WorkerTypeOK
  <2>1. <<>> \in Seq(ToWorker) /\ <<>> \in Seq(ToTab)
    OBVIOUS
  <2>2. outbox \in [Tabs -> Seq(ToWorker)] /\ inbox \in [Tabs -> Seq(ToTab)]
    BY <2>1 DEF WorkerInit
  <2>3. streams \in Nat /\ source \in BOOLEAN /\ timer \in BOOLEAN
    BY DEF WorkerInit
  <2>4. attached \in SUBSET Tabs /\ ports \in SUBSET Tabs
    BY DEF WorkerInit
  <2> QED BY <2>2, <2>3, <2>4 DEF WorkerTypeOK
<1>2. OneConnection
  BY Zenon DEF WorkerInit, OneConnection
<1> QED BY <1>1, <1>2

(* Opening the stream where there is none keeps the invariant. *)
LEMMA ConnectStream ==
  ASSUME WorkerInv, ~source, connect, ports' # {}
  PROVE  /\ source' \in BOOLEAN /\ timer' \in BOOLEAN /\ streams' \in Nat
         /\ OneConnection'
<1>1. streams = 0
  BY DEF WorkerInv, OneConnection
<1>2. source' = TRUE /\ timer' = FALSE /\ streams' = streams + 1
  BY DEF connect
<1>3. streams' = 1 /\ streams' \in Nat
  BY <1>1, <1>2
<1> QED BY <1>2, <1>3, Zenon DEF OneConnection

(* Closing it with the last port, and without a timer, keeps the invariant. *)
LEMMA CloseStream ==
  ASSUME WorkerInv, closeSource, timer' = (ports' # {})
  PROVE  /\ source' \in BOOLEAN /\ timer' \in BOOLEAN /\ streams' \in Nat
         /\ OneConnection'
<1>1. source \in BOOLEAN /\ streams = IF source THEN 1 ELSE 0
  BY DEF WorkerInv, WorkerTypeOK, OneConnection
<1>2. source' = FALSE /\ streams' = IF source THEN streams - 1 ELSE streams
  BY DEF closeSource
<1>3. streams' = 0 /\ streams' \in Nat
  BY <1>1, <1>2
<1>4. CASE ports' = {}
  <2>1. timer' = FALSE
    BY <1>4
  <2> QED BY <1>2, <1>3, <1>4, <2>1, Zenon DEF OneConnection
<1>5. CASE ports' # {}
  <2>1. timer' = TRUE
    BY <1>5
  <2> QED BY <1>2, <1>3, <1>5, <2>1, Zenon DEF OneConnection
<1> QED BY <1>4, <1>5

(* onconnect: the first port opens the stream, any other one finds it, or    *)
(* the timer that will open it.                                              *)
LEMMA OnConnectInv ==
  ASSUME WorkerInv, NEW t \in Tabs, onconnect(t)
  PROVE  /\ ports' \in SUBSET Tabs /\ inbox' \in [Tabs -> Seq(ToTab)]
         /\ source' \in BOOLEAN /\ timer' \in BOOLEAN /\ streams' \in Nat
         /\ OneConnection'
<1>1. ports' \in SUBSET Tabs /\ ports' # {} /\ inbox' \in [Tabs -> Seq(ToTab)]
  BY DEF WorkerInv, WorkerTypeOK, onconnect
<1>2. CASE ~source /\ ~timer
  <2>1. connect
    BY <1>2 DEF onconnect
  <2> QED BY <1>1, <1>2, <2>1, ConnectStream
<1>3. CASE ~(~source /\ ~timer)
  <2>1. UNCHANGED <<source, timer, streams>>
    BY <1>3 DEF onconnect
  <2> QED BY <1>1, <1>3, <2>1 DEF WorkerInv, WorkerTypeOK, OneConnection
<1> QED BY <1>2, <1>3

(* shutdown: no port is left, and neither stream nor timer. *)
LEMMA ShutdownInv ==
  ASSUME WorkerInv, NEW t \in Tabs, shutdown(t)
  PROVE  /\ ports' \in SUBSET Tabs /\ inbox' \in [Tabs -> Seq(ToTab)]
         /\ source' \in BOOLEAN /\ timer' \in BOOLEAN /\ streams' \in Nat
         /\ OneConnection'
<1>1. ports' = {} /\ timer' = FALSE /\ closeSource
  BY DEF shutdown
<1>2. inbox' \in [Tabs -> Seq(ToTab)]
  BY BroadcastType, Messages DEF shutdown, broadcastExcept, WorkerInv, WorkerTypeOK
<1>3. timer' = (ports' # {})
  BY <1>1
<1> QED BY <1>1, <1>2, <1>3, CloseStream

(* onmessage handles the first message of one port. *)
LEMMA OnMessageInv ==
  ASSUME WorkerInv, NEW t \in Tabs, onmessage(t)
  PROVE  WorkerInv'
<1> DEFINE msg == Head(outbox[t])
<1>1. outbox[t] \in Seq(ToWorker) /\ outbox[t] # <<>>
  BY DEF WorkerInv, WorkerTypeOK, onmessage
<1>2. msg \in ToWorker /\ Tail(outbox[t]) \in Seq(ToWorker)
  BY <1>1, HeadAndTail
<1>3. outbox' \in [Tabs -> Seq(ToWorker)] /\ attached' \in SUBSET Tabs
  BY <1>2 DEF WorkerInv, WorkerTypeOK, onmessage
<1>4. \/ onconnect(t)
      \/ shutdown(t)
      \/ /\ msg.type = "notice" /\ broadcastExcept(msg, t)
         /\ UNCHANGED <<ports, source, timer, streams>>
  BY DEF onmessage
<1>5. CASE onconnect(t)
  BY <1>3, <1>5, OnConnectInv DEF WorkerInv, WorkerTypeOK
<1>6. CASE shutdown(t)
  BY <1>3, <1>6, ShutdownInv DEF WorkerInv, WorkerTypeOK
<1>7. CASE /\ msg.type = "notice" /\ broadcastExcept(msg, t)
           /\ UNCHANGED <<ports, source, timer, streams>>
  <2>1. msg \in ToTab
    BY <1>2, <1>7, Messages
  <2>2. broadcastTo(ports \ {t}, msg)
    BY <1>7 DEF broadcastExcept
  <2>3. inbox' \in [Tabs -> Seq(ToTab)]
    BY <2>1, <2>2, BroadcastType DEF WorkerInv, WorkerTypeOK
  <2> QED BY <1>3, <1>7, <2>3 DEF WorkerInv, WorkerTypeOK, OneConnection
<1> QED BY <1>4, <1>5, <1>6, <1>7

(* removePort: the stream and the timer go with the last port. *)
LEMMA RemovePortInv ==
  ASSUME WorkerInv, NEW t \in Tabs, removePort(t)
  PROVE  WorkerInv'
<1>1. ports' \in SUBSET Tabs /\ UNCHANGED <<attached, outbox, inbox>>
  BY DEF WorkerInv, WorkerTypeOK, removePort
<1>2. CASE ports' = {}
  <2>1. closeSource /\ timer' = (ports' # {})
    BY <1>2 DEF removePort
  <2> QED BY <1>1, <2>1, CloseStream DEF WorkerInv, WorkerTypeOK
<1>3. CASE ports' # {}
  <2>1. UNCHANGED <<source, timer, streams>> /\ ports # {}
    BY <1>3 DEF removePort
  <2> QED BY <1>1, <1>3, <2>1 DEF WorkerInv, WorkerTypeOK, OneConnection
<1> QED BY <1>2, <1>3

(* The steps of the worker itself. *)
LEMMA WorkerStepInv ==
  ASSUME WorkerInv, WorkerStep
  PROVE  WorkerInv'
<1>1. CASE onerror
  <2>1. closeSource /\ timer' = (ports' # {}) /\ UNCHANGED <<attached, ports, outbox, inbox>>
    BY <1>1 DEF onerror
  <2> QED BY <2>1, CloseStream DEF WorkerInv, WorkerTypeOK
<1>2. CASE Reconnect
  <2>1. connect /\ ~source /\ ports' # {} /\ UNCHANGED <<attached, ports, outbox, inbox>>
    BY <1>2 DEF Reconnect, WorkerInv, OneConnection
  <2> QED BY <2>1, ConnectStream DEF WorkerInv, WorkerTypeOK
<1>3. ASSUME NEW t \in Tabs, onmessage(t) \/ removePort(t)
      PROVE  WorkerInv'
  BY <1>3, OnMessageInv, RemovePortInv
<1> QED BY <1>1, <1>2, <1>3 DEF WorkerStep

(* What the server and the tabs do to the queues does not touch the stream. *)
LEMMA StreamMessageInv ==
  ASSUME WorkerInv, NEW s \in Statuses, StreamMessage(s)
  PROVE  WorkerInv'
<1>1. inbox' \in [Tabs -> Seq(ToTab)]
  BY BroadcastType, Messages DEF StreamMessage, broadcast, WorkerInv, WorkerTypeOK
<1> QED BY <1>1 DEF StreamMessage, WorkerInv, WorkerTypeOK, OneConnection

(* A tab makes its port, reads, posts, or goes away. *)
LEMMA TabInv ==
  ASSUME WorkerInv, NEW t \in Tabs,
         \/ Attach(t) \/ Receive(t) \/ Detach(t)
         \/ \E msg \in ToWorker \ {Connect} : Post(t, msg)
  PROVE  WorkerInv'
<1> USE DEF WorkerInv, WorkerTypeOK, OneConnection
<1>1. CASE Attach(t)
  <2>1. <<Connect>> \in Seq(ToWorker)
    BY Messages
  <2> QED BY <1>1, <2>1 DEF Attach
<1>2. CASE Receive(t)
  <2>1. inbox[t] \in Seq(ToTab) /\ inbox[t] # <<>>
    BY <1>2 DEF Receive
  <2>2. Tail(inbox[t]) \in Seq(ToTab)
    BY <2>1, HeadAndTail
  <2> QED BY <1>2, <2>2 DEF Receive
<1>3. CASE Detach(t)
  <2>1. <<>> \in Seq(ToTab)
    OBVIOUS
  <2> QED BY <1>3, <2>1 DEF Detach
<1>4. ASSUME NEW msg \in ToWorker, Post(t, msg)
      PROVE  WorkerInv'
  <2>1. Append(outbox[t], msg) \in Seq(ToWorker)
    OBVIOUS
  <2> QED BY <1>4, <2>1 DEF Post
<1> QED BY <1>1, <1>2, <1>3, <1>4

-----------------------------------------------------------------------------
(* Every step of the worker, the server or a tab keeps the invariant. *)
LEMMA NextInv == WorkerInv /\ [WorkerNext]_workerVars => WorkerInv'
<1> SUFFICES ASSUME WorkerInv, [WorkerNext]_workerVars PROVE WorkerInv'
  OBVIOUS
<1>1. CASE WorkerStep
  BY <1>1, WorkerStepInv
<1>2. ASSUME NEW s \in Statuses, StreamMessage(s) PROVE WorkerInv'
  BY <1>2, StreamMessageInv
<1>3. ASSUME NEW t \in Tabs,
             \/ Attach(t) \/ Receive(t) \/ Detach(t)
             \/ \E msg \in ToWorker \ {Connect} : Post(t, msg)
      PROVE  WorkerInv'
  BY <1>3, TabInv
<1>4. CASE UNCHANGED workerVars
  BY <1>4 DEF workerVars, WorkerInv, WorkerTypeOK, OneConnection
<1> QED BY <1>1, <1>2, <1>3, <1>4 DEF WorkerNext

(* The worker's variables keep their types. *)
THEOREM WorkerTypeCorrect == WorkerSpec => []WorkerTypeOK
<1>1. WorkerInv => WorkerTypeOK
  BY DEF WorkerInv
<1> QED BY <1>1, InitInv, NextInv, PTL DEF WorkerSpec

(* However tabs come, go and log out, and however often the stream breaks,   *)
(* the worker has exactly one stream, or a timer for the next, while tabs    *)
(* listen, and none otherwise (sse-worker.js).                               *)
THEOREM OneConnectionHolds == WorkerSpec => []OneConnection
<1>1. WorkerInv => OneConnection
  BY DEF WorkerInv
<1> QED BY <1>1, InitInv, NextInv, PTL DEF WorkerSpec

-----------------------------------------------------------------------------
(* Values of the page *)

(* Whoever is numbered gets a number of its own. *)
LEMMA UnusedNumber ==
  ASSUME NEW S \in SUBSET Nat, IsFiniteSet(S)
  PROVE  Unused(S) \in Nat /\ Unused(S) \notin S
<1>1. Cardinality(S) \in Nat
  BY FS_CardinalityType
<1> DEFINE N == 1..Cardinality(S) + 1
<1>2. IsFiniteSet(N) /\ Cardinality(N) = Cardinality(S) + 1
  BY <1>1, FS_Interval
<1>3. ~(N \subseteq S)
  <2> SUFFICES ASSUME N \subseteq S PROVE FALSE
    OBVIOUS
  <2>1. Cardinality(N) <= Cardinality(S)
    BY FS_Subset
  <2> HIDE DEF N
  <2> QED BY <1>1, <1>2, <2>1
<1>4. \E n \in N : n \notin S
  BY <1>3
<1>5. Unused(S) \in N /\ Unused(S) \notin S
  BY <1>4 DEF Unused
<1> QED BY <1>1, <1>5

(* The rows of a table *)
LEMMA TotalType ==
  ASSUME NEW numbers, \A f \in Files : IsFiniteSet(numbers[f])
  PROVE  Total(numbers) \in Nat
<1> DEFINE Numbered(f) == {f} \X numbers[f]
           Parts == {Numbered(f) : f \in Files}
<1>1. ASSUME NEW f \in Files PROVE IsFiniteSet(Numbered(f))
  <2>1. IsFiniteSet({f})
    BY FS_Singleton
  <2> QED BY <2>1, FS_Product
<1> HIDE DEF Numbered
<1>2. IsFiniteSet(Parts)
  <2> DEFINE part == [f \in Files |-> Numbered(f)]
  <2>1. part \in Surjection(Files, Parts)
    BY Zenon DEF Surjection
  <2> QED BY <2>1, FilesAssumption, FS_Surjection
<1>3. IsFiniteSet(UNION Parts)
  BY <1>1, <1>2, FS_UNION
<1> QED BY <1>3, FS_CardinalityType DEF Total, Numbered

-----------------------------------------------------------------------------
(* The dialog of the limits *)

(* Values that the dialog may send *)
Asked == [allowedDownloads : Nat, expiryTimestamp : {0} \cup Times \cup {Today + 14},
          password : {"", "new", Unchanged}, originalPassword : BOOLEAN, replace : BOOLEAN]

(* What editFile sends for a form *)
Sent(form) ==
    [allowedDownloads |-> IF form.mc_download THEN form.down ELSE 0,
     expiryTimestamp |-> IF form.mc_expiry THEN form.expiry ELSE 0,
     password |-> IF form.mc_password THEN form.pw ELSE "",
     originalPassword |-> form.mc_password /\ form.pw = Unchanged,
     replace |-> form.mc_replace]

(* The row was listed when its button was made, and what has been sent is    *)
(* what the dialog showed, but for the fields that the user has touched.     *)
EditInv ==
    /\ EditTypeOK
    /\ dialog # "reloaded" => Listed(item)
    /\ dialog = "modify" => \E q \in Asked :
          /\ request = <<q>>
          /\ "downloads" \notin touched =>
                q.allowedDownloads = IF item.unlimitedDownloads THEN 0 ELSE item.remaining
          /\ "expiry" \notin touched =>
                q.expiryTimestamp = IF item.unlimitedTime THEN 0 ELSE item.expireAt
          /\ "password" \notin touched =>
                IF item.password = "" THEN q.password = "" /\ ~q.originalPassword
                ELSE q.originalPassword
          /\ q.password = Unchanged => q.originalPassword

LEMMA EditInitInv == ASSUME NEW present, EditInit(present) PROVE EditInv
<1>1. row \in FileRowsAtFirst /\ Listed(row) /\ item = row /\ dialog = "closed"
      /\ touched = {} /\ downloaded = 0
  BY DEF EditInit
<1>2. row \in FileRows
  <2>1. {1, 2} \subseteq Nat /\ Times \subseteq Times \cup {Today + 14}
        /\ {"", "old"} \subseteq {"", "old", "new"} /\ {"own"} \subseteq {"own", "other"}
    OBVIOUS
  <2> QED BY <1>1, <2>1, Zenon DEF FileRows, FileRowsAtFirst
<1> QED BY <1>1, <1>2 DEF EditInv, EditTypeOK

(* What is sent for a form that the user has filled in *)
LEMMA FormSent ==
  ASSUME item \in FileRows, Listed(item), NEW fields \in SUBSET Fields,
         NEW form \in Filled(showEditModal(item), fields)
  PROVE  LET q == Sent(form) IN
         /\ q \in Asked
         /\ "downloads" \notin fields =>
               q.allowedDownloads = IF item.unlimitedDownloads THEN 0 ELSE item.remaining
         /\ "expiry" \notin fields =>
               q.expiryTimestamp = IF item.unlimitedTime THEN 0 ELSE item.expireAt
         /\ "password" \notin fields =>
               IF item.password = "" THEN q.password = "" /\ ~q.originalPassword
               ELSE q.originalPassword
         /\ q.password = Unchanged => q.originalPassword
<1> DEFINE shown == showEditModal(item)
<1>1. /\ shown.mc_download \in BOOLEAN /\ (shown.mc_download <=> ~item.unlimitedDownloads)
      /\ shown.mc_expiry \in BOOLEAN /\ (shown.mc_expiry <=> ~item.unlimitedTime)
      /\ shown.mc_password \in BOOLEAN /\ (shown.mc_password <=> item.password # "")
  BY Zenon DEF showEditModal
<1>2. /\ shown.down = IF item.unlimitedDownloads THEN 1 ELSE item.remaining
      /\ shown.expiry = IF item.unlimitedTime THEN add14DaysIfBeforeCurrentTime(item.expireAt)
                        ELSE item.expireAt
      /\ shown.pw = IF item.password # "" THEN Unchanged ELSE ""
  BY DEF showEditModal
<1>3. PICK d \in Entered(fields, "downloads", shown.mc_download, shown.down),
           e \in Entered(fields, "expiry", shown.mc_expiry, shown.expiry),
           p \in Entered(fields, "password", shown.mc_password, shown.pw), r \in BOOLEAN :
         form = Fill(shown, d, e, p, r)
  <2> HIDE DEF shown
  <2> QED BY DEF Filled, shown
<1> DEFINE q == Sent(form)
<1>4. /\ q.allowedDownloads = IF d[1] THEN d[2] ELSE 0
      /\ q.expiryTimestamp = IF e[1] THEN e[2] ELSE 0
      /\ q.password = IF p[1] THEN p[2] ELSE ""
      /\ q.originalPassword \in BOOLEAN
      /\ q.originalPassword <=> p[1] /\ p[2] = Unchanged
      /\ q.replace = r
  <2>1. /\ form.mc_download = d[1] /\ form.down = d[2] /\ form.mc_expiry = e[1]
        /\ form.expiry = e[2] /\ form.mc_password = p[1] /\ form.pw = p[2] /\ form.mc_replace = r
    BY <1>3 DEF showEditModal, Fill
  <2> HIDE DEF shown
  <2> QED BY <2>1, Zenon DEF Sent
<1>5. /\ item.remaining \in Nat /\ item.unlimitedDownloads \in BOOLEAN
      /\ item.expireAt \in Times \cup {Today + 14} /\ item.unlimitedTime \in BOOLEAN
      /\ item.password \in {"", "old", "new"}
  BY DEF FileRows
<1>6. /\ d[1] \in BOOLEAN /\ d[2] \in Nat
      /\ "downloads" \notin fields => d[1] = shown.mc_download /\ d[2] = shown.down
  <2> HIDE DEF shown
  <2>1. shown.down \in Nat
    <3>1. CASE item.unlimitedDownloads
      BY <1>2, <3>1, 1 \in Nat, Zenon
    <3>2. CASE ~item.unlimitedDownloads
      BY <1>2, <1>5, <3>2
    <3> QED BY <3>1, <3>2
  <2>2. CASE "downloads" \in fields
    <3>1. d \in BOOLEAN \X ({shown.down} \cup Limits)
      BY <2>2 DEF Entered, Typable
    <3> QED BY <3>1, <2>1, <2>2, EditAssumption
  <2>3. CASE "downloads" \notin fields
    <3>1. d = <<shown.mc_download, shown.down>>
      BY <2>3 DEF Entered
    <3> QED BY <1>1, <3>1, <2>1, <2>3
  <2> QED BY <2>2, <2>3
<1>7. /\ e[1] \in BOOLEAN /\ e[2] \in Times \cup {Today + 14}
      /\ "expiry" \notin fields => e[1] = shown.mc_expiry /\ e[2] = shown.expiry
  <2>1. shown.expiry \in Times \cup {Today + 14}
    BY <1>2, <1>5 DEF add14DaysIfBeforeCurrentTime
  <2> HIDE DEF shown
  <2>2. CASE "expiry" \in fields
    <3>1. e \in BOOLEAN \X ({shown.expiry} \cup {x \in Times : x > Today})
      BY <2>2 DEF Entered, Typable
    <3> QED BY <3>1, <2>1, <2>2, EditAssumption
  <2>3. CASE "expiry" \notin fields
    <3>1. e = <<shown.mc_expiry, shown.expiry>>
      BY <2>3 DEF Entered
    <3> QED BY <1>1, <3>1, <2>1, <2>3
  <2> QED BY <2>2, <2>3
<1>8. /\ p[1] \in BOOLEAN /\ p[2] \in {"", "new", Unchanged}
      /\ "password" \notin fields => p[1] = shown.mc_password /\ p[2] = shown.pw
  <2>1. shown.pw \in {"", "new", Unchanged}
    BY <1>2, <1>5
  <2> HIDE DEF shown
  <2>2. CASE "password" \in fields
    <3>1. p \in BOOLEAN \X {"", "new"}
      BY <2>2 DEF Entered, Typable
    <3> QED BY <3>1, <2>1, <2>2, EditAssumption
  <2>3. CASE "password" \notin fields
    <3>1. p = <<shown.mc_password, shown.pw>>
      BY <2>3 DEF Entered
    <3> QED BY <1>1, <3>1, <2>1, <2>3
  <2> QED BY <2>2, <2>3
<1> HIDE DEF shown, q
<1>9. q \in Asked
  <2>1. q = [allowedDownloads |-> q.allowedDownloads, expiryTimestamp |-> q.expiryTimestamp,
             password |-> q.password, originalPassword |-> q.originalPassword,
             replace |-> q.replace]
    BY DEF Sent, q
  <2>2. q.allowedDownloads \in Nat
    BY <1>4, <1>6, 0 \in Nat, Zenon
  <2>4. q.expiryTimestamp \in {0} \cup Times \cup {Today + 14}
    BY <1>4, <1>7, Zenon
  <2>3. q.password \in {"", "new", Unchanged} /\ q.replace \in BOOLEAN
    BY <1>4, <1>8, Zenon
  <2> QED BY <2>1, <2>2, <2>3, <2>4, <1>4, Zenon DEF Asked
<1>10. "downloads" \notin fields =>
         q.allowedDownloads = IF item.unlimitedDownloads THEN 0 ELSE item.remaining
  BY <1>1, <1>2, <1>4, <1>5, <1>6
<1>11. "expiry" \notin fields =>
         q.expiryTimestamp = IF item.unlimitedTime THEN 0 ELSE item.expireAt
  BY <1>1, <1>2, <1>4, <1>5, <1>7 DEF Listed, add14DaysIfBeforeCurrentTime
<1>12. "password" \notin fields =>
         IF item.password = "" THEN q.password = "" /\ ~q.originalPassword
         ELSE q.originalPassword
  BY <1>1, <1>2, <1>4, <1>5, <1>8 DEF Unchanged
<1>13. q.password = Unchanged => q.originalPassword
  BY <1>4, <1>8 DEF Unchanged
<1> QED BY <1>9, <1>10, <1>11, <1>12, <1>13 DEF q

(* The handler writes values of the right types, and keeps what the request  *)
(* does not mention.                                                         *)
LEMMA ModifiedRow ==
  ASSUME NEW r \in FileRows, NEW q \in Asked, q.password = Unchanged => q.originalPassword
  PROVE  /\ Modified(r, q) \in FileRows
         /\ Modified(r, q).remaining =
               IF q.allowedDownloads = 0 THEN r.remaining ELSE q.allowedDownloads
         /\ (Modified(r, q).unlimitedDownloads <=> q.allowedDownloads = 0)
         /\ Modified(r, q).expireAt =
               IF q.expiryTimestamp = 0 THEN r.expireAt ELSE q.expiryTimestamp
         /\ (Modified(r, q).unlimitedTime <=> q.expiryTimestamp = 0)
         /\ Modified(r, q).password = IF q.originalPassword THEN r.password ELSE q.password
  BY DEF Modified, FileRows, Asked

LEMMA EditStepInv == ASSUME EditInv, EditStep PROVE EditInv'
<1> USE DEF EditInv, EditTypeOK
<1>1. row \in FileRows /\ item \in FileRows
  OBVIOUS
<1>2. CASE editFile
  <2>1. PICK fields \in SUBSET Fields : \E form \in Filled(showEditModal(item), fields) :
           touched' = fields /\ request' = <<Sent(form)>>
    BY <1>2, Zenon DEF editFile, Sent
  <2>5. PICK form \in Filled(showEditModal(item), fields) :
           touched' = fields /\ request' = <<Sent(form)>>
    BY <2>1
  <2>2. Listed(item) /\ dialog' = "modify" /\ UNCHANGED <<row, item, downloaded>>
    BY <1>2 DEF editFile
  <2> DEFINE q == Sent(form)
  <2> HIDE DEF EditInv, EditTypeOK
  <2>3. /\ q \in Asked
        /\ "downloads" \notin fields =>
              q.allowedDownloads = IF item.unlimitedDownloads THEN 0 ELSE item.remaining
        /\ "expiry" \notin fields =>
              q.expiryTimestamp = IF item.unlimitedTime THEN 0 ELSE item.expireAt
        /\ "password" \notin fields =>
              IF item.password = "" THEN q.password = "" /\ ~q.originalPassword
              ELSE q.originalPassword
        /\ q.password = Unchanged => q.originalPassword
    BY <1>1, <2>2, FormSent
  <2>4. request' = <<q>> /\ touched' = fields
    BY <2>5
  <2> HIDE DEF q
  <2> QED BY <2>2, <2>3, <2>4 DEF EditInv, EditTypeOK, Listed
<1>3. CASE apiEditFile
  <2>1. PICK q \in Asked : request = <<q>> /\ (q.password = Unchanged => q.originalPassword)
    BY <1>3 DEF apiEditFile
  <2>2. row' = Modified(row, q)
    BY <1>3, <2>1 DEF apiEditFile
  <2>3. row' \in FileRows
    BY <1>1, <2>1, <2>2, ModifiedRow
  <2>4. /\ touched' = {} /\ downloaded' = downloaded
        /\ \/ dialog' = "replace" /\ item' = item
           \/ dialog' = "reloaded" /\ item' = row'
           \/ dialog' = "failed" /\ item' = item
    BY <1>3 DEF apiEditFile
  <2>5. Listed(item)
    BY <1>3 DEF apiEditFile
  <2> QED BY <1>1, <2>3, <2>4, <2>5 DEF Listed
<1>4. CASE apiReplaceFile
  <2>1. row' \in FileRows
    BY <1>1, <1>4 DEF apiReplaceFile, FileRows
  <2> QED BY <1>1, <1>4, <2>1 DEF apiReplaceFile, Listed
<1>5. CASE EditFails
  BY <1>5 DEF EditFails, Listed
<1>6. CASE Elsewhere
  <2>1. row' \in FileRows
    <3>1. CASE row.remaining > 0 /\ row' = [row EXCEPT !.remaining = @ - 1]
      <4>1. row.remaining \in Nat
        BY <1>1 DEF FileRows
      <4> HIDE DEF EditInv, EditTypeOK
      <4> DEFINE n == row.remaining - 1
      <4>2. row' = [row EXCEPT !.remaining = n] /\ n \in Nat
        BY <3>1, <4>1
      <4> HIDE DEF n
      <4> QED BY <1>1, <4>2 DEF FileRows
    <3>2. CASE row' = [row EXCEPT !.password = "new"]
      BY <1>1, <3>2 DEF FileRows
    <3> QED BY <1>6, <3>1, <3>2 DEF Elsewhere
  <2>2. UNCHANGED <<item, dialog, request, touched>> /\ downloaded < 1
        /\ downloaded' = downloaded + 1
    BY <1>6 DEF Elsewhere
  <2>3. downloaded' \in 0..1
    <3>1. downloaded \in 0..1
      OBVIOUS
    <3> HIDE DEF EditInv, EditTypeOK
    <3> QED BY <2>2, <3>1
  <2> QED BY <1>1, <2>1, <2>2, <2>3 DEF Listed
<1> QED BY <1>2, <1>3, <1>4, <1>5, <1>6 DEF EditStep

LEMMA EditUnchanged == ASSUME EditInv, UNCHANGED editVars PROVE EditInv'
  BY DEF EditInv, EditTypeOK, editVars, Listed

(* The request has, for a field that was not touched, the value that the row *)
(* was made with.                                                            *)
LEMMA UntouchedKept ==
  ASSUME EditInv, apiEditFile, NEW field \in Fields \ touched
  PROVE  Value(row', field) = Value(row, field) \/ Value(row, field) # Value(item, field)
<1>1. /\ row \in FileRows /\ item \in FileRows /\ Listed(item)
  BY DEF EditInv, EditTypeOK, apiEditFile
<1>2. PICK q \in Asked :
        /\ request = <<q>>
        /\ "downloads" \notin touched =>
              q.allowedDownloads = IF item.unlimitedDownloads THEN 0 ELSE item.remaining
        /\ "expiry" \notin touched =>
              q.expiryTimestamp = IF item.unlimitedTime THEN 0 ELSE item.expireAt
        /\ "password" \notin touched =>
              IF item.password = "" THEN q.password = "" /\ ~q.originalPassword
              ELSE q.originalPassword
        /\ q.password = Unchanged => q.originalPassword
  BY DEF EditInv, apiEditFile
<1>3. row' = Modified(row, q)
  BY <1>2 DEF apiEditFile
<1>4. /\ row'.remaining = IF q.allowedDownloads = 0 THEN row.remaining ELSE q.allowedDownloads
      /\ (row'.unlimitedDownloads <=> q.allowedDownloads = 0)
      /\ row'.expireAt = IF q.expiryTimestamp = 0 THEN row.expireAt ELSE q.expiryTimestamp
      /\ (row'.unlimitedTime <=> q.expiryTimestamp = 0)
      /\ row'.password = IF q.originalPassword THEN row.password ELSE q.password
  BY <1>1, <1>2, <1>3, ModifiedRow
<1>5. CASE field = "downloads"
  <2>1. CASE item.unlimitedDownloads
    <3>1. q.allowedDownloads = 0
      BY <1>2, <1>5, <2>1
    <3>2. row'.unlimitedDownloads
      BY <1>4, <3>1
    <3>3. Value(row', field) = -1 /\ Value(item, field) = -1
      BY <1>5, <2>1, <3>2 DEF Value
    <3> QED BY <3>3
  <2>2. CASE ~item.unlimitedDownloads
    <3>1. q.allowedDownloads = item.remaining /\ item.remaining > 0 /\ item.remaining \in Nat
      BY <1>1, <1>2, <1>5, <2>2 DEF Listed, FileRows
    <3>2. ~row'.unlimitedDownloads /\ row'.remaining = item.remaining
      BY <1>4, <3>1
    <3>3. Value(row', field) = item.remaining /\ Value(item, field) = item.remaining
      BY <1>5, <2>2, <3>2 DEF Value
    <3> QED BY <3>3
  <2> QED BY <2>1, <2>2
<1>6. CASE field = "expiry"
  <2>1. CASE item.unlimitedTime
    <3>1. q.expiryTimestamp = 0
      BY <1>2, <1>6, <2>1
    <3>2. row'.unlimitedTime
      BY <1>4, <3>1
    <3>3. Value(row', field) = -1 /\ Value(item, field) = -1
      BY <1>6, <2>1, <3>2 DEF Value
    <3> QED BY <3>3
  <2>2. CASE ~item.unlimitedTime
    <3>1. q.expiryTimestamp = item.expireAt
      BY <1>2, <1>6, <2>2
    <3>4. item.expireAt > Today /\ item.expireAt \in Times \cup {Today + 14}
      BY <1>1, <2>2 DEF Listed, FileRows
    <3>5. item.expireAt # 0
      BY <3>4, EditAssumption
    <3>2. ~row'.unlimitedTime /\ row'.expireAt = item.expireAt
      BY <1>4, <3>1, <3>5
    <3>3. Value(row', field) = item.expireAt /\ Value(item, field) = item.expireAt
      BY <1>6, <2>2, <3>2 DEF Value
    <3> QED BY <3>3
  <2> QED BY <2>1, <2>2
<1>7. CASE field = "password"
  <2>1. CASE item.password = ""
    <3>1. row'.password = ""
      BY <1>2, <1>4, <1>7, <2>1
    <3> QED BY <1>7, <2>1, <3>1 DEF Value
  <2>2. CASE item.password # ""
    <3>1. row'.password = row.password
      BY <1>2, <1>4, <1>7, <2>2
    <3> QED BY <1>7, <3>1 DEF Value
  <2> QED BY <2>1, <2>2
<1> QED BY <1>5, <1>6, <1>7 DEF Fields

-----------------------------------------------------------------------------
(* What the server tells of an upload *)

LEMMA SetType ==
  ASSUME StatusTypeOK, NEW f \in Files, NEW status \in 0..2, Set(f, status)
  PROVE  saved' \in [Files -> -1..2] /\ publishers' \subseteq StatusEvents
<1>1. [file |-> f, status |-> status] \in StatusEvents
  BY DEF StatusEvents
<1>2. saved \in [Files -> -1..2] /\ publishers \subseteq StatusEvents
  BY DEF StatusTypeOK
<1>3. (IF saved[f] > status THEN saved[f] ELSE status) \in -1..2
  BY <1>2
<1> QED BY <1>1, <1>2, <1>3 DEF Set

LEMMA JobStepType ==
  ASSUME StatusTypeOK, NEW f \in Files, NEW stored, JobStep(f, stored)
  PROVE  StatusTypeOK'
<1>1. /\ file \in [Files -> FileStates] /\ job \in [Files -> JobStates]
      /\ saved \in [Files -> -1..2] /\ publishers \subseteq StatusEvents
  BY DEF StatusTypeOK
<1>2. file' \in [Files -> FileStates]
  BY <1>1 DEF JobStep, FileStates
<1>3. job' \in [Files -> JobStates]
  <2>1. \E pc \in JobStates : job' = [job EXCEPT ![f] = pc]
    <3>1. "save" \in JobStates /\ "move" \in JobStates /\ "finish" \in JobStates /\ "done" \in JobStates
      BY DEF JobStates
    <3> QED BY <3>1 DEF JobStep, Goes
  <2> QED BY <1>1, <2>1
<1>4. saved' \in [Files -> -1..2] /\ publishers' \subseteq StatusEvents
  <2>1. CASE \E status \in 0..2 : Set(f, status)
    BY <2>1, SetType
  <2>2. CASE UNCHANGED <<saved, publishers>>
    BY <1>1, <2>2
  <2>3. \/ \E status \in 0..2 : Set(f, status)
        \/ UNCHANGED <<saved, publishers>>
    <3>1. StatusHashingOrEncrypting \in 0..2 /\ StatusUploading \in 0..2 /\ StatusFinished \in 0..2
      BY DEF StatusHashingOrEncrypting, StatusUploading, StatusFinished
    <3> QED BY <3>1, Zenon DEF JobStep
  <2> QED BY <2>1, <2>2, <2>3
<1>5. UNCHANGED streamVars
  BY DEF JobStep
<1> QED BY <1>2, <1>3, <1>4, <1>5 DEF StatusTypeOK, streamVars

LEMMA JobFailsType ==
  ASSUME StatusTypeOK, NEW f \in Files, JobFails(f)
  PROVE  StatusTypeOK'
  BY DEF StatusTypeOK, JobFails, Goes, streamVars, JobStates

LEMMA ScheduledDeletionType ==
  ASSUME StatusTypeOK, NEW f \in Files, ScheduledDeletion(f)
  PROVE  StatusTypeOK'
  BY DEF StatusTypeOK, ScheduledDeletion, streamVars, FileStates

LEMMA PublishType ==
  ASSUME StatusTypeOK, NEW event \in publishers, PublishNewStatus(event)
  PROVE  StatusTypeOK'
<1>1. event \in StatusEvents /\ queue \in Seq(StatusEvents)
  BY DEF StatusTypeOK
<1>2. queue' \in Seq(StatusEvents)
  BY <1>1 DEF PublishNewStatus
<1> QED BY <1>2 DEF StatusTypeOK, PublishNewStatus

(* A new connection is told the saved statuses of files. *)
LEMMA SavedStatuses ==
  ASSUME StatusTypeOK, NEW known \in GetAllForUser
  PROVE  known \in Seq(StatusEvents)
<1>1. Known \subseteq Files /\ \A f \in Known : saved[f] \in 0..2
  BY DEF Known, StatusTypeOK
<1>2. Cardinality(Known) \in Nat
  BY <1>1, FilesAssumption, FS_Subset, FS_CardinalityType
<1>3. PICK p \in [1..Cardinality(Known) -> Known] :
         known = [i \in DOMAIN p |-> [file |-> p[i], status |-> saved[p[i]]]]
  BY DEF GetAllForUser
<1>4. DOMAIN p = 1..Cardinality(Known)
  OBVIOUS
<1>5. \A i \in 1..Cardinality(Known) : [file |-> p[i], status |-> saved[p[i]]] \in StatusEvents
  BY <1>1 DEF StatusEvents
<1>6. known \in [1..Cardinality(Known) -> StatusEvents]
  BY <1>3, <1>4, <1>5
<1> QED BY <1>2, <1>6

LEMMA StreamOpensType ==
  ASSUME StatusTypeOK, addListener \/ ReadSaved
  PROVE  StatusTypeOK'
<1>1. CASE addListener
  BY <1>1 DEF addListener, StatusTypeOK
<1>2. CASE ReadSaved
  <2>1. replay' \in Seq(StatusEvents)
    BY <1>2, SavedStatuses DEF ReadSaved
  <2> QED BY <1>2, <2>1 DEF ReadSaved, StatusTypeOK
<1> QED BY <1>1, <1>2

LEMMA WrittenType ==
  ASSUME StatusTypeOK, Written
  PROVE  StatusTypeOK' /\ Head(Pending) \in StatusEvents
<1>1. replay \in Seq(StatusEvents) /\ queue \in Seq(StatusEvents) /\ Pending # <<>>
  BY DEF StatusTypeOK, Written
<1>2. Pending \in Seq(StatusEvents)
  BY <1>1 DEF Pending
<1>3. Head(Pending) \in StatusEvents
  BY <1>1, <1>2, HeadAndTail
<1>4. CASE replay # <<>>
  <2>1. replay' \in Seq(StatusEvents)
    BY <1>1, <1>4, HeadAndTail DEF Written
  <2> QED BY <1>3, <1>4, <2>1 DEF Written, StatusTypeOK
<1>5. CASE replay = <<>>
  <2>1. queue # <<>>
    BY <1>1, <1>5 DEF Pending
  <2>2. queue' \in Seq(StatusEvents)
    BY <1>1, <1>5, <2>1, HeadAndTail DEF Written
  <2> QED BY <1>3, <1>5, <2>2 DEF Written, StatusTypeOK
<1> QED BY <1>4, <1>5

LEMMA RemoveListenerType ==
  ASSUME StatusTypeOK, removeListener
  PROVE  StatusTypeOK'
<1>1. <<>> \in Seq(StatusEvents)
  OBVIOUS
<1> QED BY <1>1 DEF StatusTypeOK, removeListener

LEMMA SameStatus ==
  ASSUME StatusTypeOK, UNCHANGED statusVars
  PROVE  StatusTypeOK'
  BY DEF StatusTypeOK, statusVars

LEMMA SameWorker ==
  ASSUME WorkerInv, UNCHANGED workerVars
  PROVE  WorkerInv'
  BY DEF WorkerInv, WorkerTypeOK, OneConnection, workerVars

-----------------------------------------------------------------------------
(* Values of the page *)

LEMMA ScenarioType ==
  ASSUME scenario \in DOMAIN Scenarios
  PROVE  /\ Now.tabs \subseteq Tabs /\ Uploader \in Tabs /\ Now.present \subseteq Files
         /\ Now.uploads \subseteq Files \ Now.present
         /\ Now.maxClicks \in Nat /\ Now.maxFaults \in Nat
  BY PageAssumption DEF Now, Uploader

LEMMA NoticeType ==
  ASSUME NEW f \in Files
  PROVE  Notice(fileAdded(f)) \in ToWorker \ {Connect} /\ Notice(fileDeleted(f)) \in ToWorker \ {Connect}
<1>1. fileAdded(f) \in Notices /\ fileDeleted(f) \in Notices
  BY PageAssumption DEF fileAdded, fileDeleted
<1>2. ASSUME NEW n PROVE Notice(n) # Connect
  <2>1. Notice(n).type = "notice" /\ Connect.type = "connect"
    BY DEF Notice, Connect
  <2> QED BY <2>1
<1> QED BY <1>1, <1>2, Zenon DEF ToWorker

(* One of the lists of a table is replaced. *)
Tables == [Tabs -> [Files -> Seq(RowStates)]]
LEMMA NewList ==
  ASSUME rows \in Tables, NEW t \in Tabs, NEW f \in Files, NEW list \in Seq(RowStates)
  PROVE  [rows EXCEPT ![t][f] = list] \in Tables
  BY DEF Tables

LEMMA KnownType ==
  ASSUME rows \in Tables, rowCount \in [Tabs -> Int], NEW t \in Tabs
  PROVE  Known_(t) \in Int
<1> DEFINE numbers == [f \in Files |-> DOMAIN rows[t][f]]
<1>1. ASSUME NEW f \in Files PROVE IsFiniteSet(numbers[f])
  <2>1. rows[t][f] \in Seq(RowStates)
    BY DEF Tables
  <2>2. numbers[f] = 1..Len(rows[t][f]) /\ Len(rows[t][f]) \in Nat
    BY <2>1
  <2>3. IsFiniteSet(1..Len(rows[t][f]))
    BY <2>2, FS_Interval
  <2> QED BY <2>2, <2>3
<1> HIDE DEF numbers
<1>2. CountRows(t) \in Nat
  BY <1>1, TotalType DEF CountRows, numbers
<1> QED BY <1>2 DEF Known_

LEMMA AddRowType ==
  ASSUME rows \in Tables, rowCount \in [Tabs -> Int], NEW t \in Tabs, NEW f \in Files, addRow(t, f)
  PROVE  rows' \in Tables /\ rowCount' \in [Tabs -> Int]
<1>1. rows[t][f] \in Seq(RowStates) /\ <<"shown">> \in Seq(RowStates)
  BY DEF Tables, RowStates
<1> DEFINE list == <<"shown">> \o rows[t][f]
<1>2. list \in Seq(RowStates)
  BY <1>1, ConcatProperties
<1>3. rows' = [rows EXCEPT ![t][f] = list]
  BY DEF addRow, Tables
<1> HIDE DEF list
<1>4. rowCount' \in [Tabs -> Int]
  BY KnownType DEF addRow
<1> QED BY <1>2, <1>3, <1>4, NewList

LEMMA RemoveRowType ==
  ASSUME rows \in Tables, rowCount \in [Tabs -> Int], NEW t \in Tabs, NEW f \in Files, removeRow(t, f)
  PROVE  rows' \in Tables /\ rowCount' \in [Tabs -> Int]
<1>1. rows[t][f] \in Seq(RowStates) /\ "dying" \in RowStates
  BY DEF Tables, RowStates
<1>2. rowCount' \in [Tabs -> Int]
  BY KnownType DEF removeRow
<1>3. CASE rows[t][f] = <<>>
  BY <1>2, <1>3 DEF removeRow
<1>4. CASE rows[t][f] # <<>>
  <2> DEFINE list == [rows[t][f] EXCEPT ![1] = "dying"]
  <2>1. list \in Seq(RowStates)
    BY <1>1, <1>4
  <2>2. rows' = [rows EXCEPT ![t][f] = list]
    BY <1>4 DEF removeRow, Tables
  <2> HIDE DEF list
  <2> QED BY <1>2, <2>1, <2>2, NewList
<1> QED BY <1>3, <1>4

(* A new request differs from all others. *)
LEMMA NewCall ==
  ASSUME calls \subseteq Calls, IsFiniteSet(calls), NEW t \in Tabs,
         NEW kind \in {"complete", "info", "delete", "restore"}, NEW f \in Files
  PROVE  /\ Call(t, kind, f) \subseteq Calls /\ IsFiniteSet(Call(t, kind, f))
         /\ \E c \in Calls \ calls : /\ c.tab = t /\ c.kind = kind /\ c.file = f /\ c.phase = "sent"
                                     /\ Call(t, kind, f) = calls \cup {c}
<1> DEFINE alike == {c \in calls : c.tab = t /\ c.kind = kind /\ c.file = f}
           same == {c.n : c \in alike}
           new == [tab |-> t, kind |-> kind, file |-> f, n |-> Unused(same), phase |-> "sent"]
<1>1. Call(t, kind, f) = calls \cup {new}
  BY DEF Call
<1>2. same \subseteq Nat
  BY DEF Calls
<1>3. IsFiniteSet(same)
  <2>1. IsFiniteSet(alike)
    BY FS_Subset
  <2> DEFINE number == [c \in alike |-> c.n]
  <2>2. number \in Surjection(alike, same)
    BY Zenon DEF Surjection
  <2> QED BY <2>1, <2>2, FS_Surjection
<1>4. Unused(same) \in Nat /\ Unused(same) \notin same
  BY <1>2, <1>3, UnusedNumber
<1>5. new \in Calls
  BY <1>4, Zenon DEF Calls
<1>6. new \notin calls
  <2> SUFFICES ASSUME new \in calls PROVE FALSE
    OBVIOUS
  <2>1. new \in alike /\ new.n = Unused(same)
    OBVIOUS
  <2>2. Unused(same) \in same
    BY <2>1
  <2> QED BY <1>4, <2>2
<1>7. new.tab = t /\ new.kind = kind /\ new.file = f /\ new.phase = "sent"
  OBVIOUS
<1> HIDE DEF new, same, alike
<1>8. IsFiniteSet(calls \cup {new})
  BY FS_AddElement
<1> QED BY <1>1, <1>5, <1>6, <1>7, <1>8

(* The same for a new chain *)
LEMMA NewChainType ==
  ASSUME chains \subseteq Chains, IsFiniteSet(chains), NEW t \in Tabs, NEW f \in Files \cup {NoFile}
  PROVE  /\ NewChain(t, f) \in Chains /\ IsFiniteSet(chains \cup {NewChain(t, f)})
         /\ NewChain(t, f).file = f /\ NewChain(t, f).keys = {} /\ NewChain(t, f).at = "lock"
<1> DEFINE alike == {k \in chains : k.tab = t /\ k.file = f}
           same == {k.n : k \in alike}
<1>1. NewChain(t, f) = [tab |-> t, file |-> f, n |-> Unused(same), keys |-> {}, at |-> "lock"]
  BY DEF NewChain
<1>2. same \subseteq Nat
  BY DEF Chains
<1>3. IsFiniteSet(same)
  <2>1. IsFiniteSet(alike)
    BY FS_Subset
  <2> DEFINE number == [k \in alike |-> k.n]
  <2>2. number \in Surjection(alike, same)
    BY Zenon DEF Surjection
  <2> QED BY <2>1, <2>2, FS_Surjection
<1>4. Unused(same) \in Nat
  BY <1>2, <1>3, UnusedNumber
<1> HIDE DEF same, alike
<1>5. NewChain(t, f) \in Chains
  BY <1>1, <1>4 DEF Chains
<1>6. NewChain(t, f).file = f /\ NewChain(t, f).keys = {} /\ NewChain(t, f).at = "lock"
  BY <1>1
<1>7. IsFiniteSet(chains \cup {NewChain(t, f)})
  BY FS_AddElement
<1> QED BY <1>5, <1>6, <1>7

(* The link of a chain is replaced. *)
LEMMA GotoType ==
  ASSUME chains \subseteq Chains, IsFiniteSet(chains), NEW k \in chains,
         NEW at \in {"lock", "get", "parse", "store", "stored", "unlock"}, NEW keys \in SUBSET Files,
         Goto(k, at, keys)
  PROVE  chains' \subseteq Chains /\ IsFiniteSet(chains')
<1> DEFINE l == [k EXCEPT !.at = at, !.keys = keys]
<1>1. l \in Chains
  BY DEF Chains
<1>2. chains' = (chains \ {k}) \cup {l}
  BY DEF Goto
<1> HIDE DEF l
<1>3. IsFiniteSet(chains \ {k})
  BY FS_RemoveElement
<1> QED BY <1>1, <1>2, <1>3, FS_AddElement

(* A request is replaced by its answer, or forgotten. *)
LEMMA AnsweredType ==
  ASSUME calls \subseteq Calls, IsFiniteSet(calls), NEW c \in calls,
         NEW phase \in {"sent", "done", "refused"}, Answered(c, phase)
  PROVE  calls' \subseteq Calls /\ IsFiniteSet(calls')
<1> DEFINE d == [c EXCEPT !.phase = phase]
<1>1. d \in Calls
  BY DEF Calls
<1>2. calls' = (calls \ {c}) \cup {d} \/ calls' = calls \ {c}
  BY DEF Answered
<1> HIDE DEF d
<1>3. IsFiniteSet(calls \ {c})
  BY FS_RemoveElement
<1> QED BY <1>1, <1>2, <1>3, FS_AddElement

-----------------------------------------------------------------------------
(* Types of the page, the worker and the server: every step keeps them.      *)
PageSound ==
    /\ WorkerInv /\ StatusTypeOK /\ PageTypeOK
    /\ scenario \in DOMAIN Scenarios /\ IsFiniteSet(calls)

TabStates == {"none", "rendered", "open", "leaving", "gone"}
Bars == {"none", "sending", "completing", "queued", "error", "removed"}

(* The variables of the page without those that only count *)
PageParts ==
    /\ session \in BOOLEAN /\ tab \in [Tabs -> TabStates]
    /\ rows \in Tables /\ rowCount \in [Tabs -> Int]
    /\ toast \in [Tabs -> Files \cup {NoFile}] /\ upload \in [Files -> Bars]
    /\ calls \subseteq Calls /\ IsFiniteSet(calls) /\ excused \subseteq Tabs \X Files
    /\ scenario \in DOMAIN Scenarios

LEMMA SoundParts == PageSound => PageParts
  BY DEF PageSound, PageTypeOK, PageParts, TabStates, Bars, Tables

(* With the counters as they were, or within their bounds *)
LEMMA PartsSound ==
  ASSUME PageSound, WorkerInv', StatusTypeOK', PageParts', scenario' = scenario,
         clicks' = clicks \/ (clicks < Now.maxClicks /\ clicks' = clicks + 1),
         faults' = faults \/ (faults < Now.maxFaults /\ faults' = faults + 1)
  PROVE  PageSound'
<1>1. clicks \in 0..Now.maxClicks /\ faults \in 0..Now.maxFaults
  BY DEF PageSound, PageTypeOK
<1>2. Now.maxClicks \in Nat /\ Now.maxFaults \in Nat
  BY ScenarioType DEF PageSound
<1>3. clicks' \in 0..Now.maxClicks /\ faults' \in 0..Now.maxFaults
  BY <1>1, <1>2
<1>4. Now' = Now
  BY DEF Now
<1> QED BY <1>3, <1>4 DEF PageSound, PageTypeOK, PageParts, TabStates, Bars, Tables

LEMMA LoadSound == ASSUME PageSound, NEW t \in Tabs, Load(t) PROVE PageSound'
<1>1. PageParts
  BY SoundParts
<1>2. <<"shown">> \in Seq(RowStates) /\ <<>> \in Seq(RowStates)
  BY DEF RowStates
<1> DEFINE table == [f \in Files |-> IF file[f] = "live" THEN <<"shown">> ELSE <<>>]
<1>3. table \in [Files -> Seq(RowStates)]
  BY <1>2
<1>4. rows' = [rows EXCEPT ![t] = table] /\ tab' = [tab EXCEPT ![t] = "rendered"]
  BY DEF Load
<1> HIDE DEF table
<1>5. rows' \in Tables /\ tab' \in [Tabs -> TabStates]
  BY <1>1, <1>3, <1>4 DEF PageParts, Tables, TabStates
<1>6. UNCHANGED <<workerVars, statusVars, scenario, clicks, session, rowCount, toast, upload, calls,
                  faults, excused>>
  BY DEF Load
<1>7. WorkerInv' /\ StatusTypeOK'
  BY <1>6, SameWorker, SameStatus DEF PageSound
<1>8. PageParts'
  BY <1>1, <1>5, <1>6 DEF PageParts
<1> QED BY <1>6, <1>7, <1>8, PartsSound

LEMMA RegisterSound == ASSUME PageSound, NEW t \in Tabs, registerChangeHandler(t) PROVE PageSound'
<1>1. PageParts
  BY SoundParts
<1>2. UNCHANGED <<statusVars, scenario, clicks, session, rows, rowCount, toast, upload, calls,
                  faults, excused>> /\ tab' = [tab EXCEPT ![t] = "open"]
  BY DEF registerChangeHandler
<1>3. PageParts'
  BY <1>1, <1>2 DEF PageParts, TabStates
<1>4. WorkerInv'
  BY SameWorker, TabInv DEF registerChangeHandler, PageSound
<1>5. StatusTypeOK'
  BY <1>2, SameStatus DEF PageSound
<1> QED BY <1>2, <1>3, <1>4, <1>5, PartsSound

(* A document goes away. *)
LEMMA LeavesParts ==
  ASSUME PageParts, NEW t \in Tabs, Leaves(t), session' \in BOOLEAN,
         UNCHANGED <<scenario, rows, rowCount, toast, upload>>
  PROVE  PageParts'
<1>1. tab' \in [Tabs -> TabStates]
  BY DEF Leaves, PageParts, TabStates
<1>2. calls' \subseteq calls
  BY DEF Leaves
<1>3. IsFiniteSet(calls')
  BY <1>2, FS_Subset DEF PageParts
<1>4. excused' \subseteq Tabs \X Files
  <2> DEFINE mine == {c \in calls : c.tab = t}
             unheard == {c.file : c \in {x \in mine : x.kind \in {"delete", "restore"}}}
  <2>1. unheard \subseteq Files
    BY DEF PageParts, Calls
  <2>2. excused' = excused \cup UNION {Everywhere(f) : f \in unheard}
    BY DEF Leaves
  <2> HIDE DEF unheard
  <2> QED BY <2>1, <2>2 DEF PageParts, Everywhere
<1> QED BY <1>1, <1>2, <1>3, <1>4 DEF PageParts

LEMMA CloseSound == ASSUME PageSound, NEW t \in Tabs, Close(t) \/ GoToLogin(t) PROVE PageSound'
<1>1. /\ Leaves(t) /\ Detach(t)
      /\ UNCHANGED <<statusVars, scenario, clicks, session, rows, rowCount, toast, upload, faults>>
  BY DEF Close, GoToLogin
<1>2. PageParts'
  BY <1>1, SoundParts, LeavesParts DEF PageParts
<1>3. WorkerInv' /\ StatusTypeOK'
  BY <1>1, TabInv, SameStatus DEF PageSound
<1> QED BY <1>1, <1>2, <1>3, PartsSound

LEMMA LogoutSound == ASSUME PageSound, NEW t \in Tabs, doLogout(t) PROVE PageSound'
<1>1. /\ Leaves(t) /\ session' = FALSE
      /\ UNCHANGED <<ports, source, timer, streams, statusVars, scenario, clicks, rows, rowCount,
                     toast, upload, faults>>
  BY DEF doLogout
<1>2. PageParts'
  BY <1>1, SoundParts, LeavesParts
<1>3. WorkerInv'
  <2>1. outbox \in [Tabs -> Seq(ToWorker)] /\ inbox \in [Tabs -> Seq(ToTab)] /\ attached \in SUBSET Tabs
    BY DEF PageSound, WorkerInv, WorkerTypeOK
  <2>2. Shutdown \in ToWorker
    BY Zenon DEF ToWorker
  <2>3. Append(outbox[t], Shutdown) \in Seq(ToWorker)
    BY <2>1, <2>2
  <2>4. <<>> \in Seq(ToTab)
    OBVIOUS
  <2>5. /\ outbox' \in [Tabs -> Seq(ToWorker)] /\ inbox' \in [Tabs -> Seq(ToTab)]
        /\ attached' \in SUBSET Tabs
    BY <2>1, <2>3, <2>4 DEF doLogout
  <2> QED BY <1>1, <2>5 DEF PageSound, WorkerInv, WorkerTypeOK, OneConnection
<1>4. StatusTypeOK'
  BY <1>1, SameStatus DEF PageSound
<1> QED BY <1>1, <1>2, <1>3, <1>4, PartsSound

LEMMA RowRemovedSound ==
  ASSUME PageSound, NEW t \in Tabs, NEW f \in Files, RowRemoved(t, f)
  PROVE  PageSound'
<1>1. PageParts
  BY SoundParts
<1>2. PICK i \in DOMAIN rows[t][f] : rows' = [rows EXCEPT ![t][f] = RemoveAt(@, i)]
  BY DEF RowRemoved
<1>3. rows[t][f] \in Seq(RowStates)
  BY <1>1 DEF PageParts, Tables
<1>4. RemoveAt(rows[t][f], i) \in Seq(RowStates)
  <2>1. i \in 1..Len(rows[t][f]) /\ Len(rows[t][f]) \in Nat
    BY <1>3
  <2>2. \A j \in 1..Len(rows[t][f]) : rows[t][f][j] \in RowStates
    BY <1>3
  <2>3. /\ SubSeq(rows[t][f], 1, i - 1) \in Seq(RowStates)
        /\ SubSeq(rows[t][f], i + 1, Len(rows[t][f])) \in Seq(RowStates)
    <3>1. \A j \in 1..i - 1 : rows[t][f][j] \in RowStates
      BY <2>1, <2>2
    <3>2. \A j \in i + 1..Len(rows[t][f]) : rows[t][f][j] \in RowStates
      BY <2>1, <2>2
    <3> QED BY <2>1, <3>1, <3>2, SubSeqProperties
  <2> QED BY <2>3, ConcatProperties DEF RemoveAt
<1> DEFINE list == RemoveAt(rows[t][f], i)
<1>5. rows' = [rows EXCEPT ![t][f] = list]
  BY <1>1, <1>2 DEF PageParts, Tables
<1> HIDE DEF list
<1>6. rows' \in Tables
  BY <1>1, <1>4, <1>5, NewList DEF PageParts, list
<1>7. UNCHANGED <<workerVars, statusVars, scenario, clicks, session, tab, rowCount, toast, upload,
                  calls, faults, excused>>
  BY DEF RowRemoved
<1>8. PageParts'
  BY <1>1, <1>6, <1>7 DEF PageParts
<1>9. WorkerInv' /\ StatusTypeOK'
  BY <1>7, SameWorker, SameStatus DEF PageSound
<1> QED BY <1>7, <1>8, <1>9, PartsSound

LEMMA CrossingType ==
  ASSUME NEW t \in Tabs, NEW f \in Files
  PROVE  Crossing(t, f) \subseteq Tabs \X Files /\ Everywhere(f) \subseteq Tabs \X Files
  BY DEF Crossing, Everywhere

(* The newest row of a file changes. *)
LEMMA NewestRow ==
  ASSUME rows \in Tables, NEW t \in Tabs, NEW f \in Files, rows[t][f] # <<>>, NEW state \in RowStates
  PROVE  [rows EXCEPT ![t][f][1] = state] \in Tables
<1>1. rows[t][f] \in Seq(RowStates)
  BY DEF Tables
<1> DEFINE list == [rows[t][f] EXCEPT ![1] = state]
<1>2. list \in Seq(RowStates)
  BY <1>1
<1>3. [rows EXCEPT ![t][f][1] = state] = [rows EXCEPT ![t][f] = list]
  BY DEF Tables
<1> HIDE DEF list
<1> QED BY <1>2, <1>3, NewList

LEMMA UploadSound ==
  ASSUME PageSound, NEW f \in Files, addFileProgress(f) \/ sendChunkComplete(f) \/ ChunkFails(f)
  PROVE  PageSound'
<1>1. PageParts /\ Uploader \in Tabs
  BY SoundParts, ScenarioType DEF PageSound
<1>2. UNCHANGED <<workerVars, statusVars, scenario, clicks, session, tab, rows, rowCount, toast, excused>>
  BY DEF addFileProgress, sendChunkComplete, ChunkFails
<1>3. upload' \in [Files -> Bars]
  BY <1>1 DEF addFileProgress, sendChunkComplete, ChunkFails, PageParts, Bars
<1>4. calls' \subseteq Calls /\ IsFiniteSet(calls')
  <2>1. CASE addFileProgress(f) \/ ChunkFails(f)
    BY <1>1, <2>1 DEF addFileProgress, ChunkFails, PageParts
  <2>2. CASE sendChunkComplete(f)
    <3>1. calls' = Call(Uploader, "complete", f)
      BY <2>2 DEF sendChunkComplete
    <3> QED BY <1>1, <3>1, NewCall DEF PageParts
  <2> QED BY <2>1, <2>2
<1>5. PageParts'
  BY <1>1, <1>2, <1>3, <1>4 DEF PageParts
<1>6. WorkerInv' /\ StatusTypeOK'
  BY <1>2, SameWorker, SameStatus DEF PageSound
<1>7. faults' = faults \/ (faults < Now.maxFaults /\ faults' = faults + 1)
  BY DEF addFileProgress, sendChunkComplete, ChunkFails
<1> QED BY <1>2, <1>5, <1>6, <1>7, PartsSound

LEMMA DeleteClickSound ==
  ASSUME PageSound, NEW t \in Tabs, NEW f \in Files, deleteFile(t, f)
  PROVE  PageSound'
<1>1. PageParts
  BY SoundParts
<1>2. /\ Click /\ rows[t][f] # <<>> /\ rows' = [rows EXCEPT ![t][f][1] = "busy"]
      /\ calls' = Call(t, "delete", f) /\ excused' = excused \cup Crossing(t, f)
      /\ UNCHANGED <<workerVars, statusVars, scenario, session, tab, rowCount, toast, upload, faults>>
  BY DEF deleteFile
<1>3. "busy" \in RowStates
  BY DEF RowStates
<1>4. rows' \in Tables
  BY <1>1, <1>2, <1>3, NewestRow DEF PageParts
<1>5. calls' \subseteq Calls /\ IsFiniteSet(calls')
  BY <1>1, <1>2, NewCall DEF PageParts
<1>6. excused' \subseteq Tabs \X Files
  BY <1>1, <1>2, CrossingType DEF PageParts
<1>7. PageParts'
  BY <1>1, <1>2, <1>4, <1>5, <1>6 DEF PageParts
<1>8. WorkerInv' /\ StatusTypeOK'
  BY <1>2, SameWorker, SameStatus DEF PageSound
<1> QED BY <1>2, <1>7, <1>8, PartsSound DEF Click

LEMMA UndoSound ==
  ASSUME PageSound, NEW t \in Tabs, handleUndo(t)
  PROVE  PageSound'
<1>1. PageParts
  BY SoundParts
<1>2. /\ Click /\ toast[t] # NoFile /\ toast' = [toast EXCEPT ![t] = NoFile]
      /\ calls' = Call(t, "restore", toast[t]) /\ excused' = excused \cup Crossing(t, toast[t])
      /\ UNCHANGED <<workerVars, statusVars, scenario, session, tab, rows, rowCount, upload, faults>>
  BY DEF handleUndo
<1>3. toast[t] \in Files
  BY <1>1, <1>2 DEF PageParts
<1>4. calls' \subseteq Calls /\ IsFiniteSet(calls')
  BY <1>1, <1>2, <1>3, NewCall DEF PageParts
<1>5. excused' \subseteq Tabs \X Files
  BY <1>1, <1>2, <1>3, CrossingType DEF PageParts
<1>6. toast' \in [Tabs -> Files \cup {NoFile}]
  BY <1>1, <1>2 DEF PageParts
<1>7. PageParts'
  BY <1>1, <1>2, <1>4, <1>5, <1>6 DEF PageParts
<1>8. WorkerInv' /\ StatusTypeOK'
  BY <1>2, SameWorker, SameStatus DEF PageSound
<1> QED BY <1>2, <1>7, <1>8, PartsSound DEF Click

-----------------------------------------------------------------------------
(* The server handles a request, or the connection fails. *)

LEMMA HandleSound ==
  ASSUME PageSound, NEW c \in calls, Handle(c)
  PROVE  PageSound'
<1>1. PageParts /\ c \in Calls /\ c.file \in Files
  BY SoundParts DEF PageParts, Calls
<1>2. UNCHANGED <<workerVars, saved, publishers, streamVars, scenario, clicks, session, tab, rows,
                  rowCount, toast, upload, faults>>
  BY DEF Handle
<1>3. calls' \subseteq Calls /\ IsFiniteSet(calls')
  <2>1. Answered(c, "done") \/ Answered(c, "refused")
    BY DEF Handle
  <2> QED BY <1>1, <2>1, AnsweredType DEF PageParts
<1>4. StatusTypeOK'
  <2>1. file \in [Files -> FileStates] /\ job \in [Files -> JobStates]
    BY DEF PageSound, StatusTypeOK
  <2>2. \/ StartJob(c.file) /\ UNCHANGED file
        \/ DeleteFileSchedule(c.file) /\ UNCHANGED job
        \/ CancelPendingFileDeletion(c.file) /\ UNCHANGED job
        \/ UNCHANGED <<file, job>>
    BY DEF Handle
  <2>3. file' \in [Files -> FileStates]
    BY <1>1, <2>1, <2>2 DEF DeleteFileSchedule, CancelPendingFileDeletion, FileStates
  <2>4. job' \in [Files -> JobStates]
    BY <1>1, <2>1, <2>2 DEF StartJob, JobStates
  <2> QED BY <1>2, <2>3, <2>4 DEF PageSound, StatusTypeOK, streamVars
<1>5. excused' \subseteq Tabs \X Files
  <2>1. excused' \subseteq excused \cup Everywhere(c.file)
    BY DEF Handle
  <2> QED BY <1>1, <2>1 DEF PageParts, Everywhere
<1>6. PageParts'
  BY <1>1, <1>2, <1>3, <1>5 DEF PageParts
<1>7. WorkerInv'
  BY <1>2, SameWorker DEF PageSound
<1> QED BY <1>2, <1>4, <1>6, <1>7, PartsSound

LEMMA ConnectionFailsSound ==
  ASSUME PageSound, NEW c \in calls, ConnectionFails(c)
  PROVE  PageSound'
<1>1. PageParts /\ c.file \in Files
  BY SoundParts DEF PageParts, Calls
<1>2. /\ faults < Now.maxFaults /\ faults' = faults + 1 /\ Answered(c, "refused")
      /\ UNCHANGED <<workerVars, statusVars, scenario, clicks, session, tab, rows, rowCount, toast, upload>>
  BY DEF ConnectionFails
<1>3. calls' \subseteq Calls /\ IsFiniteSet(calls')
  BY <1>1, <1>2, AnsweredType DEF PageParts
<1>4. excused' \subseteq Tabs \X Files
  <2>1. excused' \subseteq excused \cup Everywhere(c.file)
    BY DEF ConnectionFails
  <2> QED BY <1>1, <2>1 DEF PageParts, Everywhere
<1>5. PageParts'
  BY <1>1, <1>2, <1>3, <1>4 DEF PageParts
<1>6. WorkerInv' /\ StatusTypeOK'
  BY <1>2, SameWorker, SameStatus DEF PageSound
<1> QED BY <1>2, <1>5, <1>6, PartsSound

-----------------------------------------------------------------------------
(* What answers and messages do *)

LEMMA NotifySound ==
  ASSUME PageSound, NEW t \in Tabs, NEW f \in Files,
         notifyWorker(t, fileAdded(f)) \/ notifyWorker(t, fileDeleted(f))
  PROVE  WorkerInv'
<1>1. WorkerInv
  BY DEF PageSound
<1>2. CASE Now.shared
  <2>1. \E msg \in ToWorker \ {Connect} : Post(t, msg)
    BY <1>2, NoticeType, Zenon DEF notifyWorker
  <2> QED BY <1>1, <2>1, TabInv
<1>3. CASE ~Now.shared
  BY <1>1, <1>3, SameWorker DEF notifyWorker
<1> QED BY <1>2, <1>3

LEMMA ShowErrorType ==
  ASSUME upload \in [Files -> Bars], NEW f \in Files, ShowError(f)
  PROVE  upload' \in [Files -> Bars]
  BY DEF ShowError, Bars

LEMMA AnswerSound ==
  ASSUME PageSound, NEW c \in calls, Answer(c)
  PROVE  PageSound'
<1>1. PageParts /\ c \in Calls /\ c.file \in Files /\ c.tab \in Tabs
  BY SoundParts DEF PageParts, Calls
<1>2. /\ calls' = calls \ {c}
      /\ UNCHANGED <<statusVars, scenario, clicks, session, tab, faults, excused>>
  BY DEF Answer
<1>3. calls' \subseteq Calls /\ IsFiniteSet(calls')
  BY <1>1, <1>2, FS_RemoveElement DEF PageParts
<1>4. rows \in Tables /\ rowCount \in [Tabs -> Int] /\ upload \in [Files -> Bars]
      /\ toast \in [Tabs -> Files \cup {NoFile}] /\ WorkerInv
  BY <1>1 DEF PageParts, PageSound
<1>5. /\ rows' \in Tables /\ rowCount' \in [Tabs -> Int] /\ upload' \in [Files -> Bars]
      /\ toast' \in [Tabs -> Files \cup {NoFile}] /\ WorkerInv'
  <2>1. CASE CompleteAnswered(c)
    <3>1. upload' \in [Files -> Bars]
      <4>1. CASE ShowError(c.file)
        BY <1>1, <1>4, <4>1, ShowErrorType
      <4>2. CASE upload' = [upload EXCEPT ![c.file] = IF @ = "completing" THEN "queued" ELSE @]
        BY <1>4, <4>2 DEF Bars
      <4> QED BY <2>1, <4>1, <4>2 DEF CompleteAnswered
    <3>2. KeepTable /\ UNCHANGED <<workerVars, toast>>
      BY <2>1 DEF CompleteAnswered
    <3> QED BY <1>4, <3>1, <3>2, SameWorker DEF KeepTable
  <2>2. CASE requestFileInfo(c)
    <3>1. /\ addRow(c.tab, c.file) /\ notifyWorker(c.tab, fileAdded(c.file)) /\ UNCHANGED toast
          /\ UNCHANGED upload \/ upload' = [upload EXCEPT ![c.file] = "removed"]
      BY <2>2 DEF requestFileInfo
    <3>2. rows' \in Tables /\ rowCount' \in [Tabs -> Int]
      BY <1>1, <1>4, <3>1, AddRowType
    <3>3. upload' \in [Files -> Bars]
      BY <1>4, <3>1 DEF Bars
    <3> QED BY <1>1, <1>4, <3>1, <3>2, <3>3, NotifySound
  <2>3. CASE InfoRefused(c)
    <3>1. ShowError(c.file) /\ KeepTable /\ UNCHANGED <<workerVars, toast>>
      BY <2>3 DEF InfoRefused
    <3> QED BY <1>1, <1>4, <3>1, ShowErrorType, SameWorker DEF KeepTable
  <2>4. CASE DeleteAnswered(c)
    <3>1. removeRow(c.tab, c.file) /\ UNCHANGED upload
      BY <2>4 DEF DeleteAnswered
    <3>2. rows' \in Tables /\ rowCount' \in [Tabs -> Int]
      BY <1>1, <1>4, <3>1, RemoveRowType
    <3>3. CASE UNCHANGED <<toast, workerVars>>
      BY <1>4, <3>1, <3>2, <3>3, SameWorker
    <3>4. CASE toast' = [toast EXCEPT ![c.tab] = c.file] /\ notifyWorker(c.tab, fileDeleted(c.file))
      BY <1>1, <1>4, <3>1, <3>2, <3>4, NotifySound
    <3> QED BY <2>4, <3>3, <3>4 DEF DeleteAnswered
  <2>5. CASE RestoreAnswered(c)
    <3>1. addRow(c.tab, c.file) /\ notifyWorker(c.tab, fileAdded(c.file)) /\ UNCHANGED <<upload, toast>>
      BY <2>5 DEF RestoreAnswered
    <3>2. rows' \in Tables /\ rowCount' \in [Tabs -> Int]
      BY <1>1, <1>4, <3>1, AddRowType
    <3> QED BY <1>1, <1>4, <3>1, <3>2, NotifySound
  <2>6. CASE ChangeRefused(c)
    <3>1. KeepTable /\ UNCHANGED <<workerVars, upload, toast>>
      BY <2>6 DEF ChangeRefused
    <3> QED BY <1>4, <3>1, SameWorker DEF KeepTable
  <2> QED BY <2>1, <2>2, <2>3, <2>4, <2>5, <2>6 DEF Answer
<1>6. PageParts'
  BY <1>1, <1>2, <1>3, <1>5 DEF PageParts
<1>7. StatusTypeOK'
  BY <1>2, SameStatus DEF PageSound
<1> QED BY <1>2, <1>5, <1>6, <1>7, PartsSound

(* What a tab reads is a message to tabs. *)
LEMMA MessageKinds ==
  ASSUME NEW msg \in ToTab
  PROVE  /\ msg.type = "message" => msg.data \in StatusEvents
         /\ msg.type = "notice" => msg.notice \in Notices /\ msg.notice.file \in Files
<1>1. CASE msg = Shutdown
  BY <1>1 DEF Shutdown
<1>2. CASE \E n \in Notices : msg = Notice(n)
  BY <1>2, PageAssumption DEF Notice
<1>3. CASE \E s \in Statuses : msg = Status(s)
  BY <1>3, PageAssumption DEF Status
<1> QED BY <1>1, <1>2, <1>3, Zenon DEF ToTab

LEMMA ProgressParts ==
  ASSUME PageParts, NEW t \in Tabs, NEW event \in StatusEvents, parseProgressStatus(t, event),
         UNCHANGED <<scenario, session, toast, upload>>
  PROVE  PageParts'
<1>1. event.file \in Files
  BY DEF StatusEvents
<1>2. KeepTable /\ UNCHANGED tab
  BY DEF parseProgressStatus
<1>3. calls' \subseteq Calls /\ IsFiniteSet(calls')
  <2>1. calls' = calls \/ calls' = Call(t, "info", event.file)
    BY DEF parseProgressStatus
  <2> QED BY <1>1, <2>1, NewCall DEF PageParts
<1>4. excused' \subseteq Tabs \X Files
  <2>1. excused' \subseteq excused \cup Crossing(t, event.file) \cup {<<t, event.file>>}
    BY DEF parseProgressStatus
  <2> QED BY <1>1, <2>1, CrossingType DEF PageParts
<1> QED BY <1>2, <1>3, <1>4 DEF PageParts, KeepTable

LEMMA NoticeParts ==
  ASSUME PageParts, NEW t \in Tabs, NEW notice, notice.file \in Files, NoticeReceived(t, notice),
         UNCHANGED <<scenario, session, toast, upload>>
  PROVE  PageParts'
<1>1. UNCHANGED <<calls, tab>>
  BY DEF NoticeReceived
<1>2. rows' \in Tables /\ rowCount' \in [Tabs -> Int]
  <2>1. addRow(t, notice.file) \/ removeRow(t, notice.file) \/ KeepTable
    BY DEF NoticeReceived
  <2> QED BY <2>1, AddRowType, RemoveRowType DEF PageParts, KeepTable
<1>3. excused' \subseteq Tabs \X Files
  <2>1. excused' \subseteq excused \cup {<<t, notice.file>>}
    BY DEF NoticeReceived
  <2> QED BY <2>1 DEF PageParts
<1> QED BY <1>1, <1>2, <1>3 DEF PageParts

LEMMA ReceiveSound ==
  ASSUME PageSound, NEW t \in Tabs, TabReceives(t)
  PROVE  PageSound'
<1>1. PageParts
  BY SoundParts
<1> DEFINE msg == Head(inbox[t])
<1>2. /\ Receive(t)
      /\ UNCHANGED <<statusVars, scenario, clicks, session, toast, upload, faults>>
  BY DEF TabReceives
<1>3. msg \in ToTab
  <2>1. inbox[t] \in Seq(ToTab) /\ inbox[t] # <<>>
    BY <1>2 DEF Receive, PageSound, WorkerInv, WorkerTypeOK
  <2> QED BY <2>1, HeadAndTail
<1>4. \/ msg.type = "message" /\ parseProgressStatus(t, msg.data)
      \/ msg.type = "notice" /\ NoticeReceived(t, msg.notice)
      \/ /\ msg.type = "shutdown" /\ tab' = [tab EXCEPT ![t] = "leaving"]
         /\ KeepTable /\ UNCHANGED <<calls, excused>>
  BY DEF TabReceives
<1> HIDE DEF msg
<1>5. PageParts'
  <2>1. CASE msg.type = "message" /\ parseProgressStatus(t, msg.data)
    BY <1>1, <1>2, <1>3, <2>1, MessageKinds, ProgressParts
  <2>2. CASE msg.type = "notice" /\ NoticeReceived(t, msg.notice)
    BY <1>1, <1>2, <1>3, <2>2, MessageKinds, NoticeParts
  <2>3. CASE /\ msg.type = "shutdown" /\ tab' = [tab EXCEPT ![t] = "leaving"]
             /\ KeepTable /\ UNCHANGED <<calls, excused>>
    BY <1>1, <1>2, <2>3 DEF PageParts, KeepTable, TabStates
  <2> QED BY <1>4, <2>1, <2>2, <2>3
<1>6. WorkerInv' /\ StatusTypeOK'
  BY <1>2, TabInv, SameStatus DEF PageSound
<1> QED BY <1>2, <1>5, <1>6, PartsSound

LEMMA DirectSound ==
  ASSUME PageSound, NEW t \in Tabs, DirectMessage(t)
  PROVE  PageSound'
<1>1. PageParts /\ publishers \subseteq StatusEvents
  BY SoundParts DEF PageSound, StatusTypeOK
<1>2. UNCHANGED <<workerVars, file, job, saved, streamVars, scenario, clicks, session, toast, upload,
                  faults>>
  BY DEF DirectMessage
<1>3. PICK event \in publishers : publishers' = publishers \ {event} /\ parseProgressStatus(t, event)
  BY DEF DirectMessage
<1>4. PageParts'
  BY <1>1, <1>2, <1>3, ProgressParts
<1>5. StatusTypeOK'
  BY <1>2, <1>3 DEF PageSound, StatusTypeOK, streamVars
<1>6. WorkerInv'
  BY <1>2, SameWorker DEF PageSound
<1> QED BY <1>2, <1>4, <1>5, <1>6, PartsSound

-----------------------------------------------------------------------------
(* The worker and the server *)

LEMMA StreamFollowsType ==
  ASSUME StatusTypeOK, StreamFollows
  PROVE  StatusTypeOK'
  BY SameStatus, RemoveListenerType DEF StreamFollows

LEMMA WorkerHearsSound ==
  ASSUME PageSound, NEW t \in Tabs, WorkerHears(t)
  PROVE  PageSound'
<1>1. PageParts /\ WorkerInv /\ StatusTypeOK
  BY SoundParts DEF PageSound
<1>2. /\ StreamFollows
      /\ UNCHANGED <<scenario, clicks, session, tab, rows, rowCount, toast, upload, calls, faults>>
  BY DEF WorkerHears
<1>3. WorkerInv' /\ StatusTypeOK'
  BY <1>1, <1>2, OnMessageInv, RemovePortInv, StreamFollowsType DEF WorkerHears
<1>4. excused' \subseteq Tabs \X Files
  <2>1. CASE onmessage(t) /\ excused' = excused \cup Missed(t)
    <3> DEFINE msg == Head(outbox[t])
    <3>1. outbox[t] \in Seq(ToWorker) /\ outbox[t] # <<>>
      BY <1>1, <2>1 DEF onmessage, WorkerInv, WorkerTypeOK
    <3>2. msg \in ToWorker
      BY <3>1, HeadAndTail
    <3>3. msg.type = "notice" => msg.notice.file \in Files
      BY <3>2, Messages, MessageKinds
    <3>4. Missed(t) \subseteq Tabs \X Files
      BY <3>3 DEF Missed
    <3> QED BY <1>1, <2>1, <3>4 DEF PageParts
  <2>2. CASE UNCHANGED excused
    BY <1>1, <2>2 DEF PageParts
  <2> QED BY <2>1, <2>2 DEF WorkerHears
<1>5. PageParts'
  BY <1>1, <1>2, <1>4 DEF PageParts
<1> QED BY <1>2, <1>3, <1>5, PartsSound

LEMMA StreamSound ==
  ASSUME PageSound, WorkerReconnects \/ StreamBreaks \/ ConnectionEnds
  PROVE  PageSound'
<1>1. PageParts /\ WorkerInv /\ StatusTypeOK
  BY SoundParts DEF PageSound
<1>2. /\ UNCHANGED <<scenario, clicks, session, tab, rows, rowCount, toast, upload, calls, excused>>
      /\ faults' = faults \/ (faults < Now.maxFaults /\ faults' = faults + 1)
  BY DEF WorkerReconnects, StreamBreaks, ConnectionEnds, pageVars
<1>3. WorkerInv'
  <2>1. WorkerStep
    BY DEF WorkerReconnects, StreamBreaks, ConnectionEnds, WorkerStep
  <2> QED BY <1>1, <2>1, WorkerStepInv
<1>4. StatusTypeOK'
  BY <1>1, SameStatus, StreamFollowsType, RemoveListenerType
     DEF WorkerReconnects, StreamBreaks, ConnectionEnds
<1>5. PageParts'
  BY <1>1, <1>2 DEF PageParts
<1> QED BY <1>2, <1>3, <1>4, <1>5, PartsSound

LEMMA SamePage ==
  ASSUME PageSound, UNCHANGED pageVars, WorkerInv', StatusTypeOK'
  PROVE  PageSound'
  BY DEF PageSound, PageTypeOK, pageVars, Now

LEMMA ServerSound ==
  ASSUME PageSound,
         \/ \E f \in Files : JobActs(f)
         \/ \E event \in publishers : Publishes(event)
         \/ StreamOpens \/ StreamSends \/ ServerMay
  PROVE  PageSound'
<1>1. WorkerInv /\ StatusTypeOK
  BY DEF PageSound
<1>2. UNCHANGED pageVars
  BY DEF JobActs, Publishes, StreamOpens, StreamSends, ServerMay
<1>3. CASE StreamSends
  <2>1. StatusTypeOK' /\ Head(Pending) \in Statuses
    BY <1>1, <1>3, WrittenType, PageAssumption DEF StreamSends
  <2>2. WorkerInv'
    BY <1>1, <1>3, <2>1, StreamMessageInv DEF StreamSends
  <2> QED BY <1>2, <2>1, <2>2, SamePage
<1>4. CASE \/ \E f \in Files : JobActs(f)
           \/ \E event \in publishers : Publishes(event)
           \/ StreamOpens \/ ServerMay
  <2>1. StatusTypeOK'
    BY <1>1, <1>4, JobStepType, PublishType, StreamOpensType, ScheduledDeletionType, JobFailsType
       DEF JobActs, Publishes, StreamOpens, ServerMay
  <2>2. UNCHANGED workerVars
    BY <1>4 DEF JobActs, Publishes, StreamOpens, ServerMay
  <2> QED BY <1>1, <1>2, <2>1, <2>2, SameWorker, SamePage
<1> QED BY <1>3, <1>4

-----------------------------------------------------------------------------
(* The chains of encrypted uploads *)

ChainSound == E2eTypeOK /\ IsFiniteSet(chains)

LEMMA SameChains ==
  ASSUME ChainSound, UNCHANGED e2eVars
  PROVE  ChainSound'
  BY DEF ChainSound, E2eTypeOK, e2eVars

LEMMA DecryptType ==
  ASSUME ChainSound, NEW t \in Tabs, NEW keys, NEW table, decryptFileEntries(t, keys, table)
  PROVE  go' \in [Tabs -> {"off", "ready", "exited"}]
  BY DEF decryptFileEntries, ChainSound, E2eTypeOK

LEMMA OpenSound ==
  ASSUME ChainSound, NEW t \in Tabs, checkIfE2EKeyIsSet(t)
  PROVE  ChainSound'
<1>1. /\ go' = [go EXCEPT ![t] = "ready"] /\ chains' = chains \cup {NewChain(t, NoFile)}
      /\ UNCHANGED <<fileInfo, uploads, storedKeys, lock, broken>>
  BY DEF checkIfE2EKeyIsSet
<1>2. chains' \subseteq Chains /\ IsFiniteSet(chains')
  BY <1>1, NewChainType DEF ChainSound, E2eTypeOK
<1> QED BY <1>1, <1>2 DEF ChainSound, E2eTypeOK

LEMMA SendSound ==
  ASSUME ChainSound, scenario \in DOMAIN Scenarios, NEW f \in Files, EncryptNew(f) \/ uploadChunk(f)
  PROVE  ChainSound'
<1>1. CASE EncryptNew(f)
  <2>1. Uploader \in Tabs
    BY ScenarioType
  <2> QED BY <1>1, <2>1 DEF EncryptNew, ChainSound, E2eTypeOK
<1>2. CASE uploadChunk(f)
  BY <1>2, SameChains DEF uploadChunk
<1> QED BY <1>1, <1>2

LEMMA AnswerChainSound ==
  ASSUME PageSound, ChainSound, NEW c \in calls, AnswerAnd(c)
  PROVE  ChainSound'
<1>1. c.tab \in Tabs /\ c.file \in Files
  BY DEF PageSound, PageTypeOK, Calls
<1>2. UNCHANGED <<fileInfo, uploads, storedKeys, lock, broken>>
  BY DEF AnswerAnd
<1>3. chains' \subseteq Chains /\ IsFiniteSet(chains')
  <2>1. chains' = chains \/ chains' = chains \cup {NewChain(c.tab, c.file)}
    BY DEF AnswerAnd
  <2> QED BY <1>1, <2>1, NewChainType DEF ChainSound, E2eTypeOK
<1>4. go' \in [Tabs -> {"off", "ready", "exited"}]
  <2>1. UNCHANGED go \/ decryptFileEntries(c.tab, fileInfo[c.tab], rows')
    BY DEF AnswerAnd
  <2> QED BY <1>1, <2>1, DecryptType DEF ChainSound, E2eTypeOK
<1> QED BY <1>2, <1>3, <1>4 DEF ChainSound, E2eTypeOK

(* A link that throws goes on to the unlock request. *)
LEMMA ThrowsType ==
  ASSUME ChainSound, PageParts, NEW k \in chains, Throws(k)
  PROVE  chains' \subseteq Chains /\ IsFiniteSet(chains') /\ upload' \in [Files -> Bars]
<1>1. chains' \subseteq Chains /\ IsFiniteSet(chains')
  BY GotoType DEF Throws, ChainSound, E2eTypeOK
<1>2. k.file \in Files \cup {NoFile} /\ upload \in [Files -> Bars]
  BY DEF ChainSound, E2eTypeOK, Chains, PageParts
<1>3. upload' \in [Files -> Bars]
  BY <1>2, ShowErrorType DEF Throws
<1> QED BY <1>1, <1>3

LEMMA ParseSound ==
  ASSUME ChainSound, PageParts, NEW k \in chains, InfoParse(k)
  PROVE  ChainSound' /\ upload' \in [Files -> Bars]
<1> DEFINE t == k.tab
           known == k.keys \cup {k.file}
<1>1. t \in Tabs /\ k.keys \in SUBSET Files /\ k.file \in Files \cup {NoFile}
  BY DEF ChainSound, E2eTypeOK, Chains
<1>2. /\ go \in [Tabs -> {"off", "ready", "exited"}] /\ chains \subseteq Chains /\ IsFiniteSet(chains)
      /\ fileInfo \in [Tabs -> SUBSET Files] /\ uploads \in [Tabs -> SUBSET Files]
      /\ upload \in [Files -> Bars]
  BY DEF ChainSound, E2eTypeOK, PageParts
<1>3. UNCHANGED <<storedKeys, lock, broken>>
  BY DEF InfoParse
<1>4. \/ Throws(k) /\ UNCHANGED <<go, uploads>>
         /\ (UNCHANGED fileInfo \/ fileInfo' = [fileInfo EXCEPT ![t] = k.keys])
      \/ /\ fileInfo' = [fileInfo EXCEPT ![t] = k.keys] /\ decryptFileEntries(t, k.keys, rows)
         /\ Goto(k, "unlock", {}) /\ UNCHANGED <<upload, uploads>>
      \/ /\ k.file # NoFile /\ fileInfo' = [fileInfo EXCEPT ![t] = known]
         /\ uploads' = [uploads EXCEPT ![t] = @ \ {k.file}]
         /\ Goto(k, "store", known) /\ UNCHANGED <<upload, go>>
  BY DEF InfoParse
<1>5. /\ chains' \subseteq Chains /\ IsFiniteSet(chains') /\ go' \in [Tabs -> {"off", "ready", "exited"}]
      /\ fileInfo' \in [Tabs -> SUBSET Files] /\ uploads' \in [Tabs -> SUBSET Files]
      /\ upload' \in [Files -> Bars]
  <2>1. CASE Throws(k) /\ UNCHANGED <<go, uploads>>
             /\ (UNCHANGED fileInfo \/ fileInfo' = [fileInfo EXCEPT ![t] = k.keys])
    <3>1. chains' \subseteq Chains /\ IsFiniteSet(chains') /\ upload' \in [Files -> Bars]
      BY <2>1, ThrowsType
    <3> QED BY <1>1, <1>2, <2>1, <3>1
  <2>2. CASE /\ fileInfo' = [fileInfo EXCEPT ![t] = k.keys] /\ decryptFileEntries(t, k.keys, rows)
             /\ Goto(k, "unlock", {}) /\ UNCHANGED <<upload, uploads>>
    <3>1. chains' \subseteq Chains /\ IsFiniteSet(chains')
      BY <1>2, <2>2, GotoType
    <3>2. go' \in [Tabs -> {"off", "ready", "exited"}]
      BY <1>1, <2>2, DecryptType
    <3> QED BY <1>1, <1>2, <2>2, <3>1, <3>2
  <2>3. CASE /\ k.file # NoFile /\ fileInfo' = [fileInfo EXCEPT ![t] = known]
             /\ uploads' = [uploads EXCEPT ![t] = @ \ {k.file}]
             /\ Goto(k, "store", known) /\ UNCHANGED <<upload, go>>
    <3>1. known \in SUBSET Files
      BY <1>1, <2>3
    <3>2. chains' \subseteq Chains /\ IsFiniteSet(chains')
      BY <1>2, <2>3, <3>1, GotoType
    <3> QED BY <1>1, <1>2, <2>3, <3>1, <3>2
  <2> QED BY <1>4, <2>1, <2>2, <2>3
<1> QED BY <1>2, <1>3, <1>5 DEF ChainSound, E2eTypeOK

LEMMA LinkSound ==
  ASSUME ChainSound, PageParts, NEW k \in chains,
         \/ apiE2eMutexLock(k) \/ apiE2eGet(k) \/ apiE2eStore(k) \/ Stored(k) \/ apiE2eMutexUnlock(k)
  PROVE  ChainSound' /\ upload' \in [Files -> Bars]
<1>1. /\ k.tab \in Tabs /\ k.keys \in SUBSET Files
      /\ chains \subseteq Chains /\ IsFiniteSet(chains) /\ storedKeys \in SUBSET Files
      /\ lock \in BOOLEAN /\ upload \in [Files -> Bars]
  BY DEF ChainSound, E2eTypeOK, Chains, PageParts
<1>2. CASE apiE2eMutexLock(k)
  <2>1. chains' \subseteq Chains /\ IsFiniteSet(chains')
    BY <1>1, <1>2, GotoType DEF apiE2eMutexLock
  <2> QED BY <1>1, <1>2, <2>1 DEF apiE2eMutexLock, ChainSound, E2eTypeOK
<1>3. CASE apiE2eGet(k)
  <2>1. chains' \subseteq Chains /\ IsFiniteSet(chains') /\ upload' \in [Files -> Bars]
    <3>1. CASE Throws(k)
      BY <3>1, ThrowsType
    <3>2. CASE Goto(k, "parse", storedKeys \cap AvailableFiles) /\ UNCHANGED upload
      BY <1>1, <3>2, GotoType
    <3> QED BY <1>3, <3>1, <3>2 DEF apiE2eGet
  <2> QED BY <1>3, <2>1 DEF apiE2eGet, ChainSound, E2eTypeOK
<1>4. CASE apiE2eStore(k)
  <2>1. chains' \subseteq Chains /\ IsFiniteSet(chains') /\ upload' \in [Files -> Bars]
        /\ storedKeys' \in SUBSET Files
    <3>1. CASE Throws(k) /\ UNCHANGED storedKeys
      BY <1>1, <3>1, ThrowsType
    <3>2. CASE storedKeys' = k.keys /\ Goto(k, "stored", {}) /\ UNCHANGED upload
      BY <1>1, <3>2, GotoType
    <3> QED BY <1>4, <3>1, <3>2 DEF apiE2eStore
  <2> QED BY <1>4, <2>1 DEF apiE2eStore, ChainSound, E2eTypeOK
<1>5. CASE Stored(k)
  <2>1. /\ chains' \subseteq Chains /\ IsFiniteSet(chains') /\ upload' \in [Files -> Bars]
        /\ go' \in [Tabs -> {"off", "ready", "exited"}]
    <3>1. CASE Throws(k) /\ UNCHANGED go
      BY <3>1, ThrowsType DEF ChainSound, E2eTypeOK
    <3>2. CASE /\ decryptFileEntries(k.tab, fileInfo[k.tab], rows)
               /\ upload' = [upload EXCEPT ![k.file] = "removed"] /\ Goto(k, "unlock", {})
      <4>1. chains' \subseteq Chains /\ IsFiniteSet(chains')
        BY <1>1, <3>2, GotoType
      <4>2. upload' \in [Files -> Bars]
        BY <1>1, <3>2 DEF Bars
      <4> QED BY <1>1, <3>2, <4>1, <4>2, DecryptType
    <3> QED BY <1>5, <3>1, <3>2 DEF Stored
  <2> QED BY <1>5, <2>1 DEF Stored, ChainSound, E2eTypeOK
<1>6. CASE apiE2eMutexUnlock(k)
  BY <1>1, <1>6, FS_RemoveElement DEF apiE2eMutexUnlock, ChainSound, E2eTypeOK
<1> QED BY <1>2, <1>3, <1>4, <1>5, <1>6

LEMMA ChainStepSound ==
  ASSUME PageSound, ChainSound, (\E k \in chains : ChainStep(k)) \/ E2eMay
  PROVE  PageSound' /\ ChainSound'
<1>1. PageParts
  BY SoundParts
<1>2. ASSUME NEW k \in chains, ChainStep(k) PROVE PageSound' /\ ChainSound'
  <2>1. ChainSound' /\ upload' \in [Files -> Bars]
    BY <1>1, <1>2, LinkSound, ParseSound DEF ChainStep
  <2>2. UNCHANGED <<workerVars, statusVars, scenario, clicks, session, tab, rows, rowCount, toast,
                    calls, faults, excused>>
    BY <1>2 DEF ChainStep
  <2>3. WorkerInv' /\ StatusTypeOK'
    BY <2>2, SameWorker, SameStatus DEF PageSound
  <2>4. PageParts'
    BY <1>1, <2>1, <2>2 DEF PageParts
  <2> QED BY <2>1, <2>2, <2>3, <2>4, PartsSound
<1>3. ASSUME NEW k \in chains, ChainFails(k) PROVE PageSound' /\ ChainSound'
  <2>1. /\ Throws(k) /\ faults < Now.maxFaults /\ faults' = faults + 1
        /\ UNCHANGED <<workerVars, statusVars, scenario, clicks, session, tab, rows, rowCount, toast,
                       calls, excused, go, fileInfo, uploads, storedKeys, lock>>
        /\ broken' = (broken \/ k.at = "lock")
    BY <1>3 DEF ChainFails
  <2>2. chains' \subseteq Chains /\ IsFiniteSet(chains') /\ upload' \in [Files -> Bars]
    BY <1>1, <2>1, ThrowsType
  <2>3. broken' \in BOOLEAN
    BY <2>1, Zenon
  <2>4. ChainSound'
    BY <2>1, <2>2, <2>3 DEF ChainSound, E2eTypeOK
  <2>5. WorkerInv' /\ StatusTypeOK'
    BY <2>1, SameWorker, SameStatus DEF PageSound
  <2>6. PageParts'
    BY <1>1, <2>1, <2>2 DEF PageParts
  <2> QED BY <2>1, <2>4, <2>5, <2>6, PartsSound
<1>4. CASE LockExpires
  <2>1. /\ UNCHANGED <<workerVars, statusVars, pageVars, go, fileInfo, uploads, storedKeys, chains>>
        /\ lock' = FALSE /\ broken' = TRUE
    BY <1>4 DEF LockExpires
  <2>2. PageSound'
    BY <2>1, SameWorker, SameStatus, SamePage DEF PageSound
  <2>3. ChainSound'
    BY <2>1 DEF ChainSound, E2eTypeOK
  <2> QED BY <2>2, <2>3
<1> QED BY <1>2, <1>3, <1>4 DEF E2eMay

-----------------------------------------------------------------------------
(* Every step of the page *)
LEMMA PageNextSound ==
  ASSUME PageSound, ChainSound, PageNext
  PROVE  PageSound' /\ ChainSound'
<1>1. scenario \in DOMAIN Scenarios
  BY DEF PageSound
<1>2. ASSUME NEW t \in Tabs, TabStep(t) PROVE PageSound' /\ ChainSound'
  <2>1. CASE registerChangeHandler(t) /\ UNCHANGED e2eVars
    BY <2>1, RegisterSound, SameChains
  <2>2. CASE GoToLogin(t) /\ UNCHANGED e2eVars
    BY <2>2, CloseSound, SameChains
  <2>3. CASE (TabReceives(t) \/ DirectMessage(t)) /\ UNCHANGED e2eVars
    BY <2>3, ReceiveSound, DirectSound, SameChains
  <2>4. CASE (\E f \in Files : RowRemoved(t, f)) /\ UNCHANGED e2eVars
    BY <2>4, RowRemovedSound, SameChains
  <2>5. CASE \E c \in calls : AnswerAnd(c)
    <3>1. PICK c \in calls : AnswerAnd(c)
      BY <2>5
    <3> QED BY <3>1, AnswerSound, AnswerChainSound DEF AnswerAnd
  <2>6. CASE checkIfE2EKeyIsSet(t)
    <3>1. UNCHANGED <<workerVars, statusVars, pageVars>>
      BY <2>6 DEF checkIfE2EKeyIsSet
    <3>2. PageSound'
      BY <3>1, SameWorker, SameStatus, SamePage DEF PageSound
    <3> QED BY <2>6, <3>2, OpenSound
  <2> QED BY <1>2, <2>1, <2>2, <2>3, <2>4, <2>5, <2>6 DEF TabStep
<1>3. ASSUME NEW f \in Files, SendStep(f) PROVE PageSound' /\ ChainSound'
  <2>1. CASE sendChunkComplete(f) /\ UNCHANGED e2eVars
    BY <2>1, UploadSound, SameChains
  <2>2. CASE EncryptNew(f)
    <3>1. UNCHANGED <<workerVars, statusVars, pageVars>>
      BY <2>2 DEF EncryptNew
    <3>2. PageSound'
      BY <3>1, SameWorker, SameStatus, SamePage DEF PageSound
    <3> QED BY <1>1, <2>2, <3>2, SendSound
  <2>3. CASE uploadChunk(f)
    BY <1>1, <2>3, UploadSound, SendSound DEF uploadChunk
  <2> QED BY <1>3, <2>1, <2>2, <2>3 DEF SendStep
<1>4. ASSUME UserStep, UNCHANGED e2eVars PROVE PageSound' /\ ChainSound'
  <2>1. ASSUME NEW t \in Tabs, Load(t) \/ Close(t) \/ doLogout(t) \/ handleUndo(t) PROVE PageSound'
    BY <2>1, LoadSound, CloseSound, LogoutSound, UndoSound
  <2>2. ASSUME NEW t \in Tabs, NEW f \in Files, deleteFile(t, f) PROVE PageSound'
    BY <2>2, DeleteClickSound
  <2>3. ASSUME NEW f \in Files, addFileProgress(f) \/ ChunkFails(f) PROVE PageSound'
    BY <2>3, UploadSound
  <2> QED BY <1>4, <2>1, <2>2, <2>3, SameChains DEF UserStep
<1>5. ASSUME StreamStep, UNCHANGED e2eVars PROVE PageSound' /\ ChainSound'
  BY <1>5, WorkerHearsSound, StreamSound, SameChains DEF StreamStep
<1>6. ASSUME ServerStep \/ ServerMay, UNCHANGED e2eVars PROVE PageSound' /\ ChainSound'
  BY <1>6, ServerSound, SameChains DEF ServerStep
<1>7. ASSUME NEW c \in calls, Handle(c) \/ ConnectionFails(c), UNCHANGED e2eVars
      PROVE  PageSound' /\ ChainSound'
  BY <1>7, HandleSound, ConnectionFailsSound, SameChains
<1>8. ASSUME (\E k \in chains : ChainStep(k)) \/ E2eMay PROVE PageSound' /\ ChainSound'
  BY <1>8, ChainStepSound
<1> QED BY <1>2, <1>3, <1>4, <1>5, <1>6, <1>7, <1>8 DEF PageNext

-----------------------------------------------------------------------------
(* The archives *)

ZipInv == ZipTypeOK /\ items = [s \in Selections |-> items[s]]

LEMMA ZipStepInv ==
  ASSUME ZipInv, ZipStep \/ \E s : zipOnDrop(s)
  PROVE  ZipInv'
<1> DEFINE States == {"none", "plain", "reading", "asking", "compressing", "uploaded", "refused",
                      "dropped", "error"}
           Full == {"asking", "compressing", "uploaded", "dropped", "refused", "error"}
<1>1. /\ selection \in [Selections -> States] /\ items = [s \in Selections |-> items[s]]
      /\ \A s \in Selections : items[s] # <<>> => selection[s] \in Full
      /\ modal \in {"hidden", "shown", "hiding"}
      /\ isChoosingZipName \in BOOLEAN /\ isCompressing \in BOOLEAN
  BY DEF ZipInv, ZipTypeOK
<1> SUFFICES
      /\ selection' \in [Selections -> States] /\ items' = [s \in Selections |-> items'[s]]
      /\ \A s \in Selections : items'[s] # <<>> => selection'[s] \in Full
      /\ modal' \in {"hidden", "shown", "hiding"}
      /\ isChoosingZipName' \in BOOLEAN /\ isCompressing' \in BOOLEAN
  BY DEF ZipInv, ZipTypeOK
<1>2. CASE \E s : zipOnDrop(s)
  BY <1>1, <1>2 DEF zipOnDrop, Becomes
<1>3. CASE \E s \in Selections : zipAskArchiveName(s)
  <2>1. PICK s \in Selections : zipAskArchiveName(s)
    BY <1>3
  <2> DEFINE found == zipDeduplicateNames(zipCollectItems(Contents[s]))
  <2>2. items' = [items EXCEPT ![s] = found] /\ (Becomes(s, "refused") \/ Becomes(s, "asking"))
        /\ isCompressing' = isCompressing /\ isChoosingZipName' \in {isChoosingZipName, TRUE}
        /\ modal' \in {modal, "shown"}
    BY <2>1 DEF zipAskArchiveName
  <2> HIDE DEF found
  <2> QED BY <1>1, <2>2 DEF Becomes
<1>4. CASE \E s \in Selections : zipShowGenericError(s) \/ zipAndUpload(s)
  BY <1>1, <1>4 DEF zipShowGenericError, zipAndUpload, Becomes
<1>5. CASE \E rawName \in Typed : onConfirm(rawName)
  BY <1>1, <1>5 DEF onConfirm, Asking
<1>6. CASE Dismiss
  BY <1>1, <1>6 DEF Dismiss
<1>7. CASE onHidden
  BY <1>1, <1>7 DEF onHidden, Asking
<1> QED BY <1>2, <1>3, <1>4, <1>5, <1>6, <1>7 DEF ZipStep

LEMMA SameZip == ASSUME ZipInv, UNCHANGED zipVars PROVE ZipInv'
  BY DEF ZipInv, ZipTypeOK, zipVars

-----------------------------------------------------------------------------
(* The whole system *)

SystemInv == PageSound /\ ChainSound /\ ZipInv /\ EditInv

LEMMA SystemInit == Init => SystemInv
<1> SUFFICES ASSUME Init PROVE SystemInv
  OBVIOUS
<1>1. scenario \in DOMAIN Scenarios
  BY DEF Init
<1>2. WorkerInv
  BY InitInv DEF Init
<1>3. StatusTypeOK
  <2>1. <<>> \in Seq(StatusEvents)
    OBVIOUS
  <2>2. \A f \in Files : (IF f \in Now.present THEN "live" ELSE "none") \in FileStates
    BY DEF FileStates
  <2>3. file \in [Files -> FileStates] /\ job \in [Files -> JobStates] /\ saved \in [Files -> -1..2]
    BY <2>2 DEF Init, StatusInit, JobStates
  <2> QED BY <2>1, <2>3 DEF Init, StatusInit, StatusTypeOK
<1>4. PageTypeOK /\ IsFiniteSet(calls)
  <2>1. <<>> \in Seq(RowStates) /\ IsFiniteSet({})
    BY FS_EmptySet
  <2>2. Now.maxClicks \in Nat /\ Now.maxFaults \in Nat
    BY <1>1, ScenarioType
  <2>3. 0 \in 0..Now.maxClicks /\ 0 \in 0..Now.maxFaults
    BY <2>2
  <2>4. /\ tab \in [Tabs -> TabStates] /\ upload \in [Files -> Bars] /\ rowCount \in [Tabs -> Int]
        /\ toast \in [Tabs -> Files \cup {NoFile}] /\ rows \in [Tabs -> [Files -> Seq(RowStates)]]
    BY <2>1 DEF Init, PageInit, TabStates, Bars
  <2> QED BY <2>1, <2>3, <2>4 DEF Init, PageInit, PageTypeOK, TabStates, Bars
<1>5. ChainSound
  <2>1. storedKeys \in SUBSET Files
    BY <1>1, ScenarioType DEF Init, E2eInit
  <2>2. IsFiniteSet(chains) /\ chains \subseteq Chains
    BY FS_EmptySet DEF Init, E2eInit
  <2> QED BY <2>1, <2>2 DEF Init, E2eInit, ChainSound, E2eTypeOK
<1>6. ZipInv
  BY DEF Init, ZipInit, ZipInv, ZipTypeOK
<1>7. EditInv
  BY EditInitInv DEF Init
<1> QED BY <1>1, <1>2, <1>3, <1>4, <1>5, <1>6, <1>7 DEF SystemInv, PageSound

LEMMA SystemNext == SystemInv /\ [Next]_vars => SystemInv'
<1> SUFFICES ASSUME SystemInv, [Next]_vars PROVE SystemInv'
  OBVIOUS
<1>1. PageSound /\ ChainSound /\ ZipInv /\ EditInv
  BY DEF SystemInv
<1>2. CASE PageNext /\ UNCHANGED dialogVars
  <2>1. PageSound' /\ ChainSound'
    BY <1>1, <1>2, PageNextSound
  <2>2. UNCHANGED zipVars /\ UNCHANGED editVars
    BY <1>2 DEF dialogVars
  <2> QED BY <1>1, <2>1, <2>2, SameZip, EditUnchanged DEF SystemInv
<1>3. CASE DialogNext /\ UNCHANGED <<workerVars, statusVars, pageVars, e2eVars>>
  <2>1. PageSound'
    BY <1>1, <1>3, SameWorker, SameStatus, SamePage DEF PageSound
  <2>2. ChainSound'
    BY <1>1, <1>3, SameChains
  <2>3. ZipInv' /\ EditInv'
    BY <1>1, <1>3, ZipStepInv, SameZip, EditStepInv, EditUnchanged DEF DialogNext
  <2> QED BY <2>1, <2>2, <2>3 DEF SystemInv
<1>4. CASE UNCHANGED vars
  <2>1. UNCHANGED workerVars /\ UNCHANGED statusVars /\ UNCHANGED pageVars /\ UNCHANGED e2eVars
        /\ UNCHANGED zipVars /\ UNCHANGED editVars
    BY <1>4 DEF vars
  <2>2. PageSound'
    BY <1>1, <2>1, SameWorker, SameStatus, SamePage DEF PageSound
  <2> QED BY <1>1, <2>1, <2>2, SameChains, SameZip, EditUnchanged DEF SystemInv
<1> QED BY <1>2, <1>3, <1>4 DEF Next

(* Every variable of the upload page, of its dialogs, of the worker and of   *)
(* the server's share keeps its type (admin_ui_upload.js, sse-worker.js,     *)
(* end2end_admin.js, admin_ui_zip.js, ProcessingStatus.go, Sse.go).          *)
THEOREM UploadTypes == Spec => []TypeOK
<1>1. SystemInv => TypeOK
  BY DEF SystemInv, PageSound, ChainSound, ZipInv, EditInv, WorkerInv, TypeOK
<1> QED BY <1>1, SystemInit, SystemNext, PTL DEF Spec

(* The worker has one stream as long as tabs listen, with everything that    *)
(* the page and the server do to it: tabs that load, post, log out and go    *)
(* away, streams that break or end (sse-worker.js, admin_ui_upload.js).      *)
THEOREM OneConnectionOfPage == Spec => []OneConnection
<1>1. SystemInv => OneConnection
  BY DEF SystemInv, PageSound, WorkerInv
<1> QED BY <1>1, SystemInit, SystemNext, PTL DEF Spec

(* Saving the limits of a file changes no field that the user has not        *)
(* touched, unless it has been changed elsewhere since the row was made:     *)
(* what showEditModal shows survives handleEditCheckboxChange, editFile and  *)
(* apiEditFile, zeros and unlimited values included.                         *)
THEOREM EditKeeps == Spec => EditKeepsUntouched
<1>1. SystemInv /\ [Next]_vars =>
        [apiEditFile => \A field \in Fields \ touched :
            Value(row', field) = Value(row, field) \/ Value(row, field) # Value(item, field)]_editVars
  BY UntouchedKept DEF SystemInv
<1> QED BY <1>1, SystemInit, SystemNext, PTL DEF Spec, EditKeepsUntouched

-----------------------------------------------------------------------------
(* The keys of encrypted files *)

(* An upload runs once: it has at most one request to complete it, before    *)
(* which nothing is known of the file, and one job, before which there is no *)
(* row.  Whatever asks for the file, or shows it as done, comes later.       *)
Fresh(f) == file[f] = "none" /\ job[f] = "none"
Completes(c) == c.kind = "complete" /\ c.phase = "sent"
UploadsOnce ==
    /\ \A f \in Files : upload[f] # "none" => f \notin Now.present
    /\ \A f \in Files : f \in Now.present \/ upload[f] = "removed" => file[f] # "none"
    /\ \A f \in Files \ Now.present : upload[f] \in {"none", "sending"} => Fresh(f)
    /\ \A f \in Files : job[f] \in {"hash", "move", "save"} => file[f] = "none"
    /\ \A c \in calls : Completes(c) => Fresh(c.file) /\ upload[c.file] \notin {"none", "sending"}
    /\ \A c, d \in calls : Completes(c) /\ Completes(d) /\ c.file = d.file => c = d
    /\ \A c \in calls : c.kind = "info" =>
          upload[c.file] # "none" /\ (c.phase = "done" => file[c.file] # "none")
    /\ \A k \in chains : k.file # NoFile => upload[k.file] # "none" /\ file[k.file] # "none"

(* Whoever is past its lock request has the lock, alone.  Until it stores    *)
(* the document it has every key that is there and that a file still needs,  *)
(* and no document holds a key of a file that is yet to come.                *)
Exclusive == \A k \in chains : k.at # "lock" => lock /\ \A l \in chains : l.at # "lock" => l = k
ChainKeys(k) ==
    /\ \A f \in k.keys : file[f] # "none"
    /\ k.at \in {"parse", "store"} => storedKeys \cap AvailableFiles \subseteq k.keys
    /\ k.at = "store" => k.file \in Files /\ k.file \in k.keys
    /\ k.at = "stored" => k.file \in storedKeys
KeysSafe ==
    /\ Exclusive
    /\ \A k \in chains : ChainKeys(k)
    /\ \A f \in storedKeys : file[f] # "none"
    /\ \A f \in AvailableFiles : f \in Now.present \/ upload[f] = "removed" => f \in storedKeys
KeysInv == UploadsOnce /\ (Now.e2e /\ ~broken => KeysSafe)

(* What uploads and files do in a step: a bar that has been shown does not   *)
(* return to its first two states, a file that exists is never yet to come,  *)
(* and one that is gone does not come back.                                  *)
Onward ==
    \A f \in Files :
        /\ upload'[f] \in {"none", "sending"} => upload'[f] = upload[f]
        /\ upload'[f] # "none" => upload[f] # "none"
        /\ upload'[f] = "removed" => upload[f] = "removed" \/ file[f] # "none"
FilesOnward ==
    \A f \in Files :
        /\ file[f] # "none" => file'[f] # "none"
        /\ file'[f] \in {"live", "pending"} => file[f] \in {"live", "pending", "none"}

LEMMA SameFiles == UNCHANGED file => FilesOnward
  BY DEF FilesOnward

LEMMA SameBars == UNCHANGED upload => Onward
  BY DEF Onward

(* The page acts: requests other than to complete an upload may come, and    *)
(* chains for files that are there.                                          *)
LEMMA OnceKept ==
  ASSUME PageSound, ChainSound, UploadsOnce, Onward, UNCHANGED <<scenario, file, job>>,
         \A c \in calls' : c \in calls \/
            (/\ c.file \in Files /\ ~Completes(c)
             /\ c.kind = "info" =>
                  upload'[c.file] # "none" /\ (c.phase = "done" => file[c.file] # "none")),
         \A k \in chains' : k \in chains \/
            (k.file # NoFile => /\ k.file \in Files /\ upload[k.file] # "none" /\ file[k.file] # "none")
  PROVE  UploadsOnce'
<1>1. \A f \in Files : upload[f] # "none" => upload'[f] # "none"
  BY DEF Onward
<1>2. /\ \A c \in calls : c.file \in Files
      /\ \A k \in chains : k.file # NoFile => k.file \in Files
  BY DEF PageSound, PageTypeOK, Calls, ChainSound, E2eTypeOK, Chains
<1>3. Now' = Now
  BY DEF Now
<1>4. \A f : Fresh(f)' <=> Fresh(f)
  BY DEF Fresh
<1>5. \A f \in Files : upload'[f] # "none" => f \notin Now.present
  BY DEF Onward, UploadsOnce
<1>6. \A f \in Files : f \in Now.present \/ upload'[f] = "removed" => file[f] # "none"
  BY DEF Onward, UploadsOnce
<1>7. \A f \in Files \ Now.present : upload'[f] \in {"none", "sending"} => Fresh(f)
  BY DEF Onward, UploadsOnce
<1>8. \A c \in calls' : Completes(c) =>
          c \in calls /\ Fresh(c.file) /\ upload'[c.file] \notin {"none", "sending"}
  BY <1>2 DEF Onward, UploadsOnce
<1>9. \A c, d \in calls' : Completes(c) /\ Completes(d) /\ c.file = d.file => c = d
  BY <1>8 DEF UploadsOnce
<1>10. \A c \in calls' : c.kind = "info" =>
          upload'[c.file] # "none" /\ (c.phase = "done" => file[c.file] # "none")
  BY <1>1, <1>2 DEF UploadsOnce
<1>11. \A k \in chains' : k.file # NoFile => upload'[k.file] # "none" /\ file[k.file] # "none"
  BY <1>1, <1>2 DEF UploadsOnce
<1>12. \A f \in Files : job'[f] \in {"hash", "move", "save"} => file'[f] = "none"
  BY DEF UploadsOnce
<1>13. \A c : Completes(c)' <=> Completes(c)
  BY DEF Completes
<1> QED BY <1>3, <1>4, <1>5, <1>6, <1>7, <1>8, <1>9, <1>10, <1>11, <1>12, <1>13 DEF UploadsOnce

(* The server acts: files come, change and go, as long as it is once. *)
LEMMA KeysKeptByPage ==
  ASSUME PageSound, ChainSound, UploadsOnce, KeysSafe, FilesOnward,
         UNCHANGED <<scenario, storedKeys, lock>>,
         \A f \in Files : upload'[f] = "removed" => upload[f] = "removed",
         \A k \in chains' : k \in chains \/ (k.at = "lock" /\ k.keys = {})
  PROVE  KeysSafe'
<1>1. /\ storedKeys \subseteq Files
      /\ \A k \in chains : k.keys \subseteq Files
  BY DEF ChainSound, E2eTypeOK, Chains
<1>2. \A f \in AvailableFiles' : f \in Files /\ (f \in AvailableFiles \/ file[f] = "none")
  BY DEF FilesOnward, AvailableFiles
<1>3. \A f \in storedKeys : file[f] # "none"
  BY DEF KeysSafe
<1>4. \A f \in storedKeys' : file'[f] # "none"
  BY <1>1, <1>3 DEF FilesOnward
<1>5. Exclusive'
  BY DEF KeysSafe, Exclusive
<1>6. ASSUME NEW k \in chains' PROVE ChainKeys(k)'
  <2>1. CASE k \in chains
    <3>1. ChainKeys(k)
      BY <2>1 DEF KeysSafe
    <3>2. \A f \in k.keys : file'[f] # "none"
      BY <1>1, <2>1, <3>1 DEF ChainKeys, FilesOnward
    <3>3. k.at \in {"parse", "store"} => storedKeys' \cap AvailableFiles' \subseteq k.keys
      BY <1>2, <1>3, <3>1 DEF ChainKeys
    <3> QED BY <3>1, <3>2, <3>3 DEF ChainKeys
  <2>2. CASE k.at = "lock" /\ k.keys = {}
    BY <2>2 DEF ChainKeys
  <2> QED BY <2>1, <2>2
<1>7. ASSUME NEW f \in AvailableFiles', f \in Now.present \/ upload'[f] = "removed"
      PROVE  f \in storedKeys
  <2>1. f \in Files /\ (f \in Now.present \/ upload[f] = "removed")
    BY <1>2, <1>7
  <2>2. file[f] # "none"
    BY <2>1 DEF UploadsOnce
  <2> QED BY <1>2, <2>1, <2>2 DEF KeysSafe
<1>8. Now' = Now
  BY DEF Now
<1> QED BY <1>4, <1>5, <1>6, <1>7, <1>8 DEF KeysSafe

(* Both together *)
LEMMA KeysByPage ==
  ASSUME PageSound, ChainSound, KeysInv, Onward,
         UNCHANGED <<scenario, file, job, storedKeys, lock, broken>>,
         \A f \in Files : Now.e2e /\ upload'[f] = "removed" => upload[f] = "removed",
         \A c \in calls' : c \in calls \/
            (/\ c.file \in Files /\ ~Completes(c)
             /\ c.kind = "info" =>
                  upload'[c.file] # "none" /\ (c.phase = "done" => file[c.file] # "none")),
         \A k \in chains' : k \in chains \/
            (/\ k.at = "lock" /\ k.keys = {}
             /\ k.file # NoFile => /\ k.file \in Files /\ upload[k.file] # "none" /\ file[k.file] # "none")
  PROVE  KeysInv'
<1>1. UploadsOnce /\ (Now.e2e /\ ~broken => KeysSafe)
  BY DEF KeysInv
<1>2. UploadsOnce'
  BY <1>1, OnceKept
<1>3. Now' = Now /\ broken' = broken
  BY DEF Now
<1>4. CASE Now.e2e /\ ~broken
  <2>1. KeysSafe'
    BY <1>1, <1>4, SameFiles, KeysKeptByPage
  <2> QED BY <1>2, <2>1 DEF KeysInv
<1>5. CASE ~(Now.e2e /\ ~broken)
  BY <1>2, <1>3, <1>5 DEF KeysInv
<1> QED BY <1>4, <1>5

(* Nothing happens that concerns uploads and their keys. *)
LEMMA KeysSame ==
  ASSUME PageSound, ChainSound, KeysInv, calls' \subseteq calls,
         UNCHANGED <<scenario, file, job, upload, storedKeys, lock, broken, chains>>
  PROVE  KeysInv'
  BY SameBars, KeysByPage

LEMMA KeysOfUpload ==
  ASSUME PageSound, ChainSound, KeysInv, NEW f \in Files,
         addFileProgress(f) \/ sendChunkComplete(f) \/ ChunkFails(f),
         UNCHANGED <<storedKeys, lock, broken, chains>>
  PROVE  KeysInv'
<1>1. /\ UNCHANGED <<scenario, file, job>> /\ Uploader \in Tabs /\ Now.uploads \subseteq Files \ Now.present
      /\ upload \in [Files -> Bars] /\ calls \subseteq Calls /\ IsFiniteSet(calls)
  BY SoundParts, ScenarioType
     DEF addFileProgress, sendChunkComplete, ChunkFails, statusVars, PageSound, PageParts
<1>2. CASE ChunkFails(f)
  <2>1. upload[f] = "sending" /\ upload' = [upload EXCEPT ![f] = "error"] /\ calls' = calls
    BY <1>2 DEF ChunkFails
  <2>2. Onward
    BY <1>1, <2>1 DEF Onward
  <2>3. \A g \in Files : upload'[g] = "removed" => upload[g] = "removed"
    BY <1>1, <2>1
  <2> QED BY <1>1, <2>1, <2>2, <2>3, KeysByPage
<1>3. CASE addFileProgress(f)
  <2>1. f \in Now.uploads /\ upload[f] = "none" /\ upload' = [upload EXCEPT ![f] = "sending"]
        /\ calls' = calls
    BY <1>3 DEF addFileProgress
  <2>2. UploadsOnce'
    <3>1. f \notin Now.present /\ Fresh(f)
      BY <1>1, <2>1 DEF KeysInv, UploadsOnce
    <3>2. \A c \in calls : Completes(c) => c.file # f
      BY <2>1 DEF KeysInv, UploadsOnce
    <3>3. \A g \in Files : upload'[g] = IF g = f THEN "sending" ELSE upload[g]
      BY <1>1, <2>1
    <3>4. /\ \A c \in calls : c.file \in Files
          /\ \A k \in chains : k.file # NoFile => k.file \in Files
      BY <1>1 DEF ChainSound, E2eTypeOK, Chains, Calls
    <3>5. Now' = Now /\ file' = file /\ job' = job /\ chains' = chains
      BY <1>1 DEF Now
    <3> QED BY <2>1, <3>1, <3>2, <3>3, <3>4, <3>5 DEF KeysInv, UploadsOnce, Fresh, Completes
  <2>3. \A g \in Files : upload'[g] = "removed" => upload[g] = "removed"
    BY <1>1, <2>1
  <2>4. Now.e2e /\ ~broken => KeysSafe'
    BY <1>1, <2>3, SameFiles, KeysKeptByPage DEF KeysInv
  <2>5. Now' = Now
    BY <1>1 DEF Now
  <2> QED BY <2>2, <2>4, <2>5 DEF KeysInv
<1>4. CASE sendChunkComplete(f)
  <2>1. upload[f] = "sending" /\ upload' = [upload EXCEPT ![f] = "completing"]
        /\ calls' = Call(Uploader, "complete", f)
    BY <1>4 DEF sendChunkComplete
  <2>2. PICK c \in Calls \ calls : c.kind = "complete" /\ c.file = f /\ calls' = calls \cup {c}
    BY <1>1, <2>1, NewCall
  <2>3. \A g \in Files : upload'[g] = IF g = f THEN "completing" ELSE upload[g]
    BY <1>1, <2>1
  <2>4. UploadsOnce'
    <3>1. Fresh(f) /\ f \notin Now.present
      BY <2>1 DEF KeysInv, UploadsOnce
    <3>2. \A d \in calls : Completes(d) => d.file # f
      BY <2>1 DEF KeysInv, UploadsOnce
    <3>3. /\ \A d \in calls : d.file \in Files
          /\ \A k \in chains : k.file # NoFile => k.file \in Files
      BY <1>1 DEF ChainSound, E2eTypeOK, Chains, Calls
    <3>4. Now' = Now /\ file' = file /\ job' = job /\ chains' = chains
      BY <1>1 DEF Now
    <3>5. /\ \A d \in calls' : Completes(d) => Fresh(d.file) /\ upload'[d.file] \notin {"none", "sending"}
          /\ \A d, e \in calls' : Completes(d) /\ Completes(e) /\ d.file = e.file => d = e
      BY <2>2, <2>3, <3>1, <3>2, <3>3 DEF KeysInv, UploadsOnce
    <3>6. \A d \in calls' : d.kind = "info" =>
             upload'[d.file] # "none" /\ (d.phase = "done" => file[d.file] # "none")
      BY <2>2, <2>3, <3>3 DEF KeysInv, UploadsOnce
    <3>7. \A k \in chains : k.file # NoFile => upload'[k.file] # "none" /\ file[k.file] # "none"
      BY <2>3, <3>3 DEF KeysInv, UploadsOnce
    <3>8. /\ \A g \in Files : upload'[g] # "none" => g \notin Now.present
          /\ \A g \in Files : g \in Now.present \/ upload'[g] = "removed" => file[g] # "none"
          /\ \A g \in Files \ Now.present : upload'[g] \in {"none", "sending"} => Fresh(g)
          /\ \A g \in Files : job[g] \in {"hash", "move", "save"} => file[g] = "none"
      BY <2>3, <3>1 DEF KeysInv, UploadsOnce
    <3> QED BY <3>4, <3>5, <3>6, <3>7, <3>8 DEF UploadsOnce, Fresh, Completes
  <2>5. \A g \in Files : upload'[g] = "removed" => upload[g] = "removed"
    BY <2>3
  <2>6. Now.e2e /\ ~broken => KeysSafe'
    BY <1>1, <2>5, SameFiles, KeysKeptByPage DEF KeysInv
  <2>7. Now' = Now
    BY <1>1 DEF Now
  <2> QED BY <2>4, <2>6, <2>7 DEF KeysInv
<1> QED BY <1>2, <1>3, <1>4

LEMMA KeysOfClick ==
  ASSUME PageSound, ChainSound, KeysInv, UNCHANGED e2eVars, NEW t \in Tabs,
         handleUndo(t) \/ \E f \in Files : deleteFile(t, f)
  PROVE  KeysInv'
<1>1. UNCHANGED <<scenario, file, job, upload, storedKeys, lock, broken, chains>>
  BY DEF handleUndo, deleteFile, statusVars, e2eVars
<1>2. \E f \in Files, kind \in {"delete", "restore"} : calls' = Call(t, kind, f)
  <2>1. CASE handleUndo(t)
    <3>1. toast[t] \in Files /\ calls' = Call(t, "restore", toast[t])
      BY <2>1 DEF handleUndo, PageSound, PageTypeOK
    <3> QED BY <3>1
  <2>2. CASE \E f \in Files : deleteFile(t, f)
    BY <2>2 DEF deleteFile
  <2> QED BY <2>1, <2>2
<1>3. PICK f \in Files, kind \in {"delete", "restore"} : calls' = Call(t, kind, f)
  BY <1>2
<1>4. calls \subseteq Calls /\ IsFiniteSet(calls)
  BY DEF PageSound, PageTypeOK
<1>5. PICK c \in Calls \ calls : c.kind = kind /\ c.file = f /\ calls' = calls \cup {c}
  <2>1. kind \in {"complete", "info", "delete", "restore"}
    OBVIOUS
  <2> QED BY <1>3, <1>4, <2>1, NewCall
<1>6. \A d \in calls' : d \in calls \/ (d.file \in Files /\ ~Completes(d) /\ d.kind # "info")
  BY <1>5 DEF Completes
<1> QED BY <1>1, <1>6, SameBars, KeysByPage

(* A tab goes away, and forgets its answers. *)
LEMMA KeysOfLeaving ==
  ASSUME PageSound, ChainSound, KeysInv, UNCHANGED e2eVars, NEW t \in Tabs,
         Close(t) \/ GoToLogin(t) \/ doLogout(t)
  PROVE  KeysInv'
<1>1. Leaves(t) /\ UNCHANGED <<statusVars, scenario, upload>>
  BY DEF Close, GoToLogin, doLogout
<1>2. calls' \subseteq calls
  BY <1>1 DEF Leaves
<1> QED BY <1>1, <1>2, KeysSame DEF statusVars, e2eVars

(* What changes neither a request, a bar, a file, nor a key *)
LEMMA KeysElsewhere ==
  ASSUME PageSound, ChainSound, KeysInv,
         UNCHANGED <<scenario, calls, file, job, upload, storedKeys, lock, broken, chains>>
  PROVE  KeysInv'
  BY KeysSame

(* A tab opens: it asks for the document. *)
LEMMA KeysOfOpening ==
  ASSUME PageSound, ChainSound, KeysInv, NEW t \in Tabs, checkIfE2EKeyIsSet(t)
  PROVE  KeysInv'
<1>1. /\ chains' = chains \cup {NewChain(t, NoFile)}
      /\ UNCHANGED <<scenario, calls, file, job, upload, storedKeys, lock, broken>>
  BY DEF checkIfE2EKeyIsSet, statusVars, pageVars
<1>2. NewChain(t, NoFile).file = NoFile /\ NewChain(t, NoFile).keys = {} /\ NewChain(t, NoFile).at = "lock"
  BY NewChainType DEF ChainSound, E2eTypeOK
<1> HIDE DEF NewChain
<1> QED BY <1>1, <1>2, SameBars, KeysByPage

(* A status is read: the information about a file that is uploading is asked *)
(* for.                                                                      *)
LEMMA KeysOfStatus ==
  ASSUME PageSound, ChainSound, KeysInv, UNCHANGED e2eVars, NEW t \in Tabs, NEW event \in StatusEvents,
         parseProgressStatus(t, event), UNCHANGED <<scenario, file, job, upload>>
  PROVE  KeysInv'
<1>1. UNCHANGED <<storedKeys, lock, broken, chains>>
  BY DEF e2eVars
<1>2. CASE calls' = calls
  BY <1>1, <1>2, KeysElsewhere
<1>3. CASE Container(event.file) /\ calls' = Call(t, "info", event.file)
  <2>1. event.file \in Files
    BY DEF StatusEvents
  <2>2. calls \subseteq Calls /\ IsFiniteSet(calls)
    BY DEF PageSound, PageTypeOK
  <2>3. PICK c \in Calls \ calls : /\ c.kind = "info" /\ c.file = event.file /\ c.phase = "sent"
                                   /\ calls' = calls \cup {c}
    BY <1>3, <2>1, <2>2, NewCall
  <2>4. upload'[event.file] # "none"
    BY <1>3 DEF Container
  <2>5. \A d \in calls' : d \in calls \/ (/\ d.file \in Files /\ ~Completes(d)
                                         /\ upload'[d.file] # "none" /\ d.phase # "done")
    BY <2>1, <2>3, <2>4 DEF Completes
  <2> QED BY <1>1, <2>5, SameBars, KeysByPage
<1> QED BY <1>2, <1>3 DEF parseProgressStatus

LEMMA KeysOfMessage ==
  ASSUME PageSound, ChainSound, KeysInv, UNCHANGED e2eVars, NEW t \in Tabs,
         TabReceives(t) \/ DirectMessage(t)
  PROVE  KeysInv'
<1>1. UNCHANGED <<scenario, file, job, upload, storedKeys, lock, broken, chains>>
  BY DEF TabReceives, DirectMessage, statusVars, e2eVars
<1>2. CASE TabReceives(t)
  <2> DEFINE msg == Head(inbox[t])
  <2>1. inbox[t] \in Seq(ToTab) /\ inbox[t] # <<>>
    BY <1>2 DEF TabReceives, Receive, PageSound, WorkerInv, WorkerTypeOK
  <2>2. msg \in ToTab
    BY <2>1, HeadAndTail, SMTT(20)
  <2>3. (msg.type = "message" /\ parseProgressStatus(t, msg.data)) \/ calls' = calls
    BY <1>2 DEF TabReceives, NoticeReceived
  <2> HIDE DEF msg
  <2> QED BY <1>1, <2>2, <2>3, MessageKinds, KeysOfStatus, KeysElsewhere
<1>3. CASE DirectMessage(t)
  BY <1>1, <1>3, KeysOfStatus DEF DirectMessage, PageSound, StatusTypeOK
<1> QED BY <1>2, <1>3

(* A bar with an error is neither new nor done. *)
LEMMA ErrorOnward ==
  ASSUME upload \in [Files -> Bars], NEW f \in Files, ShowError(f)
  PROVE  Onward /\ \A g \in Files : upload'[g] = "removed" => upload[g] = "removed"
<1>1. \A g \in Files : upload'[g] = IF g = f /\ Container(f) THEN "error" ELSE upload[g]
  BY DEF ShowError
<1> QED BY <1>1 DEF Onward, Container

(* An answer comes: the bar of an upload changes, and the chain of a file    *)
(* that has been uploaded begins.                                            *)
LEMMA KeysOfAnswer ==
  ASSUME PageSound, ChainSound, KeysInv, NEW c \in calls, AnswerAnd(c)
  PROVE  KeysInv'
<1>1. /\ c.file \in Files /\ c.tab \in Tabs /\ upload \in [Files -> Bars]
      /\ calls' = calls \ {c}
      /\ UNCHANGED <<scenario, file, job, storedKeys, lock, broken>>
  BY SoundParts DEF AnswerAnd, Answer, PageParts, Calls, statusVars
<1>2. c.kind = "info" => upload[c.file] # "none" /\ (c.phase = "done" => file[c.file] # "none")
  BY DEF KeysInv, UploadsOnce
<1>3. Onward /\ \A g \in Files : Now.e2e /\ upload'[g] = "removed" => upload[g] = "removed"
  <2>1. CASE UNCHANGED upload
    BY <2>1, SameBars
  <2>2. CASE ShowError(c.file)
    BY <1>1, <2>2, ErrorOnward
  <2>3. CASE upload' = [upload EXCEPT ![c.file] = IF @ = "completing" THEN "queued" ELSE @]
    <3>1. \A g \in Files : upload'[g] = IF g = c.file /\ upload[g] = "completing" THEN "queued" ELSE upload[g]
      BY <1>1, <2>3
    <3> QED BY <3>1 DEF Onward
  <2>4. CASE /\ c.kind = "info" /\ c.phase = "done" /\ ~Now.e2e
             /\ upload' = [upload EXCEPT ![c.file] = "removed"]
    <3>1. \A g \in Files : upload'[g] = IF g = c.file THEN "removed" ELSE upload[g]
      BY <1>1, <2>4
    <3> QED BY <1>2, <2>4, <3>1 DEF Onward
  <2>5. \/ UNCHANGED upload \/ ShowError(c.file)
        \/ upload' = [upload EXCEPT ![c.file] = IF @ = "completing" THEN "queued" ELSE @]
        \/ /\ c.kind = "info" /\ c.phase = "done" /\ ~Now.e2e
           /\ upload' = [upload EXCEPT ![c.file] = "removed"]
    BY DEF AnswerAnd, Answer, CompleteAnswered, requestFileInfo, InfoRefused, DeleteAnswered,
           RestoreAnswered, ChangeRefused
  <2> QED BY <2>1, <2>2, <2>3, <2>4, <2>5
<1>4. \A k \in chains' : k \in chains \/
            (/\ k.at = "lock" /\ k.keys = {}
             /\ k.file # NoFile => /\ k.file \in Files /\ upload[k.file] # "none" /\ file[k.file] # "none")
  <2>1. CASE chains' = chains
    BY <2>1
  <2>2. CASE c.kind = "info" /\ c.phase = "done" /\ chains' = chains \cup {NewChain(c.tab, c.file)}
    <3>1. c.file \in Files \cup {NoFile} /\ chains \subseteq Chains /\ IsFiniteSet(chains)
      BY <1>1 DEF ChainSound, E2eTypeOK
    <3>2. \A t \in Tabs, f \in Files \cup {NoFile} :
             NewChain(t, f).file = f /\ NewChain(t, f).keys = {} /\ NewChain(t, f).at = "lock"
      BY <3>1, NewChainType
    <3> QED BY <1>1, <1>2, <2>2, <3>2
  <2> QED BY <2>1, <2>2 DEF AnswerAnd
<1> QED BY <1>1, <1>3, <1>4, KeysByPage

(* A connection fails: the request counts as refused. *)
LEMMA KeysOfFailure ==
  ASSUME PageSound, ChainSound, KeysInv, UNCHANGED e2eVars, NEW c \in calls, ConnectionFails(c)
  PROVE  KeysInv'
<1>1. UNCHANGED <<scenario, file, job, upload, storedKeys, lock, broken, chains>>
  BY DEF ConnectionFails, statusVars, e2eVars
<1> DEFINE d == [c EXCEPT !.phase = "refused"]
<1>2. calls' \subseteq calls \cup {d}
  BY DEF ConnectionFails, Answered
<1>3. d.file = c.file /\ d.kind = c.kind /\ d.phase = "refused" /\ c.file \in Files
  BY DEF PageSound, PageTypeOK, Calls
<1> HIDE DEF d
<1>4. \A e \in calls' : e \in calls \/
         (e.file \in Files /\ ~Completes(e) /\ e.phase # "done"
          /\ (e.kind = "info" => upload'[e.file] # "none"))
  BY <1>1, <1>2, <1>3 DEF Completes, KeysInv, UploadsOnce
<1> QED BY <1>1, <1>4, SameBars, KeysByPage

(* The server acts: a file comes after its request to complete it, and no    *)
(* request is left by then.                                                  *)
LEMMA KeysByServer ==
  ASSUME PageSound, ChainSound, KeysInv, FilesOnward,
         UNCHANGED <<scenario, upload, storedKeys, lock, broken, chains>>,
         \A f \in Files : Fresh(f) =>
            Fresh(f)' \/ (/\ upload[f] \notin {"none", "sending"}
                         /\ \A d \in calls' : Completes(d) => d.file # f),
         \A f \in Files : job'[f] \in {"hash", "move", "save"} => file'[f] = "none",
         \A d \in calls' : d \in calls \/
            (/\ d.file \in Files /\ ~Completes(d)
             /\ d.kind = "info" =>
                  upload[d.file] # "none" /\ (d.phase = "done" => file[d.file] # "none"))
  PROVE  KeysInv'
<1>1. UploadsOnce /\ (Now.e2e /\ ~broken => KeysSafe)
  BY DEF KeysInv
<1>2. /\ \A c \in calls : c.file \in Files
      /\ \A k \in chains : k.file # NoFile => k.file \in Files
  BY DEF PageSound, PageTypeOK, Calls, ChainSound, E2eTypeOK, Chains
<1>3. Now' = Now /\ broken' = broken /\ \A c : Completes(c)' <=> Completes(c)
  BY DEF Now, Completes
<1>4. UploadsOnce'
  <2>1. \A f \in Files : f \in Now.present \/ upload[f] = "removed" => file'[f] # "none"
    BY <1>1 DEF UploadsOnce, FilesOnward
  <2>2. \A f \in Files \ Now.present : upload[f] \in {"none", "sending"} => Fresh(f)'
    BY <1>1 DEF UploadsOnce
  <2>3. \A c \in calls' : Completes(c) =>
           c \in calls /\ Fresh(c.file)' /\ upload[c.file] \notin {"none", "sending"}
    BY <1>1, <1>2 DEF UploadsOnce
  <2>4. \A c, d \in calls' : Completes(c) /\ Completes(d) /\ c.file = d.file => c = d
    BY <1>1, <2>3 DEF UploadsOnce
  <2>5. \A c \in calls' : c.kind = "info" =>
           upload[c.file] # "none" /\ (c.phase = "done" => file'[c.file] # "none")
    BY <1>1, <1>2 DEF UploadsOnce, FilesOnward
  <2>6. \A k \in chains : k.file # NoFile => upload[k.file] # "none" /\ file'[k.file] # "none"
    BY <1>1, <1>2 DEF UploadsOnce, FilesOnward
  <2>7. \A f \in Files : upload[f] # "none" => f \notin Now.present
    BY <1>1 DEF UploadsOnce
  <2> QED BY <1>3, <2>1, <2>2, <2>3, <2>4, <2>5, <2>6, <2>7 DEF UploadsOnce
<1>5. CASE Now.e2e /\ ~broken
  <2>1. KeysSafe'
    BY <1>1, <1>5, KeysKeptByPage
  <2> QED BY <1>4, <2>1 DEF KeysInv
<1>6. CASE ~(Now.e2e /\ ~broken)
  BY <1>3, <1>4, <1>6 DEF KeysInv
<1> QED BY <1>5, <1>6

(* A request is handled. *)
LEMMA KeysOfRequest ==
  ASSUME PageSound, ChainSound, KeysInv, UNCHANGED e2eVars, NEW c \in calls, Handle(c)
  PROVE  KeysInv'
<1> DEFINE d(phase) == [c EXCEPT !.phase = phase]
<1>1. /\ c.phase = "sent" /\ c.file \in Files
      /\ UNCHANGED <<scenario, upload, storedKeys, lock, broken, chains>>
      /\ file \in [Files -> FileStates] /\ job \in [Files -> JobStates]
  BY DEF Handle, PageSound, PageTypeOK, Calls, StatusTypeOK, e2eVars
<1>2. /\ \A phase : d(phase).file = c.file /\ d(phase).kind = c.kind
      /\ d("done").phase = "done" /\ d("refused").phase = "refused"
  BY DEF PageSound, PageTypeOK, Calls
<1>3. CASE Accepted(c) /\ c.kind = "complete" /\ StartJob(c.file) /\ UNCHANGED file
           /\ Answered(c, "done")
  <2>1. calls' \subseteq (calls \ {c}) \cup {d("done")}
    BY <1>3 DEF Answered
  <2> HIDE DEF d
  <2>2. Completes(c) /\ Fresh(c.file) /\ upload[c.file] \notin {"none", "sending"}
    BY <1>1, <1>3 DEF KeysInv, UploadsOnce, Completes
  <2>3. \A e \in calls' : Completes(e) => e.file # c.file
    BY <1>2, <2>1, <2>2 DEF KeysInv, UploadsOnce, Completes
  <2>4. \A f \in Files : job'[f] = IF f = c.file THEN "hash" ELSE job[f]
    BY <1>1, <1>3 DEF StartJob
  <2>5. \A f \in Files : Fresh(f) => Fresh(f)' \/ f = c.file
    BY <1>3, <2>4 DEF Fresh
  <2>6. \A f \in Files : job'[f] \in {"hash", "move", "save"} => file'[f] = "none"
    BY <1>3, <2>2, <2>4 DEF Fresh, KeysInv, UploadsOnce
  <2>7. \A e \in calls' : e \in calls \/ (e.file \in Files /\ ~Completes(e) /\ e.kind # "info")
    BY <1>1, <1>2, <1>3, <2>1 DEF Completes
  <2> QED BY <1>1, <1>3, <2>2, <2>3, <2>5, <2>6, <2>7, SameFiles, KeysByServer
<1>4. CASE /\ c.kind # "complete" \/ ~Accepted(c)
           /\ c.kind = "info" => UNCHANGED file
           /\ \/ Answered(c, "done") /\ Accepted(c)
              \/ Answered(c, "refused") /\ UNCHANGED file
           /\ UNCHANGED file \/ DeleteFileSchedule(c.file) \/ CancelPendingFileDeletion(c.file)
           /\ UNCHANGED job
  <2>1. calls' \subseteq calls \cup {d("done"), d("refused")}
    BY <1>4 DEF Answered
  <2>2. (d("done") \in calls' /\ c.kind = "info") => (d("done") \in calls \/ file[c.file] # "none")
    <3>1. CASE Accepted(c)
      BY <3>1 DEF Accepted
    <3>2. CASE Answered(c, "refused")
      <4>1. d("done") # d("refused")
        BY <1>2
      <4> HIDE DEF d
      <4>2. calls' \subseteq calls \cup {d("refused")}
        BY <3>2 DEF Answered, d
      <4> QED BY <4>1, <4>2
    <3> QED BY <1>4, <3>1, <3>2
  <2> HIDE DEF d
  <2>3. \A f \in Files : file'[f] = file[f] \/ (file[f] \in {"live", "pending"} /\ file'[f] \in {"live", "pending"})
    BY <1>1, <1>4 DEF DeleteFileSchedule, CancelPendingFileDeletion
  <2>4. FilesOnward
    BY <2>3 DEF FilesOnward
  <2>5. \A f \in Files : (Fresh(f) => Fresh(f)')
                        /\ (job'[f] \in {"hash", "move", "save"} => file'[f] = "none")
    BY <1>4, <2>3 DEF Fresh, KeysInv, UploadsOnce
  <2>6. c.kind = "info" => upload[c.file] # "none"
    BY DEF KeysInv, UploadsOnce
  <2>7. \A e \in calls' : e \in calls \/
            (/\ e.file \in Files /\ ~Completes(e)
             /\ e.kind = "info" =>
                  upload[e.file] # "none" /\ (e.phase = "done" => file[e.file] # "none"))
    BY <1>1, <1>2, <2>1, <2>2, <2>6 DEF Completes
  <2> QED BY <1>1, <2>4, <2>5, <2>7, KeysByServer
<1>5. CASE Accepted(c)
  BY <1>3, <1>4, <1>5 DEF Handle
<1>6. CASE ~Accepted(c)
  BY <1>4, <1>6 DEF Handle
<1> QED BY <1>5, <1>6

(* A job goes on or fails; a deletion runs. *)
LEMMA KeysOfServer ==
  ASSUME PageSound, ChainSound, KeysInv, UNCHANGED e2eVars,
         (\E f \in Files : JobActs(f)) \/ ServerMay
  PROVE  KeysInv'
<1>1. UNCHANGED <<scenario, upload, calls, storedKeys, lock, broken, chains>>
      /\ file \in [Files -> FileStates] /\ job \in [Files -> JobStates]
  BY DEF JobActs, ServerMay, pageVars, e2eVars, PageSound, StatusTypeOK
<1>2. PICK f \in Files : \/ JobStep(f, Happens("stored"))
                        \/ ScheduledDeletion(f) \/ JobFails(f)
  BY DEF JobActs, ServerMay
<1>3. CASE ScheduledDeletion(f)
  <2>1. \A g \in Files : file'[g] = file[g] \/ (file[g] \in {"pending", "expired"} /\ file'[g] \in {"expired", "gone"})
    BY <1>1, <1>3 DEF ScheduledDeletion
  <2>2. FilesOnward /\ job' = job
    BY <1>3, <2>1 DEF FilesOnward, ScheduledDeletion
  <2>3. \A g \in Files : (Fresh(g) => Fresh(g)')
                        /\ (job'[g] \in {"hash", "move", "save"} => file'[g] = "none")
    BY <2>1, <2>2 DEF Fresh, KeysInv, UploadsOnce
  <2> QED BY <1>1, <2>2, <2>3, KeysByServer
<1>4. CASE job[f] # "none" /\ ~ScheduledDeletion(f)
  <2>1. \/ JobStep(f, Happens("stored"))
        \/ JobFails(f)
    BY <1>2, <1>4
  <2>2. \A g \in Files : g # f => job'[g] = job[g] /\ file'[g] = file[g]
    BY <1>1, <2>1 DEF JobStep, JobFails, Goes
  <2>3. \/ file'[f] = file[f] /\ job[f] \in {"hash", "move"}
        \/ file'[f] = "live" /\ job[f] = "save" /\ job'[f] = "finish"
        \/ file'[f] = file[f] /\ job[f] = "finish" /\ job'[f] = "done"
    BY <1>1, <2>1 DEF JobStep, JobFails, Goes
  <2>4. job[f] \in {"hash", "move", "save"} => file[f] = "none"
    BY DEF KeysInv, UploadsOnce
  <2>5. FilesOnward
    BY <2>2, <2>3, <2>4 DEF FilesOnward
  <2>6. \A g \in Files : (Fresh(g) => Fresh(g)')
                        /\ (job'[g] \in {"hash", "move", "save"} => file'[g] = "none")
    BY <1>4, <2>2, <2>3, <2>4 DEF Fresh, KeysInv, UploadsOnce
  <2> QED BY <1>1, <2>5, <2>6, KeysByServer
<1>5. job[f] # "none" \/ ScheduledDeletion(f)
  BY <1>2 DEF JobStep, JobFails
<1> QED BY <1>3, <1>4, <1>5

(* The links of a chain *)
LEMMA LinkOnce ==
  ASSUME PageSound, ChainSound, UploadsOnce, NEW k \in chains, Onward,
         (\E at, keys : Goto(k, at, keys)) \/ chains' = chains \ {k},
         UNCHANGED <<scenario, file, job, calls>>
  PROVE  UploadsOnce'
<1>1. \A l \in chains' : l \in chains \/ l.file = k.file
  <2>1. CASE chains' = chains \ {k}
    BY <2>1
  <2>2. ASSUME NEW at, NEW keys, Goto(k, at, keys)
        PROVE  \A l \in chains' : l \in chains \/ l.file = k.file
    <3>1. chains' = (chains \ {k}) \cup {[k EXCEPT !.at = at, !.keys = keys]}
      BY <2>2 DEF Goto
    <3>2. [k EXCEPT !.at = at, !.keys = keys].file = k.file
      BY DEF ChainSound, E2eTypeOK, Chains
    <3> QED BY <3>1, <3>2
  <2> QED BY <2>1, <2>2
<1>2. k.file # NoFile => k.file \in Files /\ upload[k.file] # "none" /\ file[k.file] # "none"
  BY DEF ChainSound, E2eTypeOK, Chains, UploadsOnce
<1> QED BY <1>1, <1>2, OnceKept

(* A link that throws goes on to the unlock request, and shows an error. *)
LEMMA ThrowsOnward ==
  ASSUME PageSound, ChainSound, NEW k \in chains, Throws(k)
  PROVE  /\ Goto(k, "unlock", {}) /\ Onward
         /\ \A f \in Files : upload'[f] = "removed" => upload[f] = "removed"
<1>1. upload \in [Files -> Bars] /\ k.file \in Files \cup {NoFile}
  BY SoundParts DEF PageParts, ChainSound, E2eTypeOK, Chains
<1>2. CASE UNCHANGED upload
  BY <1>2, SameBars DEF Throws
<1>3. CASE k.file \in Files /\ ShowError(k.file)
  BY <1>1, <1>3, ErrorOnward DEF Throws
<1> QED BY <1>1, <1>2, <1>3 DEF Throws

(* The chain that has the lock goes on, alone. *)
LEMMA KeysAtLink ==
  ASSUME PageSound, ChainSound, UploadsOnce, KeysSafe, NEW k \in chains, k.at # "lock",
         NEW at \in {"get", "parse", "store", "stored", "unlock"}, NEW keys \in SUBSET Files,
         Goto(k, at, keys), UNCHANGED <<scenario, file, lock>>,
         \A f \in keys : file[f] # "none",
         \A f \in storedKeys' : file[f] # "none",
         storedKeys \cap AvailableFiles \subseteq storedKeys',
         at \in {"parse", "store"} => storedKeys' \cap AvailableFiles \subseteq keys,
         at = "store" => k.file \in Files /\ k.file \in keys,
         at = "stored" => k.file \in storedKeys',
         \A f \in Files : upload'[f] = "removed" => upload[f] = "removed" \/ f \in storedKeys'
  PROVE  KeysSafe'
<1> DEFINE l == [k EXCEPT !.at = at, !.keys = keys]
<1>1. chains' = (chains \ {k}) \cup {l}
  BY DEF Goto
<1>2. l.at = at /\ l.keys = keys /\ l.file = k.file
  BY DEF ChainSound, E2eTypeOK, Chains
<1> HIDE DEF l
<1>3. lock /\ \A m \in chains : m # k => m.at = "lock"
  BY DEF KeysSafe, Exclusive
<1>4. \A m \in chains' : m = l \/ (m \in chains /\ m.at = "lock")
  BY <1>1, <1>3
<1>5. Exclusive'
  BY <1>3, <1>4 DEF Exclusive
<1>6. Now' = Now /\ AvailableFiles' = AvailableFiles
  BY DEF Now, AvailableFiles
<1>7. ASSUME NEW m \in chains' PROVE ChainKeys(m)'
  <2>1. CASE m = l
    BY <1>2, <1>6, <2>1 DEF ChainKeys
  <2>2. CASE m \in chains /\ m.at = "lock"
    <3>1. \A f \in m.keys : file[f] # "none"
      BY <2>2 DEF KeysSafe, ChainKeys
    <3> QED BY <2>2, <3>1 DEF ChainKeys
  <2> QED BY <1>4, <2>1, <2>2
<1>8. ASSUME NEW f \in AvailableFiles, f \in Now.present \/ upload'[f] = "removed"
      PROVE  f \in storedKeys'
  <2>1. f \in Files
    BY DEF AvailableFiles
  <2>2. CASE f \in Now.present \/ upload[f] = "removed"
    BY <2>2 DEF KeysSafe
  <2> QED BY <1>8, <2>1, <2>2
<1>9. \A f \in storedKeys' : file'[f] # "none"
  OBVIOUS
<1> QED BY <1>5, <1>6, <1>7, <1>8, <1>9 DEF KeysSafe

(* One that throws there, or fails, does no harm. *)
LEMMA KeysAtThrow ==
  ASSUME PageSound, ChainSound, UploadsOnce, KeysSafe, NEW k \in chains, k.at # "lock",
         Throws(k), UNCHANGED <<scenario, file, lock, storedKeys>>
  PROVE  KeysSafe'
<1>1. /\ Goto(k, "unlock", {})
      /\ \A f \in Files : upload'[f] = "removed" => upload[f] = "removed"
  BY ThrowsOnward
<1>2. \A f \in storedKeys : file[f] # "none"
  BY DEF KeysSafe
<1>3. {} \in SUBSET Files /\ \A f \in {} : file[f] # "none"
  OBVIOUS
<1> QED BY <1>1, <1>2, <1>3, KeysAtLink

(* The document is asked for: the chain has what is in it. *)
LEMMA KeysOfGet ==
  ASSUME PageSound, ChainSound, UploadsOnce, KeysSafe, NEW k \in chains, apiE2eGet(k),
         UNCHANGED <<scenario, file>>
  PROVE  KeysSafe'
<1>1. k.at = "get" /\ UNCHANGED <<storedKeys, lock>>
  BY DEF apiE2eGet
<1>2. CASE Throws(k)
  BY <1>1, <1>2, KeysAtThrow
<1>3. CASE Goto(k, "parse", storedKeys \cap AvailableFiles) /\ UNCHANGED upload
  <2> DEFINE keys == storedKeys \cap AvailableFiles
  <2>1. keys \in SUBSET Files /\ (\A f \in keys : file[f] # "none") /\ keys \subseteq keys
    BY DEF AvailableFiles
  <2>2. \A f \in storedKeys' : file[f] # "none"
    BY <1>1 DEF KeysSafe
  <2>3. storedKeys' \cap AvailableFiles = keys /\ Goto(k, "parse", keys)
    BY <1>1, <1>3
  <2> HIDE DEF keys
  <2>4. storedKeys \cap AvailableFiles \subseteq storedKeys'
    BY <1>1
  <2> QED BY <1>1, <1>3, <2>1, <2>2, <2>3, <2>4, KeysAtLink
<1> QED BY <1>2, <1>3 DEF apiE2eGet

(* The key of the upload is added to it. *)
LEMMA KeysOfParse ==
  ASSUME PageSound, ChainSound, UploadsOnce, KeysSafe, NEW k \in chains, InfoParse(k),
         UNCHANGED <<scenario, file>>
  PROVE  KeysSafe'
<1> DEFINE known == k.keys \cup {k.file}
<1>1. k.at = "parse" /\ UNCHANGED <<storedKeys, lock>>
  BY DEF InfoParse
<1>2. \/ Throws(k)
      \/ Goto(k, "unlock", {}) /\ UNCHANGED upload
      \/ k.file # NoFile /\ Goto(k, "store", known) /\ UNCHANGED upload
  BY DEF InfoParse
<1>3. CASE Throws(k)
  BY <1>1, <1>3, KeysAtThrow
<1>4. \A f \in storedKeys' : file[f] # "none"
  BY <1>1 DEF KeysSafe
<1>5. storedKeys \cap AvailableFiles \subseteq storedKeys'
  BY <1>1
<1>6. CASE Goto(k, "unlock", {}) /\ UNCHANGED upload
  <2>1. {} \in SUBSET Files /\ \A f \in {} : file[f] # "none"
    OBVIOUS
  <2> QED BY <1>1, <1>4, <1>5, <1>6, <2>1, KeysAtLink
<1>7. CASE k.file # NoFile /\ Goto(k, "store", known) /\ UNCHANGED upload
  <2>1. k.file \in Files /\ known \in SUBSET Files /\ k.file \in known
    BY <1>7 DEF ChainSound, E2eTypeOK, Chains
  <2>2. /\ \A f \in k.keys : file[f] # "none"
        /\ storedKeys' \cap AvailableFiles \subseteq k.keys
    BY <1>1 DEF KeysSafe, ChainKeys
  <2>3. file[k.file] # "none"
    BY <1>7 DEF UploadsOnce
  <2>4. (\A f \in known : file[f] # "none") /\ storedKeys' \cap AvailableFiles \subseteq known
    BY <2>2, <2>3
  <2>5. Goto(k, "store", known) /\ UNCHANGED upload
    BY <1>7
  <2> HIDE DEF known
  <2> QED BY <1>1, <1>4, <1>5, <2>1, <2>4, <2>5, KeysAtLink
<1> QED BY <1>2, <1>3, <1>6, <1>7

(* The document is stored: it loses no key that a file still needs. *)
LEMMA KeysOfStore ==
  ASSUME PageSound, ChainSound, UploadsOnce, KeysSafe, NEW k \in chains, apiE2eStore(k),
         UNCHANGED <<scenario, file>>
  PROVE  KeysSafe'
<1>1. k.at = "store" /\ UNCHANGED lock
  BY DEF apiE2eStore
<1>2. CASE Throws(k) /\ UNCHANGED storedKeys
  BY <1>1, <1>2, KeysAtThrow
<1>3. CASE storedKeys' = k.keys /\ Goto(k, "stored", {}) /\ UNCHANGED upload
  <2>1. /\ \A f \in k.keys : file[f] # "none"
        /\ storedKeys \cap AvailableFiles \subseteq k.keys /\ k.file \in k.keys
    BY <1>1 DEF KeysSafe, ChainKeys
  <2>2. {} \in SUBSET Files /\ \A f \in {} : file[f] # "none"
    OBVIOUS
  <2>3. /\ \A f \in storedKeys' : file[f] # "none"
        /\ storedKeys \cap AvailableFiles \subseteq storedKeys' /\ k.file \in storedKeys'
    BY <1>3, <2>1
  <2> QED BY <1>1, <1>3, <2>2, <2>3, KeysAtLink
<1> QED BY <1>2, <1>3 DEF apiE2eStore

(* The upload is shown as done: its key has been stored. *)
LEMMA KeysOfStored ==
  ASSUME PageSound, ChainSound, UploadsOnce, KeysSafe, NEW k \in chains, Stored(k),
         UNCHANGED <<scenario, file>>
  PROVE  KeysSafe'
<1>1. k.at = "stored" /\ UNCHANGED <<storedKeys, lock>>
  BY DEF Stored
<1>2. CASE Throws(k)
  BY <1>1, <1>2, KeysAtThrow
<1>3. CASE upload' = [upload EXCEPT ![k.file] = "removed"] /\ Goto(k, "unlock", {})
  <2>1. k.file \in storedKeys
    BY <1>1 DEF KeysSafe, ChainKeys
  <2>2. upload \in [Files -> Bars]
    BY SoundParts DEF PageParts
  <2>3. \A f \in Files : upload'[f] = "removed" => upload[f] = "removed" \/ f \in storedKeys'
    BY <1>1, <1>3, <2>1, <2>2
  <2>4. {} \in SUBSET Files /\ \A f \in {} : file[f] # "none"
    OBVIOUS
  <2>5. \A f \in storedKeys' : file[f] # "none"
    BY <1>1 DEF KeysSafe
  <2>6. storedKeys \cap AvailableFiles \subseteq storedKeys'
    BY <1>1
  <2> QED BY <1>1, <1>3, <2>3, <2>4, <2>5, <2>6, KeysAtLink
<1> QED BY <1>2, <1>3 DEF Stored

(* The lock is taken when nobody has it, and released by whoever has it. *)
LEMMA KeysOfLock ==
  ASSUME PageSound, ChainSound, KeysSafe, NEW k \in chains,
         apiE2eMutexLock(k) \/ apiE2eMutexUnlock(k), UNCHANGED <<scenario, file>>
  PROVE  KeysSafe'
<1>1. UNCHANGED <<upload, storedKeys>>
  BY DEF apiE2eMutexLock, apiE2eMutexUnlock
<1>2. Now' = Now /\ AvailableFiles' = AvailableFiles
  BY DEF Now, AvailableFiles
<1>3. ASSUME Exclusive', \A m \in chains' : ChainKeys(m)' PROVE KeysSafe'
  BY <1>1, <1>2, <1>3 DEF KeysSafe
<1>4. CASE apiE2eMutexUnlock(k)
  <2>1. k.at = "unlock" /\ chains' = chains \ {k}
    BY <1>4 DEF apiE2eMutexUnlock
  <2>2. \A m \in chains' : m \in chains /\ m.at = "lock"
    BY <2>1 DEF KeysSafe, Exclusive
  <2>3. Exclusive'
    BY <2>2 DEF Exclusive
  <2>4. ASSUME NEW m \in chains' PROVE ChainKeys(m)'
    <3>1. \A f \in m.keys : file[f] # "none"
      BY <2>2 DEF KeysSafe, ChainKeys
    <3> QED BY <2>2, <3>1 DEF ChainKeys
  <2> QED BY <1>3, <2>3, <2>4
<1>5. CASE apiE2eMutexLock(k)
  <2> DEFINE l == [k EXCEPT !.at = "get", !.keys = {}]
  <2>1. ~lock /\ lock' = TRUE /\ chains' = (chains \ {k}) \cup {l}
    BY <1>5 DEF apiE2eMutexLock, Goto
  <2>2. l.at = "get" /\ l.keys = {}
    BY DEF ChainSound, E2eTypeOK, Chains
  <2> HIDE DEF l
  <2>3. \A m \in chains' : m = l \/ (m \in chains /\ m.at = "lock")
    BY <2>1 DEF KeysSafe, Exclusive
  <2>4. Exclusive'
    BY <2>1, <2>3 DEF Exclusive
  <2>5. ASSUME NEW m \in chains' PROVE ChainKeys(m)'
    <3>1. CASE m = l
      BY <2>2, <3>1 DEF ChainKeys
    <3>2. CASE m \in chains /\ m.at = "lock"
      <4>1. \A f \in m.keys : file[f] # "none"
        BY <3>2 DEF KeysSafe, ChainKeys
      <4> QED BY <3>2, <4>1 DEF ChainKeys
    <3> QED BY <2>3, <3>1, <3>2
  <2> QED BY <1>3, <2>4, <2>5
<1> QED BY <1>4, <1>5

(* The bars in a step of a chain *)
LEMMA LinkOnward ==
  ASSUME PageSound, ChainSound, UploadsOnce, NEW k \in chains, ChainStep(k)
  PROVE  Onward /\ ((\E at, keys : Goto(k, at, keys)) \/ chains' = chains \ {k})
<1>1. CASE Throws(k)
  BY <1>1, ThrowsOnward
<1>2. CASE UNCHANGED upload /\ ((\E at, keys : Goto(k, at, keys)) \/ chains' = chains \ {k})
  BY <1>2, SameBars
<1>3. CASE upload' = [upload EXCEPT ![k.file] = "removed"] /\ Goto(k, "unlock", {})
  <2>1. upload \in [Files -> Bars] /\ NoFile \notin Files
    BY SoundParts, PageAssumption DEF PageParts
  <2>2. \A f \in Files : upload'[f] = IF f = k.file THEN "removed" ELSE upload[f]
    BY <1>3, <2>1
  <2>3. k.file \in Files => upload[k.file] # "none" /\ file[k.file] # "none"
    BY <2>1 DEF UploadsOnce
  <2>4. Onward
    BY <2>2, <2>3 DEF Onward
  <2> QED BY <1>3, <2>4
<1>4. \/ Throws(k)
      \/ UNCHANGED upload /\ ((\E at, keys : Goto(k, at, keys)) \/ chains' = chains \ {k})
      \/ upload' = [upload EXCEPT ![k.file] = "removed"] /\ Goto(k, "unlock", {})
  <2>1. CASE apiE2eMutexLock(k) \/ apiE2eMutexUnlock(k)
    BY <2>1 DEF apiE2eMutexLock, apiE2eMutexUnlock
  <2>2. CASE apiE2eGet(k) \/ apiE2eStore(k)
    BY <2>2 DEF apiE2eGet, apiE2eStore
  <2>3. CASE InfoParse(k)
    BY <2>3 DEF InfoParse
  <2>4. CASE Stored(k)
    BY <2>4 DEF Stored
  <2> QED BY <2>1, <2>2, <2>3, <2>4 DEF ChainStep
<1> QED BY <1>1, <1>2, <1>3, <1>4

LEMMA KeysOfChain ==
  ASSUME PageSound, ChainSound, KeysInv, (\E k \in chains : ChainStep(k)) \/ E2eMay
  PROVE  KeysInv'
<1>1. UploadsOnce /\ (Now.e2e /\ ~broken => KeysSafe)
  BY DEF KeysInv
<1>2. ASSUME NEW k \in chains, ChainStep(k) PROVE KeysInv'
  <2>1. UNCHANGED <<scenario, file, job, calls, broken>>
    BY <1>2 DEF ChainStep, statusVars, apiE2eMutexLock, apiE2eGet, InfoParse, apiE2eStore, Stored,
                apiE2eMutexUnlock
  <2>2. UploadsOnce'
    BY <1>1, <1>2, <2>1, LinkOnward, LinkOnce
  <2>3. ASSUME KeysSafe PROVE KeysSafe'
    BY <1>1, <1>2, <2>1, <2>3, KeysOfGet, KeysOfParse, KeysOfStore, KeysOfStored, KeysOfLock DEF ChainStep
  <2>4. Now' = Now
    BY <2>1 DEF Now
  <2> QED BY <1>1, <2>1, <2>2, <2>3, <2>4 DEF KeysInv
<1>3. ASSUME NEW k \in chains, ChainFails(k) PROVE KeysInv'
  <2>1. /\ Throws(k) /\ broken' = (broken \/ k.at = "lock")
        /\ UNCHANGED <<scenario, file, job, calls, lock, storedKeys>>
    BY <1>3 DEF ChainFails, statusVars
  <2>2. UploadsOnce'
    BY <1>1, <2>1, ThrowsOnward, LinkOnce
  <2>3. ASSUME KeysSafe, k.at # "lock" PROVE KeysSafe'
    BY <1>1, <2>1, <2>3, KeysAtThrow
  <2>4. Now' = Now
    BY <2>1 DEF Now
  <2> QED BY <1>1, <2>1, <2>2, <2>3, <2>4 DEF KeysInv
<1>4. CASE LockExpires
  <2>1. UNCHANGED <<scenario, file, job, calls, upload, chains>> /\ broken' = TRUE
    BY <1>4 DEF LockExpires, statusVars, pageVars
  <2>2. UploadsOnce'
    BY <1>1, <2>1, SameBars, OnceKept
  <2> QED BY <2>1, <2>2 DEF KeysInv
<1> QED BY <1>2, <1>3, <1>4 DEF E2eMay

-----------------------------------------------------------------------------
(* Every step of the page *)
LEMMA KeysOfPage ==
  ASSUME PageSound, ChainSound, KeysInv, PageNext
  PROVE  KeysInv'
<1>1. ASSUME NEW t \in Tabs, TabStep(t) PROVE KeysInv'
  <2>1. CASE (registerChangeHandler(t) \/ \E f \in Files : RowRemoved(t, f)) /\ UNCHANGED e2eVars
    <3>1. UNCHANGED <<scenario, calls, file, job, upload, storedKeys, lock, broken, chains>>
      BY <2>1 DEF registerChangeHandler, RowRemoved, statusVars, e2eVars
    <3> QED BY <3>1, KeysElsewhere
  <2>2. CASE GoToLogin(t) /\ UNCHANGED e2eVars
    BY <2>2, KeysOfLeaving
  <2>3. CASE (TabReceives(t) \/ DirectMessage(t)) /\ UNCHANGED e2eVars
    BY <2>3, KeysOfMessage
  <2>4. CASE \E c \in calls : AnswerAnd(c)
    BY <2>4, KeysOfAnswer
  <2>5. CASE checkIfE2EKeyIsSet(t)
    BY <2>5, KeysOfOpening
  <2> QED BY <1>1, <2>1, <2>2, <2>3, <2>4, <2>5 DEF TabStep
<1>2. ASSUME NEW f \in Files, SendStep(f) PROVE KeysInv'
  <2>1. CASE sendChunkComplete(f) /\ UNCHANGED e2eVars
    BY <2>1, KeysOfUpload DEF e2eVars
  <2>2. CASE EncryptNew(f)
    <3>1. UNCHANGED <<scenario, calls, file, job, upload, storedKeys, lock, broken, chains>>
      BY <2>2 DEF EncryptNew, statusVars, pageVars
    <3> QED BY <3>1, KeysElsewhere
  <2> QED BY <1>2, <2>1, <2>2 DEF SendStep, uploadChunk
<1>3. ASSUME UserStep, UNCHANGED e2eVars PROVE KeysInv'
  <2>1. ASSUME NEW t \in Tabs, Load(t) PROVE KeysInv'
    <3>1. UNCHANGED <<scenario, calls, file, job, upload, storedKeys, lock, broken, chains>>
      BY <1>3, <2>1 DEF Load, statusVars, e2eVars
    <3> QED BY <3>1, KeysElsewhere
  <2>2. ASSUME NEW t \in Tabs, Close(t) \/ doLogout(t) PROVE KeysInv'
    BY <1>3, <2>2, KeysOfLeaving
  <2>3. ASSUME NEW t \in Tabs, handleUndo(t) \/ \E f \in Files : deleteFile(t, f) PROVE KeysInv'
    BY <1>3, <2>3, KeysOfClick
  <2>4. ASSUME NEW f \in Files, addFileProgress(f) \/ ChunkFails(f) PROVE KeysInv'
    BY <1>3, <2>4, KeysOfUpload DEF e2eVars
  <2> QED BY <1>3, <2>1, <2>2, <2>3, <2>4 DEF UserStep
<1>4. ASSUME StreamStep \/ (\E event \in publishers : Publishes(event)) \/ StreamOpens \/ StreamSends,
             UNCHANGED e2eVars
      PROVE  KeysInv'
  <2>1. UNCHANGED <<scenario, calls, upload, file, job>>
    BY <1>4 DEF StreamStep, WorkerHears, WorkerReconnects, StreamBreaks, ConnectionEnds, Publishes,
                StreamOpens, StreamSends, StreamFollows, removeListener, PublishNewStatus,
                addListener, ReadSaved, Written, statusVars, pageVars
  <2>2. UNCHANGED <<storedKeys, lock, broken, chains>>
    BY <1>4 DEF e2eVars
  <2> QED BY <2>1, <2>2, KeysElsewhere
<1>5. ASSUME (\E f \in Files : JobActs(f)) \/ ServerMay, UNCHANGED e2eVars PROVE KeysInv'
  BY <1>5, KeysOfServer
<1>6. ASSUME NEW c \in calls, Handle(c) \/ ConnectionFails(c), UNCHANGED e2eVars PROVE KeysInv'
  BY <1>6, KeysOfRequest, KeysOfFailure
<1>7. ASSUME (\E k \in chains : ChainStep(k)) \/ E2eMay PROVE KeysInv'
  BY <1>7, KeysOfChain
<1> QED BY <1>1, <1>2, <1>3, <1>4, <1>5, <1>6, <1>7 DEF PageNext, ServerStep

LEMMA KeysInit == Init => KeysInv
<1> SUFFICES ASSUME Init PROVE KeysInv
  OBVIOUS
<1>1. /\ scenario \in DOMAIN Scenarios /\ upload = [f \in Files |-> "none"] /\ calls = {}
      /\ file = [f \in Files |-> IF f \in Now.present THEN "live" ELSE "none"]
      /\ job = [f \in Files |-> "none"] /\ chains = {}
      /\ storedKeys = IF Now.e2e THEN Now.present ELSE {}
  BY DEF Init, StatusInit, PageInit, E2eInit
<1>2. Now.present \subseteq Files
  BY <1>1, ScenarioType
<1>3. UploadsOnce
  BY <1>1 DEF UploadsOnce, Fresh
<1>4. Now.e2e => KeysSafe
  <2>1. Exclusive /\ \A k \in chains : ChainKeys(k)
    BY <1>1 DEF Exclusive
  <2>2. \A f \in Files : upload[f] # "removed"
    BY <1>1
  <2>3. \A f \in AvailableFiles : f \in Files
    BY DEF AvailableFiles
  <2> QED BY <1>1, <1>2, <2>1, <2>2, <2>3 DEF KeysSafe
<1> QED BY <1>3, <1>4 DEF KeysInv

LEMMA KeysNext == SystemInv /\ KeysInv /\ [Next]_vars => KeysInv'
<1> SUFFICES ASSUME SystemInv, KeysInv, [Next]_vars PROVE KeysInv'
  OBVIOUS
<1>1. PageSound /\ ChainSound
  BY DEF SystemInv
<1>2. CASE PageNext
  BY <1>1, <1>2, KeysOfPage
<1>3. CASE UNCHANGED <<workerVars, statusVars, pageVars, e2eVars>>
  <2>1. UNCHANGED <<scenario, calls, file, job, upload, storedKeys, lock, broken, chains>>
    BY <1>3 DEF statusVars, pageVars, e2eVars
  <2> QED BY <1>1, <2>1, KeysElsewhere
<1>4. PageNext \/ UNCHANGED <<workerVars, statusVars, pageVars, e2eVars>>
  BY DEF Next, vars
<1> QED BY <1>2, <1>3, <1>4

(* An upload that the page shows as done has its key in the document, which  *)
(* keeps it as long as the file can be downloaded or restored, whatever      *)
(* other uploads, tabs and deletions do, unless a lock has expired or failed *)
(* (end2end_admin.js, requestFileInfo, apiE2eSet).                           *)
THEOREM KeysHold == Spec => []KeysKept
<1>1. KeysInv => KeysKept
  <2> SUFFICES ASSUME KeysInv, Now.e2e /\ ~broken, NEW f \in Files,
                      file[f] \in {"live", "pending"}, f \in Now.present \/ upload[f] = "removed"
               PROVE  f \in storedKeys
    BY DEF KeysKept
  <2>1. KeysSafe /\ f \in AvailableFiles
    BY DEF KeysInv, AvailableFiles
  <2> QED BY <2>1 DEF KeysSafe
<1> QED BY <1>1, SystemInit, SystemNext, KeysInit, KeysNext, PTL DEF Spec
-----------------------------------------------------------------------------
(* What a queue of messages says about a file: nothing, at first, at last,   *)
(* and whether an addition comes between any two deletions.                  *)

Deletes(s, i, f) == IsAbout(s[i], f) /\ s[i].notice.type = "fileDeleted"
Adds(s, i, f) == IsAbout(s[i], f) /\ s[i].notice.type = "fileAdded"
Silent(s, f) == \A i \in DOMAIN s : ~IsAbout(s[i], f)
LastIs(s, f, type) ==
    \E i \in DOMAIN s : /\ IsAbout(s[i], f) /\ s[i].notice.type = type
                        /\ \A j \in DOMAIN s : j > i => ~IsAbout(s[j], f)
DeletesFirst(s, f) == \E i \in DOMAIN s : Deletes(s, i, f) /\ \A j \in DOMAIN s : j < i => ~IsAbout(s[j], f)
Alternates(s, f) ==
    \A i, j \in DOMAIN s : i < j /\ Deletes(s, i, f) /\ Deletes(s, j, f)
        => \E k \in DOMAIN s : i < k /\ k < j /\ Adds(s, k, f)

(* r says of f what s says, in as far as the invariant asks. *)
SaysAs(r, s, f) ==
    /\ Silent(s, f) <=> Silent(r, f)
    /\ \A type : LastIs(s, f, type) => LastIs(r, f, type)
    /\ DeletesFirst(r, f) => DeletesFirst(s, f)
    /\ Alternates(s, f) => Alternates(r, f)

LEMMA SaysTheSame == \A s, f : SaysAs(s, s, f)
  BY DEF SaysAs

LEMMA SilentQueue ==
  ASSUME NEW s, NEW f, Silent(s, f)
  PROVE  ~DeletesFirst(s, f) /\ Alternates(s, f) /\ \A type : ~LastIs(s, f, type)
  BY DEF Silent, DeletesFirst, Alternates, LastIs, Deletes

LEMMA EmptyQueue == \A f : Silent(<<>>, f)
  BY DEF Silent

LEMMA SilentTwice ==
  ASSUME NEW r, NEW s, NEW f, Silent(r, f), Silent(s, f)
  PROVE  SaysAs(r, s, f)
  BY SilentQueue DEF SaysAs

LEMMA OneLast ==
  ASSUME NEW S, NEW s \in Seq(S), NEW f
  PROVE  ~(LastIs(s, f, "fileAdded") /\ LastIs(s, f, "fileDeleted"))
<1> SUFFICES ASSUME LastIs(s, f, "fileAdded"), LastIs(s, f, "fileDeleted") PROVE FALSE
  OBVIOUS
<1>1. PICK i \in DOMAIN s : /\ IsAbout(s[i], f) /\ s[i].notice.type = "fileAdded"
                            /\ \A j \in DOMAIN s : j > i => ~IsAbout(s[j], f)
  BY DEF LastIs
<1>2. PICK k \in DOMAIN s : /\ IsAbout(s[k], f) /\ s[k].notice.type = "fileDeleted"
                            /\ \A j \in DOMAIN s : j > k => ~IsAbout(s[j], f)
  BY DEF LastIs
<1>3. DOMAIN s = 1..Len(s) /\ Len(s) \in Nat
  OBVIOUS
<1> QED BY <1>1, <1>2, <1>3

(* A message is put into a queue. *)
LEMMA AppendIndex ==
  ASSUME NEW S, NEW s \in Seq(S), NEW m
  PROVE  /\ DOMAIN s = 1..Len(s) /\ Len(s) \in Nat
         /\ DOMAIN Append(s, m) = 1..Len(s) + 1
         /\ \A i \in 1..Len(s) : Append(s, m)[i] = s[i]
         /\ Append(s, m)[Len(s) + 1] = m
<1>1. s \in Seq(S \cup {m}) /\ m \in S \cup {m}
  OBVIOUS
<1> QED BY <1>1, AppendProperties

LEMMA AppendOther ==
  ASSUME NEW S, NEW s \in Seq(S), NEW m, NEW f, ~IsAbout(m, f)
  PROVE  SaysAs(Append(s, m), s, f)
<1> DEFINE r == Append(s, m)
           n == Len(s)
<1>1. /\ DOMAIN s = 1..n /\ n \in Nat /\ DOMAIN r = 1..n + 1
      /\ \A i \in 1..n : r[i] = s[i]
      /\ r[n + 1] = m
  BY AppendIndex
<1> HIDE DEF r, n
<1>2. \A i \in 1..n + 1 : i \in 1..n \/ i = n + 1
  BY <1>1
<1>3. Silent(s, f) <=> Silent(r, f)
  BY <1>1, <1>2 DEF Silent
<1>4. ASSUME NEW type, LastIs(s, f, type) PROVE LastIs(r, f, type)
  <2>1. PICK i \in 1..n : /\ IsAbout(s[i], f) /\ s[i].notice.type = type
                          /\ \A j \in 1..n : j > i => ~IsAbout(s[j], f)
    BY <1>1, <1>4 DEF LastIs
  <2>2. \A j \in 1..n + 1 : j > i => ~IsAbout(r[j], f)
    BY <1>1, <1>2, <2>1
  <2>3. i \in 1..n + 1 /\ r[i] = s[i]
    BY <1>1, <2>1
  <2> QED BY <1>1, <2>1, <2>2, <2>3 DEF LastIs
<1>5. DeletesFirst(r, f) => DeletesFirst(s, f)
  <2> SUFFICES ASSUME DeletesFirst(r, f) PROVE DeletesFirst(s, f)
    OBVIOUS
  <2>1. PICK i \in 1..n + 1 : Deletes(r, i, f) /\ \A j \in 1..n + 1 : j < i => ~IsAbout(r[j], f)
    BY <1>1 DEF DeletesFirst
  <2>2. i \in 1..n
    BY <1>1, <1>2, <2>1 DEF Deletes
  <2>3. \A j \in 1..n : j < i => ~IsAbout(s[j], f)
    BY <1>1, <2>1
  <2> QED BY <1>1, <2>1, <2>2, <2>3 DEF DeletesFirst, Deletes
<1>6. Alternates(s, f) => Alternates(r, f)
  <2> SUFFICES ASSUME Alternates(s, f), NEW i \in 1..n + 1, NEW j \in 1..n + 1, i < j,
                      Deletes(r, i, f), Deletes(r, j, f)
               PROVE  \E k \in 1..n + 1 : i < k /\ k < j /\ Adds(r, k, f)
    BY <1>1 DEF Alternates
  <2>1. i \in 1..n /\ j \in 1..n
    BY <1>1, <1>2 DEF Deletes
  <2>2. PICK k \in 1..n : i < k /\ k < j /\ Adds(s, k, f)
    BY <1>1, <2>1 DEF Alternates, Deletes
  <2> QED BY <1>1, <2>2 DEF Adds
<1> QED BY <1>3, <1>4, <1>5, <1>6 DEF SaysAs, r

LEMMA AppendAbout ==
  ASSUME NEW S, NEW s \in Seq(S), NEW m, NEW f, IsAbout(m, f)
  PROVE  /\ ~Silent(Append(s, m), f) /\ LastIs(Append(s, m), f, m.notice.type)
         /\ DeletesFirst(Append(s, m), f) =>
              DeletesFirst(s, f) \/ (Silent(s, f) /\ m.notice.type = "fileDeleted")
         /\ /\ Alternates(s, f)
            /\ \/ m.notice.type # "fileDeleted"
               \/ Silent(s, f) \/ LastIs(s, f, "fileAdded")
            => Alternates(Append(s, m), f)
<1> DEFINE r == Append(s, m)
           n == Len(s)
<1>1. /\ DOMAIN s = 1..n /\ n \in Nat /\ DOMAIN r = 1..n + 1
      /\ \A i \in 1..n : r[i] = s[i]
      /\ r[n + 1] = m
  BY AppendIndex
<1> HIDE DEF r, n
<1>2. \A i \in 1..n + 1 : i \in 1..n \/ i = n + 1
  BY <1>1
<1>3. n + 1 \in 1..n + 1 /\ \A i \in 1..n : i \in 1..n + 1 /\ i < n + 1
  BY <1>1
<1>4. ~Silent(r, f) /\ LastIs(r, f, m.notice.type)
  BY <1>1, <1>2, <1>3 DEF Silent, LastIs
<1>5. ASSUME DeletesFirst(r, f) PROVE DeletesFirst(s, f) \/ (Silent(s, f) /\ m.notice.type = "fileDeleted")
  <2>1. PICK i \in 1..n + 1 : Deletes(r, i, f) /\ \A j \in 1..n + 1 : j < i => ~IsAbout(r[j], f)
    BY <1>1, <1>5 DEF DeletesFirst
  <2>2. CASE i = n + 1
    BY <1>1, <1>3, <2>1, <2>2 DEF Silent, Deletes
  <2>3. CASE i \in 1..n
    <3>1. \A j \in 1..n : j < i => ~IsAbout(s[j], f)
      BY <1>1, <1>3, <2>1
    <3> QED BY <1>1, <2>1, <2>3, <3>1 DEF DeletesFirst, Deletes
  <2> QED BY <1>2, <2>2, <2>3
<1>6. ASSUME Alternates(s, f),
             m.notice.type # "fileDeleted" \/ Silent(s, f) \/ LastIs(s, f, "fileAdded")
      PROVE  Alternates(r, f)
  <2> SUFFICES ASSUME NEW i \in 1..n + 1, NEW j \in 1..n + 1, i < j,
                      Deletes(r, i, f), Deletes(r, j, f)
               PROVE  \E k \in 1..n + 1 : i < k /\ k < j /\ Adds(r, k, f)
    BY <1>1 DEF Alternates
  <2>1. i \in 1..n
    BY <1>1
  <2>2. CASE j \in 1..n
    <3>1. PICK k \in 1..n : i < k /\ k < j /\ Adds(s, k, f)
      BY <1>1, <1>6, <2>1, <2>2 DEF Alternates, Deletes
    <3> QED BY <1>1, <1>3, <3>1 DEF Adds
  <2>3. CASE j = n + 1
    <3>1. IsAbout(s[i], f) /\ s[i].notice.type = "fileDeleted" /\ m.notice.type = "fileDeleted"
      BY <1>1, <2>1, <2>3 DEF Deletes
    <3>2. LastIs(s, f, "fileAdded")
      BY <1>1, <1>6, <2>1, <3>1 DEF Silent
    <3>3. PICK k \in 1..n : /\ IsAbout(s[k], f) /\ s[k].notice.type = "fileAdded"
                            /\ \A l \in 1..n : l > k => ~IsAbout(s[l], f)
      BY <1>1, <3>2 DEF LastIs
    <3>4. i < k
      <4>1. ~(i > k) /\ i # k
        BY <2>1, <3>1, <3>3
      <4> QED BY <1>1, <2>1, <4>1
    <3> QED BY <1>1, <1>3, <2>3, <3>3, <3>4 DEF Adds
  <2> QED BY <1>2, <2>2, <2>3
<1> QED BY <1>4, <1>5, <1>6 DEF r

(* A message is taken from a queue. *)
LEMMA TailIndex ==
  ASSUME NEW S, NEW s \in Seq(S), s # <<>>
  PROVE  /\ DOMAIN s = 1..Len(s) /\ Len(s) \in Nat \ {0}
         /\ DOMAIN Tail(s) = 1..Len(s) - 1
         /\ \A i \in 1..Len(s) - 1 : Tail(s)[i] = s[i + 1]
         /\ Head(s) = s[1]
<1>1. Len(s) \in Nat /\ Len(s) # 0 /\ DOMAIN s = 1..Len(s)
  BY EmptySeq
<1>2. Tail(s) \in Seq(S) /\ Len(Tail(s)) = Len(s) - 1
  OBVIOUS
<1> QED BY <1>1, <1>2

LEMMA TailOther ==
  ASSUME NEW S, NEW s \in Seq(S), s # <<>>, NEW f, ~IsAbout(Head(s), f)
  PROVE  SaysAs(Tail(s), s, f)
<1> DEFINE r == Tail(s)
           n == Len(s)
<1>1. /\ DOMAIN s = 1..n /\ n \in Nat \ {0} /\ DOMAIN r = 1..n - 1
      /\ \A i \in 1..n - 1 : r[i] = s[i + 1]
      /\ ~IsAbout(s[1], f)
  BY TailIndex
<1> HIDE DEF r, n
<1>2. \A i \in 1..n : i = 1 \/ (i - 1 \in 1..n - 1 /\ r[i - 1] = s[i])
  BY <1>1
<1>3. \A i \in 1..n - 1 : i + 1 \in 1..n
  BY <1>1
<1>4. Silent(s, f) <=> Silent(r, f)
  BY <1>1, <1>2, <1>3 DEF Silent
<1>5. ASSUME NEW type, LastIs(s, f, type) PROVE LastIs(r, f, type)
  <2>1. PICK i \in 1..n : /\ IsAbout(s[i], f) /\ s[i].notice.type = type
                          /\ \A j \in 1..n : j > i => ~IsAbout(s[j], f)
    BY <1>1, <1>5 DEF LastIs
  <2>2. i - 1 \in 1..n - 1 /\ r[i - 1] = s[i]
    BY <1>1, <1>2, <2>1
  <2>3. \A j \in 1..n - 1 : j > i - 1 => ~IsAbout(r[j], f)
    BY <1>1, <1>3, <2>1
  <2> QED BY <1>1, <2>1, <2>2, <2>3 DEF LastIs
<1>6. DeletesFirst(r, f) => DeletesFirst(s, f)
  <2> SUFFICES ASSUME DeletesFirst(r, f) PROVE DeletesFirst(s, f)
    OBVIOUS
  <2>1. PICK i \in 1..n - 1 : Deletes(r, i, f) /\ \A j \in 1..n - 1 : j < i => ~IsAbout(r[j], f)
    BY <1>1 DEF DeletesFirst
  <2>2. i + 1 \in 1..n /\ Deletes(s, i + 1, f)
    BY <1>1, <1>3, <2>1 DEF Deletes
  <2>3. \A j \in 1..n : j < i + 1 => ~IsAbout(s[j], f)
    BY <1>1, <1>2, <2>1
  <2> QED BY <1>1, <2>2, <2>3 DEF DeletesFirst
<1>7. Alternates(s, f) => Alternates(r, f)
  <2> SUFFICES ASSUME Alternates(s, f), NEW i \in 1..n - 1, NEW j \in 1..n - 1, i < j,
                      Deletes(r, i, f), Deletes(r, j, f)
               PROVE  \E k \in 1..n - 1 : i < k /\ k < j /\ Adds(r, k, f)
    BY <1>1 DEF Alternates
  <2>1. /\ i + 1 \in 1..n /\ j + 1 \in 1..n /\ i + 1 < j + 1
        /\ Deletes(s, i + 1, f) /\ Deletes(s, j + 1, f)
    BY <1>1, <1>3 DEF Deletes
  <2>2. PICK k \in 1..n : i + 1 < k /\ k < j + 1 /\ Adds(s, k, f)
    BY <1>1, <2>1 DEF Alternates
  <2>3. k - 1 \in 1..n - 1 /\ i < k - 1 /\ k - 1 < j /\ r[k - 1] = s[k]
    BY <1>1, <1>2, <2>2
  <2> QED BY <2>2, <2>3 DEF Adds
<1> QED BY <1>4, <1>5, <1>6, <1>7 DEF SaysAs, r

LEMMA TailAbout ==
  ASSUME NEW S, NEW s \in Seq(S), s # <<>>, NEW f, IsAbout(Head(s), f)
  PROVE  /\ ~Silent(s, f)
         /\ \A type : LastIs(s, f, type) =>
              IF Silent(Tail(s), f) THEN Head(s).notice.type = type ELSE LastIs(Tail(s), f, type)
         /\ Head(s).notice.type = "fileDeleted" => DeletesFirst(s, f)
         /\ Alternates(s, f) => /\ Alternates(Tail(s), f)
                                /\ Head(s).notice.type = "fileDeleted" => ~DeletesFirst(Tail(s), f)
<1> DEFINE r == Tail(s)
           n == Len(s)
<1>1. /\ DOMAIN s = 1..n /\ n \in Nat \ {0} /\ DOMAIN r = 1..n - 1
      /\ \A i \in 1..n - 1 : r[i] = s[i + 1]
      /\ Head(s) = s[1]
  BY TailIndex
<1> HIDE DEF r, n
<1>2. \A i \in 1..n : i = 1 \/ (i - 1 \in 1..n - 1 /\ r[i - 1] = s[i])
  BY <1>1
<1>3. 1 \in 1..n /\ \A i \in 1..n - 1 : i + 1 \in 1..n
  BY <1>1
<1>4. ~Silent(s, f)
  BY <1>1, <1>3 DEF Silent
<1>5. ASSUME NEW type, LastIs(s, f, type)
      PROVE  IF Silent(r, f) THEN Head(s).notice.type = type ELSE LastIs(r, f, type)
  <2>1. PICK i \in 1..n : /\ IsAbout(s[i], f) /\ s[i].notice.type = type
                          /\ \A j \in 1..n : j > i => ~IsAbout(s[j], f)
    BY <1>1, <1>5 DEF LastIs
  <2>2. CASE i = 1
    <3>1. \A j \in 1..n - 1 : ~IsAbout(r[j], f)
      BY <1>1, <1>3, <2>1, <2>2
    <3> QED BY <1>1, <2>1, <2>2, <3>1 DEF Silent
  <2>3. CASE i # 1
    <3>1. i - 1 \in 1..n - 1 /\ r[i - 1] = s[i]
      BY <1>1, <1>2, <2>1, <2>3
    <3>2. \A j \in 1..n - 1 : j > i - 1 => ~IsAbout(r[j], f)
      BY <1>1, <1>3, <2>1
    <3> QED BY <1>1, <2>1, <3>1, <3>2 DEF LastIs, Silent
  <2> QED BY <2>2, <2>3
<1>6. Head(s).notice.type = "fileDeleted" => DeletesFirst(s, f)
  <2>1. \A j \in 1..n : ~(j < 1)
    BY <1>1
  <2> QED BY <1>1, <1>3, <2>1 DEF DeletesFirst, Deletes
<1>7. ASSUME Alternates(s, f) PROVE Alternates(r, f)
  <2> SUFFICES ASSUME NEW i \in 1..n - 1, NEW j \in 1..n - 1, i < j,
                      Deletes(r, i, f), Deletes(r, j, f)
               PROVE  \E k \in 1..n - 1 : i < k /\ k < j /\ Adds(r, k, f)
    BY <1>1 DEF Alternates
  <2>1. /\ i + 1 \in 1..n /\ j + 1 \in 1..n /\ i + 1 < j + 1
        /\ Deletes(s, i + 1, f) /\ Deletes(s, j + 1, f)
    BY <1>1, <1>3 DEF Deletes
  <2>2. PICK k \in 1..n : i + 1 < k /\ k < j + 1 /\ Adds(s, k, f)
    BY <1>1, <1>7, <2>1 DEF Alternates
  <2>3. k - 1 \in 1..n - 1 /\ i < k - 1 /\ k - 1 < j /\ r[k - 1] = s[k]
    BY <1>1, <1>2, <2>2
  <2> QED BY <2>2, <2>3 DEF Adds
<1>8. ASSUME Alternates(s, f), Head(s).notice.type = "fileDeleted", DeletesFirst(r, f) PROVE FALSE
  <2>1. PICK i \in 1..n - 1 : Deletes(r, i, f) /\ \A j \in 1..n - 1 : j < i => ~IsAbout(r[j], f)
    BY <1>1, <1>8 DEF DeletesFirst
  <2>2. i + 1 \in 1..n /\ 1 < i + 1 /\ Deletes(s, 1, f) /\ Deletes(s, i + 1, f)
    BY <1>1, <1>3, <1>8, <2>1 DEF Deletes
  <2>3. PICK k \in 1..n : 1 < k /\ k < i + 1 /\ Adds(s, k, f)
    BY <1>1, <1>3, <1>8, <2>2 DEF Alternates
  <2>4. k - 1 \in 1..n - 1 /\ k - 1 < i /\ r[k - 1] = s[k]
    BY <1>1, <1>2, <2>3
  <2> QED BY <2>1, <2>3, <2>4 DEF Adds
<1> QED BY <1>4, <1>5, <1>6, <1>7, <1>8 DEF r
-----------------------------------------------------------------------------
(* The rows of the tables and the files on the server *)

Acts(f) == {c \in calls : c.file = f /\ c.kind # "complete"}
Done(f, kind) == \E c \in Acts(f) : c.kind = kind /\ c.phase = "done"
Live(f) == file[f] = "live"
Off(f) == file[f] \in {"pending", "expired", "gone"}

(* Some table has not been excused for f. *)
Tracked(f) == \E x \in Tabs : <<x, f>> \notin excused

(* What the notices tell: a change counts when its answer has come. *)
Announced(f) == Done(f, "delete") \/ (Live(f) /\ ~Done(f, "restore"))
Word(f) == IF Announced(f) THEN "fileAdded" ELSE "fileDeleted"

(* Other tabs know of f, if it is there. *)
Told(f) == upload[f] \in {"none", "removed"} \/ \E k \in chains : k.file = f

Shown(x, f) == rows[x][f] # <<>> /\ rows[x][f][1] # "dying"
Dying(x, f) == rows[x][f] # <<>> /\ rows[x][f][1] = "dying"

(* One tab at a time acts on f, until the worker has forwarded its notices;  *)
(* and it has read what others have told of f.                               *)
OneActor(f) ==
    /\ \A c, d \in Acts(f) : c = d
    /\ \A c \in Acts(f) : /\ Silent(inbox[c.tab], f)
                          /\ \A y \in Tabs : y # c.tab => Silent(outbox[y], f)
    /\ \A y, z \in Tabs : Silent(outbox[y], f) \/ Silent(outbox[z], f) \/ y = z
    /\ \A y \in Tabs : Silent(outbox[y], f) \/ Silent(inbox[y], f)

(* A request fits the file and the row of its tab. *)
ActFits(c, f) ==
    /\ c.kind \in {"delete", "restore"} =>
          /\ <<c.tab, f>> \notin excused /\ tab[c.tab] \in {"open", "leaving"}
          /\ \A x \in Tabs : toast[x] # f
    /\ c.kind = "delete" => /\ Shown(c.tab, f)
                            /\ c.phase = "sent" => Live(f)
                            /\ c.phase = "done" => Off(f)
    /\ c.kind = "restore" => /\ ~Shown(c.tab, f)
                             /\ c.phase = "sent" => Off(f)
    /\ c.kind \in {"restore", "info"} /\ c.phase = "done" => Live(f)
    /\ c.kind = "info" => <<c.tab, f>> \in excused \/ rows[c.tab][f] = <<>>

ToastFits(f) ==
    \A x \in Tabs : toast[x] = f => Off(f) /\ \A y \in Tabs : toast[y] = f => y = x

(* What is on its way to the worker *)
PostsFit(f) ==
    \A y \in Tabs : /\ Alternates(outbox[y], f)
                    /\ Silent(outbox[y], f) \/ LastIs(outbox[y], f, Word(f))

(* Rows that are being removed come after the one that is shown. *)
OneRow(x, f) == \A i \in DOMAIN rows[x][f] : i > 1 => rows[x][f][i] = "dying"

(* A deletion that comes to a tab finds its row, or none.                    *)
NoticesFit(x, f) ==
    /\ Alternates(inbox[x], f)
    /\ DeletesFirst(inbox[x], f) => ~Dying(x, f)
    /\ \A y \in Tabs : y # x /\ DeletesFirst(outbox[y], f) =>
          LastIs(inbox[x], f, "fileAdded") \/ (Silent(inbox[x], f) /\ ~Dying(x, f))

(* When all is forwarded, the last notice or else the row of f is true; but  *)
(* a table that was loaded before f was added need not show it yet.          *)
RowFits(x, f) ==
    (\A y \in Tabs : y # x => Silent(outbox[y], f)) =>
        /\ Silent(inbox[x], f) \/ LastIs(inbox[x], f, Word(f))
        /\ Silent(inbox[x], f) =>
              /\ Shown(x, f) => Live(f) \/ Announced(f)
              /\ Live(f) /\ Announced(f) /\ ~Shown(x, f) => ~Told(f) /\ rows[x][f] = <<>>
              /\ Dying(x, f) => ~Announced(f)

(* Before a file is there nothing is known of it. *)
Blank(f) ==
    file[f] = "none" =>
        /\ \A y \in Tabs : /\ Silent(outbox[y], f) /\ Silent(inbox[y], f)
                           /\ rows[y][f] = <<>> /\ toast[y] # f
        /\ \A c \in Acts(f) : c.kind = "info" /\ c.phase # "done"

TrackedFits(f) ==
    /\ OneActor(f) /\ \A c \in Acts(f) : ActFits(c, f)
    /\ ToastFits(f) /\ PostsFit(f)
TabFits(x, f) ==
    <<x, f>> \notin excused => OneRow(x, f) /\ (Alive(x) => NoticesFit(x, f) /\ RowFits(x, f))
FileTrue(f) == Blank(f) /\ (Tracked(f) => TrackedFits(f)) /\ \A x \in Tabs : TabFits(x, f)

(* The number in the foot of the table *)
Cells(t) == {f \in Files : Shown(t, f)} \X {1}
CountTrue(t) ==
    Alive(t) /\ (\A f \in Files : <<t, f>> \notin excused) =>
        IF rowCount[t] = -1 THEN \A f \in Files : \A i \in DOMAIN rows[t][f] : rows[t][f][i] # "dying"
        ELSE rowCount[t] = Cardinality(Cells(t))

(* What tabs do before they are open, and after *)
TabsFit ==
    /\ \A t \in Tabs : tab[t] \in {"none", "rendered"} =>
          /\ inbox[t] = <<>> /\ outbox[t] = <<>> /\ t \notin ports
          /\ rowCount[t] = -1 /\ \A c \in calls : c.tab # t
    /\ \A t \in Tabs : t \in attached <=> tab[t] \in {"open", "leaving"}
NoWorker == ports = {} /\ \A t \in Tabs : \A i \in DOMAIN outbox[t] : outbox[t][i].type # "connect"

TableInv ==
    IF Now.shared THEN TabsFit /\ (\A f \in Files : FileTrue(f)) /\ \A t \in Tabs : CountTrue(t)
    ELSE NoWorker

-----------------------------------------------------------------------------
(* TableTrue follows. *)

LEMMA WordType == \A f : Word(f) \in {"fileAdded", "fileDeleted"}
  BY DEF Word

(* The rows that are shown, and those that are counted *)
LEMMA ShownCells ==
  ASSUME rows \in Tables, NEW t \in Tabs, \A f \in Files : OneRow(t, f)
  PROVE  /\ UNION {{f} \X Visible(t, f) : f \in Files} = Cells(t)
         /\ (\A f \in Files : \A i \in DOMAIN rows[t][f] : rows[t][f][i] # "dying")
              => UNION {{f} \X DOMAIN rows[t][f] : f \in Files} = Cells(t)
<1>1. ASSUME NEW f \in Files
      PROVE  /\ Visible(t, f) = IF Shown(t, f) THEN {1} ELSE {}
             /\ (\A i \in DOMAIN rows[t][f] : rows[t][f][i] # "dying")
                  => DOMAIN rows[t][f] = Visible(t, f)
  <2>1. rows[t][f] \in Seq(RowStates) /\ OneRow(t, f)
    BY DEF Tables
  <2>2. DOMAIN rows[t][f] = 1..Len(rows[t][f]) /\ Len(rows[t][f]) \in Nat
    BY <2>1
  <2>3. \A i \in DOMAIN rows[t][f] : i = 1 \/ rows[t][f][i] = "dying"
    BY <2>1, <2>2 DEF OneRow
  <2>4. rows[t][f] # <<>> <=> 1 \in DOMAIN rows[t][f]
    BY <2>1, <2>2, EmptySeq
  <2>5. Visible(t, f) = {i \in DOMAIN rows[t][f] : i = 1 /\ Shown(t, f)}
    BY <2>3, <2>4 DEF Visible, Shown
  <2>6. Visible(t, f) = IF Shown(t, f) THEN {1} ELSE {}
    BY <2>4, <2>5 DEF Shown
  <2> QED BY <2>6 DEF Visible
<1>2. UNION {{f} \X Visible(t, f) : f \in Files} = Cells(t)
  <2>1. \A f \in Files : {f} \X Visible(t, f) = IF Shown(t, f) THEN {<<f, 1>>} ELSE {}
    BY <1>1
  <2>2. \A p : p \in Cells(t) <=> \E f \in Files : p = <<f, 1>> /\ Shown(t, f)
    BY DEF Cells
  <2>3. \A p : p \in UNION {{f} \X Visible(t, f) : f \in Files}
                 <=> \E f \in Files : p \in {f} \X Visible(t, f)
    OBVIOUS
  <2>4. \A p : p \in UNION {{f} \X Visible(t, f) : f \in Files}
                 <=> \E f \in Files : p = <<f, 1>> /\ Shown(t, f)
    BY <2>1, <2>3
  <2> QED BY <2>2, <2>4
<1>3. ASSUME \A f \in Files : \A i \in DOMAIN rows[t][f] : rows[t][f][i] # "dying"
      PROVE  UNION {{f} \X DOMAIN rows[t][f] : f \in Files} = Cells(t)
  <2>1. \A f \in Files : DOMAIN rows[t][f] = Visible(t, f)
    BY <1>1, <1>3
  <2>2. {{f} \X DOMAIN rows[t][f] : f \in Files} = {{f} \X Visible(t, f) : f \in Files}
    BY <2>1
  <2> QED BY <1>2, <2>2
<1> QED BY <1>2, <1>3

LEMMA CountShown ==
  ASSUME rows \in Tables, NEW t \in Tabs, \A f \in Files : OneRow(t, f)
  PROVE  /\ Total([f \in Files |-> Visible(t, f)]) = Cardinality(Cells(t))
         /\ (\A f \in Files : \A i \in DOMAIN rows[t][f] : rows[t][f][i] # "dying")
              => CountRows(t) = Cardinality(Cells(t))
<1>1. UNION {{f} \X [g \in Files |-> Visible(t, g)][f] : f \in Files} = UNION {{f} \X Visible(t, f) : f \in Files}
  <2>1. \A f \in Files : {f} \X [g \in Files |-> Visible(t, g)][f] = {f} \X Visible(t, f)
    OBVIOUS
  <2> QED BY <2>1
<1>2. UNION {{f} \X [g \in Files |-> DOMAIN rows[t][g]][f] : f \in Files}
        = UNION {{f} \X DOMAIN rows[t][f] : f \in Files}
  <2>1. \A f \in Files : {f} \X [g \in Files |-> DOMAIN rows[t][g]][f] = {f} \X DOMAIN rows[t][f]
    OBVIOUS
  <2> QED BY <2>1
<1> QED BY <1>1, <1>2, ShownCells DEF Total, CountRows

LEMMA TableFollows == SystemInv /\ TableInv => TableTrue
<1> SUFFICES ASSUME SystemInv, TableInv, NEW t \in ports, tab[t] = "open"
             PROVE  /\ \A f \in Files : Quiet(f) /\ <<t, f>> \notin excused =>
                          Len(rows[t][f]) = (IF file[f] = "live" THEN 1 ELSE 0)
                    /\ rowCount[t] = -1 \/ excused \cap ({t} \X Files) # {}
                       \/ rowCount[t] = Total([f \in Files |-> Visible(t, f)])
  BY DEF TableTrue
<1>1. PageSound /\ PageParts /\ ports \subseteq Tabs
  BY SoundParts DEF SystemInv, PageSound, WorkerInv, WorkerTypeOK
<1>2. Now.shared /\ t \in Tabs
  BY <1>1 DEF TableInv, NoWorker
<1>3. /\ \A f \in Files : FileTrue(f)
      /\ CountTrue(t)
  BY <1>2 DEF TableInv
<1>4. Alive(t)
  BY DEF Alive
<1>5. ASSUME NEW f \in Files, Quiet(f), <<t, f>> \notin excused
      PROVE  Len(rows[t][f]) = (IF file[f] = "live" THEN 1 ELSE 0)
  <2>1. OneRow(t, f) /\ RowFits(t, f)
    BY <1>2, <1>3, <1>4, <1>5 DEF FileTrue, TabFits
  <2>2. Acts(f) = {} /\ Told(f)
    BY <1>5 DEF Quiet, Acts, Told
  <2>3. (Announced(f) <=> Live(f))
    BY <2>2 DEF Announced, Done
  <2>4. \A y \in Tabs : Silent(outbox[y], f) /\ Silent(inbox[y], f)
    <3>1. ASSUME NEW y \in Tabs, NEW i \in DOMAIN outbox[y] PROVE ~IsAbout(outbox[y][i], f)
      <4>1. y \notin Underway(f)
        BY <1>5 DEF Quiet
      <4> QED BY <3>1, <4>1 DEF Underway, ToSet
    <3>2. ASSUME NEW y \in Tabs, NEW i \in DOMAIN inbox[y] PROVE ~IsAbout(inbox[y][i], f)
      BY <1>5, <3>2 DEF Quiet, Unread, ToSet
    <3> QED BY <3>1, <3>2 DEF Silent
  <2>5. /\ Shown(t, f) => Live(f)
        /\ Live(f) => Shown(t, f)
        /\ ~Dying(t, f) \/ ~Live(f)
    BY <1>2, <2>1, <2>2, <2>3, <2>4 DEF RowFits
  <2>6. rows[t][f] \in Seq(RowStates) /\ \A i \in DOMAIN rows[t][f] : rows[t][f][i] # "dying"
    BY <1>1, <1>2, <1>5 DEF PageParts, Tables, Quiet, Visible
  <2>7. Len(rows[t][f]) \in Nat /\ DOMAIN rows[t][f] = 1..Len(rows[t][f])
    BY <2>6
  <2>8. Len(rows[t][f]) <= 1
    <3>1. SUFFICES ASSUME Len(rows[t][f]) > 1 PROVE FALSE
      BY <2>7
    <3>2. 2 \in DOMAIN rows[t][f] /\ 2 > 1
      BY <2>7, <3>1
    <3> QED BY <2>1, <2>6, <3>2 DEF OneRow
  <2>9. CASE Shown(t, f)
    <3>1. Len(rows[t][f]) # 0
      BY <2>6, <2>9, EmptySeq DEF Shown
    <3> QED BY <2>5, <2>7, <2>8, <2>9, <3>1 DEF Live
  <2>10. CASE ~Shown(t, f)
    <3>1. Len(rows[t][f]) = 0
      <4>1. SUFFICES ASSUME Len(rows[t][f]) # 0 PROVE FALSE
        OBVIOUS
      <4>2. rows[t][f] # <<>> /\ 1 \in DOMAIN rows[t][f]
        BY <2>7, <4>1
      <4> QED BY <2>6, <2>10, <4>2 DEF Shown
    <3> QED BY <2>5, <2>10, <3>1 DEF Live
  <2> QED BY <2>9, <2>10
<1>6. ASSUME excused \cap ({t} \X Files) = {}, rowCount[t] # -1
      PROVE  rowCount[t] = Total([f \in Files |-> Visible(t, f)])
  <2>1. \A f \in Files : <<t, f>> \notin excused
    BY <1>6
  <2>2. \A f \in Files : OneRow(t, f)
    BY <1>2, <1>3, <2>1 DEF FileTrue, TabFits
  <2>3. rowCount[t] = Cardinality(Cells(t))
    BY <1>3, <1>4, <1>6, <2>1 DEF CountTrue
  <2> QED BY <1>1, <1>2, <2>2, <2>3, CountShown DEF PageParts
<1> QED BY <1>5, <1>6
-----------------------------------------------------------------------------
(* What a step leaves as it is *)

SameRow(x, f) ==
    /\ rows[x][f] = <<>> => rows'[x][f] = <<>>
    /\ OneRow(x, f) => OneRow(x, f)' /\ (Shown(x, f)' <=> Shown(x, f)) /\ (Dying(x, f)' => Dying(x, f))
QueuesKept(f) ==
    \A x \in Tabs : /\ SaysAs(outbox'[x], outbox[x], f)
                    /\ SaysAs(inbox'[x], inbox[x], f) \/ (~Alive(x)' /\ Silent(inbox'[x], f))
ExcusedAsBefore(f) == \A x \in Tabs : <<x, f>> \in excused' <=> <<x, f>> \in excused

(* No change of f is heard of, and none is made that is not announced. *)
SameTruth(f) ==
    /\ Announced(f)' <=> Announced(f)
    /\ Live(f) \/ Announced(f) => Live(f)' \/ Announced(f)
    /\ Live(f)' /\ Announced(f) => Live(f)
    /\ Told(f)' => Told(f)

(* Requests are answered in vain, or the tab that has made them goes away. *)
FewerActs(f) ==
    /\ Acts(f)' \subseteq Acts(f)
    /\ \A c \in Acts(f) \ Acts(f)' : c.kind = "info" \/ c.phase # "done"
    /\ \A c \in Acts(f)' : c.kind # "info" /\ tab[c.tab] \in {"open", "leaving"}
                             => tab'[c.tab] \in {"open", "leaving"}

Untouched(f) ==
    /\ (Live(f)' <=> Live(f)) /\ (Off(f)' <=> Off(f)) /\ (file'[f] = "none" => file[f] = "none")
    /\ (Told(f)' => Told(f)) /\ FewerActs(f)
    /\ QueuesKept(f) /\ ExcusedAsBefore(f)
    /\ \A x \in Tabs : SameRow(x, f) /\ (toast'[x] = f => toast[x] = f) /\ (Alive(x)' => Alive(x))

LEMMA TabKept ==
  ASSUME NEW x \in Tabs, NEW f \in Files, TabFits(x, f), Alive(x)' => Alive(x),
         <<x, f>> \in excused => <<x, f>> \in excused',
         SameRow(x, f), Alive(x)' => SaysAs(inbox'[x], inbox[x], f),
         \A y \in Tabs : y # x => SaysAs(outbox'[y], outbox[y], f),
         SameTruth(f)
  PROVE  TabFits(x, f)'
<1> SUFFICES ASSUME <<x, f>> \notin excused'
             PROVE  OneRow(x, f)' /\ (Alive(x)' => NoticesFit(x, f)' /\ RowFits(x, f)')
  BY DEF TabFits
<1>1. OneRow(x, f) /\ (Alive(x)' => NoticesFit(x, f) /\ RowFits(x, f))
  BY DEF TabFits
<1>2. /\ OneRow(x, f)' /\ (Shown(x, f)' <=> Shown(x, f)) /\ (Dying(x, f)' => Dying(x, f))
      /\ rows[x][f] = <<>> => rows'[x][f] = <<>>
  BY <1>1 DEF SameRow
<1>3. ASSUME Alive(x)' PROVE NoticesFit(x, f)'
  <2>1. NoticesFit(x, f)
    BY <1>1, <1>3
  <2>3. Alternates(inbox'[x], f)
    BY <1>3, <2>1 DEF NoticesFit, SaysAs
  <2>4. DeletesFirst(inbox'[x], f) => ~Dying(x, f)'
    BY <1>2, <1>3, <2>1 DEF NoticesFit, SaysAs
  <2>5. ASSUME NEW y \in Tabs, y # x, DeletesFirst(outbox'[y], f)
        PROVE  LastIs(inbox'[x], f, "fileAdded") \/ (Silent(inbox'[x], f) /\ ~Dying(x, f)')
    <3>1. DeletesFirst(outbox[y], f)
      BY <2>5 DEF SaysAs
    <3> QED BY <1>2, <1>3, <2>1, <2>5, <3>1 DEF NoticesFit, SaysAs
  <2> QED BY <2>3, <2>4, <2>5 DEF NoticesFit
<1>4. ASSUME Alive(x)' PROVE RowFits(x, f)'
  <2> SUFFICES ASSUME \A y \in Tabs : y # x => Silent(outbox'[y], f)
               PROVE  /\ Silent(inbox'[x], f) \/ LastIs(inbox'[x], f, Word(f)')
                      /\ Silent(inbox'[x], f) =>
                            /\ Shown(x, f)' => Live(f)' \/ Announced(f)'
                            /\ Live(f)' /\ Announced(f)' /\ ~Shown(x, f)' => ~Told(f)' /\ rows'[x][f] = <<>>
                            /\ Dying(x, f)' => ~Announced(f)'
    BY DEF RowFits
  <2>1. \A y \in Tabs : y # x => Silent(outbox[y], f)
    BY DEF SaysAs
  <2>2. /\ Silent(inbox[x], f) \/ LastIs(inbox[x], f, Word(f))
        /\ Silent(inbox[x], f) =>
              /\ Shown(x, f) => Live(f) \/ Announced(f)
              /\ Live(f) /\ Announced(f) /\ ~Shown(x, f) => ~Told(f) /\ rows[x][f] = <<>>
              /\ Dying(x, f) => ~Announced(f)
    BY <1>1, <1>4, <2>1 DEF RowFits
  <2>3. Word(f)' = Word(f)
    BY DEF SameTruth, Word
  <2>4. Silent(inbox'[x], f) \/ LastIs(inbox'[x], f, Word(f)')
    BY <1>4, <2>2, <2>3 DEF SaysAs
  <2>5. Silent(inbox'[x], f) => Silent(inbox[x], f)
    BY <1>4 DEF SaysAs
  <2> QED BY <1>2, <2>2, <2>4, <2>5 DEF SameTruth
<1> QED BY <1>2, <1>3, <1>4

LEMMA BlankKept ==
  ASSUME NEW f \in Files, Blank(f), QueuesKept(f),
         \A x \in Tabs : (rows[x][f] = <<>> => rows'[x][f] = <<>>) /\ (toast'[x] = f => toast[x] = f),
         file'[f] = "none" =>
            /\ file[f] = "none"
            /\ \A c \in Acts(f)' : c \in Acts(f) \/ (c.kind = "info" /\ c.phase # "done")
  PROVE  Blank(f)'
<1> SUFFICES ASSUME file'[f] = "none"
             PROVE  /\ \A y \in Tabs : /\ Silent(outbox'[y], f) /\ Silent(inbox'[y], f)
                                       /\ rows'[y][f] = <<>> /\ toast'[y] # f
                    /\ \A c \in Acts(f)' : c.kind = "info" /\ c.phase # "done"
  BY DEF Blank
<1> QED BY DEF Blank, QueuesKept, SaysAs

LEMMA OneActorKept ==
  ASSUME NEW f \in Files, OneActor(f), QueuesKept(f), PageParts, Acts(f)' \subseteq Acts(f)
  PROVE  OneActor(f)'
<1>1. \A c \in Acts(f) : c.tab \in Tabs
  BY DEF Acts, PageParts, Calls
<1>2. \A c, d \in Acts(f)' : c = d
  BY DEF OneActor
<1>3. \A c \in Acts(f)' : /\ Silent(inbox'[c.tab], f)
                          /\ \A y \in Tabs : y # c.tab => Silent(outbox'[y], f)
  BY <1>1 DEF OneActor, QueuesKept, SaysAs
<1>4. \A y, z \in Tabs : Silent(outbox'[y], f) \/ Silent(outbox'[z], f) \/ y = z
  BY DEF OneActor, QueuesKept, SaysAs
<1>5. \A y \in Tabs : Silent(outbox'[y], f) \/ Silent(inbox'[y], f)
  BY DEF OneActor, QueuesKept, SaysAs
<1> QED BY <1>2, <1>3, <1>4, <1>5 DEF OneActor

LEMMA PostsKept ==
  ASSUME NEW f \in Files, PostsFit(f), QueuesKept(f), Announced(f)' <=> Announced(f)
  PROVE  PostsFit(f)'
<1>1. Word(f)' = Word(f)
  BY DEF Word
<1> QED BY <1>1 DEF PostsFit, QueuesKept, SaysAs

LEMMA SameAnnounced ==
  ASSUME NEW f \in Files, Live(f)' <=> Live(f), FewerActs(f)
  PROVE  Announced(f)' <=> Announced(f)
<1>1. \A kind \in {"delete", "restore"} : Done(f, kind)' <=> Done(f, kind)
  <2>1. ASSUME NEW kind \in {"delete", "restore"}, Done(f, kind) PROVE Done(f, kind)'
    <3>1. PICK c \in Acts(f) : c.kind = kind /\ c.phase = "done"
      BY <2>1 DEF Done
    <3>2. c \in Acts(f)'
      BY <3>1 DEF FewerActs
    <3> QED BY <3>1, <3>2 DEF Done
  <2>2. ASSUME NEW kind \in {"delete", "restore"}, Done(f, kind)' PROVE Done(f, kind)
    BY <2>2 DEF Done, FewerActs
  <2> QED BY <2>1, <2>2
<1> QED BY <1>1 DEF Announced

LEMMA FileKept ==
  ASSUME NEW f \in Files, FileTrue(f), Untouched(f), PageParts
  PROVE  FileTrue(f)'
<1>1. Announced(f)' <=> Announced(f)
  BY SameAnnounced DEF Untouched
<1>2. SameTruth(f)
  BY <1>1 DEF SameTruth, Untouched
<1>3. \A x \in Tabs : TabFits(x, f)'
  BY <1>2, TabKept DEF FileTrue, Untouched, ExcusedAsBefore, QueuesKept
<1>4. Blank(f)'
  BY BlankKept DEF FileTrue, Untouched, SameRow, FewerActs
<1>5. ASSUME Tracked(f)' PROVE TrackedFits(f)'
  <2>1. TrackedFits(f)
    BY <1>5 DEF FileTrue, Tracked, Untouched, ExcusedAsBefore
  <2>2. OneActor(f)' /\ PostsFit(f)'
    BY <1>1, <2>1, OneActorKept, PostsKept DEF TrackedFits, Untouched, FewerActs
  <2>3. ToastFits(f)'
    BY <2>1 DEF TrackedFits, ToastFits, Untouched
  <2>4. ASSUME NEW c \in Acts(f)' PROVE ActFits(c, f)'
    <3>1. ActFits(c, f) /\ c.tab \in Tabs /\ c \in Acts(f)
      BY <2>1, <2>4 DEF TrackedFits, Untouched, FewerActs, Acts, PageParts, Calls
    <3>2. /\ <<c.tab, f>> \in excused' <=> <<c.tab, f>> \in excused
          /\ \A x \in Tabs : toast'[x] = f => toast[x] = f
          /\ Live(f)' <=> Live(f)
          /\ Off(f)' <=> Off(f)
          /\ rows[c.tab][f] = <<>> => rows'[c.tab][f] = <<>>
      BY <3>1 DEF Untouched, ExcusedAsBefore, SameRow
    <3>3. c.kind \in {"delete", "restore"} => (Shown(c.tab, f)' <=> Shown(c.tab, f))
      <4>1. c.kind \in {"delete", "restore"} => OneRow(c.tab, f)
        BY <3>1 DEF ActFits, FileTrue, TabFits
      <4> QED BY <3>1, <4>1 DEF Untouched, SameRow
    <3>4. c.kind \in {"delete", "restore"} => tab'[c.tab] \in {"open", "leaving"}
      <4>1. c.kind \in {"delete", "restore"} => tab[c.tab] \in {"open", "leaving"} /\ c.kind # "info"
        BY <3>1 DEF ActFits
      <4> QED BY <2>4, <4>1 DEF Untouched, FewerActs
    <3> QED BY <3>1, <3>2, <3>3, <3>4 DEF ActFits
  <2> QED BY <2>1, <2>2, <2>3, <2>4 DEF TrackedFits
<1> QED BY <1>3, <1>4, <1>5 DEF FileTrue

(* All tables are excused. *)
LEMMA FileExcused ==
  ASSUME NEW f \in Files, Blank(f)', \A x \in Tabs : <<x, f>> \in excused'
  PROVE  FileTrue(f)'
  BY DEF FileTrue, Tracked, TabFits

(* What tabs have not changed *)
LEMMA RowsKept ==
  ASSUME NEW x, NEW f, rows'[x][f] = rows[x][f]
  PROVE  SameRow(x, f)
  BY DEF SameRow, OneRow, Shown, Dying

LEMMA QueuesAlike ==
  ASSUME NEW f, UNCHANGED <<outbox, inbox>>
  PROVE  QueuesKept(f)
  BY SaysTheSame DEF QueuesKept

LEMMA ActsKept ==
  ASSUME NEW f, Acts(f)' = Acts(f), UNCHANGED tab
  PROVE  FewerActs(f)
  BY DEF FewerActs

(* Nothing happens that concerns f, but for messages about others. *)
LEMMA NotConcerned ==
  ASSUME NEW f \in Files, file'[f] = file[f], Told(f)' => Told(f), FewerActs(f), QueuesKept(f),
         ExcusedAsBefore(f),
         \A x \in Tabs : rows'[x][f] = rows[x][f] /\ (toast'[x] = f => toast[x] = f) /\ (Alive(x)' => Alive(x))
  PROVE  Untouched(f)
<1>1. ASSUME NEW x \in Tabs PROVE SameRow(x, f)
  <2>1. rows'[x][f] = rows[x][f]
    OBVIOUS
  <2> QED BY <2>1, RowsKept
<1> QED BY <1>1 DEF Untouched, Live, Off

LEMMA SameTold ==
  ASSUME NEW f, UNCHANGED chains, upload'[f] \in {"none", "removed"} => upload[f] \in {"none", "removed"}
  PROVE  Told(f)' => Told(f)
  BY DEF Told

-----------------------------------------------------------------------------
(* Requests come, are answered, and go. *)

LEMMA NewAct ==
  ASSUME PageParts, NEW t \in Tabs, NEW kind \in {"complete", "info", "delete", "restore"},
         NEW f \in Files, calls' = Call(t, kind, f)
  PROVE  \E c \in Calls : /\ c.tab = t /\ c.kind = kind /\ c.file = f /\ c.phase = "sent"
                          /\ calls' = calls \cup {c}
                          /\ Acts(f)' = IF kind = "complete" THEN Acts(f) ELSE Acts(f) \cup {c}
                          /\ \A g \in Files : g # f => Acts(g)' = Acts(g)
<1>1. PICK c \in Calls : /\ c.tab = t /\ c.kind = kind /\ c.file = f /\ c.phase = "sent"
                         /\ calls' = calls \cup {c}
  <2>1. calls \subseteq Calls /\ IsFiniteSet(calls)
    BY DEF PageParts
  <2>2. PICK c \in Calls \ calls : /\ c.tab = t /\ c.kind = kind /\ c.file = f /\ c.phase = "sent"
                                   /\ Call(t, kind, f) = calls \cup {c}
    BY <2>1, NewCall
  <2> QED BY <2>2
<1>2. Acts(f)' = IF kind = "complete" THEN Acts(f) ELSE Acts(f) \cup {c}
  BY <1>1 DEF Acts
<1>3. \A g \in Files : g # f => Acts(g)' = Acts(g)
  BY <1>1 DEF Acts
<1> QED BY <1>1, <1>2, <1>3

LEMMA ActLeft ==
  ASSUME NEW c \in calls, calls' = calls \ {c}
  PROVE  /\ Acts(c.file)' = Acts(c.file) \ {c}
         /\ \A g : g # c.file => Acts(g)' = Acts(g)
         /\ c.kind = "complete" => \A g : Acts(g)' = Acts(g)
  BY DEF Acts

LEMMA ActAnswered ==
  ASSUME PageParts, NEW c \in calls, NEW phase \in {"done", "refused"}, Answered(c, phase)
  PROVE  \E d \in Calls :
            /\ d.tab = c.tab /\ d.kind = c.kind /\ d.file = c.file /\ d.phase = phase
            /\ calls' \subseteq (calls \ {c}) \cup {d}
            /\ c.kind = "complete" => Acts(c.file)' = Acts(c.file)
            /\ c.kind # "complete" =>
                  Acts(c.file)' = (Acts(c.file) \ {c}) \cup (IF Alive(c.tab) THEN {d} ELSE {})
            /\ \A g \in Files : g # c.file => Acts(g)' = Acts(g)
<1> DEFINE d == [c EXCEPT !.phase = phase]
<1>1. /\ c \in Calls /\ d \in Calls /\ d.tab = c.tab /\ d.kind = c.kind /\ d.file = c.file
      /\ d.phase = phase
  BY DEF PageParts, Calls
<1>2. calls' = (calls \ {c}) \cup (IF Alive(c.tab) THEN {d} ELSE {})
  BY DEF Answered
<1> HIDE DEF d
<1>3. c.kind = "complete" => Acts(c.file)' = Acts(c.file)
  BY <1>1, <1>2 DEF Acts
<1>4. c.kind # "complete" =>
         Acts(c.file)' = (Acts(c.file) \ {c}) \cup (IF Alive(c.tab) THEN {d} ELSE {})
  BY <1>1, <1>2 DEF Acts
<1>5. \A g \in Files : g # c.file => Acts(g)' = Acts(g)
  BY <1>1, <1>2 DEF Acts
<1> QED BY <1>1, <1>2, <1>3, <1>4, <1>5

-----------------------------------------------------------------------------
(* Tabs, the number in the foot of a table, and all together *)

TabsKept ==
    \A t \in Tabs :
        /\ tab'[t] \in {"none", "rendered"} =>
              /\ tab[t] \in {"none", "rendered"} /\ inbox'[t] = inbox[t] /\ outbox'[t] = outbox[t]
              /\ rowCount'[t] = rowCount[t] /\ (t \in ports' => t \in ports)
              /\ \A c \in calls' : c.tab = t => \E d \in calls : d.tab = t
        /\ t \in attached' <=> tab'[t] \in {"open", "leaving"}

LEMMA TabsStay == ASSUME TabsFit, TabsKept PROVE TabsFit'
<1>1. \A t \in Tabs : t \in attached' <=> tab'[t] \in {"open", "leaving"}
  BY DEF TabsKept
<1>2. ASSUME NEW t \in Tabs, tab'[t] \in {"none", "rendered"}
      PROVE  /\ inbox'[t] = <<>> /\ outbox'[t] = <<>> /\ t \notin ports'
             /\ rowCount'[t] = -1 /\ \A c \in calls' : c.tab # t
  BY <1>2 DEF TabsFit, TabsKept
<1> QED BY <1>1, <1>2 DEF TabsFit

CountKept(t) ==
    /\ Alive(t)' => Alive(t)
    /\ \A f \in Files : <<t, f>> \in excused => <<t, f>> \in excused'
    /\ rowCount'[t] = rowCount[t] /\ rows'[t] = rows[t]

LEMMA CountStays == ASSUME NEW t \in Tabs, CountTrue(t), CountKept(t) PROVE CountTrue(t)'
<1>1. Cells(t)' = Cells(t)
  BY DEF Cells, Shown, CountKept
<1> QED BY <1>1 DEF CountTrue, CountKept

(* What a proof about a step begins with *)
Shared == SystemInv /\ KeysInv /\ TableInv /\ Now.shared

LEMMA SharedParts ==
  ASSUME Shared
  PROVE  /\ PageParts /\ TabsFit /\ WorkerTypeOK /\ UploadsOnce
         /\ \A f \in Files : FileTrue(f)
         /\ \A t \in Tabs : CountTrue(t)
         /\ file \in [Files -> FileStates] /\ chains \subseteq Chains
  BY SoundParts DEF Shared, SystemInv, TableInv, KeysInv, PageSound, WorkerInv, StatusTypeOK,
     ChainSound, E2eTypeOK

LEMMA AllKept ==
  ASSUME Shared, UNCHANGED scenario, TabsKept,
         \A f \in Files : Untouched(f) \/ FileTrue(f)',
         \A t \in Tabs : CountKept(t) \/ CountTrue(t)'
  PROVE  TableInv'
<1>1. Now' = Now
  BY DEF Now
<1>2. TabsFit'
  BY SharedParts, TabsStay
<1>3. \A f \in Files : FileTrue(f)'
  BY SharedParts, FileKept
<1>4. \A t \in Tabs : CountTrue(t)'
  BY SharedParts, CountStays
<1> QED BY <1>1, <1>2, <1>3, <1>4 DEF TableInv, Shared

(* Neither tables, requests, files nor bars change. *)
LEMMA TableSame ==
  ASSUME Shared, UNCHANGED <<scenario, tab, rows, rowCount, toast, excused>>, TabsKept,
         \A f \in Files : /\ Acts(f)' = Acts(f) /\ file'[f] = file[f]
                          /\ (Told(f)' => Told(f)) /\ QueuesKept(f)
  PROVE  TableInv'
<1>1. ASSUME NEW f \in Files PROVE Untouched(f)
  <2>1. FewerActs(f) /\ ExcusedAsBefore(f)
    BY ActsKept DEF ExcusedAsBefore
  <2>2. /\ file'[f] = file[f] /\ (Told(f)' => Told(f)) /\ QueuesKept(f)
        /\ \A x \in Tabs : /\ rows'[x][f] = rows[x][f] /\ (toast'[x] = f => toast[x] = f)
                          /\ Alive(x)' => Alive(x)
    BY DEF Alive
  <2> QED BY <2>1, <2>2, NotConcerned
<1>2. \A t \in Tabs : CountKept(t)
  BY DEF CountKept, Alive
<1> QED BY <1>1, <1>2, AllKept

-----------------------------------------------------------------------------
(* Tabs come and go. *)

LEMMA TableOfRegistering ==
  ASSUME Shared, NEW t \in Tabs, registerChangeHandler(t), UNCHANGED e2eVars
  PROVE  TableInv'
<1>1. PageParts /\ TabsFit /\ WorkerTypeOK
  BY SharedParts
<1>2. /\ tab[t] = "rendered" /\ tab' = [tab EXCEPT ![t] = "open"]
      /\ attached' = attached \cup {t} /\ outbox' = [outbox EXCEPT ![t] = <<Connect>>]
      /\ UNCHANGED <<ports, inbox, file, scenario, rows, rowCount, toast, upload, calls, excused, chains>>
  BY DEF registerChangeHandler, Attach, Shared, statusVars, e2eVars
<1>3. /\ \A x \in Tabs : tab'[x] = IF x = t THEN "open" ELSE tab[x]
      /\ \A x \in Tabs : outbox'[x] = IF x = t THEN <<Connect>> ELSE outbox[x]
  BY <1>1, <1>2 DEF PageParts, WorkerTypeOK
<1>4. outbox[t] = <<>>
  BY <1>1, <1>2 DEF TabsFit
<1>5. TabsKept
  BY <1>1, <1>2, <1>3 DEF TabsKept, TabsFit
<1>6. ASSUME NEW f \in Files PROVE Untouched(f)
  <2>1. Silent(<<Connect>>, f)
    BY DEF Silent, IsAbout, Connect
  <2>2. QueuesKept(f)
    BY <1>2, <1>3, <1>4, <2>1, SaysTheSame, SilentTwice, EmptyQueue DEF QueuesKept
  <2>3. FewerActs(f)
    BY <1>2, <1>3 DEF FewerActs, Acts
  <2>4. Told(f)' => Told(f)
    BY <1>2 DEF Told
  <2>5. \A x \in Tabs : Alive(x)' => Alive(x)
    BY <1>2, <1>3 DEF Alive
  <2> QED BY <1>2, <2>2, <2>3, <2>4, <2>5, NotConcerned DEF ExcusedAsBefore
<1>7. \A x \in Tabs : CountKept(x)
  BY <1>2, <1>3 DEF CountKept, Alive
<1> QED BY <1>2, <1>5, <1>6, <1>7, AllKept

(* A document goes away: what its tab was about to change is excused. *)
LEMMA TableOfLeaving ==
  ASSUME Shared, NEW t \in Tabs, Leaves(t), attached' = attached \ {t},
         inbox' = [inbox EXCEPT ![t] = <<>>], NEW log, log = <<>> \/ log = <<Shutdown>>,
         outbox' = [outbox EXCEPT ![t] = @ \o log],
         UNCHANGED <<ports, file, scenario, rows, rowCount, toast, upload, chains>>
  PROVE  TableInv'
<1>1. PageParts /\ TabsFit /\ WorkerTypeOK /\ \A f \in Files : FileTrue(f)
  BY SharedParts
<1> DEFINE mine == {c \in calls : c.tab = t}
           unheard == {c.file : c \in {x \in mine : x.kind \in {"delete", "restore"}}}
<1>2. /\ tab' = [tab EXCEPT ![t] = "gone"]
      /\ calls' = calls \ {c \in mine : c.phase # "sent"}
      /\ excused' = excused \cup UNION {Everywhere(f) : f \in unheard}
  BY DEF Leaves
<1>3. \A c \in calls : c.tab = t /\ c.kind \in {"delete", "restore"} => c.file \in unheard
  OBVIOUS
<1>4. calls' \subseteq calls /\ \A c \in calls \ calls' : c.tab = t /\ c.phase # "sent"
  BY <1>2
<1>5. unheard \subseteq Files
  BY <1>1 DEF PageParts, Calls
<1> HIDE DEF mine, unheard
<1>6. \A f \in Files, x \in Tabs : <<x, f>> \in excused' <=> <<x, f>> \in excused \/ f \in unheard
  BY <1>2 DEF Everywhere
<1>7. /\ \A x \in Tabs : tab'[x] = IF x = t THEN "gone" ELSE tab[x]
      /\ \A x \in Tabs : inbox'[x] = IF x = t THEN <<>> ELSE inbox[x]
      /\ \A x \in Tabs : outbox'[x] = IF x = t THEN outbox[x] \o log ELSE outbox[x]
  BY <1>1, <1>2 DEF PageParts, WorkerTypeOK
<1>8. TabsKept
  BY <1>1, <1>4, <1>7 DEF TabsKept, TabsFit
<1>9. ASSUME NEW f \in Files PROVE QueuesKept(f)
  <2>1. SaysAs(outbox'[t], outbox[t], f)
    <3>1. outbox[t] \in Seq(ToWorker)
      BY <1>1 DEF WorkerTypeOK
    <3>2. CASE log = <<>>
      BY <1>7, <3>1, <3>2, SaysTheSame
    <3>3. CASE log = <<Shutdown>>
      <4>1. outbox'[t] = Append(outbox[t], Shutdown)
        <5>1. outbox[t] \o <<Shutdown>> = Append(outbox[t], Shutdown)
          BY <3>1
        <5> QED BY <1>7, <3>3, <5>1
      <4>2. ~IsAbout(Shutdown, f)
        BY DEF IsAbout, Shutdown
      <4> QED BY <3>1, <4>1, <4>2, AppendOther
    <3> QED BY <3>2, <3>3
  <2>2. ~Alive(t)' /\ Silent(inbox'[t], f)
    BY <1>7, EmptyQueue DEF Alive
  <2>3. \A x \in Tabs : x # t => SaysAs(outbox'[x], outbox[x], f) /\ SaysAs(inbox'[x], inbox[x], f)
    BY <1>7, SaysTheSame
  <2> QED BY <2>1, <2>2, <2>3 DEF QueuesKept
<1>10. \A x \in Tabs : Alive(x)' => Alive(x)
  BY <1>7 DEF Alive
<1>11. ASSUME NEW f \in Files PROVE Untouched(f) \/ FileTrue(f)'
  <2>1. CASE f \in unheard
    <3>1. Acts(f)' \subseteq Acts(f)
      BY <1>4 DEF Acts
    <3>2. Blank(f)'
      BY <1>1, <1>9, <3>1, BlankKept DEF FileTrue
    <3> QED BY <1>6, <2>1, <3>2, FileExcused
  <2>2. CASE f \notin unheard
    <3>1. FewerActs(f)
      <4>1. Acts(f)' \subseteq Acts(f) /\ \A c \in Acts(f) \ Acts(f)' : c.tab = t /\ c.phase # "sent"
        BY <1>4 DEF Acts
      <4>2. \A c \in Acts(f) : c.kind = "info" \/ c.tab # t
        BY <1>1, <1>3, <2>2 DEF Acts, PageParts, Calls
      <4>3. \A c \in Acts(f) : c.tab \in Tabs
        BY <1>1 DEF Acts, PageParts, Calls
      <4> QED BY <1>7, <4>1, <4>2, <4>3 DEF FewerActs
    <3>2. Told(f)' => Told(f)
      BY DEF Told
    <3>3. ExcusedAsBefore(f)
      BY <1>6, <2>2 DEF ExcusedAsBefore
    <3> QED BY <1>9, <1>10, <3>1, <3>2, <3>3, NotConcerned
  <2> QED BY <2>1, <2>2
<1>12. \A x \in Tabs : CountKept(x)
  BY <1>6, <1>10 DEF CountKept
<1> QED BY <1>8, <1>11, <1>12, AllKept

LEMMA TableOfClosing ==
  ASSUME Shared, NEW t \in Tabs, Close(t) \/ GoToLogin(t) \/ doLogout(t), UNCHANGED e2eVars
  PROVE  TableInv'
<1>1. outbox \in [Tabs -> Seq(ToWorker)]
  BY SharedParts DEF WorkerTypeOK
<1>2. CASE Close(t) \/ GoToLogin(t)
  <2>1. /\ Leaves(t) /\ attached' = attached \ {t} /\ inbox' = [inbox EXCEPT ![t] = <<>>]
        /\ UNCHANGED <<ports, outbox, file, scenario, rows, rowCount, toast, upload, chains>>
    BY <1>2 DEF Close, GoToLogin, Detach, statusVars, e2eVars
  <2>2. outbox' = [outbox EXCEPT ![t] = @ \o <<>>]
    <3>1. outbox[t] \o <<>> = outbox[t]
      BY <1>1
    <3> QED BY <1>1, <2>1, <3>1
  <2> QED BY <2>1, <2>2, TableOfLeaving
<1>3. CASE doLogout(t)
  <2>1. /\ Leaves(t) /\ attached' = attached \ {t} /\ inbox' = [inbox EXCEPT ![t] = <<>>]
        /\ outbox' = [outbox EXCEPT ![t] = Append(@, Shutdown)]
        /\ UNCHANGED <<ports, file, scenario, rows, rowCount, toast, upload, chains>>
    BY <1>3 DEF doLogout, statusVars, e2eVars
  <2>2. outbox' = [outbox EXCEPT ![t] = @ \o <<Shutdown>>]
    <3>1. Append(outbox[t], Shutdown) = outbox[t] \o <<Shutdown>>
      BY <1>1
    <3> QED BY <1>1, <2>1, <3>1
  <2> QED BY <2>1, <2>2, TableOfLeaving
<1> QED BY <1>2, <1>3

-----------------------------------------------------------------------------
(* The timer of a row, and what uploads do before a file is there *)

LEMMA RowTaken ==
  ASSUME NEW s \in Seq(RowStates), NEW i \in DOMAIN s, s[i] = "dying",
         \A j \in DOMAIN s : j > 1 => s[j] = "dying"
  PROVE  /\ \A j \in DOMAIN RemoveAt(s, i) : j > 1 => RemoveAt(s, i)[j] = "dying"
         /\ RemoveAt(s, i) # <<>> => RemoveAt(s, i)[1] = s[1]
         /\ RemoveAt(s, i) = <<>> => s[1] = "dying"
<1> DEFINE n == Len(s)
           a == SubSeq(s, 1, i - 1)
           b == SubSeq(s, i + 1, n)
           r == RemoveAt(s, i)
<1>1. n \in Nat /\ DOMAIN s = 1..n /\ i \in 1..n
  OBVIOUS
<1>2. /\ a \in Seq(RowStates) /\ Len(a) = i - 1 /\ \A j \in 1..i - 1 : a[j] = s[j]
      /\ b \in Seq(RowStates) /\ Len(b) = n - i /\ \A j \in 1..n - i : b[j] = s[i + j]
  <2>1. \A j \in 1..n : s[j] \in RowStates
    OBVIOUS
  <2>2. \A j \in 1..i - 1 : s[j] \in RowStates
    BY <1>1, <2>1
  <2>3. \A j \in i + 1..n : s[j] \in RowStates
    BY <1>1, <2>1
  <2>4. /\ a \in Seq(RowStates) /\ Len(a) = i - 1 /\ \A j \in 1..i - 1 : a[j] = s[1 + j - 1]
    BY <1>1, <2>2, SubSeqProperties
  <2>5. /\ b \in Seq(RowStates) /\ Len(b) = (IF i + 1 <= n THEN n - (i + 1) + 1 ELSE 0)
        /\ \A j \in 1..n - (i + 1) + 1 : b[j] = s[i + 1 + j - 1]
    BY <1>1, <2>3, SubSeqProperties
  <2>6. \A j \in 1..i - 1 : 1 + j - 1 = j
    BY <1>1
  <2>7. n - (i + 1) + 1 = n - i /\ \A j \in 1..n - i : i + 1 + j - 1 = i + j
    BY <1>1
  <2>8. Len(b) = n - i
    BY <1>1, <2>5
  <2> QED BY <2>4, <2>5, <2>6, <2>7, <2>8
<1>3. r = a \o b
  BY DEF RemoveAt
<1> HIDE DEF n, a, b, r
<1>4. /\ r \in Seq(RowStates) /\ Len(r) = n - 1 /\ DOMAIN r = 1..n - 1
      /\ \A j \in 1..n - 1 : r[j] = IF j < i THEN s[j] ELSE s[j + 1]
  <2>1. r \in Seq(RowStates) /\ Len(r) = Len(a) + Len(b)
        /\ \A j \in 1..Len(a) + Len(b) : r[j] = IF j <= Len(a) THEN a[j] ELSE b[j - Len(a)]
    BY <1>2, <1>3, ConcatProperties
  <2>2. Len(a) + Len(b) = n - 1
    BY <1>1, <1>2
  <2>3. ASSUME NEW j \in 1..n - 1 PROVE r[j] = IF j < i THEN s[j] ELSE s[j + 1]
    <3>1. CASE j < i
      <4>1. j \in 1..i - 1 /\ j <= Len(a)
        BY <1>1, <1>2, <3>1
      <4> QED BY <1>2, <2>1, <2>2, <3>1, <4>1
    <3>2. CASE ~(j < i)
      <4>1. j - (i - 1) \in 1..n - i /\ ~(j <= Len(a)) /\ i + (j - (i - 1)) = j + 1
        BY <1>1, <1>2, <3>2
      <4> QED BY <1>2, <2>1, <2>2, <3>2, <4>1
    <3> QED BY <3>1, <3>2
  <2>4. DOMAIN r = 1..n - 1
    BY <2>1, <2>2
  <2> QED BY <2>1, <2>2, <2>3, <2>4
<1>5. \A j \in 1..n - 1 : j > 1 => r[j] = "dying"
  <2> SUFFICES ASSUME NEW j \in 1..n - 1, j > 1 PROVE r[j] = "dying"
    OBVIOUS
  <2>1. j \in 1..n /\ j + 1 \in 1..n /\ j + 1 > 1
    BY <1>1
  <2> QED BY <1>1, <1>4, <2>1
<1>6. r # <<>> => r[1] = s[1]
  <2> SUFFICES ASSUME r # <<>> PROVE r[1] = s[1]
    OBVIOUS
  <2>1. 1 \in 1..n - 1 /\ 2 \in 1..n /\ 2 > 1
    BY <1>1, <1>4, EmptySeq
  <2>2. CASE 1 < i
    BY <1>4, <2>1, <2>2
  <2>3. CASE ~(1 < i)
    <3>1. i = 1
      BY <1>1, <2>3
    <3>2. r[1] = s[2]
      BY <1>4, <2>1, <3>1
    <3>3. s[1] = "dying" /\ s[2] = "dying"
      BY <1>1, <2>1, <3>1
    <3> QED BY <3>2, <3>3
  <2> QED BY <2>2, <2>3
<1>7. r = <<>> => s[1] = "dying"
  <2> SUFFICES ASSUME r = <<>> PROVE s[1] = "dying"
    OBVIOUS
  <2>1. n = 1 /\ i = 1
    BY <1>1, <1>4
  <2> QED BY <2>1
<1> QED BY <1>4, <1>5, <1>6, <1>7 DEF r

LEMMA TableOfTimer ==
  ASSUME Shared, NEW t \in Tabs, NEW f \in Files, RowRemoved(t, f), UNCHANGED e2eVars
  PROVE  TableInv'
<1>1. PageParts /\ TabsFit /\ \A x \in Tabs : CountTrue(x)
  BY SharedParts
<1>2. /\ UNCHANGED <<attached, ports, inbox, outbox, file, scenario, tab, rowCount, toast, upload,
                     calls, excused, chains>>
  BY DEF RowRemoved, workerVars, statusVars, e2eVars
<1>3. PICK i \in DOMAIN rows[t][f] :
         rows[t][f][i] = "dying" /\ rows' = [rows EXCEPT ![t][f] = RemoveAt(@, i)]
  BY DEF RowRemoved
<1>4. /\ \A x \in Tabs : x # t => rows'[x] = rows[x]
      /\ \A g \in Files : rows'[t][g] = IF g = f THEN RemoveAt(rows[t][f], i) ELSE rows[t][g]
  BY <1>1, <1>3 DEF PageParts, Tables
<1>5. rows[t][f] \in Seq(RowStates) /\ rows[t][f] # <<>>
  BY <1>1, <1>3 DEF PageParts, Tables
<1>6. SameRow(t, f)
  <2> SUFFICES ASSUME OneRow(t, f)
               PROVE  OneRow(t, f)' /\ (Shown(t, f)' <=> Shown(t, f)) /\ (Dying(t, f)' => Dying(t, f))
    BY <1>5 DEF SameRow
  <2>1. \A j \in DOMAIN rows[t][f] : j > 1 => rows[t][f][j] = "dying"
    BY DEF OneRow
  <2> DEFINE r == rows'[t][f]
  <2>2. r = RemoveAt(rows[t][f], i)
    BY <1>4
  <2>3. /\ \A j \in DOMAIN r : j > 1 => r[j] = "dying"
        /\ r # <<>> => r[1] = rows[t][f][1]
        /\ r = <<>> => rows[t][f][1] = "dying"
    BY <1>3, <1>5, <2>1, <2>2, RowTaken
  <2> QED BY <1>5, <2>3 DEF OneRow, Shown, Dying
<1>7. \A x \in Tabs, g \in Files : SameRow(x, g)
  <2> SUFFICES ASSUME NEW x \in Tabs, NEW g \in Files PROVE SameRow(x, g)
    OBVIOUS
  <2>1. CASE x = t /\ g = f
    BY <1>6, <2>1
  <2>2. CASE ~(x = t /\ g = f)
    <3>1. rows'[x][g] = rows[x][g]
      BY <1>4, <2>2
    <3> QED BY <3>1, RowsKept
  <2> QED BY <2>1, <2>2
<1>8. TabsKept
  BY <1>1, <1>2 DEF TabsKept, TabsFit
<1>9. ASSUME NEW g \in Files PROVE Untouched(g)
  <2>1. QueuesKept(g) /\ FewerActs(g)
    BY <1>2, QueuesAlike, ActsKept DEF Acts
  <2> QED BY <1>2, <1>7, <2>1 DEF Untouched, ExcusedAsBefore, Told, Live, Off, Alive
<1>10. ASSUME NEW x \in Tabs PROVE CountKept(x) \/ CountTrue(x)'
  <2>1. CASE x # t
    BY <1>2, <1>4, <2>1 DEF CountKept, Alive
  <2>2. CASE x = t
    <3> SUFFICES ASSUME Alive(t), \A g \in Files : <<t, g>> \notin excused
                 PROVE  /\ rowCount[t] # -1
                        /\ rowCount[t] = Cardinality(Cells(t)')
      BY <1>2, <2>2 DEF CountTrue, Alive
    <3>1. \A g \in Files : OneRow(t, g)
      BY SharedParts DEF FileTrue, TabFits
    <3>2. \A g \in Files : Shown(t, g)' <=> Shown(t, g)
      BY <1>7, <3>1 DEF SameRow
    <3>3. Cells(t)' = Cells(t)
      BY <3>2 DEF Cells
    <3>4. rowCount[t] # -1
      BY <1>1, <1>3 DEF CountTrue
    <3> QED BY <1>1, <3>3, <3>4 DEF CountTrue
  <2> QED BY <2>1, <2>2
<1> QED BY <1>2, <1>8, <1>9, <1>10, AllKept

LEMMA TableOfUpload ==
  ASSUME Shared, NEW f \in Files, addFileProgress(f) \/ sendChunkComplete(f) \/ ChunkFails(f),
         UNCHANGED chains
  PROVE  TableInv'
<1>1. PageParts /\ TabsFit /\ Uploader \in Tabs
  BY SharedParts, ScenarioType DEF PageParts
<1>2. UNCHANGED <<attached, ports, inbox, outbox, file, scenario, tab, rows, rowCount, toast, excused>>
  BY DEF addFileProgress, sendChunkComplete, ChunkFails, workerVars, statusVars
<1>3. \A g \in Files : upload'[g] \in {"none", "removed"} => upload[g] \in {"none", "removed"}
  BY <1>1 DEF addFileProgress, sendChunkComplete, ChunkFails, PageParts
<1>4. /\ \A g \in Files : Acts(g)' = Acts(g)
      /\ \A c \in calls' : c \in calls \/ tab[c.tab] = "open"
  <2>1. CASE addFileProgress(f) \/ ChunkFails(f)
    BY <2>1 DEF addFileProgress, ChunkFails, Acts
  <2>2. CASE sendChunkComplete(f)
    <3>1. calls' = Call(Uploader, "complete", f) /\ tab[Uploader] = "open"
      BY <2>2 DEF sendChunkComplete
    <3>2. PICK c \in Calls : /\ c.tab = Uploader /\ calls' = calls \cup {c} /\ Acts(f)' = Acts(f)
                             /\ \A g \in Files : g # f => Acts(g)' = Acts(g)
      BY <1>1, <3>1, NewAct
    <3> QED BY <3>1, <3>2
  <2> QED BY <2>1, <2>2
<1>5. TabsKept
  BY <1>1, <1>2, <1>4 DEF TabsKept, TabsFit
<1>6. ASSUME NEW g \in Files
      PROVE  /\ Acts(g)' = Acts(g) /\ file'[g] = file[g]
             /\ (Told(g)' => Told(g)) /\ QueuesKept(g)
  <2>1. Told(g)' => Told(g)
    BY <1>3, SameTold
  <2>2. QueuesKept(g)
    BY <1>2, QueuesAlike
  <2> QED BY <1>2, <1>4, <2>1, <2>2
<1> QED BY <1>2, <1>5, <1>6, TableSame

-----------------------------------------------------------------------------
(* A tab asks for a change, or for information. *)

LEMMA CrossingAll ==
  ASSUME NEW t \in Tabs, NEW f \in Files
  PROVE  /\ Crossing(t, f) = {} \/ \A x \in Tabs : <<x, f>> \in Crossing(t, f)
         /\ \A x, g : <<x, g>> \in Crossing(t, f) => g = f
  BY DEF Crossing, Everywhere

LEMMA Uncrossed ==
  ASSUME PageParts, NEW t \in Tabs, NEW f \in Files, FileTrue(f), Alive(t), Crossing(t, f) = {}
  PROVE  /\ Acts(f) = {} /\ <<t, f>> \notin excused /\ Tracked(f)
         /\ \A y \in Tabs : y # t => Silent(outbox[y], f)
         /\ Silent(inbox[t], f)
         /\ Announced(f) <=> Live(f)
         /\ Shown(t, f) => Live(f)
<1>1. ~(\/ \E c \in calls : c.file = f /\ c.kind # "complete"
        \/ Underway(f) \ {t} # {} \/ Unread(t, f) \/ <<t, f>> \in excused)
  BY DEF Crossing, Everywhere
<1>2. Acts(f) = {} /\ <<t, f>> \notin excused
  BY <1>1 DEF Acts
<1>3. \A y \in Tabs : y # t => Silent(outbox[y], f)
  BY <1>1 DEF Underway, Silent, ToSet
<1>4. Silent(inbox[t], f)
  BY <1>1 DEF Unread, Silent, ToSet
<1>5. Announced(f) <=> Live(f)
  BY <1>2 DEF Announced, Done
<1>6. RowFits(t, f)
  BY <1>2 DEF FileTrue, TabFits
<1>7. Shown(t, f) => Live(f)
  BY <1>3, <1>4, <1>5, <1>6 DEF RowFits
<1> QED BY <1>2, <1>3, <1>4, <1>5, <1>7 DEF Tracked

LEMMA ActBegins ==
  ASSUME PageParts, NEW t \in Tabs, NEW f \in Files, FileTrue(f), Alive(t), Crossing(t, f) = {},
         NEW c, c.tab = t, c.phase = "sent", Acts(f)' = Acts(f) \cup {c},
         c.kind = "info" \/ file[f] # "none", Tracked(f)' => ActFits(c, f)',
         \A x \in Tabs : <<x, f>> \in excused => <<x, f>> \in excused',
         QueuesKept(f), file'[f] = file[f], Told(f)' => Told(f), UNCHANGED tab,
         \A x \in Tabs : SameRow(x, f) /\ (toast'[x] = f => toast[x] = f)
  PROVE  FileTrue(f)'
<1>1. /\ Acts(f) = {} /\ <<t, f>> \notin excused /\ Tracked(f)
      /\ \A y \in Tabs : y # t => Silent(outbox[y], f)
      /\ Silent(inbox[t], f)
  BY Uncrossed
<1>2. Acts(f)' = {c}
  BY <1>1
<1>3. Announced(f)' <=> Announced(f)
  BY <1>1, <1>2 DEF Announced, Done, Live
<1>4. SameTruth(f)
  BY <1>3 DEF SameTruth, Live
<1>5. ASSUME NEW x \in Tabs PROVE TabFits(x, f)'
  <2>1. /\ TabFits(x, f) /\ SameRow(x, f) /\ (Alive(x)' => Alive(x))
        /\ \A y \in Tabs : y # x => SaysAs(outbox'[y], outbox[y], f)
        /\ Alive(x)' => SaysAs(inbox'[x], inbox[x], f)
        /\ <<x, f>> \in excused => <<x, f>> \in excused'
    BY DEF FileTrue, QueuesKept, Alive
  <2> QED BY <1>4, <2>1, TabKept
<1>6. Blank(f)'
  <2>1. \A x \in Tabs : rows[x][f] = <<>> => rows'[x][f] = <<>>
    BY DEF SameRow
  <2>2. file'[f] = "none" => file[f] = "none" /\ \A d \in Acts(f)' : d.kind = "info" /\ d.phase # "done"
    BY <1>2
  <2> QED BY <2>1, <2>2, BlankKept DEF FileTrue
<1>7. TrackedFits(f)
  BY <1>1 DEF FileTrue
<1>8. OneActor(f)'
  <2>1. Silent(inbox'[t], f) /\ \A y \in Tabs : y # t => Silent(outbox'[y], f)
    BY <1>1 DEF QueuesKept, SaysAs
  <2>2. \A y, z \in Tabs : Silent(outbox'[y], f) \/ Silent(outbox'[z], f) \/ y = z
    BY <2>1
  <2>3. \A y \in Tabs : Silent(outbox'[y], f) \/ Silent(inbox'[y], f)
    BY <2>1
  <2> QED BY <1>2, <2>1, <2>2, <2>3 DEF OneActor
<1>9. ToastFits(f)'
  BY <1>7 DEF TrackedFits, ToastFits, Off
<1>10. PostsFit(f)'
  BY <1>3, <1>7, PostsKept DEF TrackedFits
<1> QED BY <1>2, <1>5, <1>6, <1>8, <1>9, <1>10 DEF FileTrue, TrackedFits

LEMMA TableOfDelete ==
  ASSUME Shared, NEW t \in Tabs, NEW f \in Files, deleteFile(t, f), UNCHANGED chains
  PROVE  TableInv'
<1>1. PageParts /\ TabsFit /\ FileTrue(f) /\ CountTrue(t)
  BY SharedParts
<1>2. /\ tab[t] = "open" /\ rows[t][f] # <<>> /\ rows[t][f][1] = "shown"
      /\ rows' = [rows EXCEPT ![t][f][1] = "busy"]
      /\ calls' = Call(t, "delete", f) /\ excused' = excused \cup Crossing(t, f)
      /\ UNCHANGED <<attached, ports, inbox, outbox, file, scenario, tab, rowCount, toast, upload>>
  BY DEF deleteFile, workerVars, statusVars
<1>3. PICK c \in Calls : /\ c.tab = t /\ c.kind = "delete" /\ c.file = f /\ c.phase = "sent"
                         /\ calls' = calls \cup {c}
                         /\ Acts(f)' = Acts(f) \cup {c}
                         /\ \A g \in Files : g # f => Acts(g)' = Acts(g)
  BY <1>1, <1>2, NewAct
<1>4. /\ \A x \in Tabs : x # t => rows'[x] = rows[x]
      /\ \A g \in Files : g # f => rows'[t][g] = rows[t][g]
      /\ rows'[t][f] = [rows[t][f] EXCEPT ![1] = "busy"]
  BY <1>1, <1>2 DEF PageParts, Tables
<1>5. /\ rows[t][f] \in Seq(RowStates) /\ 1 \in DOMAIN rows[t][f]
      /\ DOMAIN rows[t][f] = 1..Len(rows[t][f]) /\ Len(rows[t][f]) \in Nat
  <2>1. rows[t][f] \in Seq(RowStates)
    BY <1>1 DEF PageParts, Tables
  <2> QED BY <1>2, <2>1, EmptySeq
<1>6. /\ DOMAIN rows'[t][f] = DOMAIN rows[t][f] /\ rows'[t][f] # <<>>
      /\ rows'[t][f][1] = "busy" /\ \A i \in DOMAIN rows[t][f] : i # 1 => rows'[t][f][i] = rows[t][f][i]
  <2>1. DOMAIN <<>> = {}
    BY EmptySeq
  <2> QED BY <1>4, <1>5, <2>1
<1>7. Shown(t, f) /\ Shown(t, f)' /\ SameRow(t, f)
  <2>1. Shown(t, f) /\ Shown(t, f)' /\ ~Dying(t, f) /\ ~Dying(t, f)'
    BY <1>2, <1>6 DEF Shown, Dying
  <2>2. OneRow(t, f) => OneRow(t, f)'
    BY <1>5, <1>6 DEF OneRow
  <2> QED BY <1>2, <2>1, <2>2 DEF SameRow
<1>8. ASSUME NEW x \in Tabs, NEW g \in Files, ~(x = t /\ g = f)
      PROVE  rows'[x][g] = rows[x][g]
  BY <1>4, <1>8
<1>9. \A x \in Tabs, g \in Files : SameRow(x, g)
  <2> SUFFICES ASSUME NEW x \in Tabs, NEW g \in Files PROVE SameRow(x, g)
    OBVIOUS
  <2> QED BY <1>7, <1>8, RowsKept
<1>10. TabsKept
  BY <1>1, <1>2, <1>3 DEF TabsKept, TabsFit
<1>11. \A g \in Files : QueuesKept(g) /\ (Told(g)' => Told(g))
  BY <1>2, QueuesAlike DEF Told
<1>12. ASSUME NEW g \in Files, g # f PROVE Untouched(g)
  <2>1. FewerActs(g)
    BY <1>2, <1>3, <1>12, ActsKept
  <2>2. ExcusedAsBefore(g)
    BY <1>2, <1>12, CrossingAll DEF ExcusedAsBefore
  <2>3. \A x \in Tabs : rows'[x][g] = rows[x][g]
    BY <1>8, <1>12
  <2> QED BY <1>2, <1>11, <2>1, <2>2, <2>3, NotConcerned DEF Alive
<1>13. FileTrue(f)'
  <2>1. file[f] # "none"
    BY <1>1, <1>2 DEF FileTrue, Blank
  <2>2. CASE Crossing(t, f) = {}
    <3>1. /\ <<t, f>> \notin excused /\ Tracked(f) /\ Live(f)
      BY <1>1, <1>2, <1>7, <2>2, Uncrossed DEF Alive
    <3>2. excused' = excused
      BY <1>2, <2>2
    <3>3. \A x \in Tabs : toast[x] # f
      BY <1>1, <3>1 DEF FileTrue, TrackedFits, ToastFits, Live, Off
    <3>4. ActFits(c, f)'
      BY <1>2, <1>3, <1>7, <3>1, <3>2, <3>3 DEF ActFits, Live
    <3>5. Alive(t)
      BY <1>2 DEF Alive
    <3> QED BY <1>1, <1>2, <1>3, <1>9, <1>11, <2>1, <2>2, <3>2, <3>4, <3>5, ActBegins
  <2>3. CASE Crossing(t, f) # {}
    <3>1. Blank(f)'
      BY <1>2, <2>1 DEF Blank
    <3> QED BY <1>2, <2>3, <3>1, CrossingAll, FileExcused
  <2> QED BY <2>2, <2>3
<1>14. ASSUME NEW x \in Tabs PROVE CountKept(x) \/ CountTrue(x)'
  <2>1. CASE x # t
    BY <1>2, <1>4, <2>1 DEF CountKept, Alive
  <2>2. CASE x = t
    <3> SUFFICES ASSUME Alive(t), \A g \in Files : <<t, g>> \notin excused
                 PROVE  IF rowCount[t] = -1
                        THEN \A g \in Files : \A i \in DOMAIN rows'[t][g] : rows'[t][g][i] # "dying"
                        ELSE rowCount[t] = Cardinality(Cells(t)')
      BY <1>2, <2>2 DEF CountTrue, Alive
    <3>1. Cells(t)' = Cells(t)
      <4>1. \A g \in Files : Shown(t, g)' <=> Shown(t, g)
        BY <1>7, <1>8 DEF Shown
      <4> QED BY <4>1 DEF Cells
    <3>2. CASE rowCount[t] = -1
      <4>1. \A g \in Files : \A i \in DOMAIN rows[t][g] : rows[t][g][i] # "dying"
        BY <1>1, <3>2 DEF CountTrue
      <4>2. \A i \in DOMAIN rows'[t][f] : rows'[t][f][i] # "dying"
        BY <1>6, <4>1
      <4> QED BY <1>8, <3>2, <4>1, <4>2
    <3> QED BY <1>1, <3>1, <3>2 DEF CountTrue
  <2> QED BY <2>1, <2>2
<1> QED BY <1>2, <1>10, <1>12, <1>13, <1>14, AllKept

LEMMA TableOfUndo ==
  ASSUME Shared, NEW t \in Tabs, handleUndo(t), UNCHANGED chains
  PROVE  TableInv'
<1> PICK f \in Files : toast[t] = f
  BY SharedParts DEF handleUndo, PageParts
<1>1. PageParts /\ TabsFit
  BY SharedParts
<1>2. /\ tab[t] = "open" /\ toast[t] = f /\ toast' = [toast EXCEPT ![t] = NoFile]
      /\ calls' = Call(t, "restore", f) /\ excused' = excused \cup Crossing(t, f)
      /\ UNCHANGED <<attached, ports, inbox, outbox, file, scenario, tab, rows, rowCount, upload>>
  BY DEF handleUndo, workerVars, statusVars
<1>3. PICK c \in Calls : /\ c.tab = t /\ c.kind = "restore" /\ c.file = f /\ c.phase = "sent"
                         /\ calls' = calls \cup {c}
                         /\ Acts(f)' = Acts(f) \cup {c}
                         /\ \A g \in Files : g # f => Acts(g)' = Acts(g)
  BY <1>1, <1>2, NewAct
<1>4. \A x \in Tabs : toast'[x] = IF x = t THEN NoFile ELSE toast[x]
  BY <1>1, <1>2 DEF PageParts
<1>5. \A x \in Tabs, g \in Files : SameRow(x, g) /\ (toast'[x] = g => toast[x] = g)
  <2>1. \A x \in Tabs, g \in Files : SameRow(x, g)
    <3> SUFFICES ASSUME NEW x \in Tabs, NEW g \in Files PROVE SameRow(x, g)
      OBVIOUS
    <3>1. rows'[x][g] = rows[x][g]
      BY <1>2
    <3> QED BY <3>1, RowsKept
  <2> QED BY <1>4, <2>1, PageAssumption
<1>6. TabsKept
  BY <1>1, <1>2, <1>3 DEF TabsKept, TabsFit
<1>7. \A g \in Files : QueuesKept(g) /\ (Told(g)' => Told(g))
  BY <1>2, QueuesAlike DEF Told
<1>8. ASSUME NEW g \in Files, g # f PROVE Untouched(g)
  <2>1. FewerActs(g)
    BY <1>2, <1>3, <1>8, ActsKept
  <2>2. ExcusedAsBefore(g)
    BY <1>2, <1>8, CrossingAll DEF ExcusedAsBefore
  <2> QED BY <1>2, <1>5, <1>7, <2>1, <2>2, NotConcerned DEF Alive
<1>9. FileTrue(f)'
  <2>1. FileTrue(f) /\ file[f] # "none"
    BY <1>1, <1>2, SharedParts DEF FileTrue, Blank
  <2>2. CASE Crossing(t, f) = {}
    <3>1. Alive(t)
      BY <1>2 DEF Alive
    <3>2. /\ <<t, f>> \notin excused /\ Tracked(f) /\ (Shown(t, f) => Live(f))
      BY <1>1, <2>1, <2>2, <3>1, Uncrossed
    <3>3. excused' = excused
      BY <1>2, <2>2
    <3>4. Off(f) /\ \A x \in Tabs : toast[x] = f => x = t
      BY <1>1, <1>2, <2>1, <3>2 DEF FileTrue, TrackedFits, ToastFits
    <3>5. \A x \in Tabs : toast'[x] # f
      BY <1>1, <1>4, <3>4, PageAssumption
    <3>6. ~Shown(t, f)
      BY <3>2, <3>4 DEF Live, Off
    <3>7. ~Shown(t, f)' /\ Off(f)'
      BY <1>2, <3>4, <3>6 DEF Shown, Off
    <3>8. ActFits(c, f)'
      BY <1>2, <1>3, <3>2, <3>3, <3>5, <3>7 DEF ActFits
    <3> QED BY <1>1, <1>2, <1>3, <1>5, <1>7, <2>1, <2>2, <3>1, <3>3, <3>8, ActBegins
  <2>3. CASE Crossing(t, f) # {}
    <3>1. Blank(f)'
      BY <1>2, <2>1 DEF Blank
    <3> QED BY <1>1, <1>2, <2>3, <3>1, CrossingAll, FileExcused
  <2> QED BY <2>2, <2>3
<1>10. \A x \in Tabs : CountKept(x)
  BY <1>2 DEF CountKept, Alive
<1> QED BY <1>2, <1>6, <1>8, <1>9, <1>10, AllKept

-----------------------------------------------------------------------------
(* A tab reads a message that is not a notice. *)

LEMMA TailKept ==
  ASSUME WorkerTypeOK, NEW t \in Tabs, Receive(t), NEW f, ~IsAbout(Head(inbox[t]), f)
  PROVE  QueuesKept(f)
<1>1. /\ inbox[t] \in Seq(ToTab) /\ inbox[t] # <<>> /\ outbox' = outbox
      /\ \A x \in Tabs : inbox'[x] = IF x = t THEN Tail(inbox[t]) ELSE inbox[x]
  BY DEF Receive, WorkerTypeOK
<1>2. SaysAs(Tail(inbox[t]), inbox[t], f)
  BY <1>1, TailOther
<1> QED BY <1>1, <1>2, SaysTheSame DEF QueuesKept

LEMMA TableOfStatus ==
  ASSUME Shared, NEW t \in Tabs, tab[t] \in {"open", "leaving"}, Receive(t),
         Head(inbox[t]).type = "message", NEW event \in StatusEvents, parseProgressStatus(t, event),
         UNCHANGED <<file, scenario, toast, upload, chains>>
  PROVE  TableInv'
<1> DEFINE asks == t = Uploader /\ Container(event.file) /\ event.status = StatusFinished
<1> PICK f \in Files : f = event.file
  BY DEF StatusEvents
<1> DEFINE more == IF rows[t][f] # <<>> THEN {<<t, f>>} ELSE {}
<1>1. PageParts /\ TabsFit /\ WorkerTypeOK /\ FileTrue(f) /\ Alive(t)
  BY SharedParts DEF Alive
<1>2. /\ calls' = IF asks THEN Call(t, "info", f) ELSE calls
      /\ excused' = IF ~asks THEN excused ELSE excused \cup Crossing(t, f) \cup more
      /\ UNCHANGED <<attached, ports, outbox, tab, rows, rowCount>>
      /\ \A x \in Tabs : x # t => inbox'[x] = inbox[x]
  BY <1>1 DEF parseProgressStatus, KeepTable, Receive, WorkerTypeOK
<1> HIDE DEF asks
<1>3. \A g \in Files : QueuesKept(g) /\ (Told(g)' => Told(g))
  <2>1. \A g \in Files : ~IsAbout(Head(inbox[t]), g)
    BY DEF IsAbout
  <2> QED BY <1>1, <2>1, TailKept DEF Told
<1>4. \A x \in Tabs, g \in Files : SameRow(x, g)
  <2> SUFFICES ASSUME NEW x \in Tabs, NEW g \in Files PROVE SameRow(x, g)
    OBVIOUS
  <2>1. rows'[x][g] = rows[x][g]
    BY <1>2
  <2> QED BY <2>1, RowsKept
<1>5. \A x \in Tabs : CountKept(x)
  BY <1>2 DEF CountKept, Alive
<1>6. CASE ~asks
  <2>1. TabsKept
    BY <1>1, <1>2, <1>6 DEF TabsKept, TabsFit
  <2>2. ASSUME NEW g \in Files PROVE Untouched(g)
    <3>1. FewerActs(g) /\ ExcusedAsBefore(g)
      BY <1>2, <1>6, ActsKept DEF ExcusedAsBefore, Acts
    <3> QED BY <1>2, <1>3, <3>1, NotConcerned DEF Alive
  <2> QED BY <1>5, <2>1, <2>2, AllKept
<1>7. CASE asks
  <2>1. PICK c \in Calls : /\ c.tab = t /\ c.kind = "info" /\ c.file = f /\ c.phase = "sent"
                           /\ calls' = calls \cup {c}
                           /\ Acts(f)' = Acts(f) \cup {c}
                           /\ \A g \in Files : g # f => Acts(g)' = Acts(g)
    BY <1>1, <1>2, <1>7, NewAct
  <2>2. TabsKept
    BY <1>1, <1>2, <2>1 DEF TabsKept, TabsFit
  <2>3. ASSUME NEW g \in Files, g # f PROVE Untouched(g)
    <3>1. FewerActs(g)
      BY <1>2, <2>1, <2>3, ActsKept
    <3>2. ExcusedAsBefore(g)
      <4>1. \A x \in Tabs : <<x, g>> \notin Crossing(t, f) /\ <<x, g>> \notin more
        BY <1>1, <2>3, CrossingAll
      <4> QED BY <1>2, <4>1 DEF ExcusedAsBefore
    <3> QED BY <1>2, <1>3, <3>1, <3>2, NotConcerned DEF Alive
  <2>4. \A x \in Tabs : rows[x][f] = <<>> => rows'[x][f] = <<>>
    BY <1>2
  <2>5. FileTrue(f)'
    <3>1. CASE Crossing(t, f) = {}
      <4>1. ActFits(c, f)'
        <5>1. <<t, f>> \in excused' \/ rows'[t][f] = <<>>
          BY <1>2, <1>7
        <5> QED BY <2>1, <5>1 DEF ActFits
      <4>2. \A x \in Tabs : <<x, f>> \in excused => <<x, f>> \in excused'
        BY <1>2
      <4> QED BY <1>1, <1>2, <1>3, <1>4, <2>1, <3>1, <4>1, <4>2, ActBegins
    <3>2. CASE Crossing(t, f) # {}
      <4>1. Blank(f)'
        BY <1>1, <1>2, <1>3, <2>1, <2>4, BlankKept DEF FileTrue
      <4>2. \A x \in Tabs : <<x, f>> \in excused'
        BY <1>1, <1>2, <1>7, <3>2, CrossingAll
      <4> QED BY <1>1, <4>1, <4>2, FileExcused
    <3> QED BY <3>1, <3>2
  <2> QED BY <1>5, <2>2, <2>3, <2>5, AllKept
<1> QED BY <1>6, <1>7

(* The user has logged out in another tab. *)
LEMMA TableOfShutdown ==
  ASSUME Shared, NEW t \in Tabs, tab[t] \in {"open", "leaving"}, Receive(t),
         Head(inbox[t]).type = "shutdown", tab' = [tab EXCEPT ![t] = "leaving"],
         UNCHANGED <<file, scenario, rows, rowCount, toast, upload, calls, excused, chains>>
  PROVE  TableInv'
<1>1. PageParts /\ TabsFit /\ WorkerTypeOK
  BY SharedParts
<1>2. /\ \A x \in Tabs : tab'[x] = IF x = t THEN "leaving" ELSE tab[x]
      /\ UNCHANGED <<attached, ports, outbox>>
      /\ \A x \in Tabs : x # t => inbox'[x] = inbox[x]
  BY <1>1 DEF PageParts, Receive, WorkerTypeOK
<1>3. TabsKept
  BY <1>1, <1>2 DEF TabsKept, TabsFit
<1>4. ASSUME NEW g \in Files PROVE Untouched(g)
  <2>1. QueuesKept(g)
    BY <1>1, TailKept DEF IsAbout
  <2>2. FewerActs(g)
    BY <1>1, <1>2 DEF FewerActs, Acts, PageParts, Calls
  <2>3. \A x \in Tabs : Alive(x)' => Alive(x)
    BY <1>2 DEF Alive
  <2> QED BY <2>1, <2>2, <2>3, NotConcerned DEF ExcusedAsBefore, Told
<1>5. \A x \in Tabs : CountKept(x)
  BY <1>2 DEF CountKept, Alive
<1> QED BY <1>3, <1>4, <1>5, AllKept

-----------------------------------------------------------------------------
(* A row is added, or begins to be removed. *)

LEMMA AddedRow ==
  ASSUME rows \in Tables, NEW t \in Tabs, NEW f \in Files, addRow(t, f)
  PROVE  /\ Shown(t, f)' /\ ~Dying(t, f)'
         /\ OneRow(t, f) /\ ~Shown(t, f) => OneRow(t, f)'
         /\ \A x \in Tabs, g \in Files : x # t \/ g # f => rows'[x][g] = rows[x][g]
         /\ \A x \in Tabs : x # t => rows'[x] = rows[x]
<1> DEFINE s == rows[t][f]
           r == <<"shown">> \o s
<1>1. s \in Seq(RowStates) /\ <<"shown">> \in Seq(RowStates)
  BY DEF Tables, RowStates
<1>2. /\ \A x \in Tabs : x # t => rows'[x] = rows[x]
      /\ \A g \in Files : g # f => rows'[t][g] = rows[t][g]
      /\ rows'[t][f] = r
  BY DEF addRow, Tables
<1>3. r # <<>> /\ r[1] = "shown" /\ \A i \in DOMAIN r : i > 1 => i - 1 \in DOMAIN s /\ r[i] = s[i - 1]
  BY <1>1
<1> HIDE DEF s, r
<1>4. Shown(t, f)' /\ ~Dying(t, f)'
  BY <1>2, <1>3 DEF Shown, Dying
<1>5. ASSUME OneRow(t, f), ~Shown(t, f) PROVE OneRow(t, f)'
  <2>1. \A i \in DOMAIN s : s[i] = "dying"
    <3>1. \A i \in DOMAIN s : i > 1 => s[i] = "dying"
      BY <1>5 DEF OneRow, s
    <3>2. s # <<>> => s[1] = "dying"
      BY <1>5 DEF Shown, s
    <3>3. \A i \in DOMAIN s : s # <<>> /\ (i > 1 \/ i = 1)
      BY <1>1
    <3> QED BY <3>1, <3>2, <3>3
  <2> QED BY <1>2, <1>3, <2>1 DEF OneRow
<1> QED BY <1>2, <1>4, <1>5

LEMMA RemovedRow ==
  ASSUME rows \in Tables, NEW t \in Tabs, NEW f \in Files, removeRow(t, f), rows[t][f] # <<>>
  PROVE  /\ ~Shown(t, f)' /\ rows'[t][f] # <<>>
         /\ OneRow(t, f) => OneRow(t, f)'
         /\ \A x \in Tabs, g \in Files : x # t \/ g # f => rows'[x][g] = rows[x][g]
         /\ \A x \in Tabs : x # t => rows'[x] = rows[x]
<1> DEFINE s == rows[t][f]
           r == [s EXCEPT ![1] = "dying"]
<1>1. s \in Seq(RowStates) /\ s # <<>>
  BY DEF Tables
<1>2. /\ \A x \in Tabs : x # t => rows'[x] = rows[x]
      /\ \A g \in Files : g # f => rows'[t][g] = rows[t][g]
      /\ rows'[t][f] = r
  BY DEF removeRow, Tables
<1>3. /\ DOMAIN r = DOMAIN s /\ 1 \in DOMAIN s /\ r[1] = "dying"
      /\ \A i \in DOMAIN s : i > 1 => r[i] = s[i]
  <2>1. DOMAIN s = 1..Len(s) /\ Len(s) \in Nat /\ 1 \in DOMAIN s
    BY <1>1, EmptySeq
  <2> QED BY <2>1
<1>4. r # <<>>
  <2>1. DOMAIN <<>> = {}
    BY EmptySeq
  <2> QED BY <1>3, <2>1
<1> HIDE DEF s, r
<1>5. ~Shown(t, f)'
  BY <1>2, <1>3 DEF Shown
<1>6. OneRow(t, f) => OneRow(t, f)'
  BY <1>2, <1>3 DEF OneRow, s
<1> QED BY <1>2, <1>4, <1>5, <1>6

LEMMA CellsFinite == \A t : IsFiniteSet(Cells(t)) /\ Cardinality(Cells(t)) \in Nat
<1> SUFFICES ASSUME NEW t PROVE IsFiniteSet(Cells(t)) /\ Cardinality(Cells(t)) \in Nat
  OBVIOUS
<1>1. IsFiniteSet(Files \X {1})
  <2>1. IsFiniteSet({1})
    BY FS_Singleton
  <2> QED BY <2>1, FilesAssumption, FS_Product
<1>2. Cells(t) \subseteq Files \X {1}
  BY DEF Cells
<1>3. IsFiniteSet(Cells(t))
  BY <1>1, <1>2, FS_Subset
<1> QED BY <1>3, FS_CardinalityType

(* What the count of rows begins with is the number of those that are shown. *)
LEMMA KnownCells ==
  ASSUME PageParts, NEW t \in Tabs, CountTrue(t), Alive(t),
         \A g \in Files : <<t, g>> \notin excused /\ OneRow(t, g)
  PROVE  Known_(t) = Cardinality(Cells(t))
<1>1. CASE rowCount[t] = -1
  <2>1. \A g \in Files : \A i \in DOMAIN rows[t][g] : rows[t][g][i] # "dying"
    BY <1>1 DEF CountTrue
  <2> QED BY <1>1, <2>1, CountShown DEF Known_, PageParts
<1>2. CASE rowCount[t] # -1
  BY <1>2 DEF CountTrue, Known_
<1> QED BY <1>1, <1>2

LEMMA CountAdded ==
  ASSUME PageParts, NEW t \in Tabs, NEW f \in Files, CountTrue(t), Alive(t), addRow(t, f),
         \A g \in Files : FileTrue(g),
         \A g \in Files : <<t, g>> \in excused => <<t, g>> \in excused',
         ~Shown(t, f) \/ <<t, f>> \in excused'
  PROVE  CountTrue(t)'
<1> SUFFICES ASSUME \A g \in Files : <<t, g>> \notin excused'
             PROVE  rowCount'[t] # -1 /\ rowCount'[t] = Cardinality(Cells(t)')
  BY DEF CountTrue
<1>1. \A g \in Files : <<t, g>> \notin excused /\ OneRow(t, g)
  BY DEF FileTrue, TabFits
<1>2. rowCount'[t] = Cardinality(Cells(t)) + 1
  BY <1>1, KnownCells DEF addRow, PageParts
<1>3. \A g \in Files : Shown(t, g)' <=> Shown(t, g) \/ g = f
  BY AddedRow DEF PageParts, Shown
<1>4. Cells(t)' = Cells(t) \cup {<<f, 1>>} /\ <<f, 1>> \notin Cells(t)
  BY <1>3 DEF Cells
<1>5. Cardinality(Cells(t)') = Cardinality(Cells(t)) + 1
  BY <1>4, CellsFinite, FS_AddElement
<1> QED BY <1>2, <1>5, CellsFinite

LEMMA CountRemoved ==
  ASSUME PageParts, NEW t \in Tabs, NEW f \in Files, CountTrue(t), Alive(t), removeRow(t, f),
         \A g \in Files : FileTrue(g),
         \A g \in Files : <<t, g>> \in excused => <<t, g>> \in excused',
         Shown(t, f) \/ <<t, f>> \in excused'
  PROVE  CountTrue(t)'
<1> SUFFICES ASSUME \A g \in Files : <<t, g>> \notin excused'
             PROVE  rowCount'[t] # -1 /\ rowCount'[t] = Cardinality(Cells(t)')
  BY DEF CountTrue
<1>1. \A g \in Files : <<t, g>> \notin excused /\ OneRow(t, g)
  BY DEF FileTrue, TabFits
<1>2. rowCount'[t] = Cardinality(Cells(t)) - 1
  BY <1>1, KnownCells DEF removeRow, PageParts
<1>3. \A g \in Files : Shown(t, g)' <=> Shown(t, g) /\ g # f
  BY RemovedRow DEF PageParts, Shown
<1>4. Cells(t)' = Cells(t) \ {<<f, 1>>} /\ <<f, 1>> \in Cells(t)
  BY <1>3 DEF Cells
<1>5. Cardinality(Cells(t)') = Cardinality(Cells(t)) - 1 /\ Cardinality(Cells(t)') \in Nat
  <2>1. IsFiniteSet(Cells(t)') /\ Cardinality(Cells(t)') = Cardinality(Cells(t)) - 1
    <3>1. IsFiniteSet(Cells(t))
      BY CellsFinite
    <3>2. /\ IsFiniteSet(Cells(t) \ {<<f, 1>>})
          /\ Cardinality(Cells(t) \ {<<f, 1>>}) =
                IF <<f, 1>> \in Cells(t) THEN Cardinality(Cells(t)) - 1 ELSE Cardinality(Cells(t))
      BY <3>1, FS_RemoveElement
    <3> QED BY <1>4, <3>2
  <2> QED BY <2>1, FS_CardinalityType
<1> QED BY <1>2, <1>5, CellsFinite

-----------------------------------------------------------------------------
(* A tab reads a notice. *)

(* What becomes of the row of f *)
LEMMA NoticeRow ==
  ASSUME PageParts, NEW t \in Tabs, NEW f \in Files, NEW n, n.file = f, NoticeReceived(t, n),
         n.type \in {"fileAdded", "fileDeleted"}, OneRow(t, f), <<t, f>> \notin excused',
         n.type = "fileDeleted" => ~Dying(t, f)
  PROVE  /\ OneRow(t, f)'
         /\ n.type = "fileAdded" => Shown(t, f)' /\ ~Dying(t, f)'
         /\ n.type = "fileDeleted" => ~Shown(t, f)'
<1>1. CASE n.type = "fileAdded" /\ rows[t][f] = <<>>
  <2>1. addRow(t, f) /\ ~Shown(t, f)
    BY <1>1 DEF NoticeReceived, Shown
  <2> QED BY <1>1, <2>1, AddedRow DEF PageParts
<1>2. CASE n.type = "fileAdded" /\ rows[t][f] # <<>>
  <2>1. KeepTable /\ Visible(t, f) # {}
    BY <1>2 DEF NoticeReceived
  <2>2. PICK i \in DOMAIN rows[t][f] : rows[t][f][i] # "dying"
    BY <2>1 DEF Visible
  <2>3. rows[t][f] \in Seq(RowStates)
    BY DEF PageParts, Tables
  <2>4. i = 1
    BY <2>2, <2>3 DEF OneRow
  <2>5. Shown(t, f) /\ ~Dying(t, f)
    BY <1>2, <2>2, <2>4 DEF Shown, Dying
  <2> QED BY <1>2, <2>1, <2>5 DEF KeepTable, OneRow, Shown, Dying
<1>3. CASE n.type = "fileDeleted" /\ rows[t][f] = <<>>
  <2>1. KeepTable
    BY <1>3 DEF NoticeReceived
  <2> QED BY <1>3, <2>1 DEF KeepTable, OneRow, Shown
<1>4. CASE n.type = "fileDeleted" /\ rows[t][f] # <<>>
  <2>1. removeRow(t, f)
    BY <1>4 DEF NoticeReceived
  <2> QED BY <1>4, <2>1, RemovedRow DEF PageParts
<1> QED BY <1>1, <1>2, <1>3, <1>4

LEMMA OtherRows ==
  ASSUME PageParts, NEW t \in Tabs, NEW f \in Files, NEW n, n.file = f, NoticeReceived(t, n)
  PROVE  /\ \A x \in Tabs, g \in Files : x # t \/ g # f => rows'[x][g] = rows[x][g]
         /\ \A x \in Tabs : x # t => rows'[x] = rows[x]
         /\ \A x \in Tabs : x # t => rowCount'[x] = rowCount[x]
         /\ \A x \in Tabs, g \in Files :
               /\ <<x, g>> \in excused => <<x, g>> \in excused'
               /\ x # t \/ g # f => (<<x, g>> \in excused' <=> <<x, g>> \in excused)
<1>1. addRow(t, f) \/ (removeRow(t, f) /\ rows[t][f] # <<>>) \/ KeepTable
  BY DEF NoticeReceived
<1>2. /\ \A x \in Tabs, g \in Files : x # t \/ g # f => rows'[x][g] = rows[x][g]
      /\ \A x \in Tabs : x # t => rows'[x] = rows[x]
  BY <1>1, AddedRow, RemovedRow DEF PageParts, KeepTable
<1>3. \A x \in Tabs : x # t => rowCount'[x] = rowCount[x]
  BY <1>1 DEF addRow, removeRow, KeepTable, PageParts
<1>4. excused' = excused \/ excused' = excused \cup {<<t, f>>}
  BY DEF NoticeReceived
<1> QED BY <1>2, <1>3, <1>4

LEMMA TableOfNotice ==
  ASSUME Shared, NEW t \in Tabs, tab[t] \in {"open", "leaving"}, Receive(t),
         Head(inbox[t]).type = "notice", NoticeReceived(t, Head(inbox[t]).notice),
         UNCHANGED <<file, scenario, toast, upload, chains>>
  PROVE  TableInv'
<1>1. PageParts /\ TabsFit /\ WorkerTypeOK /\ (\A g \in Files : FileTrue(g)) /\ CountTrue(t)
  BY SharedParts
<1>2. inbox[t] \in Seq(ToTab) /\ inbox[t] # <<>> /\ Alive(t)
  BY <1>1 DEF WorkerTypeOK, Receive, Alive
<1>3. PICK m : m = Head(inbox[t])
  OBVIOUS
<1>4. m \in ToTab /\ m.type = "notice"
  BY <1>2, <1>3, HeadAndTail
<1>5. PICK n : n = m.notice
  OBVIOUS
<1>6. n.file \in Files /\ n.type \in {"fileAdded", "fileDeleted"} /\ NoticeReceived(t, n)
  BY <1>3, <1>4, <1>5, MessageKinds, PageAssumption
<1>7. PICK f \in Files : f = n.file
  BY <1>6
<1>8. IsAbout(m, f) /\ \A g : g # f => ~IsAbout(m, g)
  BY <1>4, <1>5, <1>7 DEF IsAbout
<1>9. /\ UNCHANGED <<attached, ports, outbox, calls, tab>>
      /\ inbox'[t] = Tail(inbox[t]) /\ \A x \in Tabs : x # t => inbox'[x] = inbox[x]
  BY <1>1, <1>6 DEF Receive, WorkerTypeOK, NoticeReceived
<1>10. /\ \A x \in Tabs, g \in Files : x # t \/ g # f => rows'[x][g] = rows[x][g]
       /\ \A x \in Tabs : x # t => rows'[x] = rows[x] /\ rowCount'[x] = rowCount[x]
       /\ \A x \in Tabs, g \in Files :
             /\ <<x, g>> \in excused => <<x, g>> \in excused'
             /\ x # t \/ g # f => (<<x, g>> \in excused' <=> <<x, g>> \in excused)
  BY <1>1, <1>6, <1>7, OtherRows
<1>11. /\ ~Silent(inbox[t], f)
       /\ \A type : LastIs(inbox[t], f, type) =>
            IF Silent(inbox'[t], f) THEN n.type = type ELSE LastIs(inbox'[t], f, type)
       /\ n.type = "fileDeleted" => DeletesFirst(inbox[t], f)
       /\ Alternates(inbox[t], f) => /\ Alternates(inbox'[t], f)
                                     /\ n.type = "fileDeleted" => ~DeletesFirst(inbox'[t], f)
  BY <1>2, <1>3, <1>5, <1>8, <1>9, TailAbout
<1>12. TabsKept
  BY <1>1, <1>9, <1>10 DEF TabsKept, TabsFit
<1>13. ASSUME NEW g \in Files, g # f PROVE Untouched(g)
  <2>1. QueuesKept(g)
    BY <1>1, <1>3, <1>8, <1>13, TailKept
  <2>2. FewerActs(g) /\ ExcusedAsBefore(g) /\ (Told(g)' => Told(g))
    BY <1>9, <1>10, <1>13, ActsKept DEF Acts, ExcusedAsBefore, Told
  <2>3. /\ file'[g] = file[g]
        /\ \A x \in Tabs : /\ rows'[x][g] = rows[x][g] /\ (toast'[x] = g => toast[x] = g)
                           /\ Alive(x)' => Alive(x)
    BY <1>9, <1>10, <1>13 DEF Alive
  <2> QED BY <2>1, <2>2, <2>3, NotConcerned
<1>14. file[f] # "none"
  BY <1>1, <1>11 DEF FileTrue, Blank
<1>15. Announced(f)' <=> Announced(f)
  BY <1>9 DEF Announced, Done, Acts, Live
<1>16. Word(f)' = Word(f)
  BY <1>15 DEF Word
<1>17. ASSUME NEW x \in Tabs, x # t PROVE TabFits(x, f)'
  <2>1. rows'[x][f] = rows[x][f] /\ SaysAs(inbox'[x], inbox[x], f)
    BY <1>9, <1>10, <1>17, SaysTheSame
  <2>2. SameRow(x, f)
    BY <2>1, RowsKept
  <2>3. SameTruth(f)
    BY <1>9, <1>15 DEF SameTruth, Live, Told
  <2>4. TabFits(x, f) /\ (Alive(x)' => Alive(x)) /\ (<<x, f>> \in excused => <<x, f>> \in excused')
    BY <1>1, <1>9, <1>10 DEF FileTrue, Alive
  <2>5. \A y \in Tabs : SaysAs(outbox'[y], outbox[y], f)
    BY <1>9, SaysTheSame
  <2> QED BY <2>1, <2>2, <2>3, <2>4, <2>5, TabKept
<1>18. TabFits(t, f)'
  <2> SUFFICES ASSUME <<t, f>> \notin excused' PROVE OneRow(t, f)' /\ NoticesFit(t, f)' /\ RowFits(t, f)'
    BY DEF TabFits
  <2>1. OneRow(t, f) /\ NoticesFit(t, f) /\ RowFits(t, f)
    BY <1>1, <1>2, <1>10 DEF FileTrue, TabFits
  <2>2. /\ OneRow(t, f)'
        /\ n.type = "fileAdded" => Shown(t, f)' /\ ~Dying(t, f)'
        /\ n.type = "fileDeleted" => ~Shown(t, f)'
    BY <1>1, <1>6, <1>7, <1>11, <2>1, NoticeRow DEF NoticesFit
  <2>3. /\ Alternates(inbox'[t], f)
        /\ DeletesFirst(inbox'[t], f) => ~Dying(t, f)'
    BY <1>6, <1>11, <2>1, <2>2 DEF NoticesFit
  <2>4. ASSUME NEW y \in Tabs, y # t, DeletesFirst(outbox'[y], f)
        PROVE  LastIs(inbox'[t], f, "fileAdded") \/ (Silent(inbox'[t], f) /\ ~Dying(t, f)')
    <3>1. LastIs(inbox[t], f, "fileAdded")
      BY <1>9, <1>11, <2>1, <2>4 DEF NoticesFit
    <3> QED BY <1>11, <2>2, <3>1
  <2>5. NoticesFit(t, f)'
    BY <2>3, <2>4 DEF NoticesFit
  <2>6. RowFits(t, f)'
    <3> SUFFICES ASSUME \A y \in Tabs : y # t => Silent(outbox'[y], f)
                 PROVE  /\ Silent(inbox'[t], f) \/ LastIs(inbox'[t], f, Word(f)')
                        /\ Silent(inbox'[t], f) =>
                              /\ Shown(t, f)' => Live(f)' \/ Announced(f)'
                              /\ Live(f)' /\ Announced(f)' /\ ~Shown(t, f)' => ~Told(f)' /\ rows'[t][f] = <<>>
                              /\ Dying(t, f)' => ~Announced(f)'
      BY DEF RowFits
    <3>1. LastIs(inbox[t], f, Word(f))
      BY <1>9, <1>11, <2>1 DEF RowFits
    <3>2. IF Silent(inbox'[t], f) THEN n.type = Word(f) ELSE LastIs(inbox'[t], f, Word(f))
      BY <1>11, <3>1
    <3>3. CASE Silent(inbox'[t], f)
      <4>1. n.type = Word(f)
        BY <3>2, <3>3
      <4>2. CASE Announced(f)
        BY <1>15, <2>2, <3>3, <4>1, <4>2 DEF Word
      <4>3. CASE ~Announced(f)
        BY <1>15, <2>2, <3>3, <4>1, <4>3 DEF Word
      <4> QED BY <3>3, <4>2, <4>3
    <3>4. CASE ~Silent(inbox'[t], f)
      BY <1>16, <3>2, <3>4
    <3> QED BY <3>3, <3>4
  <2> QED BY <2>2, <2>5, <2>6
<1>19. ASSUME Tracked(f)' PROVE TrackedFits(f)'
  <2>1. TrackedFits(f)
    BY <1>1, <1>10, <1>19 DEF FileTrue, Tracked
  <2>2. Acts(f)' = Acts(f) /\ \A c \in Acts(f) : c.tab \in Tabs /\ c.tab # t
    BY <1>1, <1>9, <1>11, <2>1 DEF Acts, TrackedFits, OneActor, PageParts, Calls
  <2>3. Silent(outbox[t], f)
    BY <1>11, <2>1 DEF TrackedFits, OneActor
  <2>4. OneActor(f)'
    <3>1. \A c, d \in Acts(f)' : c = d
      BY <2>1, <2>2 DEF TrackedFits, OneActor
    <3>2. \A c \in Acts(f)' : /\ Silent(inbox'[c.tab], f)
                              /\ \A y \in Tabs : y # c.tab => Silent(outbox'[y], f)
      BY <1>9, <2>1, <2>2 DEF TrackedFits, OneActor
    <3>3. \A y, z \in Tabs : Silent(outbox'[y], f) \/ Silent(outbox'[z], f) \/ y = z
      BY <1>9, <2>1 DEF TrackedFits, OneActor
    <3>4. \A y \in Tabs : Silent(outbox'[y], f) \/ Silent(inbox'[y], f)
      BY <1>9, <2>1, <2>3 DEF TrackedFits, OneActor
    <3> QED BY <3>1, <3>2, <3>3, <3>4 DEF OneActor
  <2>5. ASSUME NEW c \in Acts(f)' PROVE ActFits(c, f)'
    <3>1. ActFits(c, f) /\ c.tab \in Tabs /\ c.tab # t
      BY <2>1, <2>2, <2>5 DEF TrackedFits
    <3>2. /\ rows'[c.tab][f] = rows[c.tab][f] /\ (<<c.tab, f>> \in excused' <=> <<c.tab, f>> \in excused)
      BY <1>10, <3>1
    <3> QED BY <1>9, <3>1, <3>2 DEF ActFits, Shown, Live, Off
  <2>6. ToastFits(f)'
    BY <2>1 DEF TrackedFits, ToastFits, Off
  <2>7. PostsFit(f)'
    BY <1>9, <1>16, <2>1 DEF TrackedFits, PostsFit
  <2> QED BY <2>4, <2>5, <2>6, <2>7 DEF TrackedFits
<1>20. FileTrue(f)'
  BY <1>14, <1>17, <1>18, <1>19 DEF FileTrue, Blank
<1>21. ASSUME NEW x \in Tabs PROVE CountKept(x) \/ CountTrue(x)'
  <2>1. CASE x # t
    BY <1>9, <1>10, <2>1 DEF CountKept, Alive
  <2>2. CASE x = t /\ addRow(t, f) /\ rows[t][f] = <<>>
    <3>1. ~Shown(t, f)
      BY <2>2 DEF Shown
    <3> QED BY <1>1, <1>2, <1>10, <2>2, <3>1, CountAdded
  <2>3. CASE x = t /\ removeRow(t, f) /\ n.type = "fileDeleted" /\ rows[t][f] # <<>>
    <3>1. Shown(t, f) \/ <<t, f>> \in excused'
      <4> SUFFICES ASSUME <<t, f>> \notin excused' PROVE Shown(t, f)
        OBVIOUS
      <4>1. NoticesFit(t, f)
        BY <1>1, <1>2, <1>10 DEF FileTrue, TabFits
      <4>2. ~Dying(t, f)
        BY <1>11, <2>3, <4>1 DEF NoticesFit
      <4> QED BY <2>3, <4>2 DEF Shown, Dying
    <3> QED BY <1>1, <1>2, <1>10, <2>3, <3>1, CountRemoved
  <2>4. CASE x = t /\ KeepTable
    BY <1>9, <1>10, <2>4 DEF CountKept, KeepTable, Alive
  <2>5. \/ addRow(t, f) /\ rows[t][f] = <<>>
        \/ removeRow(t, f) /\ n.type = "fileDeleted" /\ rows[t][f] # <<>>
        \/ KeepTable
    BY <1>6, <1>7 DEF NoticeReceived
  <2> QED BY <2>1, <2>2, <2>3, <2>4, <2>5
<1> QED BY <1>12, <1>13, <1>20, <1>21, AllKept

LEMMA TableOfMessage ==
  ASSUME Shared, NEW t \in Tabs, TabReceives(t), UNCHANGED e2eVars
  PROVE  TableInv'
<1>1. /\ tab[t] \in {"open", "leaving"} /\ Receive(t)
      /\ UNCHANGED <<file, scenario, toast, upload, chains>>
  BY DEF TabReceives, statusVars, e2eVars
<1>2. PICK m : m = Head(inbox[t])
  OBVIOUS
<1>3. m \in ToTab
  <2>1. inbox[t] \in Seq(ToTab) /\ inbox[t] # <<>>
    BY <1>1, SharedParts DEF WorkerTypeOK, Receive
  <2> QED BY <1>2, <2>1, HeadAndTail
<1>4. \/ m.type = "message" /\ parseProgressStatus(t, m.data)
      \/ m.type = "notice" /\ NoticeReceived(t, m.notice)
      \/ /\ m.type = "shutdown" /\ tab' = [tab EXCEPT ![t] = "leaving"]
         /\ KeepTable /\ UNCHANGED <<calls, excused>>
  BY <1>2 DEF TabReceives
<1>5. CASE m.type = "message" /\ parseProgressStatus(t, m.data)
  BY <1>1, <1>2, <1>3, <1>5, MessageKinds, TableOfStatus
<1>6. CASE m.type = "notice" /\ NoticeReceived(t, m.notice)
  BY <1>1, <1>2, <1>6, TableOfNotice
<1>7. CASE /\ m.type = "shutdown" /\ tab' = [tab EXCEPT ![t] = "leaving"]
           /\ KeepTable /\ UNCHANGED <<calls, excused>>
  BY <1>1, <1>2, <1>7, TableOfShutdown DEF KeepTable
<1> QED BY <1>4, <1>5, <1>6, <1>7

-----------------------------------------------------------------------------
(* A request of a tab is handled, or its connection fails. *)

LEMMA ActMoves ==
  ASSUME PageParts, NEW f \in Files, FileTrue(f), NEW c \in Acts(f), NEW d, d.tab = c.tab,
         Acts(f)' \subseteq (Acts(f) \ {c}) \cup {d},
         UNCHANGED <<tab, inbox, outbox, toast, rows, excused>>, Told(f)' => Told(f), Blank(f)',
         Tracked(f) => SameTruth(f) /\ ToastFits(f)' /\ (d \in Acts(f)' => ActFits(d, f)')
  PROVE  FileTrue(f)'
<1>1. CASE ~Tracked(f)
  BY <1>1, FileExcused DEF Tracked
<1>2. CASE Tracked(f)
  <2>1. TrackedFits(f) /\ SameTruth(f)
    BY <1>2 DEF FileTrue
  <2>2. Acts(f)' \subseteq {d} /\ c.tab \in Tabs
    BY <2>1 DEF TrackedFits, OneActor, Acts, PageParts, Calls
  <2>3. OneActor(f)'
    <3>1. Silent(inbox[c.tab], f) /\ \A y \in Tabs : y # c.tab => Silent(outbox[y], f)
      BY <2>1 DEF TrackedFits, OneActor
    <3>2. /\ \A y, z \in Tabs : Silent(outbox[y], f) \/ Silent(outbox[z], f) \/ y = z
          /\ \A y \in Tabs : Silent(outbox[y], f) \/ Silent(inbox[y], f)
      BY <2>1 DEF TrackedFits, OneActor
    <3> QED BY <2>2, <3>1, <3>2 DEF OneActor
  <2>4. PostsFit(f)'
    BY <2>1, PostsKept, QueuesAlike DEF TrackedFits, SameTruth
  <2>5. ASSUME NEW x \in Tabs PROVE TabFits(x, f)'
    <3>1. TabFits(x, f) /\ SameRow(x, f) /\ (Alive(x)' => Alive(x))
      BY RowsKept DEF FileTrue, Alive
    <3>2. /\ SaysAs(inbox'[x], inbox[x], f) /\ \A y \in Tabs : SaysAs(outbox'[y], outbox[y], f)
          /\ <<x, f>> \in excused => <<x, f>> \in excused'
      BY SaysTheSame
    <3> QED BY <2>1, <3>1, <3>2, TabKept
  <2> QED BY <1>2, <2>2, <2>3, <2>4, <2>5 DEF FileTrue, TrackedFits
<1> QED BY <1>1, <1>2

(* What is true of the only request *)
LEMMA OnlyAct ==
  ASSUME NEW f \in Files, FileTrue(f), Tracked(f), NEW c \in Acts(f)
  PROVE  /\ ActFits(c, f) /\ Acts(f) = {c}
         /\ \A kind : Done(f, kind) <=> c.kind = kind /\ c.phase = "done"
         /\ c.kind \in {"delete", "restore"} => Alive(c.tab)
<1>1. TrackedFits(f)
  BY DEF FileTrue
<1>2. ActFits(c, f) /\ Acts(f) = {c}
  BY <1>1 DEF TrackedFits, OneActor
<1>3. \A kind : Done(f, kind) <=> c.kind = kind /\ c.phase = "done"
  BY <1>2 DEF Done
<1>4. c.kind \in {"delete", "restore"} => Alive(c.tab)
  BY <1>2 DEF ActFits, Alive
<1> QED BY <1>2, <1>3, <1>4

(* A request is refused before it was handled. *)
LEMMA FileOfRefusal ==
  ASSUME PageParts, NEW f \in Files, FileTrue(f), NEW c \in Acts(f), NEW d,
         d.tab = c.tab, d.kind = c.kind, d.phase = "refused",
         Acts(f)' \subseteq (Acts(f) \ {c}) \cup {d}, c.kind = "info" \/ c.phase # "done",
         UNCHANGED <<file, tab, inbox, outbox, toast, rows, excused>>, Told(f)' => Told(f)
  PROVE  FileTrue(f)'
<1>1. Blank(f)'
  BY DEF FileTrue, Blank
<1>2. ASSUME Tracked(f) PROVE SameTruth(f) /\ ToastFits(f)' /\ ActFits(d, f)'
  <2>1. /\ ActFits(c, f) /\ Acts(f) = {c}
        /\ \A kind : Done(f, kind) <=> c.kind = kind /\ c.phase = "done"
    BY <1>2, OnlyAct
  <2>2. Acts(f)' \subseteq {d}
    BY <2>1
  <2>3. \A kind \in {"delete", "restore"} : ~Done(f, kind) /\ ~Done(f, kind)'
    BY <2>1, <2>2 DEF Done
  <2>4. SameTruth(f)
    BY <2>3 DEF SameTruth, Announced, Live
  <2>5. ToastFits(f)'
    BY <1>2 DEF FileTrue, TrackedFits, ToastFits, Off
  <2>6. ActFits(d, f)'
    BY <2>1 DEF ActFits, Shown
  <2> QED BY <2>4, <2>5, <2>6
<1> QED BY <1>1, <1>2, ActMoves

LEMMA FileOfInfo ==
  ASSUME PageParts, NEW f \in Files, FileTrue(f), NEW c \in Acts(f), NEW d,
         d.tab = c.tab, d.kind = c.kind, c.kind = "info", file[f] = "live",
         Acts(f)' \subseteq (Acts(f) \ {c}) \cup {d},
         UNCHANGED <<file, tab, inbox, outbox, toast, rows, excused>>, Told(f)' => Told(f)
  PROVE  FileTrue(f)'
<1>1. Blank(f)'
  BY DEF Blank
<1>2. ASSUME Tracked(f) PROVE SameTruth(f) /\ ToastFits(f)' /\ ActFits(d, f)'
  <2>1. /\ ActFits(c, f) /\ Acts(f) = {c}
        /\ \A kind : Done(f, kind) <=> c.kind = kind /\ c.phase = "done"
    BY <1>2, OnlyAct
  <2>2. Acts(f)' \subseteq {d}
    BY <2>1
  <2>3. \A kind \in {"delete", "restore"} : ~Done(f, kind) /\ ~Done(f, kind)'
    BY <2>1, <2>2 DEF Done
  <2>4. SameTruth(f)
    BY <2>3 DEF SameTruth, Announced, Live
  <2>5. ToastFits(f)'
    BY <1>2 DEF FileTrue, TrackedFits, ToastFits, Off
  <2>6. ActFits(d, f)'
    BY <2>1 DEF ActFits, Live
  <2> QED BY <2>4, <2>5, <2>6
<1> QED BY <1>1, <1>2, ActMoves

(* The file is deleted, and the page that has asked for it is yet to say so. *)
LEMMA FileOfDelete ==
  ASSUME PageParts, NEW f \in Files, FileTrue(f), NEW c \in Acts(f), NEW d,
         c.kind = "delete", c.phase = "sent", d.tab = c.tab, d.kind = c.kind, d.phase = "done",
         Acts(f)' = (Acts(f) \ {c}) \cup (IF Alive(c.tab) THEN {d} ELSE {}),
         file'[f] = IF file[f] = "live" THEN "pending" ELSE file[f],
         UNCHANGED <<tab, inbox, outbox, toast, rows, excused>>, Told(f)' => Told(f)
  PROVE  FileTrue(f)'
<1>1. file[f] # "none"
  BY DEF FileTrue, Blank
<1>2. Blank(f)'
  BY <1>1 DEF Blank
<1>3. ASSUME Tracked(f) PROVE SameTruth(f) /\ ToastFits(f)' /\ ActFits(d, f)'
  <2>1. /\ ActFits(c, f) /\ Acts(f) = {c} /\ Alive(c.tab)
        /\ \A kind : Done(f, kind) <=> c.kind = kind /\ c.phase = "done"
    BY <1>3, OnlyAct
  <2>2. Acts(f)' = {d}
    BY <2>1
  <2>3. Done(f, "delete")' /\ ~Done(f, "delete") /\ ~Done(f, "restore")
    BY <2>1, <2>2 DEF Done
  <2>4. Live(f) /\ ~Live(f)' /\ Off(f)'
    BY <2>1 DEF ActFits, Live, Off
  <2>5. SameTruth(f)
    BY <2>3, <2>4 DEF SameTruth, Announced
  <2>6. ToastFits(f)'
    BY <2>1 DEF ActFits, ToastFits
  <2>7. ActFits(d, f)'
    BY <2>1, <2>4 DEF ActFits, Shown
  <2> QED BY <2>5, <2>6, <2>7
<1> QED BY <1>2, <1>3, ActMoves

LEMMA FileOfRestore ==
  ASSUME PageParts, NEW f \in Files, FileTrue(f), NEW c \in Acts(f), NEW d,
         c.kind = "restore", c.phase = "sent", d.tab = c.tab, d.kind = c.kind, d.phase = "done",
         Acts(f)' = (Acts(f) \ {c}) \cup (IF Alive(c.tab) THEN {d} ELSE {}), file[f] \notin {"expired", "gone"},
         file'[f] = IF file[f] = "pending" THEN "live" ELSE file[f],
         UNCHANGED <<tab, inbox, outbox, toast, rows, excused>>, Told(f)' => Told(f)
  PROVE  FileTrue(f)'
<1>1. file[f] # "none"
  BY DEF FileTrue, Blank
<1>2. Blank(f)'
  BY <1>1 DEF Blank
<1>3. ASSUME Tracked(f) PROVE SameTruth(f) /\ ToastFits(f)' /\ ActFits(d, f)'
  <2>1. /\ ActFits(c, f) /\ Acts(f) = {c} /\ Alive(c.tab)
        /\ \A kind : Done(f, kind) <=> c.kind = kind /\ c.phase = "done"
    BY <1>3, OnlyAct
  <2>2. Acts(f)' = {d}
    BY <2>1
  <2>3. Done(f, "restore")' /\ ~Done(f, "delete") /\ ~Done(f, "delete")'
    BY <2>1, <2>2 DEF Done
  <2>4. file[f] = "pending" /\ ~Live(f) /\ Live(f)'
    BY <2>1 DEF ActFits, Live, Off
  <2>5. SameTruth(f)
    BY <2>3, <2>4 DEF SameTruth, Announced
  <2>6. ToastFits(f)'
    BY <2>1 DEF ActFits, ToastFits
  <2>7. ActFits(d, f)'
    BY <2>1, <2>4 DEF ActFits, Shown
  <2> QED BY <2>5, <2>6, <2>7
<1> QED BY <1>2, <1>3, ActMoves

LEMMA TableOfHandling ==
  ASSUME Shared, NEW c \in calls, Handle(c), UNCHANGED e2eVars
  PROVE  TableInv'
<1> DEFINE f == c.file
<1>1. PageParts /\ TabsFit /\ FileTrue(f) /\ f \in Files /\ file \in [Files -> FileStates]
  <2>1. f \in Files
    BY SharedParts DEF PageParts, Calls
  <2> QED BY <2>1, SharedParts
<1>2. /\ c.phase = "sent"
      /\ UNCHANGED <<attached, ports, inbox, outbox, scenario, tab, rows, rowCount, toast, upload, chains>>
  BY DEF Handle, workerVars, e2eVars
<1>3. \A g \in Files : QueuesKept(g) /\ (Told(g)' => Told(g))
  BY <1>2, QueuesAlike DEF Told
<1>4. \A g \in Files : g # f =>
         file'[g] = file[g] /\ \A x \in Tabs : <<x, g>> \in excused' <=> <<x, g>> \in excused
  BY <1>1 DEF Handle, DeleteFileSchedule, CancelPendingFileDeletion, Everywhere
<1>5. PICK phase \in {"done", "refused"} : Answered(c, phase) /\ (phase = "done" <=> Accepted(c))
  BY DEF Handle
<1>6. PICK d \in Calls :
         /\ d.tab = c.tab /\ d.kind = c.kind /\ d.file = f /\ d.phase = phase
         /\ calls' \subseteq (calls \ {c}) \cup {d}
         /\ c.kind = "complete" => Acts(f)' = Acts(f)
         /\ c.kind # "complete" => Acts(f)' = (Acts(f) \ {c}) \cup (IF Alive(c.tab) THEN {d} ELSE {})
         /\ \A g \in Files : g # f => Acts(g)' = Acts(g)
  BY <1>1, <1>5, ActAnswered
<1>7. TabsKept
  BY <1>1, <1>2, <1>6 DEF TabsKept, TabsFit
<1>8. \A x \in Tabs : CountKept(x)
  <2>1. \A x \in Tabs, g \in Files : <<x, g>> \in excused => <<x, g>> \in excused'
    BY DEF Handle
  <2> QED BY <1>2, <2>1 DEF CountKept, Alive
<1> HIDE DEF f
<1>9. ASSUME NEW g \in Files, g # f PROVE Untouched(g)
  <2>1. FewerActs(g) /\ ExcusedAsBefore(g)
    BY <1>2, <1>4, <1>6, <1>9, ActsKept DEF ExcusedAsBefore
  <2> QED BY <1>2, <1>3, <1>4, <1>9, <2>1, NotConcerned DEF Alive
<1>10. Untouched(f) \/ FileTrue(f)'
  <2>1. CASE c.kind = "complete"
    <3>1. UNCHANGED <<file, excused>>
      BY <2>1 DEF Handle
    <3>2. FewerActs(f) /\ ExcusedAsBefore(f)
      BY <1>2, <1>6, <2>1, <3>1, ActsKept DEF ExcusedAsBefore
    <3> QED BY <1>1, <1>2, <1>3, <3>1, <3>2, NotConcerned DEF Alive
  <2>2. CASE c.kind # "complete" /\ phase = "refused"
    <3>1. UNCHANGED <<file, excused>>
      BY <1>5, <2>2 DEF Handle
    <3>2. c \in Acts(f)
      BY <2>2 DEF Acts, f
    <3> QED BY <1>1, <1>2, <1>3, <1>6, <2>2, <3>1, <3>2, FileOfRefusal
  <2>3. CASE c.kind = "info" /\ phase = "done"
    <3>1. UNCHANGED <<file, excused>> /\ file[f] = "live"
      BY <1>5, <2>3 DEF Handle, Accepted, f
    <3>2. c \in Acts(f)
      BY <2>3 DEF Acts, f
    <3> QED BY <1>1, <1>2, <1>3, <1>6, <2>3, <3>1, <3>2, FileOfInfo
  <2>4. CASE c.kind = "delete" /\ phase = "done"
    <3>1. UNCHANGED excused /\ file'[f] = IF file[f] = "live" THEN "pending" ELSE file[f]
      BY <1>1, <1>5, <2>4 DEF Handle, DeleteFileSchedule, f
    <3>2. c \in Acts(f)
      BY <2>4 DEF Acts, f
    <3> QED BY <1>1, <1>2, <1>3, <1>6, <2>4, <3>1, <3>2, FileOfDelete
  <2>5. CASE c.kind = "restore" /\ phase = "done"
    <3>1. /\ file'[f] = IF file[f] = "pending" THEN "live" ELSE file[f]
          /\ file[f] # "gone"
          /\ excused' = excused \cup (IF file[f] = "expired" THEN Everywhere(f) ELSE {})
      BY <1>1, <1>5, <2>5 DEF Handle, CancelPendingFileDeletion, Accepted, f
    <3>2. c \in Acts(f)
      BY <2>5 DEF Acts, f
    <3>3. CASE file[f] = "expired"
      <4>1. Blank(f)'
        BY <3>1, <3>3 DEF Blank
      <4>2. \A x \in Tabs : <<x, f>> \in excused'
        BY <3>1, <3>3 DEF Everywhere
      <4> QED BY <1>1, <4>1, <4>2, FileExcused
    <3>4. CASE file[f] # "expired"
      <4>1. excused' = excused /\ file[f] \notin {"expired", "gone"}
        BY <3>1, <3>4
      <4> QED BY <1>1, <1>2, <1>3, <1>6, <2>5, <3>1, <3>2, <4>1, FileOfRestore
    <3> QED BY <3>3, <3>4
  <2>6. c.kind \in {"complete", "info", "delete", "restore"}
    BY <1>1 DEF PageParts, Calls
  <2> QED BY <2>1, <2>2, <2>3, <2>4, <2>5, <2>6
<1> QED BY <1>2, <1>7, <1>8, <1>9, <1>10, AllKept

LEMMA TableOfFailure ==
  ASSUME Shared, NEW c \in calls, ConnectionFails(c), UNCHANGED e2eVars
  PROVE  TableInv'
<1> DEFINE f == c.file
           lost == c.phase = "done" /\ c.kind \in {"delete", "restore"}
<1>1. PageParts /\ TabsFit /\ FileTrue(f) /\ f \in Files
  <2>1. f \in Files
    BY SharedParts DEF PageParts, Calls
  <2> QED BY <2>1, SharedParts
<1>2. /\ c.phase \in {"sent", "done"} /\ Answered(c, "refused")
      /\ excused' = excused \cup (IF lost THEN Everywhere(f) ELSE {})
      /\ UNCHANGED <<attached, ports, inbox, outbox, file, scenario, tab, rows, rowCount, toast, upload,
                     chains>>
  BY DEF ConnectionFails, workerVars, statusVars, e2eVars
<1>3. \A g \in Files : QueuesKept(g) /\ (Told(g)' => Told(g))
  BY <1>2, QueuesAlike DEF Told
<1>4. PICK d \in Calls :
         /\ d.tab = c.tab /\ d.kind = c.kind /\ d.file = f /\ d.phase = "refused"
         /\ calls' \subseteq (calls \ {c}) \cup {d}
         /\ c.kind = "complete" => Acts(f)' = Acts(f)
         /\ c.kind # "complete" => Acts(f)' = (Acts(f) \ {c}) \cup (IF Alive(c.tab) THEN {d} ELSE {})
         /\ \A g \in Files : g # f => Acts(g)' = Acts(g)
  BY <1>1, <1>2, ActAnswered
<1>5. TabsKept
  BY <1>1, <1>2, <1>4 DEF TabsKept, TabsFit
<1>6. \A x \in Tabs : CountKept(x)
  BY <1>2 DEF CountKept, Alive
<1> HIDE DEF f
<1>7. ASSUME NEW g \in Files, g # f PROVE Untouched(g)
  <2>1. FewerActs(g) /\ ExcusedAsBefore(g)
    BY <1>2, <1>4, <1>7, ActsKept DEF ExcusedAsBefore, Everywhere
  <2> QED BY <1>2, <1>3, <2>1, NotConcerned DEF Alive
<1>8. Untouched(f) \/ FileTrue(f)'
  <2>1. CASE c.kind = "complete"
    <3>1. FewerActs(f) /\ ExcusedAsBefore(f)
      BY <1>2, <1>4, <2>1, ActsKept DEF ExcusedAsBefore
    <3> QED BY <1>1, <1>2, <1>3, <3>1, NotConcerned DEF Alive
  <2>2. CASE lost
    <3>1. file[f] # "none"
      BY <1>1, <2>2 DEF FileTrue, Blank, Acts, f
    <3>2. Blank(f)'
      BY <1>2, <3>1 DEF Blank
    <3>3. \A x \in Tabs : <<x, f>> \in excused'
      BY <1>2, <2>2 DEF Everywhere
    <3> QED BY <1>1, <3>2, <3>3, FileExcused
  <2>3. CASE c.kind # "complete" /\ ~lost
    <3>1. c \in Acts(f) /\ c.kind \in {"info", "delete", "restore"}
      BY <1>1, <2>3 DEF Acts, f, PageParts, Calls
    <3>2. excused' = excused
      BY <1>2, <2>3
    <3> QED BY <1>1, <1>2, <1>3, <1>4, <2>3, <3>1, <3>2, FileOfRefusal
  <2> QED BY <2>1, <2>2, <2>3
<1> QED BY <1>2, <1>5, <1>6, <1>7, <1>8, AllKept

-----------------------------------------------------------------------------
(* A tab is answered, and tells the others. *)

LEMMA PostedQueues ==
  ASSUME WorkerTypeOK, NEW t \in Tabs, NEW m, outbox' = [outbox EXCEPT ![t] = Append(@, m)]
  PROVE  /\ outbox'[t] = Append(outbox[t], m) /\ outbox[t] \in Seq(ToWorker)
         /\ \A x \in Tabs : x # t => outbox'[x] = outbox[x]
  BY DEF WorkerTypeOK

LEMMA OthersHear ==
  ASSUME WorkerTypeOK, NEW t \in Tabs, NEW f \in Files, NEW x \in Tabs, x # t, TabFits(x, f),
         NEW m, IsAbout(m, f), m.notice.type = "fileDeleted" => Announced(f),
         outbox' = [outbox EXCEPT ![t] = Append(@, m)], UNCHANGED <<tab, inbox, excused>>,
         rows'[x][f] = rows[x][f], \A y \in Tabs : y # t => Silent(outbox[y], f)
  PROVE  TabFits(x, f)'
<1> SUFFICES ASSUME <<x, f>> \notin excused
             PROVE  OneRow(x, f)' /\ (Alive(x)' => NoticesFit(x, f)' /\ RowFits(x, f)')
  BY DEF TabFits
<1>1. OneRow(x, f)' /\ (Dying(x, f)' <=> Dying(x, f)) /\ (Alive(x)' => Alive(x))
  BY DEF TabFits, OneRow, Dying, Alive
<1>2. /\ outbox'[t] = Append(outbox[t], m) /\ outbox[t] \in Seq(ToWorker)
      /\ \A y \in Tabs : y # t => outbox'[y] = outbox[y]
  BY PostedQueues
<1>3. /\ ~Silent(outbox'[t], f)
      /\ DeletesFirst(outbox'[t], f) =>
           DeletesFirst(outbox[t], f) \/ (Silent(outbox[t], f) /\ m.notice.type = "fileDeleted")
  BY <1>2, AppendAbout
<1>4. RowFits(x, f)'
  BY <1>3 DEF RowFits
<1>5. ASSUME Alive(x)' PROVE NoticesFit(x, f)'
  <2>1. NoticesFit(x, f) /\ RowFits(x, f)
    BY <1>1, <1>5 DEF TabFits
  <2>2. ASSUME NEW y \in Tabs, y # x, DeletesFirst(outbox'[y], f)
        PROVE  LastIs(inbox[x], f, "fileAdded") \/ (Silent(inbox[x], f) /\ ~Dying(x, f))
    <3>1. y = t
      BY <1>2, <2>2, SilentQueue
    <3>2. CASE DeletesFirst(outbox[t], f)
      BY <2>1, <2>2, <3>1, <3>2 DEF NoticesFit
    <3>3. CASE Silent(outbox[t], f) /\ m.notice.type = "fileDeleted"
      <4>1. Announced(f) /\ Word(f) = "fileAdded"
        BY <3>3 DEF Word
      <4>2. \A z \in Tabs : Silent(outbox[z], f)
        BY <3>3
      <4> QED BY <2>1, <4>1, <4>2 DEF RowFits
    <3> QED BY <1>3, <2>2, <3>1, <3>2, <3>3
  <2> QED BY <1>1, <2>1, <2>2 DEF NoticesFit
<1> QED BY <1>1, <1>4, <1>5

LEMMA PostsGrow ==
  ASSUME WorkerTypeOK, NEW t \in Tabs, NEW f \in Files, PostsFit(f), NEW m, IsAbout(m, f),
         m.notice.type = Word(f)', m.notice.type = "fileDeleted" => Announced(f),
         outbox' = [outbox EXCEPT ![t] = Append(@, m)],
         \A y \in Tabs : y # t => Silent(outbox[y], f)
  PROVE  PostsFit(f)'
<1>1. /\ outbox'[t] = Append(outbox[t], m) /\ outbox[t] \in Seq(ToWorker)
      /\ \A y \in Tabs : y # t => outbox'[y] = outbox[y]
  BY PostedQueues
<1>2. \A y \in Tabs : y # t => Alternates(outbox'[y], f) /\ Silent(outbox'[y], f)
  BY <1>1, SilentQueue
<1>3. LastIs(outbox'[t], f, Word(f)')
  BY <1>1, AppendAbout
<1>4. Alternates(outbox'[t], f)
  <2>1. m.notice.type # "fileDeleted" \/ Silent(outbox[t], f) \/ LastIs(outbox[t], f, "fileAdded")
    BY DEF PostsFit, Word
  <2>2. Alternates(outbox[t], f)
    BY DEF PostsFit
  <2> QED BY <1>1, <2>1, <2>2, AppendAbout
<1> QED BY <1>2, <1>3, <1>4 DEF PostsFit

LEMMA FileAnswered ==
  ASSUME PageParts, WorkerTypeOK, NEW f \in Files, FileTrue(f), NEW c \in Acts(f),
         Acts(f)' = Acts(f) \ {c}, NEW m, IsAbout(m, f),
         outbox' = [outbox EXCEPT ![c.tab] = Append(@, m)], UNCHANGED <<tab, file, inbox, excused>>,
         \A x \in Tabs : x # c.tab => rows'[x][f] = rows[x][f], file[f] # "none",
         Tracked(f) =>
            /\ m.notice.type = Word(f)' /\ (m.notice.type = "fileDeleted" => Announced(f))
            /\ ToastFits(f)'
            /\ <<c.tab, f>> \notin excused =>
                  /\ OneRow(c.tab, f)' /\ (Shown(c.tab, f)' <=> Live(f))
                  /\ Live(f) => ~Dying(c.tab, f)'
  PROVE  FileTrue(f)'
<1> DEFINE t == c.tab
<1>1. t \in Tabs
  BY DEF Acts, PageParts, Calls
<1> HIDE DEF t
<1>2. Blank(f)'
  BY DEF Blank
<1>3. CASE ~Tracked(f)
  BY <1>2, <1>3, FileExcused DEF Tracked
<1>4. CASE Tracked(f)
  <2>1. TrackedFits(f)
    BY <1>4 DEF FileTrue
  <2>2. Acts(f)' = {}
    BY <2>1 DEF TrackedFits, OneActor
  <2>3. Silent(inbox[t], f) /\ \A y \in Tabs : y # t => Silent(outbox[y], f)
    BY <2>1 DEF TrackedFits, OneActor, t
  <2>4. \A y \in Tabs : y # t => outbox'[y] = outbox[y]
    BY <1>1, PostedQueues DEF t
  <2>5. OneActor(f)'
    <3>1. \A y \in Tabs : y # t => Silent(outbox'[y], f)
      BY <2>3, <2>4
    <3>2. \A y, z \in Tabs : Silent(outbox'[y], f) \/ Silent(outbox'[z], f) \/ y = z
      BY <3>1
    <3>3. \A y \in Tabs : Silent(outbox'[y], f) \/ Silent(inbox'[y], f)
      BY <2>3, <3>1
    <3> QED BY <2>2, <3>2, <3>3 DEF OneActor
  <2>6. PostsFit(f)'
    BY <1>1, <1>4, <2>1, <2>3, PostsGrow DEF TrackedFits, t
  <2>7. Announced(f)' <=> Live(f)
    BY <2>2 DEF Announced, Done, Live
  <2>8. ASSUME NEW x \in Tabs, x # t PROVE TabFits(x, f)'
    BY <1>1, <1>4, <2>3, <2>8, OthersHear DEF FileTrue, t
  <2>9. TabFits(t, f)'
    <3> SUFFICES ASSUME <<t, f>> \notin excused
                 PROVE  OneRow(t, f)' /\ NoticesFit(t, f)' /\ RowFits(t, f)'
      BY DEF TabFits
    <3>1. OneRow(t, f)' /\ (Shown(t, f)' <=> Live(f)) /\ (Live(f) => ~Dying(t, f)')
      BY <1>4 DEF t
    <3>2. NoticesFit(t, f)'
      <4>1. Alternates(inbox'[t], f) /\ ~DeletesFirst(inbox'[t], f)
        BY <2>3, SilentQueue
      <4>2. \A y \in Tabs : y # t => ~DeletesFirst(outbox'[y], f)
        BY <2>3, <2>4, SilentQueue
      <4> QED BY <4>1, <4>2 DEF NoticesFit
    <3>3. RowFits(t, f)'
      BY <2>3, <2>7, <3>1 DEF RowFits, Live
    <3> QED BY <3>1, <3>2, <3>3
  <2>10. \A x \in Tabs : TabFits(x, f)'
    BY <2>8, <2>9
  <2> QED BY <1>2, <1>4, <2>2, <2>5, <2>6, <2>10 DEF FileTrue, TrackedFits
<1> QED BY <1>3, <1>4

(* c is answered, whereupon its tab changes its row of f and posts n. *)
Tells(c, f, n) ==
    /\ c.file = f /\ c.kind # "complete" /\ calls' = calls \ {c}
    /\ n.file = f /\ outbox' = [outbox EXCEPT ![c.tab] = Append(@, Notice(n))]
    /\ UNCHANGED <<attached, ports, inbox, tab, file, scenario, excused>>
    /\ \A x \in Tabs, g \in Files : x # c.tab \/ g # f => rows'[x][g] = rows[x][g]
    /\ \A x \in Tabs : x # c.tab => rowCount'[x] = rowCount[x] /\ rows'[x] = rows[x]
    /\ \A x \in Tabs, g \in Files : g # f /\ toast'[x] = g => toast[x] = g
    /\ \A g \in Files : g # f => (Told(g)' => Told(g))

(* What it tells and shows is true. *)
TellsTruth(c, f, n) ==
    /\ n.type = Word(f)' /\ (n.type = "fileDeleted" => Announced(f)) /\ ToastFits(f)'
    /\ <<c.tab, f>> \notin excused =>
          /\ OneRow(c.tab, f)' /\ (Shown(c.tab, f)' <=> Live(f))
          /\ Live(f) => ~Dying(c.tab, f)'

LEMMA TableOfNews ==
  ASSUME Shared, NEW c \in calls, NEW f \in Files, NEW n, Tells(c, f, n),
         file[f] # "none", CountTrue(c.tab)', Tracked(f) => TellsTruth(c, f, n)
  PROVE  TableInv'
<1>0. /\ c.file = f /\ c.kind # "complete" /\ calls' = calls \ {c}
      /\ n.file = f /\ outbox' = [outbox EXCEPT ![c.tab] = Append(@, Notice(n))]
      /\ UNCHANGED <<attached, ports, inbox, tab, file, scenario, excused>>
      /\ \A x \in Tabs, g \in Files : x # c.tab \/ g # f => rows'[x][g] = rows[x][g]
      /\ \A x \in Tabs : x # c.tab => rowCount'[x] = rowCount[x] /\ rows'[x] = rows[x]
      /\ \A x \in Tabs, g \in Files : g # f /\ toast'[x] = g => toast[x] = g
      /\ \A g \in Files : g # f => (Told(g)' => Told(g))
  BY DEF Tells
<1> USE <1>0
<1> DEFINE m == Notice(n)
<1>1. PageParts /\ TabsFit /\ WorkerTypeOK /\ FileTrue(f) /\ c.tab \in Tabs
  BY SharedParts DEF PageParts, Calls
<1>2. m.type = "notice" /\ m.notice = n
  BY DEF Notice
<1> HIDE DEF m
<1>3. IsAbout(m, f) /\ \A g : g # f => ~IsAbout(m, g)
  BY <1>2 DEF IsAbout
<1>4. /\ outbox'[c.tab] = Append(outbox[c.tab], m) /\ outbox[c.tab] \in Seq(ToWorker)
      /\ \A x \in Tabs : x # c.tab => outbox'[x] = outbox[x]
  BY <1>1, PostedQueues DEF m
<1>5. TabsKept
  BY <1>1, <1>4 DEF TabsKept, TabsFit
<1>6. ASSUME NEW g \in Files, g # f PROVE Untouched(g)
  <2>1. QueuesKept(g)
    <3>1. SaysAs(outbox'[c.tab], outbox[c.tab], g)
      BY <1>3, <1>4, <1>6, AppendOther
    <3> QED BY <1>4, <3>1, SaysTheSame DEF QueuesKept
  <2>2. FewerActs(g)
    BY <1>6, ActLeft, ActsKept
  <2>3. \A x \in Tabs : rows'[x][g] = rows[x][g] /\ (toast'[x] = g => toast[x] = g)
    BY <1>6
  <2> QED BY <1>6, <2>1, <2>2, <2>3, NotConcerned DEF ExcusedAsBefore, Alive
<1>7. FileTrue(f)'
  <2>1. c \in Acts(f) /\ Acts(f)' = Acts(f) \ {c}
    BY ActLeft DEF Acts
  <2>2. \A x \in Tabs : x # c.tab => rows'[x][f] = rows[x][f]
    OBVIOUS
  <2>3. outbox' = [outbox EXCEPT ![c.tab] = Append(@, m)]
    BY DEF m
  <2>4. Tracked(f) =>
            /\ m.notice.type = Word(f)' /\ (m.notice.type = "fileDeleted" => Announced(f))
            /\ ToastFits(f)'
            /\ <<c.tab, f>> \notin excused =>
                  /\ OneRow(c.tab, f)' /\ (Shown(c.tab, f)' <=> Live(f))
                  /\ Live(f) => ~Dying(c.tab, f)'
    BY <1>2 DEF TellsTruth
  <2> QED BY <1>1, <1>3, <2>1, <2>2, <2>3, <2>4, FileAnswered
<1>8. ASSUME NEW x \in Tabs PROVE CountKept(x) \/ CountTrue(x)'
  BY DEF CountKept, Alive
<1> QED BY <1>5, <1>6, <1>7, <1>8, AllKept

-----------------------------------------------------------------------------
(* A tab is answered. *)

LEMMA TableOfQuiet ==
  ASSUME Shared, NEW c \in calls, calls' = calls \ {c},
         c.kind \in {"complete", "info"} \/ c.phase # "done",
         UNCHANGED <<attached, ports, inbox, outbox, tab, file, scenario, rows, rowCount, toast, excused>>,
         \A g \in Files : Told(g)' => Told(g)
  PROVE  TableInv'
<1>1. PageParts /\ TabsFit
  BY SharedParts
<1>2. TabsKept
  BY <1>1 DEF TabsKept, TabsFit
<1>3. ASSUME NEW g \in Files PROVE Untouched(g)
  <2>1. FewerActs(g)
    BY DEF FewerActs, Acts
  <2>2. QueuesKept(g) /\ ExcusedAsBefore(g)
    BY QueuesAlike DEF ExcusedAsBefore
  <2> QED BY <2>1, <2>2, NotConcerned DEF Alive
<1>4. \A x \in Tabs : CountKept(x)
  BY DEF CountKept, Alive
<1> QED BY <1>2, <1>3, <1>4, AllKept

(* A file has been uploaded or restored. *)
LEMMA TableOfAddition ==
  ASSUME Shared, NEW c \in calls, calls' = calls \ {c}, c.kind \in {"info", "restore"}, c.phase = "done",
         Alive(c.tab), addRow(c.tab, c.file), notifyWorker(c.tab, fileAdded(c.file)),
         UNCHANGED <<tab, file, scenario, toast, excused>>,
         \A g \in Files : g # c.file => (Told(g)' => Told(g))
  PROVE  TableInv'
<1> PICK f \in Files : c.file = f
  BY SharedParts DEF PageParts, Calls
<1> PICK t \in Tabs : c.tab = t
  BY SharedParts DEF PageParts, Calls
<1>1. PageParts /\ TabsFit /\ UploadsOnce /\ (\A g \in Files : FileTrue(g)) /\ CountTrue(t)
  BY SharedParts
<1> PICK n : n = fileAdded(f)
  OBVIOUS
<1>2. n.file = f /\ n.type = "fileAdded"
  BY DEF fileAdded
<1>3. /\ outbox' = [outbox EXCEPT ![t] = Append(@, Notice(n))]
      /\ UNCHANGED <<attached, ports, inbox>>
  BY DEF notifyWorker, Post, Shared
<1>4. c \in Acts(f) /\ Acts(f)' = Acts(f) \ {c}
  BY ActLeft DEF Acts
<1>5. file[f] # "none"
  BY <1>1, <1>4 DEF FileTrue, Blank
<1>6. ASSUME Tracked(f)
      PROVE  Live(f) /\ TrackedFits(f) /\ (<<t, f>> \notin excused => ~Shown(t, f)) /\ Acts(f)' = {}
  <2>1. ActFits(c, f) /\ Acts(f) = {c}
    BY <1>1, <1>4, <1>6, OnlyAct
  <2> QED BY <1>1, <1>4, <1>6, <2>1 DEF ActFits, Shown, FileTrue
<1>7. CountTrue(t)'
  <2>1. ~Shown(t, f) \/ <<t, f>> \in excused'
    BY <1>6 DEF Tracked
  <2> QED BY <1>1, <2>1, CountAdded
<1>8. /\ Shown(t, f)' /\ ~Dying(t, f)'
      /\ OneRow(t, f) /\ ~Shown(t, f) => OneRow(t, f)'
      /\ \A x \in Tabs, g \in Files : x # t \/ g # f => rows'[x][g] = rows[x][g]
      /\ \A x \in Tabs : x # t => rows'[x] = rows[x]
  BY <1>1, AddedRow DEF PageParts
<1>9. \A x \in Tabs : x # t => rowCount'[x] = rowCount[x]
  BY <1>1 DEF addRow, PageParts
<1>10. ASSUME Tracked(f)
       PROVE  /\ n.type = Word(f)' /\ ToastFits(f)'
              /\ <<t, f>> \notin excused => OneRow(t, f)' /\ (Shown(t, f)' <=> Live(f))
  <2>1. Announced(f)'
    BY <1>6, <1>10 DEF Announced, Done, Live
  <2>2. ToastFits(f)'
    BY <1>6, <1>10 DEF TrackedFits, ToastFits, Off
  <2>3. <<t, f>> \notin excused => OneRow(t, f)'
    BY <1>1, <1>6, <1>8, <1>10 DEF FileTrue, TabFits
  <2> QED BY <1>2, <1>6, <1>8, <1>10, <2>1, <2>2, <2>3 DEF Word
<1>11. Tells(c, f, n)
  BY <1>2, <1>3, <1>8, <1>9 DEF Tells
<1>12. Tracked(f) => TellsTruth(c, f, n)
  BY <1>2, <1>8, <1>10 DEF TellsTruth
<1>13. CountTrue(c.tab)'
  BY <1>7
<1> QED BY <1>5, <1>11, <1>12, <1>13, TableOfNews

(* A file has been deleted, and the tab still lists it. *)
LEMMA TableOfDeletion ==
  ASSUME Shared, NEW c \in calls, calls' = calls \ {c}, c.kind = "delete", c.phase = "done",
         Alive(c.tab), removeRow(c.tab, c.file), rows[c.tab][c.file] # <<>>,
         toast' = [toast EXCEPT ![c.tab] = c.file], notifyWorker(c.tab, fileDeleted(c.file)),
         UNCHANGED <<tab, file, scenario, excused>>,
         \A g \in Files : Told(g)' => Told(g)
  PROVE  TableInv'
<1> PICK f \in Files : c.file = f
  BY SharedParts DEF PageParts, Calls
<1> PICK t \in Tabs : c.tab = t
  BY SharedParts DEF PageParts, Calls
<1>1. PageParts /\ TabsFit /\ (\A g \in Files : FileTrue(g)) /\ CountTrue(t)
  BY SharedParts
<1> PICK n : n = fileDeleted(f)
  OBVIOUS
<1>2. n.file = f /\ n.type = "fileDeleted"
  BY DEF fileDeleted
<1>3. /\ outbox' = [outbox EXCEPT ![t] = Append(@, Notice(n))]
      /\ UNCHANGED <<attached, ports, inbox>>
  BY DEF notifyWorker, Post, Shared
<1>4. c \in Acts(f) /\ Acts(f)' = Acts(f) \ {c}
  BY ActLeft DEF Acts
<1>5. file[f] # "none"
  BY <1>1, <1>4 DEF FileTrue, Blank
<1>6. \A x \in Tabs : toast'[x] = IF x = t THEN f ELSE toast[x]
  BY <1>1 DEF PageParts
<1>7. ASSUME Tracked(f)
      PROVE  /\ Off(f) /\ ~Live(f) /\ Announced(f) /\ Shown(t, f) /\ <<t, f>> \notin excused
             /\ (\A x \in Tabs : toast[x] # f) /\ Acts(f)' = {}
  <2>1. /\ ActFits(c, f) /\ Acts(f) = {c}
        /\ \A kind : Done(f, kind) <=> c.kind = kind /\ c.phase = "done"
    BY <1>1, <1>4, <1>7, OnlyAct
  <2> QED BY <1>4, <2>1 DEF ActFits, Announced, Live, Off
<1>8. CountTrue(t)'
  <2>1. Shown(t, f) \/ <<t, f>> \in excused'
    BY <1>7 DEF Tracked
  <2> QED BY <1>1, <2>1, CountRemoved
<1>9. /\ ~Shown(t, f)'
      /\ OneRow(t, f) => OneRow(t, f)'
      /\ \A x \in Tabs, g \in Files : x # t \/ g # f => rows'[x][g] = rows[x][g]
      /\ \A x \in Tabs : x # t => rows'[x] = rows[x]
  BY <1>1, RemovedRow DEF PageParts
<1>10. \A x \in Tabs : x # t => rowCount'[x] = rowCount[x]
  BY <1>1 DEF removeRow, PageParts
<1>11. ASSUME Tracked(f)
       PROVE  /\ n.type = Word(f)' /\ Announced(f) /\ ToastFits(f)'
              /\ OneRow(t, f)' /\ (Shown(t, f)' <=> Live(f)) /\ ~Live(f)
  <2>1. ~Announced(f)'
    BY <1>7, <1>11 DEF Announced, Done, Live
  <2>2. ToastFits(f)'
    BY <1>6, <1>7, <1>11 DEF ToastFits, Off
  <2>3. OneRow(t, f)'
    BY <1>1, <1>7, <1>9, <1>11 DEF FileTrue, TabFits
  <2> QED BY <1>2, <1>7, <1>9, <1>11, <2>1, <2>2, <2>3 DEF Word
<1>12. \A x \in Tabs, g \in Files : g # f /\ toast'[x] = g => toast[x] = g
  BY <1>6
<1>13. Tells(c, f, n)
  BY <1>2, <1>3, <1>9, <1>10, <1>12 DEF Tells
<1>14. Tracked(f) => TellsTruth(c, f, n)
  BY <1>11 DEF TellsTruth
<1>15. CountTrue(c.tab)'
  BY <1>8
<1> QED BY <1>5, <1>13, <1>14, <1>15, TableOfNews

(* Or does not: then its table has been excused before. *)
LEMMA TableOfLostRow ==
  ASSUME Shared, NEW c \in calls, calls' = calls \ {c}, c.kind = "delete", c.phase = "done",
         removeRow(c.tab, c.file), rows[c.tab][c.file] = <<>>,
         UNCHANGED <<attached, ports, inbox, outbox, tab, file, scenario, toast, excused>>,
         \A g \in Files : Told(g)' => Told(g)
  PROVE  TableInv'
<1> PICK f \in Files : c.file = f
  BY SharedParts DEF PageParts, Calls
<1> PICK t \in Tabs : c.tab = t
  BY SharedParts DEF PageParts, Calls
<1>1. PageParts /\ TabsFit /\ FileTrue(f)
  BY SharedParts
<1>2. UNCHANGED rows /\ \A x \in Tabs : x # t => rowCount'[x] = rowCount[x]
  BY <1>1 DEF removeRow, PageParts
<1>3. c \in Acts(f)
  BY DEF Acts
<1>4. \A x \in Tabs : <<x, f>> \in excused
  <2>1. SUFFICES ASSUME Tracked(f) PROVE FALSE
    BY DEF Tracked
  <2>2. ActFits(c, f)
    BY <1>1, <1>3, <2>1, OnlyAct
  <2> QED BY <2>2 DEF ActFits, Shown
<1>5. TabsKept
  BY <1>1, <1>2 DEF TabsKept, TabsFit
<1>6. ASSUME NEW g \in Files, g # f PROVE Untouched(g)
  <2>1. FewerActs(g)
    BY <1>6, ActLeft, ActsKept
  <2>2. QueuesKept(g) /\ ExcusedAsBefore(g)
    BY QueuesAlike DEF ExcusedAsBefore
  <2> QED BY <1>2, <2>1, <2>2, NotConcerned DEF Alive
<1>7. FileTrue(f)'
  <2>1. file[f] # "none"
    BY <1>1, <1>3 DEF FileTrue, Blank
  <2>2. Blank(f)'
    BY <2>1 DEF Blank
  <2> QED BY <1>4, <2>2, FileExcused
<1>8. CountTrue(t)'
  BY <1>4 DEF CountTrue
<1>9. \A x \in Tabs : x # t => CountKept(x)
  BY <1>2 DEF CountKept, Alive
<1> QED BY <1>5, <1>6, <1>7, <1>8, <1>9, AllKept

(* What answers do to bars and chains *)
LEMMA AnswerTold ==
  ASSUME Shared, NEW c \in calls, AnswerAnd(c), NEW g \in Files
  PROVE  /\ g # c.file => (Told(g)' => Told(g))
         /\ c.kind # "info" \/ c.phase # "done" => (Told(g)' => Told(g))
<1>1. upload \in [Files -> Bars] /\ c.file \in Files /\ c.tab \in Tabs
  BY SharedParts DEF PageParts, Calls
<1>2. c.kind # "info" \/ c.phase # "done" => chains' = chains
  BY DEF AnswerAnd
<1>3. \A k \in chains' : k \in chains \/ k.file = c.file
  <2>1. CASE chains' = chains
    BY <2>1
  <2>2. CASE chains' = chains \cup {NewChain(c.tab, c.file)}
    BY <2>2 DEF NewChain
  <2> QED BY <2>1, <2>2 DEF AnswerAnd
<1>4. c.kind # "info" \/ c.phase # "done" =>
          (upload'[c.file] \in {"none", "removed"} => upload'[c.file] = upload[c.file])
  <2>1. CASE ShowError(c.file)
    BY <1>1, <2>1 DEF ShowError
  <2>2. CASE upload' = [upload EXCEPT ![c.file] = IF @ = "completing" THEN "queued" ELSE @]
    BY <1>1, <2>2
  <2> QED BY <2>1, <2>2 DEF AnswerAnd, Answer, CompleteAnswered, requestFileInfo, InfoRefused,
          DeleteAnswered, RestoreAnswered, ChangeRefused
<1>5. g # c.file => upload'[g] = upload[g]
  BY <1>1 DEF AnswerAnd, Answer, CompleteAnswered, requestFileInfo, InfoRefused, DeleteAnswered,
     RestoreAnswered, ChangeRefused, ShowError
<1>6. g # c.file => (Told(g)' => Told(g))
  BY <1>3, <1>5 DEF Told
<1>7. c.kind # "info" \/ c.phase # "done" => (Told(g)' => Told(g))
  BY <1>2, <1>4, <1>6 DEF Told
<1> QED BY <1>6, <1>7

LEMMA TableOfAnswer ==
  ASSUME Shared, NEW c \in calls, AnswerAnd(c)
  PROVE  TableInv'
<1>1. /\ Alive(c.tab) /\ calls' = calls \ {c} /\ UNCHANGED <<file, scenario, tab, excused>>
      /\ \/ CompleteAnswered(c) \/ requestFileInfo(c) \/ InfoRefused(c)
         \/ DeleteAnswered(c) \/ RestoreAnswered(c) \/ ChangeRefused(c)
  BY DEF AnswerAnd, Answer, statusVars
<1>2. \A g \in Files : /\ g # c.file => (Told(g)' => Told(g))
                       /\ c.kind # "info" \/ c.phase # "done" => (Told(g)' => Told(g))
  BY AnswerTold
<1>3. CASE CompleteAnswered(c) \/ InfoRefused(c) \/ ChangeRefused(c)
  <2>1. /\ UNCHANGED <<attached, ports, inbox, outbox, rows, rowCount, toast>>
        /\ c.kind = "complete" \/ c.phase = "refused"
    BY <1>3 DEF CompleteAnswered, InfoRefused, ChangeRefused, KeepTable, workerVars
  <2>2. \A g \in Files : Told(g)' => Told(g)
    BY <1>2, <2>1
  <2> QED BY <1>1, <2>1, <2>2, TableOfQuiet
<1>4. CASE requestFileInfo(c) \/ RestoreAnswered(c)
  <2>1. /\ c.kind \in {"info", "restore"} /\ c.phase = "done" /\ UNCHANGED toast
        /\ addRow(c.tab, c.file) /\ notifyWorker(c.tab, fileAdded(c.file))
    BY <1>4 DEF requestFileInfo, RestoreAnswered
  <2> QED BY <1>1, <1>2, <2>1, TableOfAddition
<1>5. CASE DeleteAnswered(c)
  <2>1. /\ c.kind = "delete" /\ c.phase = "done" /\ removeRow(c.tab, c.file)
        /\ IF rows[c.tab][c.file] = <<>> THEN UNCHANGED <<toast, workerVars>>
           ELSE /\ toast' = [toast EXCEPT ![c.tab] = c.file]
                /\ notifyWorker(c.tab, fileDeleted(c.file))
    BY <1>5 DEF DeleteAnswered
  <2>2. \A g \in Files : Told(g)' => Told(g)
    BY <1>2, <2>1
  <2>3. CASE rows[c.tab][c.file] = <<>>
    BY <1>1, <2>1, <2>2, <2>3, TableOfLostRow DEF workerVars
  <2>4. CASE rows[c.tab][c.file] # <<>>
    BY <1>1, <2>1, <2>2, <2>4, TableOfDeletion
  <2> QED BY <2>3, <2>4
<1> QED BY <1>1, <1>3, <1>4, <1>5

-----------------------------------------------------------------------------
(* The server renders a table, and processes files. *)

LEMMA TableOfLoad ==
  ASSUME Shared, NEW t \in Tabs, Load(t), UNCHANGED e2eVars
  PROVE  TableInv'
<1>1. PageParts /\ TabsFit /\ \A g \in Files : FileTrue(g)
  BY SharedParts
<1>2. /\ tab[t] = "none" /\ tab' = [tab EXCEPT ![t] = "rendered"]
      /\ rows' = [rows EXCEPT ![t] = [f \in Files |-> IF file[f] = "live" THEN <<"shown">> ELSE <<>>]]
      /\ UNCHANGED <<attached, ports, inbox, outbox, file, scenario, rowCount, toast, upload, calls, excused,
                     chains>>
  BY DEF Load, workerVars, statusVars, e2eVars
<1>3. /\ \A x \in Tabs : tab'[x] = IF x = t THEN "rendered" ELSE tab[x]
      /\ \A x \in Tabs : x # t => rows'[x] = rows[x]
      /\ \A f \in Files : rows'[t][f] = IF Live(f) THEN <<"shown">> ELSE <<>>
  BY <1>1, <1>2 DEF PageParts, Tables, Live
<1>4. /\ inbox[t] = <<>> /\ outbox[t] = <<>> /\ rowCount[t] = -1 /\ \A c \in calls : c.tab # t
  BY <1>1, <1>2 DEF TabsFit
<1>5. TabsKept
  BY <1>1, <1>2, <1>3 DEF TabsKept, TabsFit
<1>6. ASSUME NEW f \in Files PROVE FileTrue(f)'
  <2>1. \A x \in Tabs : x # t => /\ rows'[x][f] = rows[x][f] /\ (Alive(x)' <=> Alive(x))
    BY <1>3 DEF Alive
  <2>2. Blank(f)'
    BY <1>1, <1>2, <1>3, <2>1 DEF FileTrue, Blank, Acts, Live
  <2>3. /\ Acts(f)' = Acts(f) /\ \A c \in Acts(f) : c.tab \in Tabs /\ c.tab # t
    BY <1>1, <1>2, <1>4 DEF Acts, PageParts, Calls
  <2>4. (Announced(f)' <=> Announced(f)) /\ SameTruth(f)
    BY <1>2, <2>3 DEF SameTruth, Announced, Done, Live, Told
  <2>5. QueuesKept(f)
    BY <1>2, QueuesAlike
  <2>6. ASSUME Tracked(f)' PROVE TrackedFits(f)'
    <3>1. TrackedFits(f)
      BY <1>1, <1>2, <2>6 DEF FileTrue, Tracked
    <3>2. OneActor(f)' /\ PostsFit(f)' /\ ToastFits(f)'
      BY <1>1, <1>2, <2>3, <2>4, <2>5, <3>1, OneActorKept, PostsKept DEF TrackedFits, ToastFits, Off
    <3>3. ASSUME NEW c \in Acts(f) PROVE ActFits(c, f)'
      <4>1. /\ ActFits(c, f) /\ rows'[c.tab][f] = rows[c.tab][f]
            /\ tab'[c.tab] = tab[c.tab]
        BY <1>3, <2>1, <2>3, <3>1, <3>3 DEF TrackedFits
      <4> QED BY <1>2, <4>1 DEF ActFits, Shown, Live, Off
    <3> QED BY <2>3, <3>2, <3>3 DEF TrackedFits
  <2>7. ASSUME NEW x \in Tabs, x # t PROVE TabFits(x, f)'
    <3>1. TabFits(x, f) /\ SameRow(x, f)
      BY <1>1, <2>1, <2>7, RowsKept DEF FileTrue
    <3>2. /\ SaysAs(inbox'[x], inbox[x], f) /\ \A y \in Tabs : SaysAs(outbox'[y], outbox[y], f)
      BY <1>2, SaysTheSame
    <3> QED BY <1>2, <2>1, <2>4, <2>7, <3>1, <3>2, TabKept
  <2>8. TabFits(t, f)'
    <3>1. Silent(inbox'[t], f)
      BY <1>2, <1>4, EmptyQueue
    <3>2. (Shown(t, f)' <=> Live(f)') /\ ~Dying(t, f)'
      BY <1>2, <1>3 DEF Shown, Dying, Live
    <3>3. OneRow(t, f)'
      <4>1. \A i \in DOMAIN rows'[t][f] : ~(i > 1)
        BY <1>3
      <4> QED BY <4>1 DEF OneRow
    <3>4. NoticesFit(t, f)'
      BY <3>1, <3>2, SilentQueue DEF NoticesFit
    <3>5. RowFits(t, f)'
      BY <3>1, <3>2 DEF RowFits
    <3> QED BY <3>3, <3>4, <3>5 DEF TabFits
  <2>9. \A x \in Tabs : TabFits(x, f)'
    BY <2>7, <2>8
  <2> QED BY <2>2, <2>6, <2>9 DEF FileTrue
<1>7. ASSUME NEW x \in Tabs PROVE CountKept(x) \/ CountTrue(x)'
  <2>1. CASE x = t
    <3>1. rowCount'[t] = -1
      BY <1>2, <1>4
    <3>2. ASSUME NEW f \in Files, NEW i \in DOMAIN rows'[t][f] PROVE rows'[t][f][i] # "dying"
      BY <1>3, <3>2
    <3> QED BY <2>1, <3>1, <3>2 DEF CountTrue
  <2>2. CASE x # t
    BY <1>2, <1>3, <2>2 DEF CountKept, Alive
  <2> QED BY <2>1, <2>2
<1> QED BY <1>2, <1>5, <1>6, <1>7, AllKept

(* A file that has been uploaded comes to be there: no table shows it, and   *)
(* the page is yet to tell of it.                                            *)
LEMMA FileComes ==
  ASSUME PageParts, NEW f \in Files, FileTrue(f), UploadsOnce, job[f] = "save", file'[f] = "live",
         UNCHANGED <<scenario, inbox, outbox, tab, rows, toast, upload, calls, excused, chains>>
  PROVE  FileTrue(f)'
<1>1. file[f] = "none"
  BY DEF UploadsOnce
<1>2. /\ \A y \in Tabs : /\ Silent(outbox[y], f) /\ Silent(inbox[y], f)
                         /\ rows[y][f] = <<>> /\ toast[y] # f
      /\ \A c \in Acts(f) : c.kind = "info" /\ c.phase # "done"
  BY <1>1 DEF FileTrue, Blank
<1>3. ~Told(f)'
  <2>1. f \notin Now.present /\ upload[f] # "removed"
    BY <1>1 DEF UploadsOnce
  <2>2. upload[f] \notin {"none", "sending"}
    BY <2>1 DEF UploadsOnce, Fresh
  <2>3. \A k \in chains : k.file # f
    BY <1>1, PageAssumption DEF UploadsOnce
  <2> QED BY <2>1, <2>2, <2>3 DEF Told
<1>4. Blank(f)'
  BY DEF Blank
<1>5. Acts(f)' = Acts(f)
  BY DEF Acts
<1>6. ASSUME Tracked(f)' PROVE TrackedFits(f)'
  <2>1. OneActor(f)
    BY <1>6 DEF FileTrue, Tracked, TrackedFits
  <2>2. OneActor(f)'
    BY <1>5, <2>1, OneActorKept, QueuesAlike
  <2>3. \A c \in Acts(f)' : ActFits(c, f)'
    BY <1>2, <1>5 DEF ActFits, PageParts, Calls, Acts
  <2>4. ToastFits(f)' /\ PostsFit(f)'
    BY <1>2, SilentQueue DEF ToastFits, PostsFit
  <2> QED BY <2>2, <2>3, <2>4 DEF TrackedFits
<1>7. ASSUME NEW x \in Tabs PROVE TabFits(x, f)'
  <2>1. rows'[x][f] = <<>> /\ Silent(inbox'[x], f) /\ \A y \in Tabs : Silent(outbox'[y], f)
    BY <1>2
  <2>2. OneRow(x, f)' /\ ~Shown(x, f)' /\ ~Dying(x, f)'
    BY <2>1 DEF OneRow, Shown, Dying
  <2>3. NoticesFit(x, f)'
    BY <2>1, SilentQueue DEF NoticesFit
  <2>4. RowFits(x, f)'
    BY <1>3, <2>1, <2>2 DEF RowFits
  <2> QED BY <2>2, <2>3, <2>4 DEF TabFits
<1> QED BY <1>4, <1>6, <1>7 DEF FileTrue

LEMMA TableOfServer ==
  ASSUME Shared, (\E f \in Files : JobActs(f)) \/ ServerMay, UNCHANGED e2eVars
  PROVE  TableInv'
<1>1. PageParts /\ TabsFit /\ UploadsOnce /\ (\A g \in Files : FileTrue(g)) /\ file \in [Files -> FileStates]
  BY SharedParts
<1>2. UNCHANGED <<attached, ports, inbox, outbox, scenario, tab, rows, rowCount, toast, upload, calls,
                  excused, chains>>
  BY DEF JobActs, ServerMay, workerVars, pageVars, e2eVars
<1>3. TabsKept
  BY <1>1, <1>2 DEF TabsKept, TabsFit
<1>4. \A x \in Tabs : CountKept(x)
  BY <1>2 DEF CountKept, Alive
<1>5. ASSUME NEW g \in Files, Live(g)' <=> Live(g), Off(g)' <=> Off(g), file'[g] = "none" => file[g] = "none"
      PROVE  Untouched(g)
  <2>1. FewerActs(g) /\ QueuesKept(g) /\ ExcusedAsBefore(g)
    BY <1>2, ActsKept, QueuesAlike DEF Acts, ExcusedAsBefore
  <2>2. \A x \in Tabs : SameRow(x, g)
    <3> SUFFICES ASSUME NEW x \in Tabs PROVE SameRow(x, g)
      OBVIOUS
    <3>1. rows'[x][g] = rows[x][g]
      BY <1>2
    <3> QED BY <3>1, RowsKept
  <2> QED BY <1>2, <1>5, <2>1, <2>2 DEF Untouched, Told, Alive
<1>6. CASE UNCHANGED file
  BY <1>2, <1>3, <1>4, <1>5, <1>6, AllKept DEF Live, Off
<1>7. ASSUME NEW f \in Files, job[f] = "save", file' = [file EXCEPT ![f] = "live"] PROVE TableInv'
  <2>1. file'[f] = "live" /\ \A g \in Files : g # f => file'[g] = file[g]
    BY <1>1, <1>7
  <2>2. FileTrue(f)'
    BY <1>1, <1>2, <1>7, <2>1, FileComes
  <2>3. \A g \in Files : g # f => Untouched(g)
    BY <1>5, <2>1 DEF Live, Off
  <2> QED BY <1>2, <1>3, <1>4, <2>2, <2>3, AllKept
<1>8. ASSUME NEW f \in Files, ScheduledDeletion(f) PROVE TableInv'
  <2>1. /\ \A g \in Files : g # f => file'[g] = file[g]
        /\ file[f] \in {"pending", "expired"} /\ file'[f] \in {"expired", "gone"}
    BY <1>1, <1>8 DEF ScheduledDeletion
  <2>2. \A g \in Files : /\ Live(g)' <=> Live(g)
                         /\ Off(g)' <=> Off(g)
                         /\ file'[g] = "none" => file[g] = "none"
    BY <2>1 DEF Live, Off
  <2> QED BY <1>2, <1>3, <1>4, <1>5, <2>2, AllKept
<1> QED BY <1>6, <1>7, <1>8 DEF JobActs, JobStep, ServerMay, JobFails

-----------------------------------------------------------------------------
(* The worker takes a message from a tab, and gives it to others. *)

LEMMA Forwarded ==
  ASSUME WorkerTypeOK, NEW receivers, NEW m \in ToTab, broadcastTo(receivers, m)
  PROVE  /\ \A x \in Tabs : /\ inbox[x] \in Seq(ToTab)
                            /\ x \in receivers \cap attached => inbox'[x] = Append(inbox[x], m)
                            /\ x \notin receivers \cap attached => inbox'[x] = inbox[x]
         /\ \A f : ~IsAbout(m, f) => \A x \in Tabs : SaysAs(inbox'[x], inbox[x], f)
<1>1. \A x \in Tabs : /\ inbox[x] \in Seq(ToTab)
                      /\ x \in receivers \cap attached => inbox'[x] = Append(inbox[x], m)
                      /\ x \notin receivers \cap attached => inbox'[x] = inbox[x]
  BY DEF WorkerTypeOK, broadcastTo
<1>2. ASSUME NEW f, ~IsAbout(m, f), NEW x \in Tabs PROVE SaysAs(inbox'[x], inbox[x], f)
  <2>1. SaysAs(Append(inbox[x], m), inbox[x], f)
    BY <1>1, <1>2, AppendOther
  <2> QED BY <1>1, <1>2, <2>1, SaysTheSame
<1> QED BY <1>1, <1>2

LEMMA Heard ==
  ASSUME WorkerTypeOK, NEW t \in Tabs, outbox[t] # <<>>, outbox' = [outbox EXCEPT ![t] = Tail(@)]
  PROVE  /\ outbox[t] \in Seq(ToWorker) /\ Head(outbox[t]) \in ToWorker
         /\ outbox'[t] = Tail(outbox[t]) /\ \A y \in Tabs : y # t => outbox'[y] = outbox[y]
         /\ \A f : ~IsAbout(Head(outbox[t]), f) => \A y \in Tabs : SaysAs(outbox'[y], outbox[y], f)
<1>1. /\ outbox[t] \in Seq(ToWorker) /\ Head(outbox[t]) \in ToWorker
      /\ outbox'[t] = Tail(outbox[t]) /\ \A y \in Tabs : y # t => outbox'[y] = outbox[y]
  <2>1. outbox[t] \in Seq(ToWorker)
    BY DEF WorkerTypeOK
  <2> QED BY <2>1, HeadAndTail DEF WorkerTypeOK
<1>2. ASSUME NEW f, ~IsAbout(Head(outbox[t]), f), NEW y \in Tabs PROVE SaysAs(outbox'[y], outbox[y], f)
  <2>1. SaysAs(Tail(outbox[t]), outbox[t], f)
    BY <1>1, <1>2, TailOther
  <2> QED BY <1>1, <2>1, SaysTheSame
<1> QED BY <1>1, <1>2

(* The tab that has posted the notice is not told. *)
LEMMA ReaderHears ==
  ASSUME NEW t \in Tabs, NEW f \in Files, NEW x \in Tabs, x # t, TabFits(x, f), PostsFit(f),
         \A y \in Tabs : y # t => Silent(outbox[y], f) /\ outbox'[y] = outbox[y],
         NEW m, IsAbout(m, f), m = Head(outbox[t]), m.notice.type \in {"fileAdded", "fileDeleted"},
         outbox[t] \in Seq(ToWorker), outbox[t] # <<>>, outbox'[t] = Tail(outbox[t]),
         inbox[x] \in Seq(ToTab), Alive(x) => inbox'[x] = Append(inbox[x], m),
         UNCHANGED <<tab, rows>>, <<x, f>> \in excused => <<x, f>> \in excused', Word(f)' = Word(f)
  PROVE  TabFits(x, f)'
<1> SUFFICES ASSUME <<x, f>> \notin excused'
             PROVE  OneRow(x, f)' /\ (Alive(x)' => NoticesFit(x, f)' /\ RowFits(x, f)')
  BY DEF TabFits
<1>1. OneRow(x, f)' /\ (Dying(x, f)' <=> Dying(x, f)) /\ (Alive(x)' <=> Alive(x))
  BY DEF TabFits, OneRow, Dying, Alive
<1> SUFFICES ASSUME Alive(x) PROVE NoticesFit(x, f)' /\ RowFits(x, f)'
  BY <1>1
<1>2. NoticesFit(x, f)
  BY DEF TabFits
<1> DEFINE type == m.notice.type
<1>3. /\ LastIs(outbox[t], f, Word(f)) =>
           IF Silent(outbox'[t], f) THEN type = Word(f) ELSE LastIs(outbox'[t], f, Word(f))
      /\ type = "fileDeleted" => DeletesFirst(outbox[t], f)
      /\ Alternates(outbox[t], f) => (type = "fileDeleted" => ~DeletesFirst(outbox'[t], f))
      /\ ~Silent(outbox[t], f)
  BY TailAbout
<1>4. inbox'[x] = Append(inbox[x], m)
  OBVIOUS
<1>5. /\ ~Silent(inbox'[x], f) /\ LastIs(inbox'[x], f, type)
      /\ DeletesFirst(inbox'[x], f) =>
           DeletesFirst(inbox[x], f) \/ (Silent(inbox[x], f) /\ type = "fileDeleted")
      /\ /\ Alternates(inbox[x], f)
         /\ type # "fileDeleted" \/ Silent(inbox[x], f) \/ LastIs(inbox[x], f, "fileAdded")
         => Alternates(inbox'[x], f)
  BY <1>4, AppendAbout
<1> HIDE DEF type
<1>6. type = "fileDeleted" => LastIs(inbox[x], f, "fileAdded") \/ (Silent(inbox[x], f) /\ ~Dying(x, f))
  BY <1>2, <1>3 DEF NoticesFit
<1>7. NoticesFit(x, f)'
  <2>1. Alternates(inbox'[x], f)
    BY <1>2, <1>5, <1>6 DEF NoticesFit
  <2>2. DeletesFirst(inbox'[x], f) => ~Dying(x, f)'
    BY <1>1, <1>2, <1>5, <1>6, SilentQueue DEF NoticesFit
  <2>3. ASSUME NEW y \in Tabs, y # x, DeletesFirst(outbox'[y], f) PROVE LastIs(inbox'[x], f, "fileAdded")
    <3>1. y = t
      BY <2>3, SilentQueue
    <3>2. type # "fileDeleted"
      BY <1>3, <2>3, <3>1 DEF PostsFit
    <3> QED BY <1>5, <3>2 DEF type
  <2> QED BY <2>1, <2>2, <2>3 DEF NoticesFit
<1>8. RowFits(x, f)'
  <2> SUFFICES ASSUME \A y \in Tabs : y # x => Silent(outbox'[y], f)
               PROVE  LastIs(inbox'[x], f, Word(f)')
    BY <1>5 DEF RowFits
  <2>1. LastIs(outbox[t], f, Word(f))
    BY <1>3 DEF PostsFit
  <2> QED BY <1>3, <1>5, <2>1
<1> QED BY <1>7, <1>8

LEMMA FileForwarded ==
  ASSUME PageParts, WorkerTypeOK, TabsFit, NEW f \in Files, FileTrue(f), NEW t \in Tabs, outbox[t] # <<>>,
         outbox' = [outbox EXCEPT ![t] = Tail(@)],
         NEW m, m = Head(outbox[t]), m.type = "notice", m.notice.file = f,
         broadcastExcept(m, t), excused' = excused \cup Missed(t),
         UNCHANGED <<file, tab, rows, toast, upload, calls, chains>>
  PROVE  FileTrue(f)'
<1>1. /\ outbox[t] \in Seq(ToWorker) /\ m \in ToWorker
      /\ outbox'[t] = Tail(outbox[t]) /\ \A y \in Tabs : y # t => outbox'[y] = outbox[y]
  BY Heard
<1>2. m \in ToTab /\ m.notice.type \in {"fileAdded", "fileDeleted"} /\ IsAbout(m, f)
  <2>1. m \in ToTab
    BY <1>1, Messages
  <2> QED BY <2>1, MessageKinds, PageAssumption DEF IsAbout
<1>3. \A x \in Tabs : /\ inbox[x] \in Seq(ToTab)
                      /\ x \in (ports \ {t}) \cap attached => inbox'[x] = Append(inbox[x], m)
                      /\ x \notin (ports \ {t}) \cap attached => inbox'[x] = inbox[x]
  BY <1>2, Forwarded DEF broadcastExcept
<1>4. inbox'[t] = inbox[t]
  BY <1>3
<1>5. ~Silent(outbox[t], f)
  BY <1>1, <1>2, TailAbout
<1>6. file[f] # "none"
  BY <1>5 DEF FileTrue, Blank
<1>7. Blank(f)'
  BY <1>6 DEF Blank
<1>8. \A x \in Tabs : <<x, f>> \in excused' <=> <<x, f>> \in excused \/ (x \notin ports /\ Alive(x) /\ x # t)
  BY DEF Missed
<1>9. Acts(f)' = Acts(f) /\ (Announced(f)' <=> Announced(f)) /\ Word(f)' = Word(f)
  BY DEF Acts, Announced, Done, Live, Word
<1>10. ASSUME Tracked(f)
       PROVE  /\ TrackedFits(f) /\ Silent(inbox[t], f)
              /\ \A y \in Tabs : y # t => Silent(outbox[y], f) /\ outbox'[y] = outbox[y]
              /\ \A c \in Acts(f) : c.tab = t
  <2>1. TrackedFits(f)
    BY <1>10 DEF FileTrue
  <2>2. \A c \in Acts(f) : c.tab \in Tabs
    BY DEF Acts, PageParts, Calls
  <2> QED BY <1>1, <1>5, <2>1, <2>2 DEF TrackedFits, OneActor
<1>11. ASSUME Tracked(f)' PROVE TrackedFits(f)'
  <2>1. Tracked(f)
    BY <1>8, <1>11 DEF Tracked
  <2>2. /\ TrackedFits(f) /\ Silent(inbox[t], f)
        /\ \A y \in Tabs : y # t => Silent(outbox[y], f) /\ outbox'[y] = outbox[y]
        /\ \A c \in Acts(f) : c.tab = t
    BY <1>10, <2>1
  <2>3. OneActor(f)'
    <3>1. \A c, d \in Acts(f)' : c = d
      BY <1>9, <2>2 DEF TrackedFits, OneActor
    <3>2. \A y \in Tabs : y # t => Silent(outbox'[y], f)
      BY <2>2
    <3>3. Silent(inbox'[t], f)
      BY <1>4, <2>2
    <3>4. \A c \in Acts(f)' : Silent(inbox'[c.tab], f) /\ \A y \in Tabs : y # c.tab => Silent(outbox'[y], f)
      BY <1>9, <2>2, <3>2, <3>3
    <3>5. \A y, z \in Tabs : Silent(outbox'[y], f) \/ Silent(outbox'[z], f) \/ y = z
      BY <3>2
    <3>6. \A y \in Tabs : Silent(outbox'[y], f) \/ Silent(inbox'[y], f)
      BY <3>2, <3>3
    <3> QED BY <3>1, <3>4, <3>5, <3>6 DEF OneActor
  <2>4. \A c \in Acts(f)' : ActFits(c, f)'
    <3> SUFFICES ASSUME NEW c \in Acts(f) PROVE ActFits(c, f)'
      BY <1>9
    <3>1. ActFits(c, f) /\ c.tab = t
      BY <2>2 DEF TrackedFits
    <3>2. <<c.tab, f>> \in excused' <=> <<c.tab, f>> \in excused
      BY <1>8, <3>1
    <3> QED BY <3>1, <3>2 DEF ActFits, Shown, Live, Off
  <2>5. ToastFits(f)'
    BY <2>2 DEF TrackedFits, ToastFits, Off
  <2>6. PostsFit(f)'
    <3>1. Alternates(outbox'[t], f) /\ (Silent(outbox'[t], f) \/ LastIs(outbox'[t], f, Word(f)))
      BY <1>1, <1>2, <1>5, <2>2, TailAbout DEF TrackedFits, PostsFit
    <3> QED BY <1>9, <2>2, <3>1 DEF TrackedFits, PostsFit
  <2> QED BY <2>3, <2>4, <2>5, <2>6 DEF TrackedFits
<1>12. TabFits(t, f)'
  <2>1. CASE <<t, f>> \in excused
    BY <1>8, <2>1 DEF TabFits
  <2>2. CASE <<t, f>> \notin excused
    <3>1. Tracked(f)
      BY <2>2 DEF Tracked
    <3>2. \A y \in Tabs : y # t => SaysAs(outbox'[y], outbox[y], f)
      BY <1>10, <3>1, SaysTheSame
    <3>3. SaysAs(inbox'[t], inbox[t], f) /\ SameRow(t, f) /\ TabFits(t, f)
      BY <1>4, SaysTheSame, RowsKept DEF FileTrue
    <3>4. SameTruth(f)
      BY <1>9 DEF SameTruth, Live, Told
    <3> QED BY <1>8, <3>2, <3>3, <3>4, TabKept DEF Alive
  <2> QED BY <2>1, <2>2
<1>13. ASSUME NEW x \in Tabs, x # t PROVE TabFits(x, f)'
  <2>1. CASE <<x, f>> \in excused'
    BY <2>1 DEF TabFits
  <2>2. CASE <<x, f>> \notin excused'
    <3>1. <<x, f>> \notin excused /\ (Alive(x) => x \in ports)
      BY <1>8, <1>13, <2>2
    <3>2. Tracked(f)
      BY <3>1 DEF Tracked
    <3>3. Alive(x) => inbox'[x] = Append(inbox[x], m)
      <4>1. Alive(x) => x \in attached
        BY <3>1 DEF TabsFit, Alive
      <4> QED BY <1>3, <1>13, <3>1, <4>1
    <3>4. TabFits(x, f) /\ PostsFit(f)
      BY <1>10, <3>2 DEF FileTrue, TrackedFits
    <3> QED BY <1>1, <1>2, <1>3, <1>9, <1>10, <1>13, <3>1, <3>2, <3>3, <3>4, ReaderHears
  <2> QED BY <2>1, <2>2
<1>14. \A x \in Tabs : TabFits(x, f)'
  BY <1>12, <1>13
<1> QED BY <1>7, <1>11, <1>14 DEF FileTrue

LEMMA TableOfPost ==
  ASSUME Shared, NEW t \in Tabs, onmessage(t), excused' = excused \cup Missed(t),
         UNCHANGED <<file, scenario, tab, rows, rowCount, toast, upload, calls, chains>>
  PROVE  TableInv'
<1> PICK m : m = Head(outbox[t])
  OBVIOUS
<1>1. PageParts /\ TabsFit /\ WorkerTypeOK /\ \A g \in Files : FileTrue(g)
  BY SharedParts
<1>2. outbox[t] # <<>> /\ outbox' = [outbox EXCEPT ![t] = Tail(@)] /\ UNCHANGED attached
  BY DEF onmessage
<1>3. /\ m \in ToWorker /\ \A y \in Tabs : y # t => outbox'[y] = outbox[y]
      /\ \A f : ~IsAbout(m, f) => \A y \in Tabs : SaysAs(outbox'[y], outbox[y], f)
  BY <1>1, <1>2, Heard
<1>4. \/ m.type = "connect" /\ onconnect(t)
      \/ m.type = "shutdown" /\ shutdown(t)
      \/ m.type = "notice" /\ broadcastExcept(m, t) /\ UNCHANGED ports
  BY DEF onmessage
<1>5. tab[t] \notin {"none", "rendered"}
  BY <1>1, <1>2 DEF TabsFit
<1>6. m.type # "notice" => excused' = excused
  BY DEF Missed
<1>7. ASSUME \A x \in Tabs : x \notin attached => inbox'[x] = inbox[x], ports' \subseteq ports \cup {t}
      PROVE  TabsKept
  BY <1>1, <1>2, <1>3, <1>5, <1>7 DEF TabsKept, TabsFit
<1>8. ASSUME NEW f \in Files, ~IsAbout(m, f), \A x \in Tabs : SaysAs(inbox'[x], inbox[x], f)
      PROVE  Untouched(f)
  <2>1. QueuesKept(f)
    BY <1>3, <1>8 DEF QueuesKept
  <2>2. FewerActs(f) /\ (Told(f)' => Told(f))
    BY ActsKept DEF Acts, Told
  <2>3. ExcusedAsBefore(f)
    BY <1>8 DEF ExcusedAsBefore, Missed, IsAbout
  <2> QED BY <2>1, <2>2, <2>3, NotConcerned DEF Alive
<1>9. \A x \in Tabs : CountKept(x)
  BY DEF CountKept, Alive
<1>10. CASE m.type = "connect" /\ onconnect(t)
  <2>1. UNCHANGED inbox /\ ports' = ports \cup {t}
    BY <1>10 DEF onconnect
  <2>2. \A f \in Files : Untouched(f)
    BY <1>8, <1>10, <2>1, SaysTheSame DEF IsAbout
  <2> QED BY <1>7, <1>9, <2>1, <2>2, AllKept
<1>11. CASE m.type = "shutdown" /\ shutdown(t)
  <2>1. broadcastTo(ports \ {t}, Shutdown) /\ ports' = {}
    BY <1>11 DEF shutdown, broadcastExcept
  <2>2. /\ \A x \in Tabs : x \notin attached => inbox'[x] = inbox[x]
        /\ \A f : ~IsAbout(Shutdown, f) => \A x \in Tabs : SaysAs(inbox'[x], inbox[x], f)
    BY <1>1, <2>1, Forwarded, Messages
  <2>3. \A f \in Files : Untouched(f)
    BY <1>8, <1>11, <2>2 DEF IsAbout, Shutdown
  <2> QED BY <1>7, <1>9, <2>1, <2>2, <2>3, AllKept
<1>12. CASE m.type = "notice" /\ broadcastExcept(m, t) /\ UNCHANGED ports
  <2>1. m \in ToTab /\ m.notice.file \in Files
    BY <1>3, <1>12, Messages, MessageKinds
  <2>2. /\ \A x \in Tabs : x \notin attached => inbox'[x] = inbox[x]
        /\ \A f : ~IsAbout(m, f) => \A x \in Tabs : SaysAs(inbox'[x], inbox[x], f)
    BY <1>1, <1>12, <2>1, Forwarded DEF broadcastExcept
  <2>3. ASSUME NEW f \in Files PROVE Untouched(f) \/ FileTrue(f)'
    <3>1. CASE f # m.notice.file
      BY <1>8, <2>2, <3>1 DEF IsAbout
    <3>2. CASE f = m.notice.file
      BY <1>1, <1>2, <1>12, <3>2, FileForwarded
    <3> QED BY <3>1, <3>2
  <2> QED BY <1>7, <1>9, <1>12, <2>2, <2>3, AllKept
<1> QED BY <1>4, <1>10, <1>11, <1>12

(* Steps that neither tables nor queues notice *)
LEMMA TableElsewhere ==
  ASSUME Shared, ports' \subseteq ports,
         UNCHANGED <<attached, inbox, outbox, file, scenario, tab, rows, rowCount, toast, calls, excused>>,
         \A f \in Files : Told(f)' => Told(f)
  PROVE  TableInv'
<1>1. TabsKept
  BY SharedParts DEF TabsKept, TabsFit
<1>2. \A f \in Files : Acts(f)' = Acts(f) /\ QueuesKept(f)
  BY QueuesAlike DEF Acts
<1> QED BY <1>1, <1>2, TableSame

LEMMA TableOfStream ==
  ASSUME Shared, UNCHANGED e2eVars,
         \/ StreamStep \/ StreamOpens \/ StreamSends
         \/ \E event \in publishers : Publishes(event)
  PROVE  TableInv'
<1>1. UNCHANGED <<file, scenario, tab, rows, rowCount, toast, upload, calls, chains>>
  BY DEF StreamStep, WorkerHears, WorkerReconnects, StreamBreaks, ConnectionEnds, Publishes,
         StreamOpens, StreamSends, StreamFollows, removeListener, PublishNewStatus,
         addListener, ReadSaved, Written, statusVars, pageVars, e2eVars
<1>2. ASSUME NEW t \in Tabs, onmessage(t), excused' = excused \cup Missed(t) PROVE TableInv'
  BY <1>1, <1>2, TableOfPost
<1>3. CASE ports' \subseteq ports /\ UNCHANGED <<attached, inbox, outbox, excused>>
  BY <1>1, <1>3, TableElsewhere DEF Told
<1>4. ASSUME StreamSends PROVE TableInv'
  <2>1. WorkerTypeOK /\ TabsFit
    BY SharedParts
  <2>2. /\ Head(Pending) \in Statuses /\ broadcastTo(ports, Status(Head(Pending)))
        /\ UNCHANGED <<attached, ports, outbox, excused>>
    BY <1>4, WrittenType, PageAssumption
       DEF StreamSends, StreamMessage, broadcast, pageVars, Shared, SystemInv, PageSound
  <2>3. PICK m \in ToTab : m = Status(Head(Pending))
    BY <2>2, Messages
  <2>4. \A f : ~IsAbout(m, f)
    BY <2>3 DEF IsAbout, Status
  <2>5. /\ \A x \in Tabs : x \notin attached => inbox'[x] = inbox[x]
        /\ \A f : \A x \in Tabs : SaysAs(inbox'[x], inbox[x], f)
    BY <2>1, <2>2, <2>3, <2>4, Forwarded
  <2>6. TabsKept
    BY <1>1, <2>1, <2>2, <2>5 DEF TabsKept, TabsFit
  <2>7. \A f \in Files : Acts(f)' = Acts(f) /\ QueuesKept(f) /\ (Told(f)' => Told(f))
    BY <1>1, <2>2, <2>5, SaysTheSame DEF Acts, QueuesKept, Told
  <2> QED BY <1>1, <2>2, <2>6, <2>7, TableSame
<1>5. \/ \E t \in Tabs : onmessage(t) /\ excused' = excused \cup Missed(t)
      \/ ports' \subseteq ports /\ UNCHANGED <<attached, inbox, outbox, excused>>
      \/ StreamSends
  <2>1. ASSUME NEW t \in Tabs, WorkerHears(t)
        PROVE  \/ onmessage(t) /\ excused' = excused \cup Missed(t)
               \/ ports' \subseteq ports /\ UNCHANGED <<attached, inbox, outbox, excused>>
    BY <2>1 DEF WorkerHears, removePort
  <2>2. CASE WorkerReconnects \/ StreamBreaks \/ ConnectionEnds
    BY <2>2 DEF WorkerReconnects, StreamBreaks, ConnectionEnds, Reconnect, onerror, pageVars
  <2>3. CASE StreamOpens \/ \E event \in publishers : Publishes(event)
    BY <2>3 DEF StreamOpens, Publishes, workerVars, pageVars
  <2> QED BY <2>1, <2>2, <2>3 DEF StreamStep
<1> QED BY <1>2, <1>3, <1>4, <1>5

-----------------------------------------------------------------------------
(* The chains of encrypted uploads: a bar goes away once the others have     *)
(* been told.                                                                *)
LEMMA TableOfChain ==
  ASSUME Shared, \/ (\E k \in chains : ChainStep(k)) \/ E2eMay
                 \/ (\E f \in Files : EncryptNew(f)) \/ \E t \in Tabs : checkIfE2EKeyIsSet(t)
  PROVE  TableInv'
<1>1. UNCHANGED <<attached, ports, inbox, outbox, file, scenario, tab, rows, rowCount, toast, calls, excused>>
  BY DEF ChainStep, E2eMay, ChainFails, LockExpires, EncryptNew, checkIfE2EKeyIsSet, workerVars,
         statusVars, pageVars
<1>2. upload \in [Files -> Bars] /\ chains \subseteq Chains
  BY SharedParts DEF PageParts
<1>3. ASSUME NEW k \in chains, ChainStep(k) \/ ChainFails(k), NEW f \in Files, Told(f)' PROVE Told(f)
  <2>1. SUFFICES ASSUME k.file # f PROVE Told(f)
    BY DEF Told
  <2>2. \A l \in chains' : l \in chains \/ l.file = k.file
    <3>1. CASE chains' = chains \ {k}
      BY <3>1
    <3>2. ASSUME NEW at, NEW keys, Goto(k, at, keys)
          PROVE  \A l \in chains' : l \in chains \/ l.file = k.file
      <4>1. chains' = (chains \ {k}) \cup {[k EXCEPT !.at = at, !.keys = keys]}
        BY <3>2 DEF Goto
      <4>2. [k EXCEPT !.at = at, !.keys = keys].file = k.file
        BY <1>2 DEF Chains
      <4> QED BY <4>1, <4>2
    <3>3. (\E at, keys : Goto(k, at, keys)) \/ chains' = chains \ {k}
      BY <1>3 DEF ChainStep, ChainFails, apiE2eMutexLock, apiE2eGet, InfoParse, apiE2eStore, Stored,
                  apiE2eMutexUnlock, Throws
    <3> QED BY <3>1, <3>2, <3>3
  <2>3. upload'[f] = upload[f]
    <3>1. CASE UNCHANGED upload \/ ShowError(k.file) \/ upload' = [upload EXCEPT ![k.file] = "removed"]
      BY <1>2, <2>1, <3>1 DEF ShowError
    <3> QED BY <1>3, <3>1 DEF ChainStep, ChainFails, apiE2eMutexLock, apiE2eGet, InfoParse, apiE2eStore,
                  Stored, apiE2eMutexUnlock, Throws
  <2> QED BY <1>3, <2>2, <2>3 DEF Told
<1>4. CASE \E t \in Tabs : checkIfE2EKeyIsSet(t)
  <2>1. PICK t \in Tabs : chains' = chains \cup {NewChain(t, NoFile)} /\ UNCHANGED upload
    BY <1>4 DEF checkIfE2EKeyIsSet, pageVars
  <2>2. \A k \in chains' : k \in chains \/ k.file = NoFile
    BY <2>1 DEF NewChain
  <2>3. \A f \in Files : Told(f)' => Told(f)
    BY <2>1, <2>2, PageAssumption DEF Told
  <2> QED BY <1>1, <2>3, TableElsewhere
<1>5. CASE LockExpires \/ \E f \in Files : EncryptNew(f)
  <2>1. UNCHANGED <<upload, chains>>
    BY <1>5 DEF LockExpires, EncryptNew, pageVars
  <2> QED BY <1>1, <2>1, TableElsewhere DEF Told
<1>6. ASSUME NEW k \in chains, ChainStep(k) \/ ChainFails(k) PROVE TableInv'
  BY <1>1, <1>3, <1>6, TableElsewhere
<1> QED BY <1>4, <1>5, <1>6 DEF E2eMay

-----------------------------------------------------------------------------
(* Without SharedWorker the worker hears of no tab. *)

LEMMA NoneConnects ==
  ASSUME WorkerTypeOK, NoWorker, ports' \subseteq ports,
         \A t \in Tabs : \/ outbox'[t] = outbox[t] \/ outbox'[t] = Append(outbox[t], Shutdown)
                         \/ outbox[t] # <<>> /\ outbox'[t] = Tail(outbox[t])
  PROVE  NoWorker'
<1>1. ports' = {}
  BY DEF NoWorker
<1>2. ASSUME NEW t \in Tabs, NEW i \in DOMAIN outbox'[t] PROVE outbox'[t][i].type # "connect"
  <2>1. outbox[t] \in Seq(ToWorker) /\ \A j \in DOMAIN outbox[t] : outbox[t][j].type # "connect"
    BY DEF NoWorker, WorkerTypeOK
  <2>2. CASE outbox'[t] = outbox[t]
    BY <1>2, <2>1, <2>2
  <2>3. CASE outbox'[t] = Append(outbox[t], Shutdown)
    <3>1. /\ DOMAIN outbox'[t] = 1..Len(outbox[t]) + 1 /\ DOMAIN outbox[t] = 1..Len(outbox[t])
          /\ Len(outbox[t]) \in Nat
          /\ \A j \in 1..Len(outbox[t]) : outbox'[t][j] = outbox[t][j]
          /\ outbox'[t][Len(outbox[t]) + 1] = Shutdown
      BY <2>1, <2>3, AppendIndex
    <3>2. i \in 1..Len(outbox[t]) \/ i = Len(outbox[t]) + 1
      BY <1>2, <3>1
    <3> QED BY <2>1, <3>1, <3>2 DEF Shutdown
  <2>4. CASE outbox[t] # <<>> /\ outbox'[t] = Tail(outbox[t])
    <3>1. /\ DOMAIN outbox[t] = 1..Len(outbox[t]) /\ DOMAIN outbox'[t] = 1..Len(outbox[t]) - 1
          /\ Len(outbox[t]) \in Nat
          /\ \A j \in 1..Len(outbox[t]) - 1 : outbox'[t][j] = outbox[t][j + 1]
      BY <2>1, <2>4, TailIndex
    <3>2. i + 1 \in DOMAIN outbox[t] /\ outbox'[t][i] = outbox[t][i + 1]
      BY <1>2, <3>1
    <3> QED BY <2>1, <3>2
  <2> QED BY <2>2, <2>3, <2>4
<1> QED BY <1>1, <1>2 DEF NoWorker

LEMMA SamePorts == NoWorker /\ UNCHANGED <<ports, outbox>> => NoWorker'
  BY DEF NoWorker

LEMMA NoWorkerNext ==
  ASSUME SystemInv, NoWorker, ~Now.shared, PageNext
  PROVE  NoWorker'
<1>1. WorkerTypeOK
  BY DEF SystemInv, PageSound, WorkerInv
<1>2. ASSUME NEW t \in Tabs, TabStep(t) PROVE NoWorker'
  <2>1. CASE \/ registerChangeHandler(t) \/ GoToLogin(t) \/ TabReceives(t) \/ DirectMessage(t)
             \/ \E f \in Files : RowRemoved(t, f)
    <3>1. UNCHANGED <<ports, outbox>>
      BY <2>1 DEF registerChangeHandler, GoToLogin, Detach, TabReceives, Receive, DirectMessage,
                  RowRemoved, workerVars
    <3> QED BY <3>1, SamePorts
  <2>2. ASSUME NEW c \in calls, AnswerAnd(c) PROVE NoWorker'
    <3>1. UNCHANGED <<ports, outbox>>
      BY <2>2 DEF AnswerAnd, Answer, CompleteAnswered, requestFileInfo, InfoRefused, DeleteAnswered,
                  RestoreAnswered, ChangeRefused, notifyWorker, workerVars
    <3> QED BY <3>1, SamePorts
  <2>3. CASE checkIfE2EKeyIsSet(t)
    BY <2>3, SamePorts DEF checkIfE2EKeyIsSet, workerVars
  <2> QED BY <1>2, <2>1, <2>2, <2>3 DEF TabStep
<1>3. ASSUME NEW f \in Files, SendStep(f) PROVE NoWorker'
  BY <1>3, SamePorts DEF SendStep, sendChunkComplete, EncryptNew, uploadChunk, workerVars
<1>4. ASSUME UserStep PROVE NoWorker'
  <2>1. ASSUME NEW t \in Tabs, doLogout(t) PROVE NoWorker'
    <3>1. /\ UNCHANGED ports
          /\ \A x \in Tabs : outbox'[x] = outbox[x] \/ outbox'[x] = Append(outbox[x], Shutdown)
      BY <1>1, <2>1 DEF doLogout, WorkerTypeOK
    <3> QED BY <1>1, <3>1, NoneConnects
  <2>2. ASSUME NEW t \in Tabs, Load(t) \/ Close(t) \/ handleUndo(t) \/ \E f \in Files : deleteFile(t, f)
        PROVE  NoWorker'
    <3>1. UNCHANGED <<ports, outbox>>
      BY <2>2 DEF Load, Close, Detach, handleUndo, deleteFile, workerVars
    <3> QED BY <3>1, SamePorts
  <2>3. ASSUME NEW f \in Files, addFileProgress(f) \/ ChunkFails(f) PROVE NoWorker'
    BY <2>3, SamePorts DEF addFileProgress, ChunkFails, workerVars
  <2> QED BY <1>4, <2>1, <2>2, <2>3 DEF UserStep
<1>5. ASSUME NEW t \in Tabs, WorkerHears(t) PROVE NoWorker'
  <2>1. CASE removePort(t)
    BY <2>1 DEF removePort, NoWorker
  <2>2. CASE onmessage(t)
    <3>1. /\ outbox[t] # <<>> /\ outbox'[t] = Tail(outbox[t])
          /\ \A x \in Tabs : x # t => outbox'[x] = outbox[x]
      BY <1>1, <2>2, Heard DEF onmessage
    <3>2. Head(outbox[t]).type # "connect"
      <4>1. 1 \in DOMAIN outbox[t] /\ Head(outbox[t]) = outbox[t][1]
        BY <1>1, <3>1, TailIndex DEF WorkerTypeOK
      <4> QED BY <4>1 DEF NoWorker
    <3>3. ports' \subseteq ports
      BY <2>2, <3>2 DEF onmessage, shutdown
    <3> QED BY <1>1, <3>1, <3>3, NoneConnects
  <2> QED BY <1>5, <2>1, <2>2 DEF WorkerHears
<1>6. ASSUME WorkerReconnects \/ StreamBreaks \/ ConnectionEnds \/ ServerStep \/ ServerMay PROVE NoWorker'
  <2>1. UNCHANGED <<ports, outbox>>
    BY <1>6 DEF WorkerReconnects, StreamBreaks, ConnectionEnds, Reconnect, onerror, ServerStep, ServerMay,
                JobActs, Publishes, StreamOpens, StreamSends, StreamMessage, workerVars
  <2> QED BY <2>1, SamePorts
<1>7. ASSUME NEW c \in calls, Handle(c) \/ ConnectionFails(c) PROVE NoWorker'
  BY <1>7, SamePorts DEF Handle, ConnectionFails, workerVars
<1>8. ASSUME (\E k \in chains : ChainStep(k)) \/ E2eMay PROVE NoWorker'
  BY <1>8, SamePorts DEF ChainStep, E2eMay, ChainFails, LockExpires, workerVars
<1> QED BY <1>2, <1>3, <1>4, <1>5, <1>6, <1>7, <1>8 DEF PageNext, StreamStep

-----------------------------------------------------------------------------
(* Every step of the page *)

LEMMA TableOfPage ==
  ASSUME Shared, PageNext
  PROVE  TableInv'
<1>1. ASSUME NEW t \in Tabs, TabStep(t) PROVE TableInv'
  <2>1. CASE UNCHANGED e2eVars /\ \/ registerChangeHandler(t) \/ GoToLogin(t) \/ TabReceives(t)
                                  \/ \E f \in Files : RowRemoved(t, f)
    BY <2>1, TableOfRegistering, TableOfClosing, TableOfMessage, TableOfTimer
  <2>2. ~DirectMessage(t)
    BY DEF DirectMessage, Shared
  <2>3. CASE checkIfE2EKeyIsSet(t)
    BY <2>3, TableOfChain
  <2> QED BY <1>1, <2>1, <2>2, <2>3, TableOfAnswer DEF TabStep
<1>2. ASSUME NEW f \in Files, SendStep(f) PROVE TableInv'
  <2>1. CASE EncryptNew(f)
    BY <2>1, TableOfChain
  <2> QED BY <1>2, <2>1, TableOfUpload DEF SendStep, uploadChunk, e2eVars
<1>3. ASSUME UserStep, UNCHANGED e2eVars PROVE TableInv'
  <2>1. UNCHANGED chains
    BY <1>3 DEF e2eVars
  <2>2. ASSUME NEW t \in Tabs, Load(t) \/ Close(t) \/ doLogout(t) \/ handleUndo(t) PROVE TableInv'
    BY <1>3, <2>1, <2>2, TableOfLoad, TableOfClosing, TableOfUndo
  <2>3. ASSUME NEW t \in Tabs, NEW f \in Files, deleteFile(t, f) PROVE TableInv'
    BY <2>1, <2>3, TableOfDelete
  <2>4. ASSUME NEW f \in Files, addFileProgress(f) \/ ChunkFails(f) PROVE TableInv'
    BY <2>1, <2>4, TableOfUpload
  <2> QED BY <1>3, <2>2, <2>3, <2>4 DEF UserStep
<1>4. ASSUME StreamStep \/ ServerStep \/ ServerMay, UNCHANGED e2eVars PROVE TableInv'
  BY <1>4, TableOfStream, TableOfServer DEF ServerStep
<1>5. ASSUME NEW c \in calls, Handle(c) \/ ConnectionFails(c), UNCHANGED e2eVars PROVE TableInv'
  BY <1>5, TableOfHandling, TableOfFailure
<1>6. ASSUME (\E k \in chains : ChainStep(k)) \/ E2eMay PROVE TableInv'
  BY <1>6, TableOfChain
<1> QED BY <1>1, <1>2, <1>3, <1>4, <1>5, <1>6 DEF PageNext

LEMMA SameScenario == PageNext => UNCHANGED scenario
<1> SUFFICES ASSUME PageNext PROVE UNCHANGED scenario
  OBVIOUS
<1>1. ASSUME NEW t \in Tabs, TabStep(t) PROVE UNCHANGED scenario
  BY <1>1 DEF TabStep, registerChangeHandler, GoToLogin, TabReceives, DirectMessage, RowRemoved, AnswerAnd,
              Answer, checkIfE2EKeyIsSet, pageVars
<1>2. ASSUME NEW f \in Files, SendStep(f) PROVE UNCHANGED scenario
  BY <1>2 DEF SendStep, sendChunkComplete, EncryptNew, uploadChunk, pageVars
<1>3. CASE UserStep
  BY <1>3 DEF UserStep, Load, Close, doLogout, handleUndo, deleteFile, addFileProgress, ChunkFails
<1>4. CASE StreamStep
  BY <1>4 DEF StreamStep, WorkerHears, WorkerReconnects, StreamBreaks, ConnectionEnds, pageVars
<1>5. CASE ServerStep \/ ServerMay
  BY <1>5 DEF ServerStep, ServerMay, JobActs, Publishes, StreamOpens, StreamSends, pageVars
<1>6. ASSUME NEW c \in calls, Handle(c) \/ ConnectionFails(c) PROVE UNCHANGED scenario
  BY <1>6 DEF Handle, ConnectionFails
<1>7. CASE (\E k \in chains : ChainStep(k)) \/ E2eMay
  BY <1>7 DEF ChainStep, E2eMay, ChainFails, LockExpires, pageVars
<1> QED BY <1>1, <1>2, <1>3, <1>4, <1>5, <1>6, <1>7 DEF PageNext

LEMMA TableInit == Init => TableInv
<1> SUFFICES ASSUME Init PROVE TableInv
  OBVIOUS
<1>1. /\ attached = {} /\ ports = {} /\ outbox = [t \in Tabs |-> <<>>] /\ inbox = [t \in Tabs |-> <<>>]
      /\ tab = [t \in Tabs |-> "none"] /\ rows = [t \in Tabs |-> [f \in Files |-> <<>>]]
      /\ rowCount = [t \in Tabs |-> -1] /\ toast = [t \in Tabs |-> NoFile] /\ calls = {}
      /\ \A f \in Files : upload[f] = "none" /\ file[f] \in {"none", "live"}
  BY DEF Init, WorkerInit, StatusInit, PageInit
<1>2. ASSUME NEW f \in Files PROVE FileTrue(f)
  <2>1. \A t \in Tabs : /\ outbox[t] = <<>> /\ inbox[t] = <<>> /\ rows[t][f] = <<>>
                        /\ toast[t] # f /\ ~Alive(t)
    BY <1>1, PageAssumption DEF Alive
  <2>2. \A t \in Tabs : Silent(outbox[t], f) /\ Silent(inbox[t], f)
    BY <2>1, EmptyQueue
  <2>3. Acts(f) = {}
    BY <1>1 DEF Acts
  <2>4. Blank(f) /\ OneActor(f) /\ ToastFits(f)
    BY <2>1, <2>2, <2>3 DEF Blank, OneActor, ToastFits
  <2>5. PostsFit(f)
    BY <2>2, SilentQueue DEF PostsFit
  <2>6. \A t \in Tabs : TabFits(t, f)
    BY <2>1 DEF TabFits, OneRow
  <2> QED BY <2>3, <2>4, <2>5, <2>6 DEF FileTrue, TrackedFits
<1>3. TabsFit
  BY <1>1 DEF TabsFit
<1>4. NoWorker
  BY <1>1 DEF NoWorker
<1>5. \A t \in Tabs : CountTrue(t)
  BY <1>1 DEF CountTrue, Alive
<1> QED BY <1>2, <1>3, <1>4, <1>5 DEF TableInv

LEMMA TableNext == SystemInv /\ KeysInv /\ TableInv /\ [Next]_vars => TableInv'
<1> SUFFICES ASSUME SystemInv, KeysInv, TableInv, [Next]_vars PROVE TableInv'
  OBVIOUS
<1>1. CASE PageNext /\ Now.shared
  BY <1>1, TableOfPage DEF Shared
<1>2. CASE PageNext /\ ~Now.shared
  <2>1. NoWorker'
    BY <1>2, NoWorkerNext DEF TableInv
  <2>2. Now' = Now
    <3>1. UNCHANGED scenario
      BY <1>2, SameScenario
    <3> QED BY <3>1 DEF Now
  <2> QED BY <1>2, <2>1, <2>2 DEF TableInv
<1>3. CASE UNCHANGED <<workerVars, statusVars, pageVars, e2eVars>>
  <2>1. UNCHANGED <<attached, ports, inbox, outbox, file, scenario, tab, rows, rowCount, toast, upload, calls,
                    excused, chains>>
    BY <1>3 DEF workerVars, statusVars, pageVars, e2eVars
  <2>2. CASE Now.shared
    BY <2>1, <2>2, TableElsewhere DEF Shared, Told
  <2>3. CASE ~Now.shared
    <3>1. NoWorker'
      BY <2>1, <2>3, SamePorts DEF TableInv
    <3> QED BY <2>1, <2>3, <3>1 DEF TableInv, Now
  <2> QED BY <2>2, <2>3
<1>4. PageNext \/ UNCHANGED <<workerVars, statusVars, pageVars, e2eVars>>
  BY DEF Next, vars
<1> QED BY <1>1, <1>2, <1>3, <1>4

(* Whatever several tabs upload, delete and restore, each that the worker    *)
(* knows lists a file once if the server has it, and not at all if it has    *)
(* not, when no notice of it is on its way; and the number in the foot of    *)
(* the table is that of its rows (addRow, changeRowCount, parseProgressStatus,*)
(* broadcastExcept), but for the races that UploadPage.tla names.            *)
THEOREM TableHolds == Spec => []TableTrue
<1> QED BY TableFollows, SystemInit, SystemNext, KeysInit, KeysNext, TableInit, TableNext, PTL DEF Spec
=============================================================================
