----------------------- MODULE FileRequestFiles_proofs ----------------------
(* What is stored for a file request (StoredFilesWhole and StoredOnce of     *)
(* FileRequests.tla, DoneIsStored of PublicUpload.tla) and what its owner    *)
(* sees of it (ListingConsistent of FileRequestPage.tla), for any number of  *)
(* guests, files and chunks.                                                 *)
EXTENDS FileRequests_proofs

Moved == {"save", "release", "done"}
Found == Moved \cup {"broken", "failed"}
Lost == {"missing", "missed"}
Transfers == {"add", "complete"}

(* An upload belongs to one entry of one page.  That is what the uuids are   *)
(* for: every one is handed out once, and a page that has got one but not    *)
(* looked at it yet is the only one to know it.                              *)
UuidsKnown ==
    /\ \A e \in Entries : entry[e].uuid <= issued
    /\ \A r \in wire : r.uuid <= issued
    /\ \A j \in DOMAIN jobs : jobs[j].uuid <= issued
EntriesApart ==
    \A e, f \in Entries : e # f /\ entry[e].uuid # NoUuid => entry[e].uuid # entry[f].uuid
New(u) ==
    /\ \A e \in Entries : entry[e].uuid # u
    /\ \A r \in wire : r.uuid # u
    /\ \A j \in DOMAIN jobs : jobs[j].uuid # u
AnswersNew ==
    \A p \in Clients : answer[p].uuid # NoUuid =>
        /\ loop[p].pc = "reserve" /\ answer[p].uuid <= issued /\ New(answer[p].uuid)
        /\ \A q \in Clients \ {p} : answer[q].uuid # answer[p].uuid

(* The request that a page waits for is about the chunk its loop is at, and  *)
(* an upload is not given back while chunks are sent.                        *)
RequestsFit ==
    \A r \in wire : r.waiting /\ r.kind \in Transfers =>
        /\ r.uuid = UuidOf(r.client)
        /\ r.kind = "add" => r.chunk = loop[r.client].chunk
ReturnsApart ==
    \A r \in wire : r.kind = "unreserve" =>
        \A p \in Clients : loop[p].pc = "add" => UuidOf(p) # r.uuid

NamesInv == UuidsKnown /\ EntriesApart /\ AnswersNew /\ RequestsFit /\ ReturnsApart

(* The page has asked for the completion of an upload, once or more. *)
Completing(u) ==
    \/ \E r \in wire : r.kind = "complete" /\ r.uuid = u
    \/ \E j \in DOMAIN jobs : jobs[j].uuid = u
    \/ \E p \in Clients : loop[p].pc = "complete" /\ UuidOf(p) = u

Has(u, c) == chunkFile[u] # NoFile /\ c \in chunkFile[u]

(* The chunks before the one that is sent have arrived, so that all have     *)
(* when the completion is asked for; from then on the chunk file is whole    *)
(* or gone, and the first job to take it away is the only one.               *)
ChunksSent ==
    \A p \in Clients : loop[p].pc = "add" =>
        /\ ~Completing(UuidOf(p))
        /\ \A c \in Chunks : c < loop[p].chunk => Has(UuidOf(p), c)
        /\ answer[p].status = 200 => Has(UuidOf(p), loop[p].chunk)
ChunksWhole ==
    \A u \in Uuids : Completing(u) /\ u \notin late => chunkFile[u] \in {NoFile, Chunks}
JobsWhole ==
    \A j \in DOMAIN jobs :
        /\ jobs[j].row # "none" => jobs[j].pc \in {"release", "done"}
        /\ jobs[j].uuid = NoUuid => jobs[j].pc \in Moved /\ jobs[j].content = Chunks
        /\ jobs[j].pc \in Moved /\ jobs[j].uuid \notin late \cup {NoUuid} =>
              jobs[j].content = Chunks /\ chunkFile[jobs[j].uuid] = NoFile
JobsApart ==
    \A j, k \in DOMAIN jobs :
        /\ j # k /\ jobs[j].uuid = jobs[k].uuid /\ jobs[j].uuid \notin late \cup {NoUuid}
        => jobs[j].pc \notin Moved \/ jobs[k].pc \notin Moved

FilesInv == ChunksSent /\ ChunksWhole /\ JobsWhole /\ JobsApart

(* An entry whose completion was asked for, as long as its user has not      *)
(* removed it: when the chunk file is gone, or a job has not found it, there *)
(* is one that has.                                                          *)
Ends(e) ==
    \/ entry[e].status = "completed"
    \/ loop[PageOf[e]].pc = "complete" /\ Current(PageOf[e]) = e
Taken(u) == \E j \in DOMAIN jobs : jobs[j].uuid = u /\ jobs[j].pc \in Found
Missed(u) == \E j \in DOMAIN jobs : jobs[j].uuid = u /\ jobs[j].pc \in Lost
Started(u) == \E j \in DOMAIN jobs : jobs[j].uuid = u /\ jobs[j].pc \notin Lost
EndsTaken ==
    \A e \in Entries : ~entry[e].aborted /\ Ends(e) =>
        /\ chunkFile[entry[e].uuid] = NoFile \/ Missed(entry[e].uuid) => Taken(entry[e].uuid)
        /\ entry[e].status = "completed" \/ answer[PageOf[e]].status = 200 =>
              Started(entry[e].uuid)

(* Only what the user removes, or leaves behind with the tab, is given back. *)
Left(e) == entry[e].aborted \/ (~tabOpen[PageOf[e]] /\ ~entry[e].removed)
ReturnsLeft ==
    \A r \in wire : r.kind = "unreserve" =>
        \A e \in Entries : entry[e].uuid = r.uuid => Left(e)
CompletedMarked ==
    /\ \A e \in Entries : entry[e].status = "completed" =>
          entry[e].removed /\ entry[e].uuid # NoUuid
    /\ \A p \in Clients : loop[p].pc \in Sending => entry[Current(p)].status # "completed"
    /\ \A p \in Clients : ~tabOpen[p] => loop[p].pc = "idle"

EndsInv == EndsTaken /\ ReturnsLeft /\ CompletedMarked

StoreInv == NamesInv /\ FilesInv /\ EndsInv

-----------------------------------------------------------------------------
(* What Inv says of the values, in the form in which the proofs use it *)
LEMMA InvTypes ==
  ASSUME Inv
  PROVE  /\ wire \subseteq Requests /\ issued \in Nat /\ issued <= maxUuids
         /\ jobs \in Seq(Jobs) /\ chunkFile \in [Uuids -> Chunked] /\ late \subseteq Uuids
         /\ entry \in [Entries -> Entry] /\ loop \in [Clients -> Loop]
         /\ answer \in [Clients -> Answers] /\ tabOpen \in [Clients -> BOOLEAN]
         /\ filesMap \in [Clients -> Seq(Entries)] /\ PageOf \in [Entries -> Clients]
         /\ \A e \in Entries : entry[e].uuid \in Nat /\ PageOf[e] \in Clients
         /\ \A p \in Clients :
               /\ answer[p].uuid \in Nat
               /\ loop[p].pc \in Sending => Current(p) \in Entries /\ PageOf[Current(p)] = p
               /\ loop[p].pc \in Transfers => UuidOf(p) \in Uuids /\ UuidOf(p) # NoUuid
               /\ loop[p].pc = "add" => loop[p].chunk \in Chunks
               /\ answer[p] # NoAnswer => loop[p].pc \in Sending
         /\ \A r \in wire :
               /\ r.uuid \in Nat /\ r.client \in Clients
               /\ r.kind \in {"reserve", "unreserve", "add", "complete"}
               /\ r.kind # "reserve" => r.uuid \in Uuids /\ r.uuid # NoUuid
               /\ r.kind = "add" => r.chunk \in Chunks
               /\ r.waiting => /\ loop[r.client].pc = r.kind /\ r.kind \in Sending
                               /\ answer[r.client] = NoAnswer
         /\ \A j \in DOMAIN jobs :
               /\ jobs[j] \in Jobs /\ jobs[j].uuid \in Nat
               /\ jobs[j].pc # "done" => jobs[j].uuid \in Uuids /\ jobs[j].uuid # NoUuid
<1>1. /\ wire \subseteq Requests /\ issued \in Nat /\ issued <= maxUuids
      /\ jobs \in Seq(Jobs) /\ chunkFile \in [Uuids -> Chunked] /\ late \subseteq Uuids
  BY ChunksAssumption DEF Inv, ServerInv, ServerTypeOK
<1>2. /\ entry \in [Entries -> Entry] /\ loop \in [Clients -> Loop]
      /\ answer \in [Clients -> Answers] /\ tabOpen \in [Clients -> BOOLEAN]
      /\ filesMap \in [Clients -> Seq(Entries)] /\ PageOf \in [Entries -> Clients]
  BY PageTypes, EntriesAssumption DEF Inv, GuestInv
<1>3. Uuids \cup {NoUuid} \subseteq Nat
  BY ChunksAssumption DEF Uuids, NoUuid
<1>4. \A e \in Entries : entry[e].uuid \in Nat /\ entry[e].uuid \in Uuids \cup {NoUuid}
  BY <1>2, <1>3 DEF Entry
<1>5. ASSUME NEW p \in Clients
      PROVE  /\ answer[p].uuid \in Nat
             /\ loop[p].pc \in Sending => Current(p) \in Entries /\ PageOf[Current(p)] = p
             /\ loop[p].pc \in Transfers => UuidOf(p) \in Uuids /\ UuidOf(p) # NoUuid
             /\ loop[p].pc = "add" => loop[p].chunk \in Chunks
             /\ answer[p] # NoAnswer => loop[p].pc \in Sending
  <2>1. answer[p].uuid \in Nat
    BY <1>2, <1>3 DEF Answers
  <2>2. loop[p].pc \in Sending => Current(p) \in Entries /\ PageOf[Current(p)] = p
    BY CurrentType DEF Inv
  <2>3. /\ loop[p].pc \in Transfers => UuidOf(p) # NoUuid
        /\ loop[p].pc = "add" => loop[p].chunk \in Chunks
        /\ answer[p] # NoAnswer => loop[p].pc \in Sending
    BY DEF Inv, GuestInv, LoopInv, LoopNamed, AnswerNamed, Transfers
  <2> QED BY <1>4, <2>1, <2>2, <2>3 DEF UuidOf, Transfers, Sending
<1>6. ASSUME NEW r \in wire
      PROVE  /\ r.uuid \in Nat /\ r.client \in Clients
             /\ r.kind \in {"reserve", "unreserve", "add", "complete"}
             /\ r.kind # "reserve" => r.uuid \in Uuids /\ r.uuid # NoUuid
             /\ r.kind = "add" => r.chunk \in Chunks
             /\ r.waiting => /\ loop[r.client].pc = r.kind /\ r.kind \in Sending
                             /\ answer[r.client] = NoAnswer
  <2>1. /\ r.client \in Clients /\ r.kind \in {"reserve", "unreserve", "add", "complete"}
        /\ r.uuid \in Uuids \cup {NoUuid}
    BY <1>1 DEF Requests
  <2>2. /\ r.kind # "reserve" => r.uuid # NoUuid
        /\ r.kind = "add" => r.chunk \in Chunks
    BY DEF Inv, ServerInv, RequestsNamed
  <2>3. r.waiting => loop[r.client].pc = r.kind /\ answer[r.client] = NoAnswer
    BY DEF Inv, GuestInv, LoopInv, OneRequest
  <2>4. loop[r.client].pc \in {"idle", "next", "reserve", "add", "complete"}
    BY <1>2, <2>1 DEF Loop
  <2> QED BY <1>3, <2>1, <2>2, <2>3, <2>4 DEF Sending
<1>7. ASSUME NEW j \in DOMAIN jobs
      PROVE  /\ jobs[j] \in Jobs /\ jobs[j].uuid \in Nat
             /\ jobs[j].pc # "done" => jobs[j].uuid \in Uuids /\ jobs[j].uuid # NoUuid
  <2>1. jobs[j] \in Jobs
    BY <1>1
  <2>2. jobs[j].uuid \in Uuids \cup {NoUuid}
    BY <2>1 DEF Jobs
  <2> QED BY <1>3, <2>1, <2>2 DEF Inv, ServerInv, JobsNamed
<1> QED BY <1>1, <1>2, <1>4, <1>5, <1>6, <1>7

LEMMA NextCurrent ==
  ASSUME Inv', NEW p \in Clients, loop'[p].pc \in Sending
  PROVE  Current(p)' \in Entries /\ PageOf[Current(p)'] = p
<1>1. loop'[p].pos \in DOMAIN filesMap'[p]
  BY DEF Inv, GuestInv, LoopInv, LoopNamed
<1>2. filesMap' \in [Clients -> Seq(Entries)] /\ EntriesOwned'
  BY DEF Inv, GuestInv, PageTypeOK, SettledInv
<1> QED BY <1>1, <1>2 DEF Current, EntriesOwned

(* A loop that is about an upload knows of no other page's. *)
LEMMA LoopsApart ==
  ASSUME Inv, NamesInv, NEW p \in Clients, NEW q \in Clients,
         loop[p].pc \in Transfers, loop[q].pc \in Transfers, UuidOf(p) = UuidOf(q)
  PROVE  p = q
<1>1. /\ Current(p) \in Entries /\ PageOf[Current(p)] = p /\ UuidOf(p) # NoUuid
      /\ Current(q) \in Entries /\ PageOf[Current(q)] = q
  BY InvTypes DEF Transfers, Sending
<1> QED BY <1>1 DEF NamesInv, EntriesApart, UuidOf

-----------------------------------------------------------------------------
(* Most steps do not hand out, write or take away an upload: they may let a  *)
(* page go on to the next chunk when the last one has arrived, send and lose *)
(* requests, change the state of a job.  Such a step keeps the invariant     *)
(* (QuietStep below); the six others have a lemma each.                      *)

(* An action: the loop of p stays where it is. *)
Stays(p) == loop'[p] = loop[p] /\ (loop[p].pc \in Sending => Current(p)' = Current(p))

Repeats(p) == loop'[p].pc = loop[p].pc /\ loop'[p].chunk = loop[p].chunk
NextChunk(p) ==
    /\ answer[p].status = 200 /\ loop[p].pc = "add" /\ ~IsLastChunk(loop[p].chunk)
    /\ loop'[p].pc = "add" /\ loop'[p].chunk = loop[p].chunk + 1
LastChunk(p) ==
    /\ answer[p].status = 200 /\ loop[p].pc = "add" /\ IsLastChunk(loop[p].chunk)
    /\ loop'[p].pc = "complete"

LoopQuiet(p) ==
    /\ loop'[p].pc \in Transfers =>
          /\ loop[p].pc \in Transfers /\ Current(p)' = Current(p)
          /\ Repeats(p) \/ NextChunk(p) \/ LastChunk(p)
    /\ loop'[p].pc \in Sending =>
          \/ loop[p].pc \in Sending /\ Current(p)' = Current(p)
          \/ entry'[Current(p)'].status # "completed"
    /\ ~tabOpen'[p] => loop'[p].pc = "idle" \/ (~tabOpen[p] /\ loop'[p] = loop[p])

AnswerQuiet(p) ==
    \/ answer'[p].uuid = NoUuid /\ answer'[p].status # 200
    \/ answer'[p] = answer[p] /\ Stays(p)

EntryQuiet(e) ==
    /\ entry'[e].uuid = entry[e].uuid
    /\ entry[e].aborted => entry'[e].aborted
    /\ entry[e].removed => entry'[e].removed
    /\ ~tabOpen[PageOf[e]] => entry'[e] = entry[e] /\ ~tabOpen'[PageOf[e]]
    /\ entry'[e].status = "completed" =>
          \/ entry[e].status = "completed"
          \/ /\ loop[PageOf[e]].pc = "complete" /\ Current(PageOf[e]) = e
             /\ answer[PageOf[e]].status = 200
             /\ loop'[PageOf[e]].pc \notin Sending /\ entry'[e].removed

(* An action: the loops that send chunks are not about e. *)
NotSent(e) == \A p \in Clients : loop'[p].pc = "add" => Current(p)' # e
RequestQuiet(r) ==
    \/ \E s \in wire : /\ r.kind = s.kind /\ r.client = s.client /\ r.uuid = s.uuid
                       /\ r.chunk = s.chunk
                       /\ r.waiting => s.waiting /\ Stays(s.client)
    \/ /\ r.client \in Clients /\ r.kind = loop'[r.client].pc /\ r.kind \in Sending
       /\ r.chunk = loop'[r.client].chunk
       /\ r.uuid = UuidOf(r.client)' \/ (r.kind = "reserve" /\ r.uuid = NoUuid)
    \/ /\ ~r.waiting /\ r.kind = "unreserve" /\ r.uuid # NoUuid
       /\ \E e \in Entries : r.uuid = entry[e].uuid /\ NotSent(e) /\ Left(e)'

QuietPages ==
    /\ \A p \in Clients : LoopQuiet(p) /\ AnswerQuiet(p)
    /\ \A e \in Entries : EntryQuiet(e)
    /\ \A r \in wire' : RequestQuiet(r)

JobQuiet(j) ==
    /\ jobs'[j].uuid = jobs[j].uuid
    /\ jobs'[j].pc \in Moved => jobs[j].pc \in Moved /\ jobs'[j].content = jobs[j].content
    /\ jobs[j].pc \in Found => jobs'[j].pc \in Found
    /\ jobs[j].uuid = NoUuid => jobs'[j].pc \in Moved
    /\ jobs'[j].row # "none" => jobs'[j].pc \in {"release", "done"}
    /\ jobs'[j].pc \in Lost => jobs[j].pc \in Lost \/ chunkFile[jobs[j].uuid] = NoFile

QuietServer ==
    /\ UNCHANGED <<issued, chunkFile, late>>
    /\ DOMAIN jobs' = DOMAIN jobs
    /\ \A j \in DOMAIN jobs : JobQuiet(j)

(* An action: u is not known after it. *)
StaysNew(u) ==
    /\ \A e \in Entries : entry'[e].uuid # u
    /\ \A r \in wire' : r.uuid # u
    /\ \A j \in DOMAIN jobs' : jobs'[j].uuid # u

-----------------------------------------------------------------------------
LEMMA QuietLoops ==
  ASSUME Inv, Inv', QuietPages, NEW p \in Clients, loop'[p].pc \in Transfers
  PROVE  /\ loop[p].pc \in Transfers /\ Current(p)' = Current(p) /\ UuidOf(p)' = UuidOf(p)
         /\ Repeats(p) \/ NextChunk(p) \/ LastChunk(p)
         /\ loop'[p].pc = "add" => loop[p].pc = "add"
<1>1. /\ loop[p].pc \in Transfers /\ Current(p)' = Current(p)
      /\ Repeats(p) \/ NextChunk(p) \/ LastChunk(p)
  BY DEF QuietPages, LoopQuiet
<1>2. Current(p) \in Entries
  BY <1>1, InvTypes DEF Transfers, Sending
<1>3. UuidOf(p)' = UuidOf(p)
  BY <1>1, <1>2 DEF UuidOf, QuietPages, EntryQuiet
<1> QED BY <1>1, <1>3 DEF Repeats, NextChunk, LastChunk

(* The uuid of a request *)
LEMMA QuietUuid ==
  ASSUME Inv, Inv', QuietPages, NEW r \in wire'
  PROVE  \/ \E s \in wire : r.uuid = s.uuid
         \/ \E e \in Entries : r.uuid = entry[e].uuid
         \/ r.uuid = NoUuid
<1>1. CASE \E s \in wire : r.uuid = s.uuid
  BY <1>1
<1>2. CASE \E e \in Entries : r.uuid = entry[e].uuid
  BY <1>2
<1>3. ASSUME NEW p \in Clients, loop'[p].pc \in Sending, r.uuid = UuidOf(p)'
      PROVE  \E e \in Entries : r.uuid = entry[e].uuid
  <2>1. Current(p)' \in Entries
    BY <1>3, NextCurrent
  <2> QED BY <1>3, <2>1 DEF UuidOf, QuietPages, EntryQuiet
<1> QED BY <1>1, <1>2, <1>3 DEF QuietPages, RequestQuiet

LEMMA QuietNames ==
  ASSUME Inv, Inv', NamesInv, QuietPages, QuietServer
  PROVE  NamesInv'
<1>1. UuidsKnown'
  <2>1. NoUuid <= issued
    BY InvTypes DEF NoUuid
  <2> QED BY <2>1, QuietUuid DEF NamesInv, UuidsKnown, QuietPages, EntryQuiet, QuietServer, JobQuiet
<1>2. EntriesApart'
  BY DEF NamesInv, EntriesApart, QuietPages, EntryQuiet
<1>3. AnswersNew'
  <2>1. ASSUME NEW p \in Clients, NEW u, answer'[p].uuid = u, u # NoUuid
        PROVE  /\ loop'[p].pc = "reserve" /\ u <= issued' /\ StaysNew(u)
               /\ \A q \in Clients \ {p} : answer'[q].uuid # u
    <3>1. answer'[p] = answer[p] /\ loop'[p] = loop[p]
      BY <2>1 DEF QuietPages, AnswerQuiet, Stays
    <3>2. loop[p].pc = "reserve" /\ u <= issued /\ New(u)
          /\ \A q \in Clients \ {p} : answer[q].uuid # u
      BY <2>1, <3>1 DEF NamesInv, AnswersNew
    <3>3. \A r \in wire' : r.uuid # u
      BY <2>1, <3>2, QuietUuid DEF New
    <3>4. \A e \in Entries : entry'[e].uuid # u
      BY <3>2 DEF New, QuietPages, EntryQuiet
    <3>5. \A j \in DOMAIN jobs' : jobs'[j].uuid # u
      BY <3>2 DEF New, QuietServer, JobQuiet
    <3>6. \A q \in Clients \ {p} : answer'[q].uuid # u
      BY <2>1, <3>2 DEF QuietPages, AnswerQuiet
    <3> QED BY <3>1, <3>2, <3>3, <3>4, <3>5, <3>6 DEF QuietServer, StaysNew
  <2> QED BY <2>1 DEF AnswersNew, New, StaysNew
<1>4. RequestsFit'
  <2> SUFFICES ASSUME NEW r \in wire', r.waiting, r.kind \in Transfers
               PROVE  /\ r.uuid = UuidOf(r.client)'
                      /\ r.kind = "add" => r.chunk = loop'[r.client].chunk
    BY DEF RequestsFit, UuidOf, Current
  <2>1. ASSUME NEW s \in wire, r.kind = s.kind, r.client = s.client, r.uuid = s.uuid,
               r.chunk = s.chunk, s.waiting, Stays(s.client)
        PROVE  /\ r.uuid = UuidOf(r.client)'
               /\ r.kind = "add" => r.chunk = loop'[r.client].chunk
    <3>1. /\ s.client \in Clients /\ loop[s.client].pc = s.kind
          /\ s.uuid = UuidOf(s.client) /\ (s.kind = "add" => s.chunk = loop[s.client].chunk)
      BY <2>1, InvTypes DEF NamesInv, RequestsFit
    <3>2. loop'[s.client] = loop[s.client]
      BY <2>1 DEF Stays
    <3>3. UuidOf(s.client)' = UuidOf(s.client)
      BY <2>1, <3>1, <3>2, QuietLoops
    <3> QED BY <2>1, <3>1, <3>2, <3>3
  <2> QED BY <2>1 DEF QuietPages, RequestQuiet, Transfers
<1>5. ReturnsApart'
  <2> SUFFICES ASSUME NEW r \in wire', r.kind = "unreserve", NEW p \in Clients, loop'[p].pc = "add"
               PROVE  UuidOf(p)' # r.uuid
    BY DEF ReturnsApart
  <2>1. /\ loop[p].pc = "add" /\ UuidOf(p)' = UuidOf(p) /\ Current(p)' = Current(p)
    BY QuietLoops DEF Transfers
  <2>2. CASE \E s \in wire : r.kind = s.kind /\ r.uuid = s.uuid
    BY <2>1, <2>2 DEF NamesInv, ReturnsApart
  <2>3. CASE r.uuid # NoUuid /\ \E e \in Entries : r.uuid = entry[e].uuid /\ NotSent(e)
    <3>1. PICK e \in Entries : r.uuid = entry[e].uuid /\ Current(p) # e
      BY <2>1, <2>3 DEF NotSent
    <3>2. Current(p) \in Entries
      BY <2>1, InvTypes DEF Sending
    <3> QED BY <2>1, <2>3, <3>1, <3>2 DEF NamesInv, EntriesApart, UuidOf
  <2> QED BY <2>2, <2>3 DEF QuietPages, RequestQuiet, Sending
<1> QED BY <1>1, <1>2, <1>3, <1>4, <1>5 DEF NamesInv

(* A completion that is asked for now: its last chunk has arrived. *)
LEMMA QuietCompleting ==
  ASSUME Inv, Inv', QuietPages, QuietServer, NEW u, Completing(u)'
  PROVE  Completing(u) \/ \E p \in Clients : LastChunk(p) /\ UuidOf(p) = u
<1>1. ASSUME NEW p \in Clients, loop'[p].pc = "complete", UuidOf(p)' = u
      PROVE  Completing(u) \/ (LastChunk(p) /\ UuidOf(p) = u)
  BY <1>1, QuietLoops DEF Completing, Transfers, Repeats, NextChunk, LastChunk
<1>2. ASSUME NEW r \in wire', r.kind = "complete", r.uuid = u
      PROVE  Completing(u) \/ \E p \in Clients : LastChunk(p) /\ UuidOf(p) = u
  <2>1. CASE \E s \in wire : r.kind = s.kind /\ r.uuid = s.uuid
    BY <1>2, <2>1 DEF Completing
  <2>2. CASE r.client \in Clients /\ r.kind = loop'[r.client].pc /\ r.uuid = UuidOf(r.client)'
    BY <1>1, <1>2, <2>2
  <2> QED BY <1>2, <2>1, <2>2 DEF QuietPages, RequestQuiet
<1>3. ASSUME NEW j \in DOMAIN jobs', jobs'[j].uuid = u
      PROVE  Completing(u)
  BY <1>3 DEF Completing, QuietServer, JobQuiet
<1> QED BY <1>1, <1>2, <1>3 DEF Completing

LEMMA LastChunkWhole ==
  ASSUME Inv, FilesInv, NEW p \in Clients, LastChunk(p)
  PROVE  chunkFile[UuidOf(p)] = Chunks
<1>1. /\ UuidOf(p) \in Uuids /\ loop[p].chunk \in Chunks /\ loop[p].pc = "add"
      /\ chunkFile \in [Uuids -> Chunked]
  BY InvTypes DEF LastChunk, Transfers
<1>2. \A c \in Chunks : c < loop[p].chunk \/ c = loop[p].chunk
  BY <1>1, ChunksAssumption DEF LastChunk, IsLastChunk, Chunks
<1>3. \A c \in Chunks : Has(UuidOf(p), c)
  BY <1>1, <1>2 DEF FilesInv, ChunksSent, LastChunk
<1>4. loop[p].chunk \in Chunks
  BY <1>1
<1>5. chunkFile[UuidOf(p)] \in SUBSET Chunks
  BY <1>1, <1>3, <1>4 DEF Has, Chunked
<1> QED BY <1>3, <1>5 DEF Has

LEMMA QuietFiles ==
  ASSUME Inv, Inv', NamesInv, FilesInv, QuietPages, QuietServer
  PROVE  FilesInv'
<1>1. ChunksSent'
  <2> SUFFICES ASSUME NEW p \in Clients, loop'[p].pc = "add"
               PROVE  /\ ~Completing(UuidOf(p))'
                      /\ \A c \in Chunks : c < loop'[p].chunk => Has(UuidOf(p), c)'
                      /\ answer'[p].status = 200 => Has(UuidOf(p), loop[p].chunk)'
    BY DEF ChunksSent
  <2>1. /\ loop[p].pc = "add" /\ UuidOf(p)' = UuidOf(p) /\ UuidOf(p) # NoUuid
        /\ Repeats(p) \/ NextChunk(p)
        /\ loop[p].chunk \in Chunks
    BY QuietLoops, InvTypes DEF Transfers, LastChunk
  <2>2. /\ ~Completing(UuidOf(p))
        /\ \A c \in Chunks : c < loop[p].chunk => Has(UuidOf(p), c)
        /\ answer[p].status = 200 => Has(UuidOf(p), loop[p].chunk)
    BY <2>1 DEF FilesInv, ChunksSent
  <2>3. ~Completing(UuidOf(p))'
    <3>1. ASSUME NEW u, u = UuidOf(p), Completing(u)' PROVE FALSE
      <4>1. PICK q \in Clients : LastChunk(q) /\ UuidOf(q) = u
        BY <2>2, <3>1, QuietCompleting
      <4>2. p = q
        BY <2>1, <3>1, <4>1, LoopsApart DEF LastChunk, Transfers
      <4> QED BY <4>1, <4>2 DEF LastChunk
    <3> QED BY <2>1, <3>1 DEF Completing
  <2>4. \A u, c : Has(u, c) => chunkFile'[u] # NoFile /\ c \in chunkFile'[u]
    BY DEF Has, QuietServer
  <2>5. \A c \in Chunks : c < loop'[p].chunk => Has(UuidOf(p), c)
    <3>1. CASE Repeats(p)
      BY <2>2, <3>1 DEF Repeats
    <3>2. CASE NextChunk(p)
      <4>1. loop[p].chunk \in Chunks /\ loop'[p].chunk = loop[p].chunk + 1
            /\ answer[p].status = 200
        BY <2>1, <3>2, InvTypes DEF NextChunk
      <4>2. \A c \in Chunks : c < loop'[p].chunk => c < loop[p].chunk \/ c = loop[p].chunk
        BY <4>1 DEF Chunks
      <4> QED BY <2>2, <4>1, <4>2
    <3> QED BY <2>1, <3>1, <3>2
  <2>6. answer'[p].status = 200 => loop'[p] = loop[p] /\ Has(UuidOf(p), loop[p].chunk)
    BY <2>2 DEF QuietPages, AnswerQuiet, Stays
  <2> QED BY <2>1, <2>3, <2>4, <2>5, <2>6 DEF Has
<1>2. ChunksWhole'
  <2> SUFFICES ASSUME NEW u \in Uuids, Completing(u)', u \notin late
               PROVE  chunkFile[u] \in {NoFile, Chunks}
    BY DEF ChunksWhole, QuietServer
  <2> QED BY QuietCompleting, LastChunkWhole DEF FilesInv, ChunksWhole
<1>3. JobsWhole' /\ JobsApart'
  BY DEF FilesInv, JobsWhole, JobsApart, QuietServer, JobQuiet
<1> QED BY <1>1, <1>2, <1>3 DEF FilesInv

LEMMA QuietEnds ==
  ASSUME Inv, Inv', NamesInv, FilesInv, EndsInv, QuietPages, QuietServer
  PROVE  EndsInv'
<1>1. \A u : Taken(u) => \E j \in DOMAIN jobs' : jobs'[j].uuid = u /\ jobs'[j].pc \in Found
  BY DEF Taken, QuietServer, JobQuiet
<1>2. \A u : /\ Started(u) /\ (chunkFile[u] = NoFile => Taken(u))
             => \E j \in DOMAIN jobs' : jobs'[j].uuid = u /\ jobs'[j].pc \notin Lost
  <2>1. ASSUME NEW u, Taken(u)
        PROVE  \E j \in DOMAIN jobs' : jobs'[j].uuid = u /\ jobs'[j].pc \notin Lost
    BY <1>1, <2>1 DEF Found, Moved, Lost
  <2> QED BY <2>1 DEF Started, QuietServer, JobQuiet
<1>7. ASSUME NEW u, NEW j \in DOMAIN jobs', jobs'[j].uuid = u, jobs'[j].pc \in Lost
      PROVE  chunkFile[u] = NoFile \/ Missed(u)
  BY <1>7 DEF Missed, QuietServer, JobQuiet
<1>3. EndsTaken'
  <2>1. ASSUME NEW e \in Entries, ~entry'[e].aborted, Ends(e)'
        PROVE  /\ chunkFile[entry[e].uuid] = NoFile \/ Missed(entry[e].uuid)
                     => Taken(entry[e].uuid)
               /\ entry'[e].status = "completed" \/ answer'[PageOf[e]].status = 200 =>
                     Started(entry[e].uuid)
    <3>1. PageOf[e] \in Clients /\ ~entry[e].aborted
      BY <2>1, InvTypes DEF QuietPages, EntryQuiet
    <3>2. CASE Ends(e)
      <4>1. /\ chunkFile[entry[e].uuid] = NoFile \/ Missed(entry[e].uuid)
                  => Taken(entry[e].uuid)
            /\ entry[e].status = "completed" \/ answer[PageOf[e]].status = 200 =>
                  Started(entry[e].uuid)
        BY <3>1, <3>2 DEF EndsInv, EndsTaken
      <4>2. entry'[e].status = "completed" =>
               entry[e].status = "completed" \/ answer[PageOf[e]].status = 200
        BY DEF QuietPages, EntryQuiet
      <4>3. answer'[PageOf[e]].status = 200 => answer[PageOf[e]].status = 200
        BY <3>1 DEF QuietPages, AnswerQuiet
      <4> QED BY <4>1, <4>2, <4>3
    <3>3. CASE ~Ends(e)
      <4>1. /\ entry'[e].status # "completed"
            /\ loop'[PageOf[e]].pc = "complete" /\ Current(PageOf[e])' = e
        BY <2>1, <3>3 DEF Ends, QuietPages, EntryQuiet
      <4>2. /\ Current(PageOf[e]) = e /\ loop[PageOf[e]].pc # "complete"
            /\ LastChunk(PageOf[e])
        BY <3>1, <3>3, <4>1, QuietLoops DEF Ends, Transfers, Repeats, NextChunk
      <4>3. chunkFile[entry[e].uuid] # NoFile
        BY <3>1, <4>2, LastChunkWhole, ChunksAssumption DEF UuidOf, Chunks
      <4>4. answer'[PageOf[e]].status # 200
        BY <3>1, <4>1, <4>2 DEF QuietPages, AnswerQuiet, Stays
      <4>5. ASSUME NEW u, u = entry[e].uuid PROVE ~Missed(u)
        <5>1. ~Completing(UuidOf(PageOf[e])) /\ UuidOf(PageOf[e]) = u
          BY <3>1, <4>2, <4>5 DEF FilesInv, ChunksSent, LastChunk, UuidOf
        <5> QED BY <5>1 DEF Completing, Missed
      <4> QED BY <4>1, <4>3, <4>4, <4>5
    <3> QED BY <3>2, <3>3
  <2>2. ASSUME NEW e \in Entries, NEW u, u = entry[e].uuid, ~entry'[e].aborted, Ends(e)'
        PROVE  /\ \/ chunkFile'[u] = NoFile
                  \/ \E j \in DOMAIN jobs' : jobs'[j].uuid = u /\ jobs'[j].pc \in Lost
                  => \E j \in DOMAIN jobs' : jobs'[j].uuid = u /\ jobs'[j].pc \in Found
               /\ entry'[e].status = "completed" \/ answer'[PageOf[e]].status = 200 =>
                     \E j \in DOMAIN jobs' : jobs'[j].uuid = u /\ jobs'[j].pc \notin Lost
    <3>1. chunkFile'[u] = chunkFile[u]
      BY DEF QuietServer
    <3>2. /\ chunkFile[u] = NoFile \/ Missed(u) => Taken(u)
          /\ entry'[e].status = "completed" \/ answer'[PageOf[e]].status = 200 => Started(u)
      BY <2>1, <2>2
    <3> QED BY <1>1, <1>2, <1>7, <3>1, <3>2
  <2>3. \A e \in Entries : entry'[e].uuid = entry[e].uuid
    BY DEF QuietPages, EntryQuiet
  <2> QED BY <2>2, <2>3 DEF EndsTaken, Taken, Missed, Started
<1>4. ASSUME NEW e \in Entries, Left(e) PROVE Left(e)'
  <2>1. PageOf[e] \in Clients
    BY InvTypes
  <2> QED BY <1>4, <2>1 DEF Left, QuietPages, EntryQuiet
<1>5. ReturnsLeft'
  <2> SUFFICES ASSUME NEW r \in wire', r.kind = "unreserve", NEW e \in Entries,
                      entry'[e].uuid = r.uuid
               PROVE  Left(e)'
    BY DEF ReturnsLeft
  <2>1. entry[e].uuid = r.uuid
    BY DEF QuietPages, EntryQuiet
  <2>2. CASE \E s \in wire : r.kind = s.kind /\ r.uuid = s.uuid
    BY <1>4, <2>1, <2>2 DEF EndsInv, ReturnsLeft
  <2>3. CASE r.uuid # NoUuid /\ \E f \in Entries : r.uuid = entry[f].uuid /\ Left(f)'
    BY <2>1, <2>3 DEF NamesInv, EntriesApart
  <2> QED BY <2>2, <2>3 DEF QuietPages, RequestQuiet, Sending
<1>6. CompletedMarked'
  <2>1. ASSUME NEW e \in Entries, entry'[e].status = "completed"
        PROVE  entry'[e].removed /\ entry'[e].uuid # NoUuid
    <3>1. PageOf[e] \in Clients
      BY InvTypes
    <3>2. CASE entry[e].status = "completed"
      BY <3>2 DEF EndsInv, CompletedMarked, QuietPages, EntryQuiet
    <3>3. CASE entry[e].status # "completed"
      <4>1. /\ loop[PageOf[e]].pc = "complete" /\ Current(PageOf[e]) = e /\ entry'[e].removed
            /\ entry'[e].uuid = entry[e].uuid
        BY <2>1, <3>3 DEF QuietPages, EntryQuiet
      <4> QED BY <3>1, <4>1, InvTypes DEF UuidOf, Transfers
    <3> QED BY <3>2, <3>3
  <2>2. ASSUME NEW p \in Clients, loop'[p].pc \in Sending
        PROVE  entry'[Current(p)'].status # "completed"
    <3>1. CASE loop[p].pc \in Sending /\ Current(p)' = Current(p)
      <4>1. Current(p) \in Entries /\ PageOf[Current(p)] = p
        BY <3>1, InvTypes
      <4>2. entry[Current(p)].status # "completed"
        BY <3>1 DEF EndsInv, CompletedMarked
      <4> QED BY <2>2, <3>1, <4>1, <4>2 DEF QuietPages, EntryQuiet
    <3> QED BY <2>2, <3>1 DEF QuietPages, LoopQuiet
  <2>3. ASSUME NEW p \in Clients, ~tabOpen'[p] PROVE loop'[p].pc = "idle"
    BY <2>3 DEF EndsInv, CompletedMarked, QuietPages, LoopQuiet
  <2> QED BY <2>1, <2>2, <2>3 DEF CompletedMarked
<1> QED BY <1>3, <1>5, <1>6 DEF EndsInv

LEMMA QuietStep ==
  ASSUME Inv, Inv', StoreInv, QuietPages, QuietServer
  PROVE  StoreInv'
  BY QuietNames, QuietFiles, QuietEnds DEF StoreInv

-----------------------------------------------------------------------------
(* Which steps are quiet *)

(* Actions: every page but p stays as it is; requests leave the wire, or go  *)
(* to their second phase, or lose their reader.                              *)
OnlyPage(p) ==
    \A q \in Clients \ {p} :
        loop'[q] = loop[q] /\ answer'[q] = answer[q] /\ tabOpen'[q] = tabOpen[q]
        /\ filesMap'[q] = filesMap[q]
SameRequest(r, s) == r.kind = s.kind /\ r.client = s.client /\ r.uuid = s.uuid /\ r.chunk = s.chunk
WireShrinks ==
    \A r \in wire' : \E s \in wire : SameRequest(r, s) /\ (r.waiting => s.waiting)

(* A step that leaves the pages alone, but for an answer that is an error *)
LEMMA LoopsStay ==
  ASSUME Inv, UNCHANGED <<filesMap, entry, loop, tabOpen>>, WireShrinks,
         \A p \in Clients : \/ answer'[p] = answer[p]
                            \/ answer'[p].uuid = NoUuid /\ answer'[p].status # 200
  PROVE  QuietPages
<1>1. \A p : Stays(p)
  BY DEF Stays, Current
<1>2. ASSUME NEW p \in Clients PROVE LoopQuiet(p) /\ AnswerQuiet(p)
  BY <1>1 DEF LoopQuiet, AnswerQuiet, Stays, Repeats, Sending, Transfers
<1>3. ASSUME NEW e \in Entries PROVE EntryQuiet(e)
  BY DEF EntryQuiet
<1>4. ASSUME NEW r \in wire' PROVE RequestQuiet(r)
  BY <1>1 DEF RequestQuiet, WireShrinks, SameRequest
<1> QED BY <1>2, <1>3, <1>4 DEF QuietPages

(* A step of page p *)
LEMMA OthersQuiet ==
  ASSUME Inv, NEW p \in Clients, OnlyPage(p)
  PROVE  /\ \A q \in Clients \ {p} : LoopQuiet(q) /\ AnswerQuiet(q)
         /\ \A r \in wire : (r.waiting => r.client # p) => RequestQuiet(r)
         /\ \A r \in GivenUp(p) : RequestQuiet(r)
<1>1. \A q \in Clients \ {p} : Stays(q)
  BY DEF OnlyPage, Stays, Current
<1>2. ASSUME NEW q \in Clients \ {p} PROVE LoopQuiet(q) /\ AnswerQuiet(q)
  <2>1. loop'[q] = loop[q] /\ answer'[q] = answer[q] /\ tabOpen'[q] = tabOpen[q]
    BY DEF OnlyPage
  <2> QED BY <1>1, <2>1 DEF LoopQuiet, AnswerQuiet, Stays, Repeats, Sending, Transfers
<1>3. ASSUME NEW r \in wire, r.waiting => r.client # p PROVE RequestQuiet(r)
  <2>1. r.client \in Clients
    BY InvTypes
  <2> QED BY <1>1, <1>3, <2>1 DEF RequestQuiet
<1>4. ASSUME NEW r \in GivenUp(p) PROVE RequestQuiet(r)
  <2>1. PICK s \in wire : r = [s EXCEPT !.waiting = FALSE]
    BY DEF GivenUp, Waiting
  <2>2. s \in Requests
    BY InvTypes
  <2>3. /\ r.kind = s.kind /\ r.client = s.client /\ r.uuid = s.uuid /\ r.chunk = s.chunk
        /\ ~r.waiting
    BY <2>1, <2>2 DEF Requests
  <2> QED BY <2>3 DEF RequestQuiet
<1> QED BY <1>2, <1>3, <1>4

(* Its loop does not wait for a request any more, or waits for none. *)
LEMMA LoopEndsQuiet ==
  ASSUME Inv, NEW p \in Clients, OnlyPage(p), loop'[p].pc \notin Sending,
         answer'[p] = NoAnswer, tabOpen'[p] \/ loop'[p].pc = "idle"
  PROVE  \A q \in Clients : LoopQuiet(q) /\ AnswerQuiet(q)
<1>1. LoopQuiet(p)
  BY DEF LoopQuiet, Sending, Transfers
<1>2. AnswerQuiet(p)
  BY DEF AnswerQuiet, NoAnswer
<1> QED BY <1>1, <1>2, OthersQuiet

LEMMA CreateUploadBoxQuiet ==
  ASSUME Inv, NEW e \in Entries, createUploadBox(e)
  PROVE  QuietPages
<1> DEFINE p == PageOf[e]
<1>1. /\ p \in Clients /\ tabOpen[p]
      /\ entry' = [entry EXCEPT ![e].status = "pending"]
      /\ filesMap' = [filesMap EXCEPT ![p] = Append(@, e)]
      /\ UNCHANGED <<loop, answer, tabOpen, wire>>
  BY InvTypes DEF createUploadBox, serverVars
<1>2. entry \in [Entries -> Entry] /\ filesMap \in [Clients -> Seq(Entries)]
  BY InvTypes
<1>3. OnlyPage(p)
  BY <1>1, <1>2 DEF OnlyPage
<1>4. Stays(p)
  <2>1. ASSUME loop[p].pc \in Sending PROVE Current(p)' = Current(p)
    <3>1. loop[p].pos \in DOMAIN filesMap[p]
      BY <1>1, <2>1, CurrentType DEF Inv
    <3>2. filesMap[p] \in Seq(Entries) /\ filesMap'[p] = Append(filesMap[p], e)
      BY <1>1, <1>2
    <3>3. filesMap'[p][loop[p].pos] = filesMap[p][loop[p].pos]
      BY <3>1, <3>2
    <3> QED BY <1>1, <3>3 DEF Current
  <2> QED BY <1>1, <2>1 DEF Stays
<1>5. LoopQuiet(p) /\ AnswerQuiet(p)
  BY <1>1, <1>4 DEF LoopQuiet, AnswerQuiet, Stays, Repeats, Sending, Transfers
<1>6. ASSUME NEW f \in Entries PROVE EntryQuiet(f)
  <2>1. /\ entry'[f].uuid = entry[f].uuid /\ entry'[f].aborted = entry[f].aborted
        /\ entry'[f].removed = entry[f].removed
        /\ f # e => entry'[f] = entry[f]
        /\ f = e => entry'[f].status = "pending"
    BY <1>1, <1>2 DEF Entry
  <2> QED BY <1>1, <2>1 DEF EntryQuiet
<1>7. ASSUME NEW r \in wire PROVE RequestQuiet(r)
  BY <1>1, <1>3, <1>4, OthersQuiet DEF RequestQuiet
<1> QED BY <1>1, <1>3, <1>5, <1>6, <1>7, OthersQuiet DEF QuietPages

LEMMA NoRequestQuiet ==
  ASSUME Inv, NEW p \in Clients, initUpload(p) \/ AllVisited(p)
  PROVE  QuietPages
<1>1. loop[p].pc \notin Sending
  BY DEF Inv, GuestInv, SettledInv, ButtonShown, ButtonDisabled, initUpload, AllVisited, Sending
<1>2. answer[p] = NoAnswer /\ loop \in [Clients -> Loop] /\ entry \in [Entries -> Entry]
  BY <1>1, IdleAnswer, InvTypes DEF Inv
<1>3. PICK pc \in {"next", "idle"} :
         loop' = [loop EXCEPT ![p] = [Idle EXCEPT !.pc = pc]]
  BY DEF initUpload, AllVisited, LoopEnds, Idle
<1>4. tabOpen[p] /\ UNCHANGED <<filesMap, entry, answer, tabOpen, wire>>
  BY DEF initUpload, AllVisited, serverVars
<1>5. OnlyPage(p) /\ loop'[p].pc \notin Sending
  BY <1>2, <1>3, <1>4 DEF OnlyPage, Idle, Sending
<1>6. \A q \in Clients : LoopQuiet(q) /\ AnswerQuiet(q)
  BY <1>2, <1>4, <1>5, LoopEndsQuiet
<1>7. \A e \in Entries : EntryQuiet(e)
  BY <1>4 DEF EntryQuiet
<1>8. ASSUME NEW r \in wire PROVE RequestQuiet(r)
  <2>1. r.waiting => r.client # p
    BY <1>1, InvTypes
  <2> QED BY <1>5, <2>1, OthersQuiet
<1> QED BY <1>4, <1>6, <1>7, <1>8 DEF QuietPages

LEMMA StartEntryQuiet ==
  ASSUME Inv, NEW p \in Clients, StartEntry(p)
  PROVE  QuietPages
<1>1. loop[p].pc = "next" /\ tabOpen[p]
  BY DEF StartEntry
<1>2. /\ answer[p] = NoAnswer /\ loop \in [Clients -> Loop] /\ entry \in [Entries -> Entry]
      /\ filesMap[p] \in Seq(Entries)
  BY <1>1, IdleAnswer, InvTypes DEF Inv, Sending
<1> DEFINE new == Request(p, "reserve", NoUuid, 0)
<1>3. wire' = wire \cup {new} /\ UNCHANGED <<filesMap, answer, tabOpen>>
  BY DEF StartEntry
<1> PICK i \in Ahead(p) :
      /\ entry' = [entry EXCEPT ![filesMap[p][i]].status = "uploading"]
      /\ loop' = [loop EXCEPT ![p] = [Idle EXCEPT !.pc = "reserve", !.pos = i, !.attempt = 1]]
  BY DEF StartEntry
<1> DEFINE e == filesMap[p][i]
<1>4. e \in Entries /\ PageOf[e] = p
  <2>1. loop[p].pos \in Nat
    BY <1>2 DEF Loop
  <2>2. i \in DOMAIN filesMap[p]
    BY <1>2, <2>1 DEF Ahead
  <2> QED BY <1>2, <2>2 DEF Inv, GuestInv, SettledInv, EntriesOwned
<1>5. /\ loop'[p].pc = "reserve" /\ loop'[p].pos = i /\ loop'[p].chunk = 0 /\ OnlyPage(p)
      /\ Current(p)' = e
  BY <1>2, <1>3 DEF OnlyPage, Idle, Current
<1>6. /\ entry'[e].status = "uploading"
      /\ \A f \in Entries : /\ entry'[f].uuid = entry[f].uuid
                            /\ entry'[f].aborted = entry[f].aborted
                            /\ entry'[f].removed = entry[f].removed
                            /\ f # e => entry'[f] = entry[f]
  BY <1>2, <1>4 DEF Entry
<1> HIDE DEF e
<1>7. LoopQuiet(p) /\ AnswerQuiet(p)
  <2>1. entry'[Current(p)'].status # "completed"
    BY <1>5, <1>6
  <2> QED BY <1>1, <1>2, <1>3, <1>5, <2>1 DEF LoopQuiet, AnswerQuiet, NoAnswer, Sending, Transfers
<1>8. \A f \in Entries : EntryQuiet(f)
  BY <1>1, <1>3, <1>4, <1>6 DEF EntryQuiet
<1>9. ASSUME NEW r \in wire PROVE RequestQuiet(r)
  <2>1. r.waiting => r.client # p
    BY <1>1, InvTypes DEF Sending
  <2>2. \A s \in wire : (s.waiting => s.client # p) => RequestQuiet(s)
    BY <1>5, OthersQuiet
  <2> QED BY <2>1, <2>2
<1>10. RequestQuiet(new)
  BY <1>5 DEF RequestQuiet, Request, Sending
<1> QED BY <1>3, <1>5, <1>7, <1>8, <1>9, <1>10, OthersQuiet DEF QuietPages

(* The answer of p lets it go on with the same entry, or end. *)
LEMMA ResumeQuiet ==
  ASSUME Inv, NEW p \in Clients, Resume(p), ~(loop[p].pc = "reserve" /\ answer[p].status = 200)
  PROVE  QuietPages
<1>1. Resumes(p)
  BY DEF Resume, Resumes
<1> DEFINE e == Current(p)
<1>2. /\ tabOpen[p] /\ answer' = [answer EXCEPT ![p] = NoAnswer]
      /\ UNCHANGED <<filesMap, tabOpen>>
  BY DEF Resume
<1>3. /\ loop[p].pc \in Sending /\ e \in Entries /\ PageOf[e] = p
      /\ loop \in [Clients -> Loop] /\ entry \in [Entries -> Entry]
      /\ answer \in [Clients -> Answers] /\ filesMap[p][loop[p].pos] = e
      /\ \A r \in wire : ~(r.waiting /\ r.client = p)
  BY <1>1, ResumesFacts, InvTypes DEF Inv
<1> HIDE DEF e
<1>4. ASSUME NEW l, loop' = [loop EXCEPT ![p] = l], l.pc \notin Sending, wire' = wire,
             \A f \in Entries : f # e => entry'[f] = entry[f],
             entry'[e].uuid = entry[e].uuid, entry'[e].aborted = entry[e].aborted,
             entry[e].removed => entry'[e].removed,
             entry'[e].status # "completed"
                \/ (loop[p].pc = "complete" /\ answer[p].status = 200 /\ entry'[e].removed)
      PROVE  QuietPages
  <2>1. OnlyPage(p) /\ loop'[p] = l /\ answer'[p] = NoAnswer
    BY <1>2, <1>3, <1>4 DEF OnlyPage
  <2>2. \A q \in Clients : LoopQuiet(q) /\ AnswerQuiet(q)
    BY <1>2, <1>4, <2>1, LoopEndsQuiet
  <2>3. \A f \in Entries : EntryQuiet(f)
    BY <1>2, <1>3, <1>4, <2>1 DEF EntryQuiet, e
  <2>4. \A r \in wire : RequestQuiet(r)
    BY <1>3, <2>1, OthersQuiet
  <2> QED BY <1>4, <2>2, <2>3, <2>4 DEF QuietPages
<1>5. ASSUME NEW l, loop' = [loop EXCEPT ![p] = l], l.pc \in Sending, l.pos = loop[p].pos,
             UNCHANGED entry, wire' = wire \cup {Request(p, l.pc, UuidOf(p), l.chunk)},
             \/ l.pc = loop[p].pc /\ l.chunk = loop[p].chunk
             \/ /\ loop[p].pc = "add" /\ answer[p].status = 200
                /\ \/ ~IsLastChunk(loop[p].chunk) /\ l.pc = "add" /\ l.chunk = loop[p].chunk + 1
                   \/ IsLastChunk(loop[p].chunk) /\ l.pc = "complete"
      PROVE  QuietPages
  <2>1. /\ OnlyPage(p) /\ loop'[p] = l /\ answer'[p] = NoAnswer /\ Current(p)' = e
    BY <1>2, <1>3, <1>5 DEF OnlyPage, Current
  <2>2. UuidOf(p)' = UuidOf(p)
    BY <1>5, <2>1 DEF UuidOf, e
  <2>3. LoopQuiet(p) /\ AnswerQuiet(p)
    <3>1. Repeats(p) \/ NextChunk(p) \/ LastChunk(p)
      BY <1>5, <2>1 DEF Repeats, NextChunk, LastChunk
    <3>2. loop'[p].pc \in Transfers => loop[p].pc \in Transfers
      BY <1>5, <2>1 DEF Transfers
    <3> QED BY <1>2, <1>3, <2>1, <3>1, <3>2 DEF LoopQuiet, AnswerQuiet, NoAnswer, e
  <2>4. \A f \in Entries : EntryQuiet(f)
    BY <1>2, <1>5 DEF EntryQuiet
  <2>5. \A r \in wire : RequestQuiet(r)
    BY <1>3, <2>1, OthersQuiet
  <2>6. RequestQuiet(Request(p, l.pc, UuidOf(p), l.chunk))
    BY <1>5, <2>1, <2>2 DEF RequestQuiet, Request
  <2> QED BY <1>5, <2>1, <2>3, <2>4, <2>5, <2>6, OthersQuiet DEF QuietPages
<1>6. CASE WaitAndRetry(p) \/ Retry(p)
  <2>1. PICK l : /\ loop' = [loop EXCEPT ![p] = l] /\ l.pc = loop[p].pc /\ l.pos = loop[p].pos
                 /\ l.chunk = loop[p].chunk
    <3>1. loop[p] \in Loop
      BY <1>3
    <3>2. CASE WaitAndRetry(p)
      <4> DEFINE l == [loop[p] EXCEPT !.waits = @ + 1]
      <4>1. loop' = [loop EXCEPT ![p] = l]
        BY <3>2 DEF WaitAndRetry
      <4>2. l.pc = loop[p].pc /\ l.pos = loop[p].pos /\ l.chunk = loop[p].chunk
        BY <3>1 DEF Loop
      <4> HIDE DEF l
      <4> QED BY <4>1, <4>2
    <3>3. CASE Retry(p)
      <4> DEFINE l == [loop[p] EXCEPT !.attempt = @ + 1]
      <4>1. loop' = [loop EXCEPT ![p] = l]
        BY <3>3 DEF Retry
      <4>2. l.pc = loop[p].pc /\ l.pos = loop[p].pos /\ l.chunk = loop[p].chunk
        BY <3>1 DEF Loop
      <4> HIDE DEF l
      <4> QED BY <4>1, <4>2
    <3> QED BY <1>6, <3>2, <3>3
  <2>2. /\ UNCHANGED entry
        /\ wire' = wire \cup {Request(p, l.pc, UuidOf(p), l.chunk)}
    BY <1>6, <2>1 DEF WaitAndRetry, Retry, UuidOf
  <2> QED BY <1>3, <1>5, <2>1, <2>2
<1>7. CASE Caught(p)
  <2>1. PICK l : loop' = [loop EXCEPT ![p] = l] /\ l.pc \in {"next", "idle"}
    <3> DEFINE next == [Idle EXCEPT !.pc = "next", !.pos = loop[p].pos]
    <3>1. Idle.pc = "idle" /\ next.pc = "next"
      BY DEF Idle
    <3>2. loop' = [loop EXCEPT ![p] = Idle] \/ loop' = [loop EXCEPT ![p] = next]
      BY <1>7 DEF Caught, LoopEnds
    <3> HIDE DEF next
    <3> QED BY <3>1, <3>2
  <2>2. PICK status \in {"pending", "error"} : entry' = [entry EXCEPT ![e].status = status]
    BY <1>7 DEF Caught, e
  <2>3. UNCHANGED wire
    BY <1>7 DEF Caught
  <2>4. /\ \A f \in Entries : f # e => entry'[f] = entry[f]
        /\ entry'[e].uuid = entry[e].uuid /\ entry'[e].aborted = entry[e].aborted
        /\ entry'[e].removed = entry[e].removed /\ entry'[e].status = status
    BY <1>3, <2>2 DEF Entry
  <2> QED BY <1>4, <2>1, <2>3, <2>4 DEF Sending
<1>8. CASE answer[p].status = 200 /\ loop[p].pc = "add" /\ Added(p)
  <2>1. UNCHANGED entry
    BY <1>8 DEF Added
  <2>2. PICK pc, chunk :
           /\ Send(p, pc, UuidOf(p), chunk)
           /\ \/ ~IsLastChunk(loop[p].chunk) /\ pc = "add" /\ chunk = loop[p].chunk + 1
              \/ IsLastChunk(loop[p].chunk) /\ pc = "complete"
    BY <1>8 DEF Added, UuidOf
  <2> DEFINE l == [Idle EXCEPT !.pc = pc, !.pos = loop[p].pos, !.chunk = chunk, !.attempt = 1]
  <2>3. l.pc = pc /\ l.pos = loop[p].pos /\ l.chunk = chunk
    BY DEF Idle
  <2>4. /\ loop' = [loop EXCEPT ![p] = l]
        /\ wire' = wire \cup {Request(p, l.pc, UuidOf(p), l.chunk)}
    BY <2>2, <2>3 DEF Send
  <2> HIDE DEF l
  <2> QED BY <1>5, <1>8, <2>1, <2>2, <2>3, <2>4 DEF Sending
<1>9. CASE answer[p].status = 200 /\ loop[p].pc = "complete" /\ Completed(p)
  <2> DEFINE l == [Idle EXCEPT !.pc = "next", !.pos = loop[p].pos]
             marked == [entry EXCEPT ![e].status = "completed"]
             done == [marked[e] EXCEPT !.removed = TRUE]
  <2>1. /\ loop' = [loop EXCEPT ![p] = l] /\ l.pc = "next" /\ UNCHANGED wire
        /\ entry' = [marked EXCEPT ![e] = done]
    BY <1>9 DEF Completed, Idle, e
  <2>2. /\ marked \in [Entries -> Entry] /\ \A f \in Entries : f # e => marked[f] = entry[f]
        /\ marked[e].uuid = entry[e].uuid /\ marked[e].aborted = entry[e].aborted
    BY <1>3 DEF Entry
  <2> HIDE DEF l, marked
  <2>3. done.removed /\ done.uuid = entry[e].uuid /\ done.aborted = entry[e].aborted
    <3>1. marked[e] \in Entry
      BY <1>3, <2>2
    <3> QED BY <2>2, <3>1 DEF Entry
  <2> HIDE DEF done
  <2>4. /\ \A f \in Entries : f # e => entry'[f] = entry[f]
        /\ entry'[e] = done
    BY <1>3, <2>1, <2>2
  <2> QED BY <1>4, <1>9, <2>1, <2>3, <2>4 DEF Sending
<1> QED BY <1>1, <1>6, <1>7, <1>8, <1>9 DEF Resume, withRetry

LEMMA ConnectionFailsQuiet ==
  ASSUME Inv, NEW p \in Clients, ConnectionFails(p)
  PROVE  QuietPages
<1>1. /\ UNCHANGED <<filesMap, entry, loop, tabOpen>>
      /\ answer' = [answer EXCEPT ![p] = NetworkError]
      /\ wire' = (wire \ Waiting(p)) \cup GivenUp(p)
  BY DEF ConnectionFails
<1>2. \A q \in Clients : answer'[q] = answer[q] \/ answer'[q] = NetworkError
  BY <1>1, InvTypes
<1>3. WireShrinks
  <2>1. ASSUME NEW r \in GivenUp(p)
        PROVE  \E s \in wire : SameRequest(r, s) /\ (r.waiting => s.waiting)
    <3>1. PICK s \in wire : r = [s EXCEPT !.waiting = FALSE]
      BY DEF GivenUp, Waiting
    <3>2. s \in Requests
      BY InvTypes
    <3>3. ~r.waiting /\ SameRequest(r, s)
      BY <3>1, <3>2 DEF Requests, SameRequest
    <3> QED BY <3>3
  <2> QED BY <1>1, <2>1 DEF WireShrinks, SameRequest
<1> QED BY <1>1, <1>2, <1>3, LoopsStay DEF NetworkError

LEMMA RemoveBtnQuiet ==
  ASSUME Inv, NEW e \in Entries, removeBtn(e)
  PROVE  QuietPages
<1> DEFINE p == PageOf[e]
           cancels == loop[p].pc = "add" /\ Current(p) = e
           sent == unreserve(p, entry[e].uuid)
<1>1. /\ p \in Clients /\ tabOpen[p] /\ UNCHANGED <<filesMap, tabOpen>>
      /\ entry \in [Entries -> Entry] /\ loop \in [Clients -> Loop]
      /\ answer \in [Clients -> Answers]
  BY InvTypes DEF removeBtn
<1>2. /\ entry'[e].uuid = entry[e].uuid /\ entry'[e].aborted /\ entry'[e].removed
      /\ entry'[e].status # "completed"
      /\ \A f \in Entries : f # e => entry'[f] = entry[f]
  <2> DEFINE status == IF cancels THEN "pending" ELSE "removed"
             new == [entry[e] EXCEPT !.removed = TRUE, !.status = status, !.aborted = TRUE]
  <2>1. entry' = [entry EXCEPT ![e] = new]
    <3>1. CASE cancels
      BY <3>1 DEF removeBtn
    <3>2. CASE ~cancels
      BY <3>2 DEF removeBtn
    <3> QED BY <3>1, <3>2
  <2>2. entry[e] \in Entry
    BY <1>1
  <2>3. new.removed /\ new.aborted /\ new.status # "completed" /\ new.uuid = entry[e].uuid
    BY <2>2 DEF Entry
  <2> HIDE DEF new
  <2> QED BY <1>1, <2>1, <2>3
<1>3. \A f \in Entries : EntryQuiet(f)
  BY <1>1, <1>2 DEF EntryQuiet
<1>4. /\ wire' = sent \cup (IF cancels THEN (wire \ Waiting(p)) \cup GivenUp(p) ELSE wire)
      /\ IF cancels
         THEN loop' = [loop EXCEPT ![p] = Idle] /\ answer' = [answer EXCEPT ![p] = NoAnswer]
         ELSE UNCHANGED <<loop, answer>>
  BY DEF removeBtn, LoopEnds
<1>5. OnlyPage(p)
  BY <1>1, <1>4 DEF OnlyPage
<1>6. NotSent(e)
  <2> SUFFICES ASSUME NEW q \in Clients, loop'[q].pc = "add" PROVE Current(q)' # e
    BY DEF NotSent
  <2>1. Current(q)' \in Entries /\ PageOf[Current(q)'] = q
    <3>1. loop'[q].pc \in Sending
      BY DEF Sending
    <3>2. loop' = [loop EXCEPT ![p] = Idle] \/ loop' = loop
      BY <1>4
    <3>3. loop'[q] = Idle \/ loop'[q] = loop[q]
      BY <1>1, <3>2
    <3>4. loop[q] = loop'[q]
      BY <3>1, <3>3 DEF Idle, Sending
    <3>5. Current(q)' = Current(q)
      BY <1>1, <3>4 DEF Current
    <3> QED BY <3>1, <3>4, <3>5, InvTypes
  <2>2. CASE q = p /\ cancels
    BY <1>1, <1>4, <2>2 DEF Idle
  <2>3. CASE q = p /\ ~cancels
    BY <1>1, <1>4, <2>3 DEF Current
  <2> QED BY <2>1, <2>2, <2>3
<1>7. ASSUME NEW r \in sent PROVE RequestQuiet(r)
  <2>1. entry[e].uuid \in Uuids \cup {NoUuid}
    BY <1>1 DEF Entry
  <2>2. ~r.waiting /\ r.kind = "unreserve" /\ r.uuid # NoUuid /\ r.uuid = entry[e].uuid
    BY <1>1, <1>7, <2>1, UnreserveType
  <2>3. Left(e)'
    BY <1>2 DEF Left
  <2> QED BY <1>6, <2>2, <2>3 DEF RequestQuiet
<1> HIDE DEF sent
<1>8. CASE cancels
  <2>1. loop'[p].pc = "idle" /\ answer'[p] = NoAnswer
    BY <1>1, <1>4, <1>8 DEF Idle
  <2>2. \A q \in Clients : LoopQuiet(q) /\ AnswerQuiet(q)
    BY <1>1, <1>5, <2>1, LoopEndsQuiet DEF Sending
  <2>3. ASSUME NEW r \in wire' PROVE RequestQuiet(r)
    <3>1. r \in sent \/ r \in wire \ Waiting(p) \/ r \in GivenUp(p)
      BY <1>4, <1>8, <2>3
    <3>2. r \in wire \ Waiting(p) => r \in wire /\ (r.waiting => r.client # p)
      BY DEF Waiting
    <3> QED BY <1>1, <1>5, <1>7, <3>1, <3>2, OthersQuiet
  <2> QED BY <1>3, <2>2, <2>3 DEF QuietPages
<1>9. CASE ~cancels
  <2>1. UNCHANGED <<loop, answer, filesMap, tabOpen>> /\ wire' = sent \cup wire
    BY <1>1, <1>4, <1>9
  <2>2. Stays(p)
    BY <2>1 DEF Stays, Current
  <2>3. LoopQuiet(p) /\ AnswerQuiet(p)
    BY <1>1, <2>1, <2>2 DEF LoopQuiet, AnswerQuiet, Stays, Repeats, Sending, Transfers
  <2>4. ASSUME NEW r \in wire PROVE RequestQuiet(r)
    <3>1. CASE r.waiting => r.client # p
      BY <1>1, <1>5, <3>1, OthersQuiet
    <3>2. CASE r.client = p
      BY <2>2, <3>2 DEF RequestQuiet
    <3> QED BY <3>1, <3>2
  <2> QED BY <1>1, <1>3, <1>5, <1>7, <2>1, <2>3, <2>4, OthersQuiet DEF QuietPages
<1> QED BY <1>8, <1>9

LEMMA SetUnloadQuiet ==
  ASSUME Inv, NEW p \in Clients, setUnload(p)
  PROVE  QuietPages
<1> DEFINE open == {x \in ToSet(filesMap[p]) : ~entry[x].removed}
           sent == UNION {unreserve(p, entry[x].uuid) : x \in open}
<1>1. /\ wire' = ((wire \ Waiting(p)) \cup GivenUp(p)) \cup sent
      /\ tabOpen' = [tabOpen EXCEPT ![p] = FALSE] /\ loop' = [loop EXCEPT ![p] = Idle]
      /\ answer' = [answer EXCEPT ![p] = NoAnswer]
      /\ UNCHANGED <<filesMap, entry>>
  BY DEF setUnload
<1>2. /\ entry \in [Entries -> Entry] /\ loop \in [Clients -> Loop]
      /\ answer \in [Clients -> Answers] /\ tabOpen \in [Clients -> BOOLEAN]
      /\ filesMap[p] \in Seq(Entries)
  BY InvTypes
<1>3. OnlyPage(p) /\ loop'[p].pc = "idle" /\ answer'[p] = NoAnswer /\ ~tabOpen'[p]
  BY <1>1, <1>2 DEF OnlyPage, Idle
<1>4. \A q \in Clients : LoopQuiet(q) /\ AnswerQuiet(q)
  BY <1>3, LoopEndsQuiet DEF Sending
<1>5. \A f \in Entries : EntryQuiet(f)
  <2>1. \A q \in Clients : ~tabOpen[q] => ~tabOpen'[q]
    BY <1>1, <1>2
  <2> QED BY <1>1, <2>1, InvTypes DEF EntryQuiet
<1>6. ASSUME NEW r \in sent PROVE RequestQuiet(r)
  <2>1. PICK x \in open : r \in unreserve(p, entry[x].uuid)
    BY <1>6
  <2>2. x \in Entries /\ PageOf[x] = p /\ ~entry[x].removed
    <3>1. PICK i \in DOMAIN filesMap[p] : x = filesMap[p][i]
      BY <2>1 DEF ToSet
    <3> QED BY <1>2, <2>1, <3>1 DEF Inv, GuestInv, SettledInv, EntriesOwned
  <2>3. entry[x].uuid \in Uuids \cup {NoUuid}
    BY <1>2, <2>2 DEF Entry
  <2>4. ~r.waiting /\ r.kind = "unreserve" /\ r.uuid # NoUuid /\ r.uuid = entry[x].uuid
    BY <2>1, <2>3, UnreserveType
  <2>5. Left(x)'
    BY <1>1, <1>3, <2>2 DEF Left
  <2>6. NotSent(x)
    <3> SUFFICES ASSUME NEW q \in Clients \ {p}, loop'[q].pc = "add" PROVE Current(q)' # x
      BY <1>3 DEF NotSent
    <3>1. loop[q] = loop'[q] /\ Current(q)' = Current(q)
      BY <1>3 DEF OnlyPage, Current
    <3> QED BY <2>2, <3>1, InvTypes DEF Sending
  <2> QED BY <2>2, <2>4, <2>5, <2>6 DEF RequestQuiet
<1> HIDE DEF sent
<1>7. ASSUME NEW r \in wire' PROVE RequestQuiet(r)
  BY <1>1, <1>3, <1>6, <1>7, OthersQuiet DEF Waiting
<1> QED BY <1>4, <1>5, <1>7 DEF QuietPages

LEMMA GuestQuiet ==
  ASSUME Inv, StoreInv, GuestStep,
         ~\E p \in Clients : Resume(p) /\ loop[p].pc = "reserve" /\ answer[p].status = 200
  PROVE  QuietPages /\ QuietServer
<1>1. QuietPages
  BY CreateUploadBoxQuiet, NoRequestQuiet, StartEntryQuiet, ResumeQuiet, ConnectionFailsQuiet,
     RemoveBtnQuiet, SetUnloadQuiet DEF GuestStep, PageStep
<1>2. UNCHANGED <<issued, chunkFile, late, jobs>>
  BY DEF GuestStep, PageStep, createUploadBox, initUpload, AllVisited, StartEntry, Resume,
         ConnectionFails, removeBtn, setUnload, serverVars
<1> QED BY <1>1, <1>2 DEF QuietServer, JobQuiet, StoreInv, FilesInv, JobsWhole

LEMMA WireStep ==
  ASSUME Inv, NEW r \in wire, Answered(r) \/ Continue(r)
  PROVE  WireShrinks
<1>1. CASE Answered(r)
  BY <1>1 DEF Answered, WireShrinks, SameRequest
<1>2. CASE Continue(r)
  <2> DEFINE new == [r EXCEPT !.phase = "checked"]
  <2>1. r \in Requests
    BY InvTypes
  <2>2. SameRequest(new, r) /\ new.waiting = r.waiting
    BY <2>1 DEF Requests, SameRequest
  <2>3. wire' = (wire \ {r}) \cup {new}
    BY <1>2 DEF Continue
  <2> HIDE DEF new
  <2> QED BY <2>2, <2>3 DEF WireShrinks, SameRequest
<1> QED BY <1>1, <1>2

(* Handlers that only look at the request, or refuse it *)
LEMMA HandleQuiet ==
  ASSUME Inv, StoreInv, NEW r \in wire, Handle(r),
         ~ReserveNew(r), ~UnreserveDelete(r), ~NewChunk(r), ~CompleteStart(r)
  PROVE  QuietPages /\ QuietServer
<1>1. /\ UNCHANGED <<issued, chunkFile, late, jobs>> /\ (Answered(r) \/ Continue(r))
  BY DEF Handle, ReserveCheck, UnreserveCheck, AddCheck, ReserveRefuse, Refuse
<1>2. UNCHANGED <<filesMap, entry, loop, tabOpen>>
  BY DEF Handle
<1>3. \A p \in Clients : \/ answer'[p] = answer[p]
                         \/ answer'[p].uuid = NoUuid /\ answer'[p].status # 200
  <2>1. CASE UNCHANGED answer
    BY <2>1
  <2>2. ASSUME NEW status \in {400, 401, 404, 429}, Answer(r, status, NoUuid)
        PROVE  \A p \in Clients : \/ answer'[p] = answer[p]
                                  \/ answer'[p].uuid = NoUuid /\ answer'[p].status # 200
    <3> DEFINE new == [status |-> status, uuid |-> NoUuid]
    <3>1. answer' = answer \/ answer' = [answer EXCEPT ![r.client] = new]
      BY <2>2 DEF Answer
    <3>2. new.uuid = NoUuid /\ new.status # 200
      OBVIOUS
    <3> HIDE DEF new
    <3> QED BY <3>1, <3>2, InvTypes
  <2> QED BY <2>1, <2>2 DEF Handle
<1>4. QuietPages
  BY <1>1, <1>2, <1>3, WireStep, LoopsStay
<1> QED BY <1>1, <1>4 DEF QuietServer, JobQuiet, StoreInv, FilesInv, JobsWhole

(* Goroutines, except for the step that takes a chunk file *)
LEMMA JobsStay ==
  ASSUME Inv, StoreInv, UNCHANGED <<issued, chunkFile, late, jobs>>
  PROVE  QuietServer
  BY DEF QuietServer, JobQuiet, StoreInv, FilesInv, JobsWhole

LEMMA SetJobQuiet ==
  ASSUME Inv, StoreInv, UNCHANGED <<issued, chunkFile, late>>,
         NEW j, NEW pc, NEW state, NEW content, SetJob(j, pc, state, content),
         j \in DOMAIN jobs =>
            /\ pc \in Moved => jobs[j].pc \in Moved /\ content = jobs[j].content
            /\ jobs[j].pc \in Found => pc \in Found
            /\ jobs[j].uuid = NoUuid => pc \in Moved
            /\ state # "none" => pc \in {"release", "done"}
            /\ pc \in Lost => jobs[j].pc \in Lost \/ chunkFile[jobs[j].uuid] = NoFile
  PROVE  QuietServer
<1> DEFINE new == [uuid |-> jobs[j].uuid, pc |-> pc, row |-> state, content |-> content]
<1>1. jobs' = [jobs EXCEPT ![j] = new]
  BY DEF SetJob
<1>2. /\ new.uuid = jobs[j].uuid /\ new.pc = pc /\ new.row = state /\ new.content = content
  OBVIOUS
<1> HIDE DEF new
<1>3. DOMAIN jobs' = DOMAIN jobs /\ \A k \in DOMAIN jobs : jobs'[k] = IF k = j THEN new ELSE jobs[k]
  BY <1>1, InvTypes
<1>4. ASSUME NEW k \in DOMAIN jobs PROVE JobQuiet(k)
  <2>1. CASE k = j
    BY <1>2, <1>3, <2>1 DEF JobQuiet
  <2>2. CASE k # j
    BY <1>3, <2>2 DEF JobQuiet, StoreInv, FilesInv, JobsWhole
  <2> QED BY <2>1, <2>2
<1> QED BY <1>3, <1>4 DEF QuietServer

LEMMA JobStepQuiet ==
  ASSUME Inv, StoreInv, NEW j \in DOMAIN jobs, JobStep(j), ~JobMove(j), ~JobDiscards(j),
         UNCHANGED pageVars
  PROVE  QuietPages /\ QuietServer
<1>1. QuietServer
  <2> USE DEF Moved, Found, Lost
  <2>1. jobs[j].uuid # NoUuid
    BY InvTypes DEF JobStep, JobOpen, JobMisses, JobFails, JobSave, JobRelease
  <2>2. CASE JobOpen(j)
    BY <2>1, <2>2, SetJobQuiet DEF JobOpen
  <2>3. CASE JobMisses(j)
    BY <2>1, <2>3, SetJobQuiet DEF JobMisses
  <2>4. CASE JobFails(j)
    BY <2>1, <2>4, SetJobQuiet DEF JobFails
  <2>5. CASE JobSave(j)
    BY <2>1, <2>5, SetJobQuiet DEF JobSave
  <2>6. CASE JobRelease(j)
    BY <2>1, <2>6, SetJobQuiet DEF JobRelease
  <2> QED BY <2>2, <2>3, <2>4, <2>5, <2>6 DEF JobStep
<1>2. UNCHANGED <<wire, filesMap, entry, loop, answer, tabOpen>>
  BY DEF JobStep, JobOpen, JobMisses, JobFails, JobSave, JobRelease, pageVars
<1>3. QuietPages
  BY <1>2, LoopsStay DEF WireShrinks, SameRequest
<1> QED BY <1>1, <1>3

(* A restart hands out and takes away nothing: what was under way has failed. *)
LEMMA RestartQuiet ==
  ASSUME Inv, StoreInv, Restart
  PROVE  QuietPages /\ QuietServer
<1>1. /\ wire' = {} /\ UNCHANGED <<issued, chunkFile, late, filesMap, entry, loop, tabOpen>>
      /\ jobs' = [j \in DOMAIN jobs |-> Ended(jobs[j])]
      /\ \A p \in Clients : answer'[p] = answer[p] \/ answer'[p] = NetworkError
  BY DEF Restart, ServerRestart, ConnectionsCut
<1>2. ASSUME NEW j \in DOMAIN jobs PROVE JobQuiet(j)
  <2>1. jobs[j] \in Jobs /\ (jobs[j].uuid = NoUuid => jobs[j].pc = "done")
    BY InvTypes
  <2>2. jobs[j].row # "none" => jobs[j].pc \in {"release", "done"}
    BY DEF StoreInv, FilesInv, JobsWhole
  <2>3. jobs'[j] = Ended(jobs[j])
    BY <1>1
  <2>4. jobs'[j].uuid = jobs[j].uuid /\ jobs'[j].row = jobs[j].row /\ jobs'[j].content = jobs[j].content
    BY <2>1, <2>3 DEF Ended, Jobs
  <2>5. jobs'[j].pc = IF jobs[j].pc = "release" THEN "done"
                      ELSE IF jobs[j].pc = "missing" THEN "missed"
                      ELSE IF jobs[j].pc \in {"open", "move", "save", "broken"} THEN "failed"
                      ELSE jobs[j].pc
    BY <2>1, <2>3 DEF Ended, Jobs
  <2> QED BY <2>1, <2>2, <2>4, <2>5 DEF JobQuiet, Moved, Found, Lost
<1>3. QuietServer
  BY <1>1, <1>2 DEF QuietServer
<1>4. QuietPages
  BY <1>1, LoopsStay DEF NetworkError, WireShrinks
<1> QED BY <1>3, <1>4

LEMMA TimeQuiet ==
  ASSUME Inv, StoreInv, TimePasses
  PROVE  QuietPages /\ QuietServer
<1>1. UNCHANGED <<filesMap, entry, loop, answer, tabOpen>>
  BY DEF TimePasses, pageVars
<1>2. QuietServer
  <2>1. ASSUME NEW j \in DOMAIN jobs, PendingFileRemoved(j) PROVE QuietServer
    BY <2>1, SetJobQuiet DEF PendingFileRemoved, StoreInv, FilesInv, JobsWhole
  <2>2. CASE UNCHANGED <<issued, chunkFile, late, jobs>>
    BY <2>2, JobsStay
  <2> QED BY <2>1, <2>2 DEF TimePasses, ReservationExpires, cleanUp, RequestExpires, LoseRequest
<1>3. WireShrinks
  <2>1. wire' \subseteq wire
    BY DEF TimePasses, PendingFileRemoved, ReservationExpires, cleanUp, RequestExpires, LoseRequest
  <2> QED BY <2>1 DEF WireShrinks, SameRequest
<1> QED BY <1>1, <1>2, <1>3, LoopsStay

LEMMA OwnerQuiet ==
  ASSUME Inv, StoreInv, OwnerStep, UNCHANGED pageVars
  PROVE  QuietPages /\ QuietServer
<1>1. UNCHANGED wire /\ QuietServer
  <2>1. CASE UNCHANGED serverVars
    BY <2>1, JobsStay DEF serverVars
  <2>2. ASSUME NEW c \in calls, HandleCall(c) PROVE UNCHANGED wire /\ QuietServer
    <3>1. ASSUME NEW j, FileDelete(j) \/ FileRestore(j) PROVE UNCHANGED wire /\ QuietServer
      <4>1. PICK state \in {"pending", "live"} : SetJob(j, jobs[j].pc, state, jobs[j].content)
        BY <3>1 DEF FileDelete, FileRestore
      <4>2. jobs[j].row # "none" /\ UNCHANGED <<issued, chunkFile, wire, late>>
        BY <3>1 DEF FileDelete, FileRestore
      <4> QED BY <4>1, <4>2, SetJobQuiet DEF StoreInv, FilesInv, JobsWhole
    <3>2. CASE DeleteFilesOfRequest
      <4>1. ASSUME NEW j \in DOMAIN jobs PROVE JobQuiet(j)
        <5>1. jobs[j] \in Jobs
          BY InvTypes
        <5>2. jobs'[j] = IF jobs[j].row = "none" THEN jobs[j] ELSE [jobs[j] EXCEPT !.row = "gone"]
          BY <3>2 DEF DeleteFilesOfRequest
        <5> QED BY <5>1, <5>2 DEF JobQuiet, Jobs, StoreInv, FilesInv, JobsWhole
      <4> QED BY <3>2, <4>1 DEF DeleteFilesOfRequest, QuietServer
    <3>3. CASE UNCHANGED <<issued, chunkFile, late, jobs, wire>>
      BY <3>3, JobsStay
    <3> QED BY <2>2, <3>1, <3>2, <3>3
            DEF HandleCall, serverVars, DeleteFileRequest, DeleteApiKey, SaveFileRequest
  <2> QED BY <2>1, <2>2
          DEF OwnerStep, deleteOrShowModal, handleUndoFr, ToastHides, RowRemoved, Reload,
              deleteFileFr, FileRowRemoved, newFileRequest, editFileRequest, CheckLimit,
              saveFileRequest, TypeLimit, CallEnds
<1>2. UNCHANGED <<filesMap, entry, loop, answer, tabOpen>>
  BY DEF pageVars
<1> QED BY <1>1, <1>2, LoopsStay DEF WireShrinks, SameRequest

-----------------------------------------------------------------------------
(* The steps that hand out, write, complete or take away an upload *)

(* Actions: the pages keep their entries and loops; a job is about an upload *)
(* that has one, or whose completion is asked for.                           *)
PagesKept == UNCHANGED <<filesMap, entry, loop, tabOpen>>
JobsFrom ==
    \A j \in DOMAIN jobs' :
        \/ \E i \in DOMAIN jobs : jobs'[j].uuid = jobs[i].uuid
        \/ \E r \in wire : r.kind = "complete" /\ jobs'[j].uuid = r.uuid

LEMMA KeptNames ==
  ASSUME Inv, NamesInv, PagesKept, WireShrinks, JobsFrom, UNCHANGED issued,
         \A p \in Clients : answer'[p].uuid \in {NoUuid, answer[p].uuid}
  PROVE  NamesInv'
<1>1. /\ UNCHANGED <<filesMap, entry, loop, tabOpen, issued>>
      /\ \A p : UuidOf(p)' = UuidOf(p)
  BY DEF PagesKept, UuidOf, Current
<1>2. UuidsKnown'
  BY <1>1 DEF NamesInv, UuidsKnown, WireShrinks, SameRequest, JobsFrom
<1>3. EntriesApart'
  BY <1>1 DEF NamesInv, EntriesApart
<1>4. AnswersNew'
  <2>1. ASSUME NEW p \in Clients, NEW u, answer'[p].uuid = u, u # NoUuid
        PROVE  /\ loop'[p].pc = "reserve" /\ u <= issued' /\ StaysNew(u)
               /\ \A q \in Clients \ {p} : answer'[q].uuid # u
    <3>1. /\ loop[p].pc = "reserve" /\ u <= issued /\ New(u)
          /\ \A q \in Clients \ {p} : answer[q].uuid # u
      BY <2>1 DEF NamesInv, AnswersNew
    <3>2. StaysNew(u)
      BY <1>1, <3>1 DEF New, StaysNew, WireShrinks, SameRequest, JobsFrom
    <3> QED BY <1>1, <2>1, <3>1, <3>2
  <2> QED BY <2>1 DEF AnswersNew, New, StaysNew
<1>5. RequestsFit'
  BY <1>1 DEF NamesInv, RequestsFit, WireShrinks, SameRequest
<1>6. ReturnsApart'
  BY <1>1 DEF NamesInv, ReturnsApart, WireShrinks, SameRequest
<1> QED BY <1>2, <1>3, <1>4, <1>5, <1>6 DEF NamesInv

LEMMA KeptMarks ==
  ASSUME Inv, EndsInv, PagesKept, WireShrinks
  PROVE  ReturnsLeft' /\ CompletedMarked'
<1>1. /\ UNCHANGED <<filesMap, entry, loop, tabOpen>>
      /\ \A p : Current(p)' = Current(p)
  BY DEF PagesKept, Current
<1>2. ReturnsLeft'
  BY <1>1 DEF EndsInv, ReturnsLeft, Left, WireShrinks, SameRequest
<1>3. CompletedMarked'
  BY <1>1 DEF EndsInv, CompletedMarked
<1> QED BY <1>2, <1>3

(* An action: the completions that are asked for are none but those before.  *)
NoneCompletes == \A u : ((\/ \E r \in wire' : r.kind = "complete" /\ r.uuid = u
                          \/ \E j \in DOMAIN jobs' : jobs'[j].uuid = u
                          \/ \E p \in Clients : loop'[p].pc = "complete" /\ UuidOf(p)' = u)
                         => Completing(u))

LEMMA KeptNoneCompletes ==
  ASSUME Inv, PagesKept, WireShrinks, JobsFrom
  PROVE  NoneCompletes
<1>1. loop' = loop /\ \A p : UuidOf(p)' = UuidOf(p)
  BY DEF PagesKept, UuidOf, Current
<1> QED BY <1>1 DEF Completing, WireShrinks, SameRequest, JobsFrom, NoneCompletes

LEMMA KeptSent ==
  ASSUME Inv, FilesInv, PagesKept, NoneCompletes,
         \A p \in Clients : loop[p].pc = "add" =>
            /\ chunkFile'[UuidOf(p)] = chunkFile[UuidOf(p)]
            /\ answer'[p].status = 200 => answer[p].status = 200
  PROVE  ChunksSent'
<1>1. loop' = loop /\ \A p : UuidOf(p)' = UuidOf(p)
  BY DEF PagesKept, UuidOf, Current
<1>2. ASSUME NEW p \in Clients, NEW u, u = UuidOf(p), loop[p].pc = "add"
      PROVE  /\ ~Completing(u)'
             /\ chunkFile'[u] = chunkFile[u]
             /\ \A c \in Chunks : c < loop[p].chunk => Has(u, c)
             /\ answer'[p].status = 200 => Has(u, loop[p].chunk)
  <2>1. /\ ~Completing(u)
        /\ \A c \in Chunks : c < loop[p].chunk => Has(u, c)
        /\ answer[p].status = 200 => Has(u, loop[p].chunk)
    BY <1>2 DEF FilesInv, ChunksSent, Completing, Has
  <2> QED BY <1>2, <2>1 DEF NoneCompletes, Completing
<1> QED BY <1>1, <1>2 DEF ChunksSent, Completing, Has

(* The answer to a request that its client waits for *)
LEMMA AnswerStep ==
  ASSUME Inv, NEW r \in wire, NEW status, NEW uuid, Answer(r, status, uuid)
  PROVE  /\ ~r.waiting => answer' = answer
         /\ \A p \in Clients : r.client # p => answer'[p] = answer[p]
         /\ r.waiting => answer'[r.client].status = status /\ answer'[r.client].uuid = uuid
<1> DEFINE new == [status |-> status, uuid |-> uuid]
<1>1. answer' = IF r.waiting THEN [answer EXCEPT ![r.client] = new] ELSE answer
  BY DEF Answer
<1>2. new.status = status /\ new.uuid = uuid
  OBVIOUS
<1> HIDE DEF new
<1> QED BY <1>1, <1>2, InvTypes

LEMMA ReserveNewStore ==
  ASSUME Inv, StoreInv, NEW r \in wire, ReserveNew(r), Answer(r, 200, issued + 1), PagesKept
  PROVE  StoreInv'
<1>1. /\ issued' = issued + 1 /\ issued \in Nat
      /\ UNCHANGED <<chunkFile, jobs, late>> /\ r.kind = "reserve" /\ wire' = wire \ {r}
  BY InvTypes DEF ReserveNew, Answered
<1>2. WireShrinks /\ JobsFrom
  BY <1>1 DEF WireShrinks, SameRequest, JobsFrom
<1>3. /\ UNCHANGED <<filesMap, entry, loop, tabOpen>>
      /\ \A p : UuidOf(p)' = UuidOf(p) /\ Current(p)' = Current(p)
  BY DEF PagesKept, UuidOf, Current
<1>4. /\ \A p \in Clients : \/ answer'[p] = answer[p]
                            \/ /\ loop[p].pc = "reserve" /\ p = r.client
                               /\ answer'[p].uuid = issued + 1
  <2>1. r.waiting => loop[r.client].pc = "reserve" /\ answer'[r.client].uuid = issued + 1
    BY <1>1, AnswerStep, InvTypes
  <2>2. \A p \in Clients : r.client # p => answer'[p] = answer[p]
    BY AnswerStep
  <2>3. ~r.waiting => answer' = answer
    BY AnswerStep
  <2> QED BY <2>1, <2>2, <2>3
<1>5. NamesInv'
  <2>1. UuidsKnown'
    BY <1>1, <1>3, InvTypes DEF StoreInv, NamesInv, UuidsKnown
  <2>2. AnswersNew'
    <3>1. ASSUME NEW p \in Clients, NEW u, answer'[p].uuid = u, u # NoUuid
          PROVE  /\ loop'[p].pc = "reserve" /\ u <= issued' /\ StaysNew(u)
                 /\ \A q \in Clients \ {p} : answer'[q].uuid # u
      <4>1. CASE answer'[p] = answer[p]
        <5>1. /\ loop[p].pc = "reserve" /\ u <= issued /\ New(u)
              /\ \A q \in Clients \ {p} : answer[q].uuid # u
          BY <3>1, <4>1 DEF StoreInv, NamesInv, AnswersNew
        <5>2. StaysNew(u)
          BY <1>1, <1>3, <5>1 DEF New, StaysNew
        <5>3. u \in Nat
          BY <3>1, <4>1, InvTypes
        <5>4. \A q \in Clients \ {p} : answer'[q].uuid # u
          BY <1>1, <1>4, <5>1, <5>3
        <5> QED BY <1>1, <1>3, <5>1, <5>2, <5>3, <5>4
      <4>2. CASE loop[p].pc = "reserve" /\ p = r.client /\ u = issued + 1
        <5>1. StaysNew(u)
          <6>1. \A e \in Entries : entry[e].uuid # u
            BY <1>1, <4>2, InvTypes DEF StoreInv, NamesInv, UuidsKnown
          <6>2. \A s \in wire : s.uuid # u
            BY <1>1, <4>2, InvTypes DEF StoreInv, NamesInv, UuidsKnown
          <6>3. \A j \in DOMAIN jobs : jobs[j].uuid # u
            BY <1>1, <4>2, InvTypes DEF StoreInv, NamesInv, UuidsKnown
          <6> QED BY <1>1, <1>3, <6>1, <6>2, <6>3 DEF StaysNew
        <5>2. ASSUME NEW q \in Clients \ {p} PROVE answer'[q].uuid # u
          <6>1. answer'[q] = answer[q] /\ answer[q].uuid \in Nat
            BY <1>4, <4>2, InvTypes
          <6>2. answer[q].uuid = NoUuid \/ answer[q].uuid <= issued
            BY DEF StoreInv, NamesInv, AnswersNew
          <6> QED BY <1>1, <4>2, <6>1, <6>2 DEF NoUuid
        <5> QED BY <1>1, <1>3, <4>2, <5>1, <5>2
      <4> QED BY <1>4, <3>1, <4>1, <4>2
    <3> QED BY <3>1 DEF AnswersNew, New, StaysNew
  <2>3. EntriesApart' /\ RequestsFit' /\ ReturnsApart'
    BY <1>1, <1>3 DEF StoreInv, NamesInv, EntriesApart, RequestsFit, ReturnsApart
  <2> QED BY <2>1, <2>2, <2>3 DEF NamesInv
<1>6. FilesInv'
  <2>1. NoneCompletes
    BY <1>2, KeptNoneCompletes
  <2>2. ChunksSent'
    BY <1>1, <1>3, <1>4, <2>1 DEF StoreInv, FilesInv, ChunksSent, Completing, NoneCompletes, Has
  <2>3. ChunksWhole'
    BY <1>1, <2>1 DEF StoreInv, FilesInv, ChunksWhole, Completing, NoneCompletes
  <2>4. JobsWhole' /\ JobsApart'
    BY <1>1 DEF StoreInv, FilesInv, JobsWhole, JobsApart
  <2> QED BY <2>2, <2>3, <2>4 DEF FilesInv
<1>7. EndsInv'
  <2>1. EndsTaken'
    <3>1. \A e \in Entries : PageOf[e] \in Clients
      BY InvTypes
    <3> QED BY <1>1, <1>3, <1>4, <3>1 DEF StoreInv, EndsInv, EndsTaken, Ends, Taken, Missed, Started
  <2> QED BY <1>2, <2>1, KeptMarks DEF StoreInv, EndsInv
<1> QED BY <1>5, <1>6, <1>7 DEF StoreInv

(* What is given back belongs to an entry that was removed or whose page has *)
(* been left, so that no loop is about it.                                   *)
LEMMA UnreserveDeleteStore ==
  ASSUME Inv, StoreInv, NEW r \in wire, UnreserveDelete(r), Answer(r, 200, NoUuid), PagesKept
  PROVE  StoreInv'
<1>1. /\ UNCHANGED <<issued, jobs, late>> /\ r.kind = "unreserve" /\ wire' = wire \ {r}
      /\ chunkFile' = [chunkFile EXCEPT ![r.uuid] = NoFile]
      /\ chunkFile \in [Uuids -> Chunked]
  BY InvTypes DEF UnreserveDelete, Answered, DeleteChunk
<1>2. WireShrinks /\ JobsFrom
  BY <1>1 DEF WireShrinks, SameRequest, JobsFrom
<1>3. /\ UNCHANGED <<filesMap, entry, loop, tabOpen>>
      /\ \A p : UuidOf(p)' = UuidOf(p) /\ Current(p)' = Current(p)
  BY DEF PagesKept, UuidOf, Current
<1>4. answer' = answer
  <2>1. ~r.waiting
    BY <1>1, InvTypes DEF Sending
  <2> QED BY <2>1, AnswerStep
<1>5. \A u \in Uuids : chunkFile'[u] = IF u = r.uuid THEN NoFile ELSE chunkFile[u]
  BY <1>1
<1>6. NamesInv'
  BY <1>1, <1>2, <1>4, KeptNames DEF StoreInv
<1>7. FilesInv'
  <2>1. NoneCompletes
    BY <1>2, KeptNoneCompletes
  <2>2. ChunksSent'
    <3>1. ASSUME NEW p \in Clients, loop[p].pc = "add"
          PROVE  chunkFile'[UuidOf(p)] = chunkFile[UuidOf(p)]
      <4>1. UuidOf(p) # r.uuid
        BY <1>1, <3>1 DEF StoreInv, NamesInv, ReturnsApart
      <4> QED BY <1>1, <4>1
    <3> QED BY <1>1, <1>3, <1>4, <2>1, <3>1
            DEF StoreInv, FilesInv, ChunksSent, Completing, NoneCompletes, Has
  <2>3. ChunksWhole'
    BY <1>1, <1>5, <2>1 DEF StoreInv, FilesInv, ChunksWhole, Completing, NoneCompletes
  <2>4. JobsWhole' /\ JobsApart'
    <3>1. \A u : chunkFile[u] = NoFile => chunkFile'[u] = NoFile
      BY <1>1
    <3> QED BY <1>1, <3>1 DEF StoreInv, FilesInv, JobsWhole, JobsApart
  <2> QED BY <2>2, <2>3, <2>4 DEF FilesInv
<1>8. EndsInv'
  <2>1. EndsTaken'
    <3>1. ASSUME NEW e \in Entries, ~entry[e].aborted, Ends(e)
          PROVE  chunkFile'[entry[e].uuid] = chunkFile[entry[e].uuid]
      <4>1. PageOf[e] \in Clients
        BY InvTypes
      <4>2. ~Left(e)
        BY <3>1, <4>1 DEF StoreInv, EndsInv, CompletedMarked, Ends, Left
      <4>3. entry[e].uuid # r.uuid
        BY <1>1, <4>2 DEF StoreInv, EndsInv, ReturnsLeft
      <4> QED BY <1>1, <4>3
    <3> QED BY <1>1, <1>3, <1>4, <3>1 DEF StoreInv, EndsInv, EndsTaken, Ends, Taken, Missed, Started
  <2> QED BY <1>2, <2>1, KeptMarks DEF StoreInv, EndsInv
<1> QED BY <1>6, <1>7, <1>8 DEF StoreInv

(* A chunk that the page waits for is the one its loop is at; after a late   *)
(* one the upload is known to be.                                            *)
LEMMA NewChunkStore ==
  ASSUME Inv, StoreInv, NEW r \in wire, NewChunk(r), Answer(r, 200, NoUuid), PagesKept
  PROVE  StoreInv'
<1> DEFINE u == r.uuid
           new == (IF chunkFile[u] = NoFile THEN {} ELSE chunkFile[u]) \cup {r.chunk}
<1>1. /\ UNCHANGED <<issued, jobs>> /\ r.kind = "add" /\ wire' = wire \ {r}
      /\ chunkFile' = [chunkFile EXCEPT ![u] = new]
      /\ late' = IF r.waiting THEN late ELSE late \cup {u}
      /\ chunkFile \in [Uuids -> Chunked] /\ u \in Uuids /\ r.chunk \in Chunks
  BY InvTypes DEF NewChunk, Answered
<1>2. WireShrinks /\ JobsFrom
  BY <1>1 DEF WireShrinks, SameRequest, JobsFrom
<1>3. /\ UNCHANGED <<filesMap, entry, loop, tabOpen>>
      /\ \A p : UuidOf(p)' = UuidOf(p) /\ Current(p)' = Current(p)
  BY DEF PagesKept, UuidOf, Current
<1>4. new # NoFile /\ r.chunk \in new /\ (chunkFile[u] # NoFile => chunkFile[u] \subseteq new)
  <2>1. new \in SUBSET Chunks
    BY <1>1 DEF Chunked
  <2> QED BY <2>1, ChunksAssumption DEF Chunks
<1> HIDE DEF new
<1>5. /\ chunkFile'[u] = new /\ \A v : v # u => chunkFile'[v] = chunkFile[v]
      /\ \A v : chunkFile'[v] = NoFile => chunkFile[v] = NoFile
      /\ \A v, c : Has(v, c) => chunkFile'[v] # NoFile /\ c \in chunkFile'[v]
  <2>1. chunkFile'[u] = new /\ \A v : v # u => chunkFile'[v] = chunkFile[v]
    BY <1>1
  <2> QED BY <1>4, <2>1 DEF Has
<1>6. r.waiting => /\ loop[r.client].pc = "add" /\ u = UuidOf(r.client)
                   /\ r.chunk = loop[r.client].chunk /\ r.client \in Clients
                   /\ ~Completing(u)
  <2>1. r.waiting => /\ loop[r.client].pc = "add" /\ u = UuidOf(r.client)
                     /\ r.chunk = loop[r.client].chunk /\ r.client \in Clients
    BY <1>1, InvTypes DEF StoreInv, NamesInv, RequestsFit, Transfers
  <2>2. ASSUME r.waiting PROVE ~Completing(u)
    <3>1. ~Completing(UuidOf(r.client)) /\ u = UuidOf(r.client)
      BY <2>1, <2>2 DEF StoreInv, FilesInv, ChunksSent
    <3> QED BY <3>1
  <2> QED BY <2>1, <2>2
<1>7. \A p \in Clients : answer'[p] = answer[p]
                         \/ (r.waiting /\ p = r.client /\ answer'[p].uuid = NoUuid)
  BY AnswerStep
<1>8. NamesInv'
  BY <1>1, <1>2, <1>7, KeptNames DEF StoreInv
<1>9. FilesInv'
  <2>1. NoneCompletes
    BY <1>2, KeptNoneCompletes
  <2>2. ChunksSent'
    <3>1. ASSUME NEW p \in Clients, loop[p].pc = "add", answer'[p].status = 200
          PROVE  chunkFile'[UuidOf(p)] # NoFile /\ loop[p].chunk \in chunkFile'[UuidOf(p)]
      <4>1. CASE answer'[p] = answer[p]
        BY <1>5, <3>1, <4>1 DEF StoreInv, FilesInv, ChunksSent
      <4>2. CASE r.waiting /\ p = r.client
        BY <1>4, <1>5, <1>6, <4>2
      <4> QED BY <1>7, <4>1, <4>2
    <3> QED BY <1>3, <1>5, <2>1, <3>1
            DEF StoreInv, FilesInv, ChunksSent, Completing, NoneCompletes, Has
  <2>3. ASSUME NEW v, Completing(v), v \notin late'
        PROVE  v \notin late /\ chunkFile'[v] = chunkFile[v]
    BY <1>1, <1>5, <1>6, <2>3
  <2>4. ChunksWhole'
    BY <2>1, <2>3 DEF StoreInv, FilesInv, ChunksWhole, Completing, NoneCompletes
  <2>5. \A j \in DOMAIN jobs : Completing(jobs[j].uuid)
    BY DEF Completing
  <2>6. JobsWhole' /\ JobsApart'
    BY <1>1, <2>3, <2>5 DEF StoreInv, FilesInv, JobsWhole, JobsApart
  <2> QED BY <2>2, <2>4, <2>6 DEF FilesInv
<1>10. EndsInv'
  <2>1. EndsTaken'
    <3>1. ASSUME NEW e \in Entries, Ends(e), entry[e].status = "completed" \/ answer'[PageOf[e]].status = 200
          PROVE  entry[e].status = "completed" \/ answer[PageOf[e]].status = 200
      BY <1>6, <1>7, <3>1, InvTypes DEF Ends
    <3> QED BY <1>1, <1>3, <1>5, <3>1 DEF StoreInv, EndsInv, EndsTaken, Ends, Taken, Missed, Started
  <2> QED BY <1>2, <2>1, KeptMarks DEF StoreInv, EndsInv
<1> QED BY <1>8, <1>9, <1>10 DEF StoreInv

LEMMA CompleteStartStore ==
  ASSUME Inv, StoreInv, NEW r \in wire, CompleteStart(r), Answer(r, 200, NoUuid), PagesKept
  PROVE  StoreInv'
<1> DEFINE job == [uuid |-> r.uuid, pc |-> "open", row |-> "none", content |-> NoFile]
<1>1. /\ UNCHANGED <<issued, chunkFile, late>> /\ r.kind = "complete" /\ wire' = wire \ {r}
      /\ jobs' = Append(jobs, job) /\ jobs \in Seq(Jobs) /\ r.uuid # NoUuid
  BY InvTypes DEF CompleteStart, Answered
<1>2. job.uuid = r.uuid /\ job.pc = "open" /\ job.row = "none"
  OBVIOUS
<1> HIDE DEF job
<1>3. /\ \A j \in DOMAIN jobs : j \in DOMAIN jobs' /\ jobs'[j] = jobs[j]
      /\ \E j \in DOMAIN jobs' : jobs'[j] = job
      /\ \A j \in DOMAIN jobs' : j \in DOMAIN jobs \/ jobs'[j] = job
  <2>1. /\ Len(jobs) \in Nat /\ DOMAIN jobs = 1..Len(jobs)
        /\ DOMAIN jobs' = 1..Len(jobs) + 1 /\ jobs'[Len(jobs) + 1] = job
        /\ \A j \in 1..Len(jobs) : jobs'[j] = jobs[j]
    BY <1>1
  <2> QED BY <2>1
<1>4. WireShrinks /\ JobsFrom
  BY <1>1, <1>2, <1>3 DEF WireShrinks, SameRequest, JobsFrom
<1>5. /\ UNCHANGED <<filesMap, entry, loop, tabOpen>>
      /\ \A p : UuidOf(p)' = UuidOf(p) /\ Current(p)' = Current(p)
  BY DEF PagesKept, UuidOf, Current
<1>6. /\ \A p \in Clients : answer'[p] = answer[p]
                         \/ (r.waiting /\ p = r.client /\ answer'[p].uuid = NoUuid)
      /\ r.waiting => loop[r.client].pc = "complete" /\ r.uuid = UuidOf(r.client)
  BY <1>1, AnswerStep, InvTypes DEF StoreInv, NamesInv, RequestsFit, Transfers
<1>7. NamesInv'
  BY <1>1, <1>4, <1>6, KeptNames DEF StoreInv
<1>8. FilesInv'
  <2>1. NoneCompletes
    BY <1>4, KeptNoneCompletes
  <2>2. ChunksSent'
    BY <1>1, <1>6, <2>1, KeptSent DEF StoreInv
  <2>3. ChunksWhole'
    BY <1>1, <2>1 DEF StoreInv, FilesInv, ChunksWhole, Completing, NoneCompletes
  <2>4. job.pc \notin Moved
    BY <1>2 DEF Moved
  <2>5. JobsWhole'
    BY <1>1, <1>2, <1>3, <2>4 DEF StoreInv, FilesInv, JobsWhole
  <2>6. JobsApart'
    BY <1>1, <1>2, <1>3, <2>4 DEF StoreInv, FilesInv, JobsApart
  <2> QED BY <2>2, <2>3, <2>5, <2>6 DEF FilesInv
<1>9. EndsInv'
  <2>1. EndsTaken'
    <3>1. \A v : Taken(v) => \E j \in DOMAIN jobs' : jobs'[j].uuid = v /\ jobs'[j].pc \in Found
      BY <1>3 DEF Taken
    <3>2. \A v : Started(v) \/ v = r.uuid =>
               \E j \in DOMAIN jobs' : jobs'[j].uuid = v /\ jobs'[j].pc \notin Lost
      BY <1>2, <1>3 DEF Started, Lost
    <3>5. \A j \in DOMAIN jobs' : jobs'[j].pc \in Lost => Missed(jobs'[j].uuid)
      BY <1>2, <1>3 DEF Missed, Lost
    <3>3. ASSUME NEW e \in Entries, ~entry[e].aborted, Ends(e),
                 entry[e].status = "completed" \/ answer'[PageOf[e]].status = 200
          PROVE  Started(entry[e].uuid) \/ entry[e].uuid = r.uuid
      <4>1. CASE entry[e].status = "completed" \/ answer[PageOf[e]].status = 200
        BY <3>3, <4>1 DEF StoreInv, EndsInv, EndsTaken
      <4>2. CASE entry[e].status # "completed" /\ r.waiting /\ PageOf[e] = r.client
        BY <1>6, <3>3, <4>2 DEF Ends, UuidOf
      <4>3. PageOf[e] \in Clients
        BY InvTypes
      <4> QED BY <1>6, <3>3, <4>1, <4>2, <4>3
    <3>4. ASSUME NEW e \in Entries, NEW v, v = entry[e].uuid, ~entry[e].aborted, Ends(e)
          PROVE  /\ \/ chunkFile[v] = NoFile
                    \/ \E j \in DOMAIN jobs' : jobs'[j].uuid = v /\ jobs'[j].pc \in Lost
                    => \E j \in DOMAIN jobs' : jobs'[j].uuid = v /\ jobs'[j].pc \in Found
                 /\ entry[e].status = "completed" \/ answer'[PageOf[e]].status = 200 =>
                       \E j \in DOMAIN jobs' : jobs'[j].uuid = v /\ jobs'[j].pc \notin Lost
      <4>1. chunkFile[v] = NoFile \/ Missed(v) => Taken(v)
        BY <3>4 DEF StoreInv, EndsInv, EndsTaken
      <4> QED BY <3>1, <3>2, <3>3, <3>4, <3>5, <4>1
    <3> QED BY <1>1, <1>5, <3>4 DEF EndsTaken, Ends, Taken, Missed, Started
  <2> QED BY <1>4, <2>1, KeptMarks DEF StoreInv, EndsInv
<1> QED BY <1>7, <1>8, <1>9 DEF StoreInv

(* The job that takes the chunk file away finds it whole, and is the first. *)
LEMMA JobMoveStore ==
  ASSUME Inv, StoreInv, NEW j \in DOMAIN jobs, JobMove(j), UNCHANGED pageVars
  PROVE  StoreInv'
<1> DEFINE u == jobs[j].uuid
           job == [uuid |-> u, pc |-> "save", row |-> "none", content |-> chunkFile[u]]
<1>1. /\ UNCHANGED <<issued, wire, late, filesMap, entry, loop, answer, tabOpen>>
      /\ jobs[j].pc = "move" /\ chunkFile[u] # NoFile
      /\ chunkFile' = [chunkFile EXCEPT ![u] = NoFile]
      /\ jobs' = [jobs EXCEPT ![j] = job]
      /\ jobs \in Seq(Jobs) /\ chunkFile \in [Uuids -> Chunked] /\ u \in Uuids /\ u # NoUuid
  BY InvTypes DEF JobMove, DeleteChunk, SetJob, pageVars
<1>2. job.uuid = u /\ job.pc = "save" /\ job.row = "none" /\ job.content = chunkFile[u]
  OBVIOUS
<1> HIDE DEF job
<1>3. DOMAIN jobs' = DOMAIN jobs /\ \A k \in DOMAIN jobs : jobs'[k] = IF k = j THEN job ELSE jobs[k]
  BY <1>1
<1>4. chunkFile'[u] = NoFile /\ \A v : v # u => chunkFile'[v] = chunkFile[v]
  BY <1>1
<1>5. PagesKept /\ WireShrinks /\ JobsFrom
  BY <1>1, <1>2, <1>3 DEF PagesKept, WireShrinks, SameRequest, JobsFrom
<1>6. \A p : UuidOf(p)' = UuidOf(p) /\ Current(p)' = Current(p)
  BY <1>1 DEF UuidOf, Current
<1>7. NamesInv'
  BY <1>1, <1>5, KeptNames DEF StoreInv
<1>8. FilesInv'
  <2>1. NoneCompletes
    BY <1>5, KeptNoneCompletes
  <2>2. Completing(u)
    BY DEF Completing
  <2>3. ChunksSent'
    <3>1. ASSUME NEW p \in Clients, loop[p].pc = "add"
          PROVE  chunkFile'[UuidOf(p)] = chunkFile[UuidOf(p)]
      <4>1. ~Completing(UuidOf(p))
        BY <3>1 DEF StoreInv, FilesInv, ChunksSent
      <4>2. UuidOf(p) # u
        <5>1. ASSUME NEW v, v = UuidOf(p), v = u PROVE FALSE
          BY <4>1, <5>1 DEF Completing
        <5> QED BY <5>1
      <4> QED BY <1>4, <4>2
    <3> QED BY <1>1, <1>5, <2>1, <3>1, KeptSent DEF StoreInv
  <2>4. ChunksWhole'
    BY <1>1, <1>4, <2>1 DEF StoreInv, FilesInv, ChunksWhole, Completing, NoneCompletes
  <2>5. u \notin late => chunkFile[u] = Chunks
    BY <1>1, <2>2 DEF StoreInv, FilesInv, ChunksWhole
  <2>6. JobsWhole'
    <3>1. ASSUME NEW k \in DOMAIN jobs, k # j
          PROVE  /\ jobs[k].row # "none" => jobs[k].pc \in {"release", "done"}
                 /\ jobs[k].uuid = NoUuid => jobs[k].pc \in Moved /\ jobs[k].content = Chunks
                 /\ jobs[k].pc \in Moved /\ jobs[k].uuid \notin late \cup {NoUuid} =>
                       jobs[k].content = Chunks /\ chunkFile'[jobs[k].uuid] = NoFile
      BY <1>4, <3>1 DEF StoreInv, FilesInv, JobsWhole
    <3> QED BY <1>1, <1>2, <1>3, <1>4, <2>5, <3>1 DEF JobsWhole
  <2>7. JobsApart'
    <3>1. ASSUME NEW k \in DOMAIN jobs, jobs[k].uuid = u, u \notin late
          PROVE  jobs[k].pc \notin Moved
      BY <1>1, <3>1 DEF StoreInv, FilesInv, JobsWhole
    <3> QED BY <1>1, <1>2, <1>3, <3>1 DEF StoreInv, FilesInv, JobsApart
  <2> QED BY <2>3, <2>4, <2>6, <2>7 DEF FilesInv
<1>9. EndsInv'
  <2>1. EndsTaken'
    <3>1. \A v : Taken(v) \/ v = u =>
               \E k \in DOMAIN jobs' : jobs'[k].uuid = v /\ jobs'[k].pc \in Found
      <4>1. jobs'[j] = job /\ job.pc \in Found
        BY <1>2, <1>3 DEF Found, Moved
      <4>2. ASSUME NEW v, Taken(v)
            PROVE  \E k \in DOMAIN jobs' : jobs'[k].uuid = v /\ jobs'[k].pc \in Found
        <5>1. PICK k \in DOMAIN jobs : jobs[k].uuid = v /\ jobs[k].pc \in Found
          BY <4>2 DEF Taken
        <5>2. k # j
          BY <1>1, <5>1 DEF Found, Moved
        <5> QED BY <1>3, <5>1, <5>2
      <4> QED BY <1>2, <1>3, <4>1, <4>2
    <3>2. \A v : Started(v) => \E k \in DOMAIN jobs' : jobs'[k].uuid = v /\ jobs'[k].pc \notin Lost
      BY <1>2, <1>3 DEF Started, Lost
    <3>4. \A k \in DOMAIN jobs' : jobs'[k].pc \in Lost => Missed(jobs'[k].uuid)
      BY <1>2, <1>3 DEF Missed, Lost
    <3>3. ASSUME NEW e \in Entries, NEW v, v = entry[e].uuid, ~entry[e].aborted, Ends(e)
          PROVE  /\ \/ chunkFile'[v] = NoFile
                    \/ \E k \in DOMAIN jobs' : jobs'[k].uuid = v /\ jobs'[k].pc \in Lost
                    => \E k \in DOMAIN jobs' : jobs'[k].uuid = v /\ jobs'[k].pc \in Found
                 /\ entry[e].status = "completed" \/ answer[PageOf[e]].status = 200 =>
                       \E k \in DOMAIN jobs' : jobs'[k].uuid = v /\ jobs'[k].pc \notin Lost
      <4>1. chunkFile[v] = NoFile \/ Missed(v) => Taken(v)
        BY <3>3 DEF StoreInv, EndsInv, EndsTaken
      <4>2. entry[e].status = "completed" \/ answer[PageOf[e]].status = 200 => Started(v)
        BY <1>1, <3>3 DEF StoreInv, EndsInv, EndsTaken
      <4> QED BY <1>4, <3>1, <3>2, <3>4, <4>1, <4>2
    <3> QED BY <1>1, <1>6, <3>3 DEF EndsTaken, Ends, Taken, Missed, Started
  <2> QED BY <1>5, <2>1, KeptMarks DEF StoreInv, EndsInv
<1> QED BY <1>7, <1>8, <1>9 DEF StoreInv

(* A job that ends in an error removes the chunk file by its name: of an     *)
(* entry that still counts it has found it itself, or another one has.       *)
LEMMA JobDiscardsStore ==
  ASSUME Inv, StoreInv, NEW j \in DOMAIN jobs, JobDiscards(j), UNCHANGED pageVars
  PROVE  StoreInv'
<1> DEFINE u == jobs[j].uuid
           pc == IF jobs[j].pc = "missing" THEN "missed" ELSE "failed"
           job == [uuid |-> u, pc |-> pc, row |-> "none", content |-> NoFile]
<1>1. /\ UNCHANGED <<issued, wire, late, filesMap, entry, loop, answer, tabOpen>>
      /\ jobs[j].pc \in {"missing", "broken"}
      /\ chunkFile' = [chunkFile EXCEPT ![u] = NoFile]
      /\ jobs' = [jobs EXCEPT ![j] = job]
      /\ jobs \in Seq(Jobs) /\ chunkFile \in [Uuids -> Chunked] /\ u \in Uuids /\ u # NoUuid
  BY InvTypes DEF JobDiscards, DeleteChunk, SetJob, pageVars
<1>2. /\ job.uuid = u /\ job.row = "none" /\ job.pc \in {"missed", "failed"}
      /\ job.pc = "missed" <=> jobs[j].pc = "missing"
  OBVIOUS
<1> HIDE DEF job
<1>3. DOMAIN jobs' = DOMAIN jobs /\ \A k \in DOMAIN jobs : jobs'[k] = IF k = j THEN job ELSE jobs[k]
  BY <1>1
<1>4. chunkFile'[u] = NoFile /\ \A v : v # u => chunkFile'[v] = chunkFile[v]
  BY <1>1
<1>5. PagesKept /\ WireShrinks /\ JobsFrom
  BY <1>1, <1>2, <1>3 DEF PagesKept, WireShrinks, SameRequest, JobsFrom
<1>6. \A p : UuidOf(p)' = UuidOf(p) /\ Current(p)' = Current(p)
  BY <1>1 DEF UuidOf, Current
<1>7. NamesInv'
  BY <1>1, <1>5, KeptNames DEF StoreInv
<1>8. FilesInv'
  <2>1. NoneCompletes
    BY <1>5, KeptNoneCompletes
  <2>2. ChunksSent'
    <3>1. ASSUME NEW p \in Clients, loop[p].pc = "add"
          PROVE  chunkFile'[UuidOf(p)] = chunkFile[UuidOf(p)]
      <4>1. ~Completing(UuidOf(p))
        BY <3>1 DEF StoreInv, FilesInv, ChunksSent
      <4>2. UuidOf(p) # u
        <5>1. ASSUME NEW v, v = UuidOf(p), v = u PROVE FALSE
          BY <4>1, <5>1 DEF Completing
        <5> QED BY <5>1
      <4> QED BY <1>4, <4>2
    <3> QED BY <1>1, <1>5, <2>1, <3>1, KeptSent DEF StoreInv
  <2>3. ChunksWhole'
    BY <1>1, <1>4, <2>1 DEF StoreInv, FilesInv, ChunksWhole, Completing, NoneCompletes
  <2>4. job.pc \notin Moved
    BY <1>2 DEF Moved
  <2>5. JobsWhole'
    <3>1. ASSUME NEW k \in DOMAIN jobs, k # j
          PROVE  /\ jobs[k].row # "none" => jobs[k].pc \in {"release", "done"}
                 /\ jobs[k].uuid = NoUuid => jobs[k].pc \in Moved /\ jobs[k].content = Chunks
                 /\ jobs[k].pc \in Moved /\ jobs[k].uuid \notin late \cup {NoUuid} =>
                       jobs[k].content = Chunks /\ chunkFile'[jobs[k].uuid] = NoFile
      BY <1>4, <3>1 DEF StoreInv, FilesInv, JobsWhole
    <3> QED BY <1>1, <1>2, <1>3, <2>4, <3>1 DEF JobsWhole
  <2>6. JobsApart'
    BY <1>1, <1>2, <1>3, <2>4 DEF StoreInv, FilesInv, JobsApart
  <2> QED BY <2>2, <2>3, <2>5, <2>6 DEF FilesInv
<1>9. EndsInv'
  <2>1. EndsTaken'
    <3>1. ASSUME NEW v, Taken(v)
          PROVE  \E k \in DOMAIN jobs' : jobs'[k].uuid = v /\ jobs'[k].pc \in Found
      <4>1. PICK k \in DOMAIN jobs : jobs[k].uuid = v /\ jobs[k].pc \in Found
        BY <3>1 DEF Taken
      <4>2. k # j => jobs'[k] = jobs[k]
        BY <1>3
      <4>3. k = j => job.pc \in Found
        BY <1>1, <1>2, <4>1 DEF Found, Moved
      <4> QED BY <1>2, <1>3, <4>1, <4>2, <4>3
    <3>2. ASSUME NEW v, Started(v)
          PROVE  \E k \in DOMAIN jobs' : jobs'[k].uuid = v /\ jobs'[k].pc \notin Lost
      <4>1. PICK k \in DOMAIN jobs : jobs[k].uuid = v /\ jobs[k].pc \notin Lost
        BY <3>2 DEF Started
      <4>2. k = j => job.pc \notin Lost
        BY <1>1, <1>2, <4>1 DEF Lost
      <4> QED BY <1>2, <1>3, <4>1, <4>2
    <3>3. ASSUME NEW k \in DOMAIN jobs', jobs'[k].pc \in Lost
          PROVE  Missed(jobs'[k].uuid)
      <4>1. k = j => jobs[j].pc \in Lost
        BY <1>1, <1>2, <1>3, <3>3 DEF Lost
      <4> QED BY <1>2, <1>3, <3>3, <4>1 DEF Missed
    <3>4. jobs[j].pc = "broken" => \E k \in DOMAIN jobs' : jobs'[k].uuid = u /\ jobs'[k].pc \in Found
      BY <1>2, <1>3 DEF Found
    <3>5. jobs[j].pc = "missing" => Missed(u)
      BY DEF Missed, Lost
    <3>6. ASSUME NEW e \in Entries, NEW v, v = entry[e].uuid, ~entry[e].aborted, Ends(e)
          PROVE  /\ \/ chunkFile'[v] = NoFile
                    \/ \E k \in DOMAIN jobs' : jobs'[k].uuid = v /\ jobs'[k].pc \in Lost
                    => \E k \in DOMAIN jobs' : jobs'[k].uuid = v /\ jobs'[k].pc \in Found
                 /\ entry[e].status = "completed" \/ answer'[PageOf[e]].status = 200 =>
                       \E k \in DOMAIN jobs' : jobs'[k].uuid = v /\ jobs'[k].pc \notin Lost
      <4>1. chunkFile[v] = NoFile \/ Missed(v) => Taken(v)
        BY <3>6 DEF StoreInv, EndsInv, EndsTaken
      <4>2. entry[e].status = "completed" \/ answer'[PageOf[e]].status = 200 => Started(v)
        BY <1>1, <3>6 DEF StoreInv, EndsInv, EndsTaken
      <4>3. CASE v = u
        BY <1>1, <3>1, <3>2, <3>4, <3>5, <4>1, <4>2, <4>3
      <4>4. CASE v # u
        BY <1>4, <3>1, <3>2, <3>3, <4>1, <4>2, <4>4
      <4> QED BY <4>3, <4>4
    <3> QED BY <1>1, <1>6, <3>6 DEF EndsTaken, Ends, Taken, Missed, Started
  <2> QED BY <1>5, <2>1, KeptMarks DEF StoreInv, EndsInv
<1> QED BY <1>7, <1>8, <1>9 DEF StoreInv

(* A page takes over the uuid of its reservation, which nobody else knows. *)
LEMMA ReservedStore ==
  ASSUME Inv, Inv', StoreInv, NEW p \in Clients, Resume(p), loop[p].pc = "reserve",
         answer[p].status = 200
  PROVE  StoreInv'
<1> DEFINE e == Current(p)
           u == answer[p].uuid
<1>1. /\ tabOpen[p] /\ answer[p] # NoAnswer /\ answer' = [answer EXCEPT ![p] = NoAnswer]
      /\ UNCHANGED <<filesMap, tabOpen, issued, chunkFile, late, jobs>> /\ Resumes(p)
      /\ entry' = [entry EXCEPT ![e].uuid = u]
  BY DEF Resume, Resumes, Reserved_
<1>2. /\ e \in Entries /\ PageOf[e] = p /\ filesMap[p][loop[p].pos] = e
      /\ loop \in [Clients -> Loop] /\ entry \in [Entries -> Entry]
      /\ answer \in [Clients -> Answers] /\ entry[e].status # "completed"
      /\ \A r \in wire : ~(r.waiting /\ r.client = p)
  BY <1>1, ResumesFacts, InvTypes DEF Inv, StoreInv, EndsInv, CompletedMarked, Sending
<1>3. u # NoUuid /\ u <= issued /\ New(u) /\ \A q \in Clients \ {p} : answer[q].uuid # u
  <2>1. u # NoUuid
    BY <1>1 DEF Inv, GuestInv, LoopInv, AnswerNamed
  <2> QED BY <2>1 DEF StoreInv, NamesInv, AnswersNew
<1>4. \A r \in wire : r.client \in Clients /\ (r.waiting => r.client # p)
  BY <1>2, InvTypes
<1> HIDE DEF e
<1>5. /\ entry'[e].uuid = u /\ entry'[e].status = entry[e].status
      /\ \A f \in Entries : f # e => entry'[f] = entry[f]
  BY <1>1, <1>2 DEF Entry
<1> DEFINE new == Request(p, "add", u, FirstChunk)
<1>6. /\ \A q \in Clients \ {p} : loop'[q] = loop[q] /\ answer'[q] = answer[q]
      /\ answer'[p] = NoAnswer
      /\ \/ UNCHANGED wire /\ loop'[p].pc = "idle"
         \/ /\ wire' = wire \cup {new}
            /\ loop'[p].pc = "add" /\ loop'[p].chunk = FirstChunk /\ Current(p)' = e
  <2>1. answer'[p] = NoAnswer /\ \A q \in Clients \ {p} : answer'[q] = answer[q]
    BY <1>1, <1>2
  <2>2. CASE entry[e].aborted
    BY <1>1, <1>2, <2>1, <2>2 DEF Resume, Reserved_, LoopEnds, Idle, e
  <2>3. CASE ~entry[e].aborted
    <3> DEFINE l == [Idle EXCEPT !.pc = "add", !.pos = loop[p].pos, !.chunk = FirstChunk,
                                 !.attempt = 1]
    <3>1. l.pc = "add" /\ l.pos = loop[p].pos /\ l.chunk = FirstChunk
      BY DEF Idle
    <3>2. loop' = [loop EXCEPT ![p] = l] /\ wire' = wire \cup {new}
      BY <2>3 DEF Resume, Reserved_, Send, e
    <3> HIDE DEF l, new
    <3> QED BY <1>1, <1>2, <2>1, <3>1, <3>2 DEF Current
  <2> QED BY <2>2, <2>3
<1>7. new.kind = "add" /\ new.client = p /\ new.uuid = u /\ new.chunk = FirstChunk
  BY DEF Request
<1> HIDE DEF new
<1>8. ASSUME NEW q \in Clients \ {p}, loop[q].pc \in Sending
      PROVE  Current(q)' = Current(q) /\ UuidOf(q)' = UuidOf(q) /\ UuidOf(q) # u
  <2>1. Current(q)' = Current(q)
    BY <1>1, <1>6 DEF Current
  <2>2. Current(q) \in Entries /\ PageOf[Current(q)] = q
    BY <1>8, InvTypes
  <2> QED BY <1>2, <1>3, <1>5, <2>1, <2>2 DEF UuidOf, New
<1>9. loop'[p].pc = "add" => Current(p)' = e /\ UuidOf(p)' = u /\ loop'[p].chunk = FirstChunk
  BY <1>5, <1>6 DEF UuidOf
<1>10. NamesInv'
  <2>1. UuidsKnown'
    BY <1>1, <1>3, <1>5, <1>6, <1>7 DEF StoreInv, NamesInv, UuidsKnown
  <2>2. EntriesApart'
    BY <1>2, <1>3, <1>5 DEF StoreInv, NamesInv, EntriesApart, New
  <2>3. AnswersNew'
    <3>1. ASSUME NEW q \in Clients, NEW v, answer'[q].uuid = v, v # NoUuid
          PROVE  /\ loop'[q].pc = "reserve" /\ v <= issued' /\ StaysNew(v)
                 /\ \A s \in Clients \ {q} : answer'[s].uuid # v
      <4>1. q # p /\ answer'[q] = answer[q] /\ loop'[q] = loop[q]
        BY <1>6, <3>1 DEF NoAnswer
      <4>2. /\ loop[q].pc = "reserve" /\ v <= issued /\ New(v)
            /\ \A s \in Clients \ {q} : answer[s].uuid # v
        BY <3>1, <4>1 DEF StoreInv, NamesInv, AnswersNew
      <4>3. v # u
        BY <1>3, <3>1, <4>1
      <4>4. StaysNew(v)
        BY <1>1, <1>5, <1>6, <1>7, <4>2, <4>3 DEF New, StaysNew
      <4>5. \A s \in Clients \ {q} : answer'[s].uuid # v
        BY <1>6, <3>1, <4>2 DEF NoAnswer
      <4> QED BY <1>1, <4>1, <4>2, <4>4, <4>5
    <3> QED BY <3>1 DEF AnswersNew, New, StaysNew
  <2>4. RequestsFit'
    <3>1. ASSUME NEW r \in wire, r.waiting, r.kind \in Transfers
          PROVE  r.uuid = UuidOf(r.client)' /\ (r.kind = "add" => r.chunk = loop'[r.client].chunk)
      <4>1. /\ r.client \in Clients \ {p} /\ loop[r.client].pc \in Sending
            /\ r.uuid = UuidOf(r.client) /\ (r.kind = "add" => r.chunk = loop[r.client].chunk)
        BY <1>4, <3>1, InvTypes DEF StoreInv, NamesInv, RequestsFit
      <4> QED BY <1>6, <1>8, <4>1
    <3> QED BY <1>6, <1>7, <1>9, <3>1 DEF RequestsFit
  <2>5. ReturnsApart'
    <3>1. ASSUME NEW r \in wire, r.kind = "unreserve", NEW q \in Clients, loop'[q].pc = "add"
          PROVE  UuidOf(q)' # r.uuid
      <4>1. CASE q = p
        BY <1>3, <1>9, <3>1, <4>1 DEF New
      <4>2. CASE q # p
        BY <1>6, <1>8, <3>1, <4>2 DEF StoreInv, NamesInv, ReturnsApart, Sending
      <4> QED BY <4>1, <4>2
    <3> QED BY <1>6, <1>7, <3>1 DEF ReturnsApart
  <2> QED BY <2>1, <2>2, <2>3, <2>4, <2>5 DEF NamesInv
<1>11. NoneCompletes /\ ~Completing(u)
  <2>1. ASSUME NEW q \in Clients, loop'[q].pc = "complete"
        PROVE  loop[q].pc = "complete" /\ UuidOf(q)' = UuidOf(q)
    BY <1>6, <1>8, <2>1 DEF Sending
  <2>2. NoneCompletes
    BY <1>1, <1>6, <1>7, <2>1 DEF NoneCompletes, Completing
  <2>3. ASSUME NEW v, v = u PROVE ~Completing(v)
    <3>1. ASSUME NEW q \in Clients, loop[q].pc = "complete" PROVE UuidOf(q) # u
      BY <1>8, <3>1 DEF Sending
    <3> QED BY <1>3, <2>3, <3>1 DEF Completing, New
  <2> QED BY <2>2, <2>3 DEF Completing
<1>12. FilesInv'
  <2>1. ChunksSent'
    <3>1. ASSUME NEW q \in Clients, NEW v, v = UuidOf(q)', loop'[q].pc = "add"
          PROVE  /\ ~Completing(v)'
                 /\ \A c \in Chunks : c < loop'[q].chunk => Has(v, c)
                 /\ answer'[q].status = 200 => Has(v, loop'[q].chunk)
      <4>1. CASE q = p
        <5>1. v = u /\ loop'[q].chunk = FirstChunk /\ answer'[q].status # 200
          BY <1>6, <1>9, <3>1, <4>1 DEF NoAnswer
        <5>2. ~Completing(v)
          BY <1>11, <5>1 DEF Completing
        <5>3. \A c \in Chunks : ~(c < FirstChunk)
          BY DEF Chunks, FirstChunk
        <5> QED BY <1>11, <5>1, <5>2, <5>3 DEF NoneCompletes, Completing
      <4>2. CASE q # p
        <5>1. loop[q] = loop'[q] /\ answer'[q] = answer[q] /\ v = UuidOf(q)
          BY <1>6, <1>8, <3>1, <4>2 DEF Sending
        <5>2. /\ ~Completing(v)
              /\ \A c \in Chunks : c < loop[q].chunk => Has(v, c)
              /\ answer[q].status = 200 => Has(v, loop[q].chunk)
          BY <3>1, <5>1 DEF StoreInv, FilesInv, ChunksSent, Completing, Has
        <5> QED BY <1>11, <5>1, <5>2 DEF NoneCompletes, Completing
      <4> QED BY <4>1, <4>2
    <3> QED BY <1>1, <3>1 DEF ChunksSent, Completing, Has
  <2>2. ChunksWhole'
    BY <1>1, <1>11 DEF StoreInv, FilesInv, ChunksWhole, Completing, NoneCompletes
  <2>3. JobsWhole' /\ JobsApart'
    BY <1>1 DEF StoreInv, FilesInv, JobsWhole, JobsApart
  <2> QED BY <2>1, <2>2, <2>3 DEF FilesInv
<1>13. EndsTaken'
  <2>1. ASSUME NEW f \in Entries, Ends(f)'
        PROVE  /\ f # e /\ entry'[f] = entry[f] /\ Ends(f)
               /\ entry[f].status = "completed" \/ answer'[PageOf[f]].status = 200 =>
                     entry[f].status = "completed" \/ answer[PageOf[f]].status = 200
    <3>1. PageOf[f] \in Clients
      BY InvTypes
    <3>2. CASE PageOf[f] = p
      <4>1. loop'[p].pc # "complete" /\ entry'[f].status = "completed"
        BY <1>6, <2>1, <3>2 DEF Ends
      <4> QED BY <1>2, <1>5, <4>1 DEF Ends
    <3>3. CASE PageOf[f] # p
      <4>1. /\ loop'[PageOf[f]] = loop[PageOf[f]] /\ answer'[PageOf[f]] = answer[PageOf[f]]
            /\ f # e /\ entry'[f] = entry[f]
        BY <1>2, <1>5, <1>6, <3>1, <3>3
      <4>2. Ends(f)
        BY <1>8, <2>1, <3>1, <3>3, <4>1 DEF Ends, Sending
      <4> QED BY <4>1, <4>2
    <3> QED BY <3>2, <3>3
  <2> QED BY <1>1, <2>1 DEF StoreInv, EndsInv, EndsTaken, Taken, Missed, Started
<1>14. ReturnsLeft'
  <2>1. ASSUME NEW r \in wire, r.kind = "unreserve", NEW f \in Entries, entry'[f].uuid = r.uuid
        PROVE  Left(f)'
    <3>1. f # e /\ entry'[f] = entry[f]
      BY <1>3, <1>5, <2>1 DEF New
    <3> QED BY <1>1, <2>1, <3>1 DEF StoreInv, EndsInv, ReturnsLeft, Left
  <2> QED BY <1>6, <1>7, <2>1 DEF ReturnsLeft
<1>15. CompletedMarked'
  <2>1. \A f \in Entries : entry'[f].status = "completed" =>
             entry'[f].removed /\ entry'[f].uuid # NoUuid
    BY <1>2, <1>5 DEF StoreInv, EndsInv, CompletedMarked
  <2>2. ASSUME NEW q \in Clients, loop'[q].pc \in Sending
        PROVE  entry'[Current(q)'].status # "completed"
    <3>1. CASE q = p
      BY <1>2, <1>5, <1>6, <2>2, <3>1 DEF Sending
    <3>2. CASE q # p
      <4>1. loop[q].pc \in Sending /\ Current(q)' = Current(q)
        BY <1>6, <1>8, <2>2, <3>2
      <4>2. /\ Current(q) \in Entries /\ Current(q) # e
            /\ entry[Current(q)].status # "completed"
        BY <1>2, <3>2, <4>1, InvTypes DEF StoreInv, EndsInv, CompletedMarked
      <4> QED BY <1>5, <4>1, <4>2
    <3> QED BY <3>1, <3>2
  <2>3. \A q \in Clients : ~tabOpen'[q] => loop'[q].pc = "idle"
    BY <1>1, <1>6 DEF StoreInv, EndsInv, CompletedMarked
  <2> QED BY <2>1, <2>2, <2>3 DEF CompletedMarked
<1> QED BY <1>10, <1>12, <1>13, <1>14, <1>15 DEF StoreInv, EndsInv

-----------------------------------------------------------------------------
LEMMA StoreInit == Init => StoreInv
<1> SUFFICES ASSUME Init PROVE StoreInv
  OBVIOUS
<1>1. /\ wire = {} /\ issued = 0
      /\ \A e \in Entries : entry[e].uuid = NoUuid /\ entry[e].status = "none"
      /\ \A p \in Clients : loop[p].pc = "idle" /\ answer[p].uuid = NoUuid /\ tabOpen[p]
      /\ \A j \in DOMAIN jobs : /\ jobs[j].uuid = NoUuid /\ jobs[j].pc = "done"
                                /\ jobs[j].content = Chunks
  BY DEF Init, ServerInit, PageInit, NoEntry, Idle, NoAnswer
<1>2. NamesInv
  BY <1>1 DEF NamesInv, UuidsKnown, EntriesApart, AnswersNew, RequestsFit, ReturnsApart, NoUuid
<1>3. FilesInv
  <2>1. \A u \in Uuids : ~Completing(u)
    BY <1>1, ChunksAssumption DEF Completing, Uuids, NoUuid
  <2> QED BY <1>1, <2>1 DEF FilesInv, ChunksSent, ChunksWhole, JobsWhole, JobsApart, Moved
<1>4. EndsInv
  <2>1. \A e \in Entries : PageOf[e] \in Clients
    BY EntriesAssumption
  <2> QED BY <1>1, <2>1 DEF EndsInv, EndsTaken, Ends, ReturnsLeft, CompletedMarked, Sending
<1> QED BY <1>2, <1>3, <1>4 DEF StoreInv

LEMMA StoreStep == Inv /\ StoreInv /\ [Next]_vars => StoreInv'
<1> SUFFICES ASSUME Inv, StoreInv, [Next]_vars PROVE StoreInv'
  OBVIOUS
<1>1. Inv'
  BY InvStep
<1>2. CASE GuestStep
  <2>1. CASE \E p \in Clients : Resume(p) /\ loop[p].pc = "reserve" /\ answer[p].status = 200
    BY <1>1, <2>1, ReservedStore
  <2>2. CASE ~\E p \in Clients : Resume(p) /\ loop[p].pc = "reserve" /\ answer[p].status = 200
    BY <1>1, <1>2, <2>2, GuestQuiet, QuietStep
  <2> QED BY <2>1, <2>2
<1>3. ASSUME NEW r \in wire, Handle(r) PROVE StoreInv'
  <2>1. PagesKept
    BY <1>3 DEF Handle, PagesKept
  <2>2. CASE ReserveNew(r)
    <3>1. Answer(r, 200, issued + 1)
      BY <1>3, <2>2 DEF Handle, ReserveNew, ReserveCheck, UnreserveCheck, AddCheck, UnreserveDelete,
                        NewChunk, CompleteStart, ReserveRefuse, Refuse
    <3> QED BY <2>1, <2>2, <3>1, ReserveNewStore
  <2>3. CASE UnreserveDelete(r) \/ NewChunk(r) \/ CompleteStart(r)
    <3>1. Answer(r, 200, NoUuid)
      BY <1>3, <2>3 DEF Handle, ReserveNew, ReserveCheck, UnreserveCheck, AddCheck, UnreserveDelete,
                        NewChunk, CompleteStart, ReserveRefuse, Refuse
    <3> QED BY <2>1, <2>3, <3>1, UnreserveDeleteStore, NewChunkStore, CompleteStartStore
  <2>4. CASE ~ReserveNew(r) /\ ~UnreserveDelete(r) /\ ~NewChunk(r) /\ ~CompleteStart(r)
    BY <1>1, <1>3, <2>4, HandleQuiet, QuietStep
  <2> QED BY <2>2, <2>3, <2>4
<1>4. ASSUME NEW j \in DOMAIN jobs, JobStep(j), UNCHANGED pageVars PROVE StoreInv'
  <2>1. CASE JobMove(j)
    BY <1>4, <2>1, JobMoveStore
  <2>2. CASE JobDiscards(j)
    BY <1>4, <2>2, JobDiscardsStore
  <2>3. CASE ~JobMove(j) /\ ~JobDiscards(j)
    BY <1>1, <1>4, <2>3, JobStepQuiet, QuietStep
  <2> QED BY <2>1, <2>2, <2>3
<1>5. CASE TimePasses
  BY <1>1, <1>5, TimeQuiet, QuietStep
<1>6. CASE OwnerStep /\ UNCHANGED pageVars
  BY <1>1, <1>6, OwnerQuiet, QuietStep
<1>7. CASE UNCHANGED vars
  <2>1. UNCHANGED <<issued, chunkFile, late, jobs, wire, filesMap, entry, loop, answer, tabOpen>>
    BY <1>7 DEF vars, serverVars, pageVars
  <2>2. QuietPages /\ QuietServer
    BY <2>1, LoopsStay, JobsStay DEF WireShrinks, SameRequest
  <2> QED BY <1>1, <2>2, QuietStep
<1>8. CASE Restart
  BY <1>1, <1>8, RestartQuiet, QuietStep
<1> QED BY <1>2, <1>3, <1>4, <1>5, <1>6, <1>7, <1>8 DEF Next, ServerWork

LEMMA StoreAlways == Spec => []StoreInv
  BY StoreInit, InvAlways, StoreStep, PTL DEF Spec

(* NewFileFromChunk stores a file with all its chunks although it compares   *)
(* no more than the size that the first one has set: whatever requests and   *)
(* answers are lost, repeated or reordered, unless a chunk request that its  *)
(* page had given up was handled late.                                       *)
THEOREM WholeFiles == Spec => []StoredFilesWhole
<1>1. Inv /\ StoreInv => StoredFilesWhole
  BY DEF StoreInv, FilesInv, JobsWhole, StoredFilesWhole, Moved
<1> QED BY <1>1, InvAlways, StoreAlways, PTL

(* A completion that is repeated because its answer was lost starts a second *)
(* goroutine, which finds the chunk file gone: one file is stored.           *)
THEOREM OnlyOnce == Spec => []StoredOnce
<1>1. StoreInv => StoredOnce
  BY DEF StoreInv, FilesInv, JobsWhole, JobsApart, StoredOnce, Moved
<1> QED BY <1>1, StoreAlways, PTL

(* apiChunkUploadRequestComplete answers before the file is stored, repeated *)
(* completions start goroutines that remove the chunk file when they fail,   *)
(* and whatever fails in the processing or ends with a restart: of an entry  *)
(* that shows `completed' one goroutine has never missed the chunk file,     *)
(* unless the entry was removed while it was completed.                      *)
THEOREM CompletedStored == Spec => []DoneIsStored
<1>1. StoreInv => DoneIsStored
  BY DEF StoreInv, EndsInv, EndsTaken, Ends, Started, Lost, DoneIsStored
<1> QED BY <1>1, StoreAlways, PTL

-----------------------------------------------------------------------------
(* The list of the page and the rows on the server                           *)

HasRow(j) == j \in DOMAIN jobs /\ jobs[j].row # "none"
Scheduled(j) == HasRow(j) /\ jobs[j].row \in {"pending", "gone"}
Erased(j) == HasRow(j) /\ jobs[j].row = "gone"
OffList(j) == fileRow[j] \in {"deleting", "gone"}
RowListed == row.built = "template" /\ row.state = "shown"

(* The page acts on the answer: the deletion of a file, or its undo, that it *)
(* has asked for since it was loaded.                                        *)
Heard(c) == c.kind \in {"delete", "restore"} /\ ~c.stale

(* Files of the list, and those that a call names, are stored.               *)
FilesNamed ==
    /\ \A j \in FileIds : fileRow[j] # "absent" => HasRow(j)
    /\ \A c \in calls : c.kind \in {"delete", "restore"} =>
          c.phase \in {"sent", "ok", "failed"} /\ HasRow(c.file)

(* A file is deleted once for every time that the page is loaded, and the    *)
(* deletion is taken back once; no two undos are on their way to the server. *)
CallsApart ==
    \A c, d \in calls : c.file = d.file =>
        /\ Heard(c) /\ Heard(d) => c = d
        /\ c.kind = "restore" /\ d.kind = "restore" /\ c.phase = "sent" /\ d.phase = "sent"
              => c = d
ToastFits ==
    toast # NoToast => /\ OffList(toast) /\ Scheduled(toast)
                       /\ \A c \in calls : Heard(c) => c.file # toast
DeletionsFit ==
    \A c \in calls : c.kind = "delete" /\ ~c.stale =>
        /\ fileRow[c.file] = "busy" \/ (fileRow[c.file] = "gone" /\ ~RowListed)
        /\ c.phase = "ok" => Scheduled(c.file)
UndosFit ==
    \A c \in calls : c.kind = "restore" =>
        /\ c.phase = "sent" => Scheduled(c.file)
        /\ c.phase = "sent" /\ c.stale => fileRow[c.file] = "absent"
        /\ ~c.stale => OffList(c.file)
RemovalsFit ==
    \A c \in calls : c.kind = "remove" =>
        /\ c.phase \in {"sent", "files", "row", "key", "ok", "failed"}
        /\ ~c.stale /\ c.phase \in {"row", "key", "ok"} =>
              \A j \in FileIds : fileRow[j] # "absent" => Erased(j)
OffListScheduled ==
    \A j \in FileIds : OffList(j) =>
        \/ Scheduled(j) \/ reloads
        \/ \E c \in calls : c.kind = "restore" /\ c.file = j /\ ~c.stale /\ c.phase = "ok"
Listed == {j \in FileIds : fileRow[j] \in {"shown", "busy"}}
RowAgrees == RowListed => row.ids = Listed /\ row.count = Cardinality(Listed)

ListInv == /\ FilesNamed /\ CallsApart /\ ToastFits /\ DeletionsFit /\ UndosFit /\ RemovalsFit
           /\ OffListScheduled /\ RowAgrees

(* Actions: what was stored, scheduled for deletion or erased still is.      *)
Ages(j) == /\ HasRow(j) => HasRow(j)'
           /\ Scheduled(j) => Scheduled(j)'
           /\ Erased(j) => Erased(j)'
PageStays == UNCHANGED <<row, fileRow, toast, reloads>>

LEMMA AgedList ==
  ASSUME ListInv, UNCHANGED calls, PageStays, \A j : Ages(j)
  PROVE  ListInv'
<1>1. OffList(0)' \in BOOLEAN /\ \A j : OffList(j)' <=> OffList(j)
  BY DEF PageStays, OffList
<1>2. RowListed' <=> RowListed
  BY DEF PageStays, RowListed
<1>3. \A c : Heard(c)' <=> Heard(c)
  BY DEF Heard
<1>4. FilesNamed' /\ CallsApart' /\ ToastFits'
  BY <1>1, <1>3 DEF ListInv, FilesNamed, CallsApart, ToastFits, PageStays, Ages, Heard
<1>5. DeletionsFit' /\ UndosFit'
  BY <1>1, <1>2 DEF ListInv, DeletionsFit, UndosFit, PageStays, Ages
<1>6. RemovalsFit' /\ OffListScheduled'
  BY <1>1 DEF ListInv, RemovalsFit, OffListScheduled, PageStays, Ages
<1>7. RowAgrees'
  BY <1>2 DEF ListInv, RowAgrees, Listed, PageStays
<1> QED BY <1>4, <1>5, <1>6, <1>7 DEF ListInv

(* The rows of files under the steps of guests, goroutines and time *)
LEMMA AgesStay ==
  ASSUME UNCHANGED jobs
  PROVE  \A j : Ages(j)
  BY DEF Ages, HasRow, Scheduled, Erased

LEMMA SetJobAges ==
  ASSUME Inv, NEW j \in DOMAIN jobs, NEW pc, NEW state, NEW content, SetJob(j, pc, state, content),
         \/ jobs[j].row = "none" \/ state = jobs[j].row
         \/ jobs[j].row \in {"live", "pending"} /\ state \in {"pending", "gone"}
  PROVE  \A k : Ages(k)
<1>1. jobs' = [jobs EXCEPT ![j] = [uuid |-> jobs[j].uuid, pc |-> pc, row |-> state,
                                   content |-> content]]
  BY DEF SetJob
<1>2. DOMAIN jobs' = DOMAIN jobs
  BY <1>1
<1>3. \A k \in DOMAIN jobs : jobs'[k].row = IF k = j THEN state ELSE jobs[k].row
  BY <1>1
<1> QED BY <1>2, <1>3 DEF Ages, HasRow, Scheduled, Erased

LEMMA JobsAge ==
  ASSUME Inv, StoreInv, GuestStep \/ ServerWork \/ TimePasses
  PROVE  \A j : Ages(j)
<1>1. CASE GuestStep
  <2>1. UNCHANGED jobs
    BY <1>1 DEF GuestStep, PageStep, createUploadBox, initUpload, AllVisited, StartEntry, Resume,
                ConnectionFails, removeBtn, setUnload, serverVars
  <2> QED BY <2>1, AgesStay
<1>2. ASSUME NEW r \in wire, Handle(r) PROVE \A j : Ages(j)
  <2>1. CASE CompleteStart(r)
    <3>1. jobs \in Seq(Jobs)
      BY InvTypes
    <3>2. jobs' = Append(jobs, [uuid |-> r.uuid, pc |-> "open", row |-> "none", content |-> NoFile])
      BY <2>1 DEF CompleteStart
    <3>3. \A j \in DOMAIN jobs : j \in DOMAIN jobs' /\ jobs'[j] = jobs[j]
      BY <3>1, <3>2
    <3> QED BY <3>3 DEF Ages, HasRow, Scheduled, Erased
  <2>2. CASE ~CompleteStart(r)
    <3>1. UNCHANGED jobs
      BY <1>2, <2>2 DEF Handle, ReserveCheck, ReserveNew, UnreserveCheck, UnreserveDelete, AddCheck,
                        NewChunk, ReserveRefuse, Refuse
    <3> QED BY <3>1, AgesStay
  <2> QED BY <2>1, <2>2
<1>3. ASSUME NEW j \in DOMAIN jobs, JobStep(j) PROVE \A k : Ages(k)
  <2>1. jobs[j].row = "none" \/ jobs[j].pc \in {"release", "done"}
    BY DEF StoreInv, FilesInv, JobsWhole
  <2>2. CASE JobRelease(j)
    BY <2>2, SetJobAges DEF JobRelease
  <2>3. CASE \/ JobOpen(j) \/ JobMove(j) \/ JobSave(j)
             \/ JobMisses(j) \/ JobFails(j) \/ JobDiscards(j)
    <3>1. jobs[j].row = "none"
      BY <2>1, <2>3 DEF JobOpen, JobMove, JobSave, JobMisses, JobFails, JobDiscards
    <3> QED BY <2>3, <3>1, SetJobAges DEF JobOpen, JobMove, JobSave, JobMisses, JobFails, JobDiscards
  <2> QED BY <1>3, <2>2, <2>3 DEF JobStep
<1>4. CASE TimePasses
  <2>1. ASSUME NEW j \in DOMAIN jobs, PendingFileRemoved(j) PROVE \A k : Ages(k)
    BY <2>1, SetJobAges DEF PendingFileRemoved
  <2>2. CASE UNCHANGED jobs
    BY <2>2, AgesStay
  <2> QED BY <1>4, <2>1, <2>2
          DEF TimePasses, ReservationExpires, cleanUp, RequestExpires, LoseRequest
<1> QED BY <1>1, <1>2, <1>3, <1>4 DEF ServerWork

-----------------------------------------------------------------------------
(* Clicks, and what the page does by itself *)

LEMMA ListClicks ==
  ASSUME Inv, ListInv,
         \/ deleteOrShowModal \/ ToastHides \/ RowRemoved \/ newFileRequest \/ editFileRequest
         \/ CheckLimit \/ saveFileRequest \/ \E limit \in NewLimits : TypeLimit(limit)
  PROVE  ListInv'
<1>1. UNCHANGED <<serverVars, fileRow, reloads>> /\ toast' \in {toast, NoToast}
  BY DEF deleteOrShowModal, ToastHides, RowRemoved, newFileRequest, editFileRequest, CheckLimit,
         saveFileRequest, TypeLimit
<1>2. /\ row'.state = row.state \/ row'.state = "gone"
      /\ row'.built = row.built /\ row'.ids = row.ids /\ row'.count = row.count
  <2>1. row \in Rows
    BY OwnerTypes DEF Inv, OwnerInv
  <2> QED BY <2>1 DEF Rows, deleteOrShowModal, deleteFileRequest, showDeleteFRequestModal, ToastHides, RowRemoved,
                      newFileRequest, editFileRequest, CheckLimit, saveFileRequest, TypeLimit
<1>3. PICK kind \in {"remove", "save"} :
        \A c \in calls' \ calls : c.kind = kind /\ ~c.stale /\ c.phase = "sent"
  <2>1. CASE UNCHANGED calls
    BY <2>1
  <2>2. ASSUME NEW kind \in {"remove", "save"}, NEW limit, Send1(kind, 0, limit)
        PROVE  \A c \in calls' \ calls : c.kind = kind /\ ~c.stale /\ c.phase = "sent"
    BY <2>2 DEF Send1
  <2> QED BY <2>1, <2>2 DEF deleteOrShowModal, deleteFileRequest, showDeleteFRequestModal, ToastHides,
                RowRemoved, newFileRequest, editFileRequest, CheckLimit, saveFileRequest, TypeLimit
<1>4. calls \subseteq calls'
  BY DEF deleteOrShowModal, deleteFileRequest, showDeleteFRequestModal, ToastHides, RowRemoved,
         newFileRequest, editFileRequest, CheckLimit, saveFileRequest, TypeLimit, Send1
<1>5. RowListed' => RowListed
  BY <1>2 DEF RowListed
<1>6. \A j : (HasRow(j)' <=> HasRow(j)) /\ (Scheduled(j)' <=> Scheduled(j)) /\ (Erased(j)' <=> Erased(j))
  BY <1>1 DEF HasRow, Scheduled, Erased, serverVars
<1>7. \A j : OffList(j)' <=> OffList(j)
  BY <1>1 DEF OffList
<1>8. \A c : Heard(c)' <=> Heard(c)
  BY DEF Heard
<1>9. FilesNamed' /\ CallsApart' /\ ToastFits'
  BY <1>1, <1>3, <1>6, <1>7, <1>8 DEF ListInv, FilesNamed, CallsApart, ToastFits, Heard
<1>10. DeletionsFit' /\ UndosFit' /\ RemovalsFit'
  BY <1>1, <1>3, <1>5, <1>6, <1>7 DEF ListInv, DeletionsFit, UndosFit, RemovalsFit
<1>11. OffListScheduled'
  BY <1>1, <1>4, <1>6, <1>7 DEF ListInv, OffListScheduled
<1>12. RowAgrees'
  BY <1>1, <1>2, <1>5 DEF ListInv, RowAgrees, Listed
<1> QED BY <1>9, <1>10, <1>11, <1>12 DEF ListInv

LEMMA DeleteClick ==
  ASSUME Inv, ListInv, NEW j \in FileIds, deleteFileFr(j)
  PROVE  ListInv'
<1>1. /\ UNCHANGED <<serverVars, row, toast, reloads>> /\ fileRow[j] = "shown"
      /\ fileRow' = [fileRow EXCEPT ![j] = "busy"]
  BY DEF deleteFileFr
<1>2. PICK d : /\ calls' = calls \cup {d}
               /\ d.kind = "delete" /\ d.file = j /\ ~d.stale /\ d.phase = "sent"
  <2> DEFINE call == [kind |-> "delete", file |-> j, limit |-> 0, isNew |-> form.open = "new",
                      stale |-> FALSE, phase |-> "sent"]
  <2>1. calls' = calls \cup {call}
    BY DEF deleteFileFr, Send1
  <2>2. call.kind = "delete" /\ call.file = j /\ ~call.stale /\ call.phase = "sent"
    OBVIOUS
  <2> HIDE DEF call
  <2> QED BY <2>1, <2>2
<1>3. j \in FileIds /\ fileRow \in [FileIds -> {"absent", "shown", "busy", "deleting", "gone"}]
      /\ CallsNamed
  BY OwnerTypes DEF Inv, OwnerInv
<1>4. fileRow'[j] = "busy" /\ \A k \in FileIds \ {j} : fileRow'[k] = fileRow[k]
  BY <1>1, <1>3
<1>5. \A k : (HasRow(k)' <=> HasRow(k)) /\ (Scheduled(k)' <=> Scheduled(k)) /\ (Erased(k)' <=> Erased(k))
  BY <1>1 DEF HasRow, Scheduled, Erased, serverVars
<1>6. ~OffList(j) /\ \A k \in FileIds : OffList(k)' <=> OffList(k)
  BY <1>1, <1>4 DEF OffList
<1>7. RowListed' <=> RowListed
  BY <1>1 DEF RowListed
<1>8. \A c \in calls : Heard(c) => c.file # j
  BY <1>1, <1>6 DEF ListInv, DeletionsFit, UndosFit, Heard
<1>9. \A c : Heard(c)' <=> Heard(c)
  BY DEF Heard
<1>10. FilesNamed' /\ CallsApart'
  <2>1. HasRow(j)
    BY <1>1 DEF ListInv, FilesNamed
  <2>2. FilesNamed'
    BY <1>1, <1>2, <1>4, <1>5, <2>1 DEF ListInv, FilesNamed
  <2>3. CallsApart'
    BY <1>2, <1>8, <1>9 DEF ListInv, CallsApart, Heard
  <2> QED BY <2>2, <2>3
<1>11. ToastFits'
  <2>1. toast # NoToast => toast # j /\ toast \in FileIds
    BY <1>6, OwnerTypes DEF ListInv, ToastFits, Inv, OwnerInv
  <2> QED BY <1>1, <1>2, <1>5, <1>6, <1>9, <2>1 DEF ListInv, ToastFits, Heard
<1>12. DeletionsFit' /\ UndosFit'
  <2>1. ASSUME NEW c \in calls, c.kind = "delete", ~c.stale
        PROVE fileRow'[c.file] = fileRow[c.file] /\ c.file \in FileIds
    BY <1>3, <1>4, <1>8, <2>1 DEF CallsNamed, Heard
  <2>2. ASSUME NEW c \in calls, c.kind = "restore"
        PROVE c.file \in FileIds /\ (c.phase = "sent" /\ c.stale => fileRow'[c.file] = "absent")
    BY <1>1, <1>3, <1>4, <2>2 DEF CallsNamed, ListInv, UndosFit
  <2>3. DeletionsFit'
    BY <1>2, <1>4, <1>5, <1>7, <2>1 DEF ListInv, DeletionsFit
  <2> QED BY <1>2, <1>5, <1>6, <2>2, <2>3 DEF ListInv, UndosFit
<1>13. RemovalsFit' /\ OffListScheduled'
  <2>1. \A k \in FileIds : fileRow'[k] # "absent" => fileRow[k] # "absent"
    BY <1>1, <1>4
  <2> QED BY <1>1, <1>2, <1>5, <1>6, <2>1 DEF ListInv, RemovalsFit, OffListScheduled
<1>14. RowAgrees'
  <2>1. Listed' = Listed
    BY <1>1, <1>4 DEF Listed
  <2> QED BY <1>1, <1>7, <2>1 DEF ListInv, RowAgrees
<1> QED BY <1>10, <1>11, <1>12, <1>13, <1>14 DEF ListInv

LEMMA RemovedRow ==
  ASSUME Inv, ListInv, NEW j \in FileIds, FileRowRemoved(j)
  PROVE  ListInv'
<1>1. /\ UNCHANGED <<serverVars, row, toast, reloads, calls>> /\ fileRow[j] = "deleting"
      /\ fileRow' = [fileRow EXCEPT ![j] = "gone"]
  BY DEF FileRowRemoved
<1>2. fileRow \in [FileIds -> {"absent", "shown", "busy", "deleting", "gone"}] /\ CallsNamed
  BY OwnerTypes DEF Inv, OwnerInv
<1>3. fileRow'[j] = "gone" /\ \A k \in FileIds \ {j} : fileRow'[k] = fileRow[k]
  BY <1>1, <1>2
<1>4. \A k : (HasRow(k)' <=> HasRow(k)) /\ (Scheduled(k)' <=> Scheduled(k)) /\ (Erased(k)' <=> Erased(k))
  BY <1>1 DEF HasRow, Scheduled, Erased, serverVars
<1>5. \A k \in FileIds : (OffList(k)' <=> OffList(k)) /\ (fileRow'[k] # "absent" <=> fileRow[k] # "absent")
  BY <1>1, <1>3 DEF OffList
<1>6. RowListed' <=> RowListed
  BY <1>1 DEF RowListed
<1>7. \A c : Heard(c)' <=> Heard(c)
  BY DEF Heard
<1>8. FilesNamed' /\ CallsApart'
  BY <1>1, <1>4, <1>5, <1>7 DEF ListInv, FilesNamed, CallsApart
<1>9. ToastFits'
  <2>1. toast \in FileIds \cup {NoToast}
    BY OwnerTypes DEF Inv, OwnerInv
  <2> QED BY <1>1, <1>4, <1>5, <1>7, <2>1 DEF ListInv, ToastFits
<1>10. DeletionsFit'
  BY <1>1, <1>2, <1>3, <1>4, <1>6 DEF ListInv, DeletionsFit, CallsNamed
<1>11. UndosFit'
  BY <1>1, <1>2, <1>4, <1>5 DEF ListInv, UndosFit, CallsNamed
<1>12. RemovalsFit' /\ OffListScheduled'
  BY <1>1, <1>4, <1>5 DEF ListInv, RemovalsFit, OffListScheduled
<1>13. RowAgrees'
  <2>1. Listed' = Listed
    BY <1>1, <1>3 DEF Listed
  <2> QED BY <1>1, <1>6, <2>1 DEF ListInv, RowAgrees
<1> QED BY <1>8, <1>9, <1>10, <1>11, <1>12, <1>13 DEF ListInv

LEMMA UndoClick ==
  ASSUME Inv, ListInv, handleUndoFr
  PROVE  ListInv'
<1>1. UNCHANGED <<serverVars, row, fileRow, reloads>> /\ toast # NoToast /\ toast' = NoToast
  BY DEF handleUndoFr
<1>2. PICK d : /\ calls' = calls \cup {d}
               /\ d.kind = "restore" /\ d.file = toast /\ ~d.stale /\ d.phase = "sent"
  <2> DEFINE call == [kind |-> "restore", file |-> toast, limit |-> 0, isNew |-> form.open = "new",
                      stale |-> FALSE, phase |-> "sent"]
  <2>1. calls' = calls \cup {call}
    BY DEF handleUndoFr, Send1
  <2>2. call.kind = "restore" /\ call.file = toast /\ ~call.stale /\ call.phase = "sent"
    OBVIOUS
  <2> HIDE DEF call
  <2> QED BY <2>1, <2>2
<1>3. OffList(toast) /\ Scheduled(toast) /\ \A c \in calls : Heard(c) => c.file # toast
  BY <1>1 DEF ListInv, ToastFits
<1>4. \A k : (HasRow(k)' <=> HasRow(k)) /\ (Scheduled(k)' <=> Scheduled(k)) /\ (Erased(k)' <=> Erased(k))
  BY <1>1 DEF HasRow, Scheduled, Erased, serverVars
<1>5. (\A k : OffList(k)' <=> OffList(k)) /\ (RowListed' <=> RowListed)
  BY <1>1 DEF OffList, RowListed
<1>6. \A c : Heard(c)' <=> Heard(c)
  BY DEF Heard
<1>7. FilesNamed'
  BY <1>1, <1>2, <1>3, <1>4 DEF ListInv, FilesNamed, Scheduled
<1>8. CallsApart'
  <2>1. ASSUME NEW c \in calls, c.file = toast, c.kind = "restore", c.phase = "sent" PROVE FALSE
    BY <1>3, <2>1 DEF ListInv, UndosFit, Heard, OffList
  <2> QED BY <1>2, <1>3, <1>6, <2>1 DEF ListInv, CallsApart
<1>9. ToastFits'
  BY <1>1 DEF ToastFits
<1>10. DeletionsFit' /\ UndosFit' /\ RemovalsFit'
  BY <1>1, <1>2, <1>3, <1>4, <1>5 DEF ListInv, DeletionsFit, UndosFit, RemovalsFit
<1>11. OffListScheduled'
  BY <1>1, <1>2, <1>4, <1>5 DEF ListInv, OffListScheduled
<1>12. RowAgrees'
  BY <1>1, <1>5 DEF ListInv, RowAgrees, Listed
<1> QED BY <1>7, <1>8, <1>9, <1>10, <1>11, <1>12 DEF ListInv

(* window.location.reload() *)
LEMMA ReloadList ==
  ASSUME Inv, ListInv, Reload
  PROVE  ListInv'
<1>1. /\ UNCHANGED serverVars /\ row' = Rendered /\ fileRow' = RenderedFiles /\ toast' = NoToast
      /\ calls' = {[c EXCEPT !.stale = TRUE] : c \in calls}
  BY DEF Reload
<1>2. calls \subseteq Calls /\ CallsNamed
  BY DEF Inv, OwnerInv, OwnerTypeOK
<1>3. \A d \in calls' : \E c \in calls : /\ d = [c EXCEPT !.stale = TRUE]
                                        /\ d.stale /\ d.kind = c.kind /\ d.file = c.file
                                        /\ d.phase = c.phase
  BY <1>1, <1>2 DEF Calls
<1>4. \A k : (HasRow(k)' <=> HasRow(k)) /\ (Scheduled(k)' <=> Scheduled(k)) /\ (Erased(k)' <=> Erased(k))
  BY <1>1 DEF HasRow, Scheduled, Erased, serverVars
<1>5. LiveFiles \subseteq FileIds /\ \A j \in FileIds : fileRow'[j] = IF j \in LiveFiles THEN "shown" ELSE "absent"
  BY <1>1, RenderedType DEF RenderedFiles, Inv
<1>6. FilesNamed'
  <2>1. \A j \in LiveFiles : HasRow(j)
    BY DEF LiveFiles, HasRow
  <2> QED BY <1>3, <1>4, <1>5, <2>1 DEF ListInv, FilesNamed
<1>7. CallsApart'
  <2> SUFFICES ASSUME NEW x \in calls', NEW y \in calls', x.file = y.file,
                      x.kind = "restore", y.kind = "restore", x.phase = "sent", y.phase = "sent"
               PROVE  x = y
    BY <1>3 DEF CallsApart, Heard
  <2>1. PICK c \in calls : x = [c EXCEPT !.stale = TRUE] /\ c.kind = "restore" /\ c.file = x.file
                           /\ c.phase = "sent"
    BY <1>3
  <2>2. PICK d \in calls : y = [d EXCEPT !.stale = TRUE] /\ d.kind = "restore" /\ d.file = x.file
                           /\ d.phase = "sent"
    BY <1>3
  <2>3. c = d
    BY <2>1, <2>2 DEF ListInv, CallsApart
  <2> QED BY <2>1, <2>2, <2>3
<1>8. ToastFits' /\ DeletionsFit'
  BY <1>1, <1>3 DEF ToastFits, DeletionsFit
<1>9. UndosFit'
  <2> SUFFICES ASSUME NEW d \in calls', d.kind = "restore"
               PROVE  d.stale /\ (d.phase = "sent" => Scheduled(d.file)' /\ fileRow'[d.file] = "absent")
    BY DEF UndosFit
  <2>1. PICK c \in calls : d.stale /\ c.kind = "restore" /\ c.file = d.file /\ c.phase = d.phase
    BY <1>3
  <2>2. c.phase = "sent" => Scheduled(c.file)
    BY <2>1 DEF ListInv, UndosFit
  <2>3. c.file \in FileIds /\ (Scheduled(c.file) => c.file \notin LiveFiles)
    BY <1>2, <2>1 DEF CallsNamed, Scheduled, LiveFiles
  <2> QED BY <1>4, <1>5, <2>1, <2>2, <2>3
<1>10. RemovalsFit'
  BY <1>3 DEF ListInv, RemovalsFit
<1>11. OffListScheduled'
  BY <1>5 DEF OffListScheduled, OffList
<1>12. RowAgrees'
  <2>1. Listed' = LiveFiles
    BY <1>5 DEF Listed
  <2>2. row'.ids = LiveFiles /\ row'.count = Cardinality(LiveFiles)
    BY <1>1 DEF Rendered
  <2> QED BY <2>1, <2>2 DEF RowAgrees
<1> QED BY <1>6, <1>7, <1>8, <1>9, <1>10, <1>11, <1>12 DEF ListInv

-----------------------------------------------------------------------------
(* The server works on a call, and the page hears of it *)

(* Actions: c becomes d, of which nothing but the phase differs. *)
Becomes(c, d) ==
    /\ calls' = (calls \ {c}) \cup {d}
    /\ d.kind = c.kind /\ d.file = c.file /\ (d.stale <=> c.stale)
Undoes(c, d) == c.kind = "restore" /\ c.phase = "sent" /\ d.phase = "ok"

LEMMA CallProceeds ==
  ASSUME Inv, ListInv, NEW c \in calls, NEW d, Becomes(c, d), PageStays,
         d.phase # "sent",
         c.kind = "delete" => d.phase = "failed" \/ (d.phase = "ok" /\ Scheduled(c.file)'),
         c.kind = "restore" => d.phase = "ok" \/ (d.phase = "failed" /\ Erased(c.file)'),
         c.kind = "remove" =>
            /\ d.phase \in {"files", "row", "key", "ok", "failed"}
            /\ \/ c.phase \in {"row", "key"} \/ d.phase \notin {"row", "key", "ok"}
               \/ \A j \in FileIds : HasRow(j) => Erased(j)',
         \A j : /\ HasRow(j) => HasRow(j)'
                /\ Scheduled(j) => Scheduled(j)' \/ (Undoes(c, d) /\ c.file = j)
                /\ Erased(j) => Erased(j)'
  PROVE  ListInv'
<1> USE DEF ListInv
<1>1. \A j : OffList(j)' <=> OffList(j)
  BY DEF PageStays, OffList
<1>2. RowListed' <=> RowListed
  BY DEF PageStays, RowListed
<1>3. \A e : Heard(e)' <=> Heard(e)
  BY DEF Heard
<1>4. Heard(d) <=> Heard(c)
  BY DEF Heard, Becomes
<1>5. \A e \in calls' : e = d \/ (e \in calls /\ e # c)
  BY DEF Becomes
<1>6. FilesNamed'
  BY <1>5 DEF FilesNamed, PageStays, Becomes
<1>7. CallsApart'
  <2>1. ASSUME NEW e \in calls, Heard(e), Heard(c), e.file = c.file PROVE e = c
    BY <2>1 DEF CallsApart
  <2> QED BY <1>3, <1>4, <1>5, <2>1 DEF CallsApart, Becomes
<1>8. ASSUME NEW j, j \in FileIds \/ j = toast, OffList(j), Undoes(c, d), c.file = j PROVE ~c.stale
  BY <1>8 DEF UndosFit, Undoes, OffList
<1>9. ToastFits'
  <2> SUFFICES ASSUME toast # NoToast PROVE ToastFits'
    BY DEF PageStays, ToastFits
  <2>1. OffList(toast) /\ Scheduled(toast) /\ \A e \in calls : Heard(e) => e.file # toast
    BY DEF ToastFits
  <2>2. ~(Undoes(c, d) /\ c.file = toast)
    BY <1>8, <2>1 DEF Heard, Undoes
  <2> QED BY <1>1, <1>3, <1>4, <1>5, <2>1, <2>2 DEF ToastFits, PageStays, Becomes
<1>10. DeletionsFit'
  <2> SUFFICES ASSUME NEW e \in calls', e.kind = "delete", ~e.stale
               PROVE  /\ fileRow[e.file] = "busy" \/ (fileRow[e.file] = "gone" /\ ~RowListed)
                      /\ e.phase = "ok" => Scheduled(e.file)'
    BY <1>2 DEF DeletionsFit, PageStays
  <2>1. CASE e = d
    BY <2>1 DEF DeletionsFit, Becomes
  <2>2. CASE e \in calls /\ e # c
    <3>1. ~(Undoes(c, d) /\ c.file = e.file)
      <4>1. Heard(e) /\ fileRow[e.file] \in {"busy", "gone"}
        BY <2>2 DEF Heard, DeletionsFit
      <4> QED BY <2>2, <4>1 DEF CallsApart, UndosFit, Undoes, Heard
    <3> QED BY <2>2, <3>1 DEF DeletionsFit
  <2> QED BY <1>5, <2>1, <2>2
<1>11. UndosFit'
  <2> SUFFICES ASSUME NEW e \in calls', e.kind = "restore"
               PROVE  /\ e.phase = "sent" => Scheduled(e.file)'
                      /\ e.phase = "sent" /\ e.stale => fileRow[e.file] = "absent"
                      /\ ~e.stale => OffList(e.file)
    BY <1>1 DEF UndosFit, PageStays
  <2>1. CASE e = d
    BY <2>1 DEF UndosFit, Becomes
  <2>2. CASE e \in calls /\ e # c
    <3>1. e.phase = "sent" => ~(Undoes(c, d) /\ c.file = e.file)
      BY <2>2 DEF CallsApart, Undoes
    <3> QED BY <2>2, <3>1 DEF UndosFit
  <2> QED BY <1>5, <2>1, <2>2
<1>12. RemovalsFit'
  <2> SUFFICES ASSUME NEW e \in calls', e.kind = "remove"
               PROVE  /\ e.phase \in {"sent", "files", "row", "key", "ok", "failed"}
                      /\ ~e.stale /\ e.phase \in {"row", "key", "ok"} =>
                            \A j \in FileIds : fileRow[j] # "absent" => Erased(j)'
    BY DEF RemovalsFit, PageStays
  <2>1. CASE e = d
    BY <2>1 DEF RemovalsFit, FilesNamed, Becomes
  <2>2. CASE e \in calls
    BY <2>2 DEF RemovalsFit
  <2> QED BY <1>5, <2>1, <2>2
<1>13. OffListScheduled'
  <2> SUFFICES ASSUME NEW j \in FileIds, OffList(j), ~reloads
               PROVE  Scheduled(j)' \/ \E e \in calls' : /\ e.kind = "restore" /\ e.file = j
                                                         /\ ~e.stale /\ e.phase = "ok"
    BY <1>1 DEF OffListScheduled, PageStays
  <2>1. CASE Scheduled(j)
    <3>1. CASE Undoes(c, d) /\ c.file = j
      BY <1>8, <3>1 DEF Undoes, Becomes
    <3> QED BY <2>1, <3>1
  <2>2. ASSUME NEW e \in calls, e.kind = "restore", e.file = j, ~e.stale, e.phase = "ok"
        PROVE  Scheduled(j)' \/ \E f \in calls' : /\ f.kind = "restore" /\ f.file = j
                                                  /\ ~f.stale /\ f.phase = "ok"
    <3>1. CASE e = c
      BY <2>2, <3>1 DEF Becomes, Scheduled, Erased
    <3>2. CASE e # c
      BY <2>2, <3>2 DEF Becomes
    <3> QED BY <3>1, <3>2
  <2> QED BY <2>1, <2>2 DEF OffListScheduled
<1>14. RowAgrees'
  BY <1>2 DEF RowAgrees, Listed, PageStays
<1> QED BY <1>6, <1>7, <1>9, <1>10, <1>11, <1>12, <1>13, <1>14

LEMMA HandledList ==
  ASSUME Inv, ListInv, NEW c \in calls, HandleCall(c)
  PROVE  ListInv'
<1>1. PageStays
  BY DEF HandleCall, PageStays
<1>2. c \in Calls /\ CallsNamed
  BY DEF Inv, OwnerInv, OwnerTypeOK
<1>3. ASSUME NEW phase \in {"files", "row", "key", "read", "ok", "failed"}, Proceeds(c, phase)
      PROVE  \E d : Becomes(c, d) /\ d.phase = phase
  <2> DEFINE call == [c EXCEPT !.phase = phase]
  <2>1. call.kind = c.kind /\ call.file = c.file /\ (call.stale <=> c.stale) /\ call.phase = phase
    BY <1>2 DEF Calls
  <2>2. calls' = (calls \ {c}) \cup {call}
    BY <1>3 DEF Proceeds
  <2> HIDE DEF call
  <2> QED BY <2>1, <2>2 DEF Becomes
<1>4. ASSUME UNCHANGED jobs PROVE \A j : Ages(j)
  BY <1>4, AgesStay
<1>5. \A j \in DOMAIN jobs : jobs[j] \in Jobs
  BY InvTypes
<1>6. c.kind = "remove" => c.phase \in {"sent", "files", "row", "key", "ok", "failed"}
  BY DEF ListInv, RemovalsFit
<1>7. c.kind \in {"delete", "restore"} => c.phase \in {"sent", "ok", "failed"} /\ HasRow(c.file)
  BY DEF ListInv, FilesNamed
<1>8. CASE c.phase = "sent" /\ Refused(c) /\ Proceeds(c, "failed") /\ UNCHANGED serverVars
  <2>1. PICK d : Becomes(c, d) /\ d.phase = "failed"
    BY <1>3, <1>8
  <2>2. c.kind \in {"delete", "restore"} => Erased(c.file)
    BY <1>5, <1>7, <1>8 DEF Refused, Erased, HasRow, Jobs, RowStates
  <2>3. \A j : Ages(j)
    BY <1>4, <1>8 DEF serverVars
  <2> QED BY <1>1, <2>1, <2>2, <2>3, CallProceeds DEF Ages
<1>9. CASE c.phase = "sent" /\ c.kind = "delete" /\ FileDelete(c.file) /\ Proceeds(c, "ok")
  <2>1. PICK d : Becomes(c, d) /\ d.phase = "ok"
    BY <1>3, <1>9
  <2>2. c.file \in DOMAIN jobs /\ jobs[c.file].row \in {"live", "pending"}
    BY <1>7, <1>9 DEF HasRow, FileDelete
  <2>3. \A j : Ages(j)
    BY <1>9, <2>2, SetJobAges DEF FileDelete
  <2>4. Scheduled(c.file)'
    <3>1. jobs' = [jobs EXCEPT ![c.file] = [uuid |-> jobs[c.file].uuid, pc |-> jobs[c.file].pc,
                                            row |-> "pending", content |-> jobs[c.file].content]]
      BY <1>9 DEF FileDelete, SetJob
    <3>2. c.file \in DOMAIN jobs' /\ jobs'[c.file].row = "pending"
      BY <2>2, <3>1
    <3>3. c.file' = c.file
      OBVIOUS
    <3> QED BY <3>2 DEF Scheduled, HasRow
  <2> QED BY <1>1, <1>9, <2>1, <2>3, <2>4, CallProceeds DEF Ages
<1>10. CASE c.phase = "sent" /\ c.kind = "restore" /\ FileRestore(c.file) /\ Proceeds(c, "ok")
  <2>1. PICK d : Becomes(c, d) /\ d.phase = "ok"
    BY <1>3, <1>10
  <2>2. c.file \in DOMAIN jobs /\ jobs[c.file].row \in {"live", "pending"}
    BY <1>7, <1>10 DEF HasRow, FileRestore
  <2>3. \A j : /\ HasRow(j) => HasRow(j)'
               /\ Scheduled(j) => Scheduled(j)' \/ c.file = j
               /\ Erased(j) => Erased(j)'
    <3>1. jobs' = [jobs EXCEPT ![c.file] = [uuid |-> jobs[c.file].uuid, pc |-> jobs[c.file].pc,
                                            row |-> "live", content |-> jobs[c.file].content]]
      BY <1>10 DEF FileRestore, SetJob
    <3>2. DOMAIN jobs' = DOMAIN jobs
      BY <3>1
    <3>3. \A j \in DOMAIN jobs : jobs'[j].row = IF j = c.file THEN "live" ELSE jobs[j].row
      BY <2>2, <3>1
    <3> QED BY <2>2, <3>2, <3>3 DEF HasRow, Scheduled, Erased
  <2>4. Undoes(c, d)
    BY <1>10, <2>1 DEF Undoes
  <2> QED BY <1>1, <1>10, <2>1, <2>3, <2>4, CallProceeds
<1>11. CASE c.phase = "sent" /\ c.kind = "save" /\ Proceeds(c, "read") /\ UNCHANGED serverVars
  <2>1. PICK d : Becomes(c, d) /\ d.phase = "read"
    BY <1>3, <1>11
  <2>2. \A j : Ages(j)
    BY <1>4, <1>11 DEF serverVars
  <2> QED BY <1>1, <1>11, <2>1, <2>2, CallProceeds DEF Ages
<1>12. CASE c.phase = "read" /\ SaveFileRequest(c.limit, c.isNew) /\ Proceeds(c, "ok")
  <2>1. PICK d : Becomes(c, d) /\ d.phase = "ok"
    BY <1>3, <1>12
  <2>2. \A j : Ages(j)
    BY <1>4, <1>12 DEF SaveFileRequest
  <2>3. c.kind \notin {"delete", "restore", "remove"}
    BY <1>6, <1>7, <1>12
  <2> QED BY <1>1, <2>1, <2>2, <2>3, CallProceeds DEF Ages
<1>13. CASE c.phase = "sent" /\ c.kind = "remove" /\ Proceeds(c, "files") /\ UNCHANGED serverVars
  <2>1. PICK d : Becomes(c, d) /\ d.phase = "files"
    BY <1>3, <1>13
  <2>2. \A j : Ages(j)
    BY <1>4, <1>13 DEF serverVars
  <2> QED BY <1>1, <1>13, <2>1, <2>2, CallProceeds DEF Ages
<1>14. CASE c.phase = "files" /\ DeleteFilesOfRequest /\ Proceeds(c, "row")
  <2>1. PICK d : Becomes(c, d) /\ d.phase = "row"
    BY <1>3, <1>14
  <2>2. \A j : HasRow(j) => Erased(j)' /\ Scheduled(j)' /\ HasRow(j)'
    <3>1. DOMAIN jobs' = DOMAIN jobs
      BY <1>14 DEF DeleteFilesOfRequest
    <3>2. ASSUME NEW j \in DOMAIN jobs, jobs[j].row # "none" PROVE jobs'[j].row = "gone"
      <4>1. jobs'[j] = [jobs[j] EXCEPT !.row = "gone"]
        BY <1>14, <3>2 DEF DeleteFilesOfRequest
      <4> QED BY <1>5, <4>1 DEF Jobs
    <3> QED BY <3>1, <3>2 DEF HasRow, Scheduled, Erased
  <2>3. c.kind \notin {"delete", "restore"}
    BY <1>7, <1>14
  <2>4. \A j : (Scheduled(j) => HasRow(j)) /\ (Erased(j) => HasRow(j))
    BY DEF Scheduled, Erased
  <2> QED BY <1>1, <2>1, <2>2, <2>3, <2>4, CallProceeds
<1>15. CASE \/ c.phase = "row" /\ DeleteFileRequest /\ Proceeds(c, "key")
            \/ c.phase = "key" /\ DeleteApiKey /\ Proceeds(c, "ok")
  <2>1. PICK d : Becomes(c, d) /\ d.phase \in {"key", "ok"}
    BY <1>3, <1>15
  <2>2. \A j : Ages(j)
    BY <1>4, <1>15 DEF DeleteFileRequest, DeleteApiKey
  <2>3. c.kind \notin {"delete", "restore"} /\ c.phase \in {"row", "key"}
    BY <1>7, <1>15
  <2> QED BY <1>1, <2>1, <2>2, <2>3, CallProceeds DEF Ages
<1> QED BY <1>8, <1>9, <1>10, <1>11, <1>12, <1>13, <1>14, <1>15 DEF HandleCall

(* What a call was, the others and the tables stay as they are. *)
LEMMA DeletionHeard ==
  ASSUME Inv, ListInv, NEW c \in calls, calls' = calls \ {c}, UNCHANGED <<serverVars, reloads>>,
         c.kind = "delete", c.phase = "ok", ~c.stale, row.built = "template",
         row' = [row EXCEPT !.count = changeFileCountFr(-1),
                            !.ids = removeDownloadFileReference(@, c.file)],
         fileRow' = [fileRow EXCEPT ![c.file] = "deleting"], toast' = c.file
  PROVE  ListInv'
<1> USE DEF ListInv
<1>1. /\ fileRow \in [FileIds -> {"absent", "shown", "busy", "deleting", "gone"}]
      /\ c.file \in FileIds /\ CallsNamed /\ row \in Rows
  BY OwnerTypes DEF Inv, OwnerInv, CallsNamed
<1>2. /\ fileRow[c.file] = "busy" \/ (fileRow[c.file] = "gone" /\ ~RowListed)
      /\ Scheduled(c.file) /\ Heard(c)
  BY DEF DeletionsFit, Heard
<1>3. \A d \in calls' : d \in calls /\ d # c /\ (Heard(d) => d.file # c.file)
  BY <1>2 DEF CallsApart
<1>4. fileRow'[c.file] = "deleting" /\ \A j \in FileIds \ {c.file} : fileRow'[j] = fileRow[j]
  BY <1>1
<1>5. \A k : (HasRow(k)' <=> HasRow(k)) /\ (Scheduled(k)' <=> Scheduled(k)) /\ (Erased(k)' <=> Erased(k))
  BY DEF HasRow, Scheduled, Erased, serverVars
<1>6. \A j \in FileIds \ {c.file} : OffList(j)' <=> OffList(j)
  BY <1>4 DEF OffList
<1>7. RowListed' <=> RowListed
  BY <1>1 DEF RowListed, Rows
<1>8. \A d : Heard(d)' <=> Heard(d)
  BY DEF Heard
<1>9. \A j \in FileIds : fileRow'[j] # "absent" <=> fileRow[j] # "absent"
  BY <1>2, <1>4
<1>10. FilesNamed' /\ CallsApart' /\ RemovalsFit'
  BY <1>3, <1>5, <1>8, <1>9 DEF FilesNamed, CallsApart, RemovalsFit
<1>11. ToastFits'
  BY <1>2, <1>3, <1>4, <1>5, <1>8 DEF ToastFits, OffList
<1>12. DeletionsFit'
  BY <1>1, <1>3, <1>4, <1>5, <1>7 DEF DeletionsFit, CallsNamed, Heard
<1>13. UndosFit'
  <2> SUFFICES ASSUME NEW d \in calls', d.kind = "restore"
               PROVE  /\ d.phase = "sent" => Scheduled(d.file)'
                      /\ d.phase = "sent" /\ d.stale => fileRow'[d.file] = "absent"
                      /\ ~d.stale => OffList(d.file)'
    BY DEF UndosFit
  <2>1. d \in calls /\ d.file \in FileIds
    BY <1>1, <1>3 DEF CallsNamed
  <2>2. CASE d.file = c.file
    BY <1>2, <1>3, <1>5, <2>1, <2>2 DEF UndosFit, Heard
  <2>3. CASE d.file # c.file
    BY <1>4, <1>5, <1>6, <2>1, <2>3 DEF UndosFit
  <2> QED BY <2>2, <2>3
<1>14. OffListScheduled'
  <2> SUFFICES ASSUME NEW j \in FileIds, OffList(j)', j # c.file
               PROVE  \/ Scheduled(j)' \/ reloads'
                      \/ \E d \in calls' : /\ d.kind = "restore" /\ d.file = j
                                           /\ ~d.stale /\ d.phase = "ok"
    BY <1>2, <1>5 DEF OffListScheduled
  <2>1. \/ Scheduled(j) \/ reloads
        \/ \E d \in calls : d.kind = "restore" /\ d.file = j /\ ~d.stale /\ d.phase = "ok"
    BY <1>6 DEF OffListScheduled
  <2> QED BY <1>5, <2>1
<1>15. RowAgrees'
  <2> SUFFICES ASSUME RowListed PROVE row'.ids = Listed' /\ row'.count = Cardinality(Listed')
    BY <1>7 DEF RowAgrees
  <2>1. row.ids = Listed /\ row.count = Cardinality(Listed)
    BY DEF RowAgrees
  <2>2. c.file \in Listed /\ Listed' = Listed \ {c.file}
    BY <1>1, <1>2, <1>4 DEF Listed
  <2>3. IsFiniteSet(Listed)
    <3>1. IsFiniteSet(FileIds)
      BY FS_Interval, ChunksAssumption DEF FileIds
    <3> QED BY <3>1, FS_Subset DEF Listed
  <2>4. Cardinality(Listed') = Cardinality(Listed) - 1
    BY <2>2, <2>3, FS_RemoveElement
  <2>5. row'.ids = row.ids \ {c.file} /\ row'.count = row.count - 1
    BY <1>1 DEF Rows, removeDownloadFileReference, changeFileCountFr
  <2> QED BY <2>1, <2>2, <2>4, <2>5
<1> QED BY <1>10, <1>11, <1>12, <1>13, <1>14, <1>15

LEMMA HeardList ==
  ASSUME Inv, ListInv, NEW c \in calls, CallEnds(c)
  PROVE  ListInv'
<1> USE DEF ListInv
<1>1. calls' = calls \ {c} /\ UNCHANGED serverVars
  BY DEF CallEnds
<1>2. \A k : (HasRow(k)' <=> HasRow(k)) /\ (Scheduled(k)' <=> Scheduled(k)) /\ (Erased(k)' <=> Erased(k))
  BY <1>1 DEF HasRow, Scheduled, Erased, serverVars
<1>3. \A d : Heard(d)' <=> Heard(d)
  BY DEF Heard
<1>4. CallsApart'
  BY <1>1, <1>3 DEF CallsApart
<1>5. CASE UNCHANGED <<row, fileRow, toast>> /\ (UNCHANGED reloads \/ reloads')
           /\ (c.phase # "ok" \/ c.stale \/ c.kind # "restore" \/ reloads')
  <2>1. (\A k : OffList(k)' <=> OffList(k)) /\ (RowListed' <=> RowListed)
    BY <1>5 DEF OffList, RowListed
  <2>2. FilesNamed' /\ ToastFits'
    BY <1>1, <1>2, <1>3, <1>5, <2>1 DEF FilesNamed, ToastFits
  <2>3. DeletionsFit' /\ UndosFit' /\ RemovalsFit'
    BY <1>1, <1>2, <1>5, <2>1 DEF DeletionsFit, UndosFit, RemovalsFit
  <2>4. OffListScheduled'
    BY <1>1, <1>2, <1>5, <2>1 DEF OffListScheduled
  <2>5. RowAgrees'
    BY <1>5, <2>1 DEF RowAgrees, Listed
  <2> QED BY <1>4, <2>2, <2>3, <2>4, <2>5
<1>6. CASE c.phase = "ok" /\ ~c.stale /\ c.kind = "delete" /\ FileDeleted(c.file)
  <2>1. CASE row.built = "script"
    BY <1>5, <1>6, <2>1 DEF FileDeleted
  <2>2. CASE row.built # "script"
    <3>1. row \in Rows
      BY OwnerTypes DEF Inv, OwnerInv
    <3>2. row.built = "template"
      BY <2>2, <3>1 DEF Rows
    <3> QED BY <1>1, <1>6, <2>2, <3>2, DeletionHeard DEF FileDeleted
  <2> QED BY <2>1, <2>2
<1>7. CASE /\ c.phase = "ok" /\ ~c.stale /\ c.kind = "remove"
           /\ row' = [row EXCEPT !.state = "deleting"]
           /\ fileRow' = [j \in FileIds |-> IF fileRow[j] = "absent" THEN "absent" ELSE "gone"]
           /\ UNCHANGED <<toast, reloads>>
  <2>1. row \in Rows /\ CallsNamed /\ toast \in FileIds \cup {NoToast}
    BY OwnerTypes DEF Inv, OwnerInv
  <2>2. \A j \in FileIds : fileRow[j] # "absent" => Erased(j)
    BY <1>7 DEF RemovalsFit
  <2>3. ~RowListed'
    BY <1>7, <2>1 DEF RowListed, Rows
  <2>4. \A j \in FileIds : /\ fileRow'[j] = "absent" <=> fileRow[j] = "absent"
                           /\ fileRow'[j] # "absent" => fileRow'[j] = "gone"
    BY <1>7
  <2>5. \A j \in FileIds : OffList(j) => OffList(j)'
    BY <2>4 DEF OffList
  <2>6. FilesNamed' /\ RemovalsFit'
    BY <1>1, <1>2, <2>4 DEF FilesNamed, RemovalsFit
  <2>7. ToastFits'
    BY <1>1, <1>2, <1>3, <1>7, <2>1, <2>5 DEF ToastFits
  <2>8. DeletionsFit'
    BY <1>1, <1>2, <2>1, <2>3, <2>4 DEF DeletionsFit, CallsNamed
  <2>9. UndosFit'
    BY <1>1, <1>2, <2>1, <2>4, <2>5 DEF UndosFit, CallsNamed
  <2>10. OffListScheduled'
    BY <1>2, <2>2, <2>4 DEF OffListScheduled, OffList, Erased, Scheduled
  <2>11. RowAgrees'
    BY <2>3 DEF RowAgrees
  <2> QED BY <1>4, <2>6, <2>7, <2>8, <2>9, <2>10, <2>11
<1>8. CASE /\ c.phase = "ok" /\ ~c.stale /\ c.kind = "save"
           /\ insertOrReplaceFileRequest /\ UNCHANGED <<fileRow, toast, reloads>>
  <2>1. ~RowListed'
    BY <1>8 DEF insertOrReplaceFileRequest, RowListed
  <2>2. \A k : OffList(k)' <=> OffList(k)
    BY <1>8 DEF OffList
  <2>3. FilesNamed' /\ ToastFits'
    BY <1>1, <1>2, <1>3, <1>8, <2>2 DEF FilesNamed, ToastFits
  <2>4. DeletionsFit' /\ UndosFit' /\ RemovalsFit'
    BY <1>1, <1>2, <1>8, <2>1, <2>2 DEF DeletionsFit, UndosFit, RemovalsFit
  <2>5. OffListScheduled'
    BY <1>1, <1>2, <1>8, <2>2 DEF OffListScheduled
  <2>6. RowAgrees'
    BY <2>1 DEF RowAgrees
  <2> QED BY <1>4, <2>3, <2>4, <2>5, <2>6
<1> QED BY <1>5, <1>6, <1>7, <1>8 DEF CallEnds

(* A restart ends what the server works on; what it has done stays. *)
LEMMA RestartList ==
  ASSUME Inv, ListInv, Restart
  PROVE  ListInv'
<1> USE DEF ListInv
<1> DEFINE new(c) == IF c.phase \in {"ok", "failed"} THEN c ELSE [c EXCEPT !.phase = "failed"]
<1>1. PageStays /\ calls' = {new(c) : c \in calls}
  BY DEF Restart, CallsCut, PageStays
<1>2. \A c \in calls : /\ new(c).kind = c.kind /\ new(c).file = c.file
                       /\ (new(c).stale <=> c.stale) /\ new(c).phase \in {"ok", "failed"}
                       /\ new(c).phase = "ok" => new(c) = c
  BY DEF Inv, OwnerInv, OwnerTypeOK, Calls
<1>3. \A c \in calls : c.phase = "ok" => new(c) = c
  OBVIOUS
<1> HIDE DEF new
<1>4. \A j : (HasRow(j)' <=> HasRow(j)) /\ (Scheduled(j)' <=> Scheduled(j)) /\ (Erased(j)' <=> Erased(j))
  <2>1. ASSUME NEW j \in DOMAIN jobs PROVE jobs'[j].row = jobs[j].row
    <3>1. jobs[j] \in Jobs
      BY InvTypes
    <3> QED BY <3>1 DEF Restart, ServerRestart, Ended, Jobs
  <2>2. DOMAIN jobs' = DOMAIN jobs
    BY DEF Restart, ServerRestart
  <2> QED BY <2>1, <2>2 DEF HasRow, Scheduled, Erased
<1>5. (\A j : OffList(j)' <=> OffList(j)) /\ (RowListed' <=> RowListed)
  BY <1>1 DEF PageStays, OffList, RowListed
<1>6. \A c : Heard(c)' <=> Heard(c)
  BY DEF Heard
<1>7. \A c \in calls : Heard(new(c)) <=> Heard(c)
  BY <1>2 DEF Heard
<1>8. FilesNamed'
  BY <1>1, <1>2, <1>4 DEF FilesNamed, PageStays
<1>9. CallsApart'
  <2> SUFFICES ASSUME NEW c \in calls, NEW d \in calls, new(c).file = new(d).file
               PROVE  /\ Heard(new(c)) /\ Heard(new(d)) => new(c) = new(d)
                      /\ new(c).phase # "sent"
    BY <1>1, <1>6 DEF CallsApart
  <2>1. c.file = d.file
    BY <1>2
  <2> QED BY <1>2, <1>7, <2>1 DEF CallsApart
<1>10. ToastFits'
  BY <1>1, <1>2, <1>4, <1>5, <1>6, <1>7 DEF ToastFits, PageStays
<1>11. DeletionsFit' /\ UndosFit'
  BY <1>1, <1>2, <1>4, <1>5 DEF DeletionsFit, UndosFit, PageStays
<1>12. RemovalsFit'
  BY <1>1, <1>2, <1>4 DEF RemovalsFit, PageStays
<1>13. OffListScheduled'
  BY <1>1, <1>3, <1>4, <1>5 DEF OffListScheduled, PageStays
<1>14. RowAgrees'
  BY <1>1, <1>5 DEF RowAgrees, Listed, PageStays
<1> QED BY <1>8, <1>9, <1>10, <1>11, <1>12, <1>13, <1>14

LEMMA ListBegins == Init => ListInv
<1> SUFFICES ASSUME Init PROVE ListInv
  OBVIOUS
<1>1. calls = {} /\ toast = NoToast /\ row = Rendered /\ fileRow = RenderedFiles
  BY DEF Init, OwnerInit
<1>2. LiveFiles \subseteq FileIds
  BY InvInit, RenderedType DEF Inv
<1>3. \A j \in FileIds : fileRow[j] = IF j \in LiveFiles THEN "shown" ELSE "absent"
  BY <1>1 DEF RenderedFiles
<1>4. FilesNamed
  BY <1>1, <1>3 DEF FilesNamed, LiveFiles, HasRow
<1>5. CallsApart /\ ToastFits /\ DeletionsFit /\ UndosFit /\ RemovalsFit
  BY <1>1 DEF CallsApart, ToastFits, DeletionsFit, UndosFit, RemovalsFit
<1>6. OffListScheduled
  BY <1>3 DEF OffListScheduled, OffList
<1>7. Listed = LiveFiles
  BY <1>2, <1>3 DEF Listed
<1>8. RowAgrees
  BY <1>1, <1>7 DEF RowAgrees, Rendered
<1> QED BY <1>4, <1>5, <1>6, <1>8 DEF ListInv

LEMMA ListStep == Inv /\ StoreInv /\ ListInv /\ [Next]_vars => ListInv'
<1> SUFFICES ASSUME Inv, StoreInv, ListInv, [Next]_vars PROVE ListInv'
  OBVIOUS
<1>1. CASE (GuestStep \/ ServerWork \/ TimePasses) /\ UNCHANGED ownerVars
  BY <1>1, JobsAge, AgedList DEF ownerVars, PageStays
<1>2. CASE OwnerStep
  BY <1>2, ListClicks, DeleteClick, RemovedRow, UndoClick, ReloadList, HandledList, HeardList
     DEF OwnerStep
<1>3. CASE UNCHANGED vars
  BY <1>3, AgesStay, AgedList DEF vars, serverVars, ownerVars, PageStays
<1>4. CASE Restart
  BY <1>4, RestartList
<1> QED BY <1>1, <1>2, <1>3, <1>4 DEF Next

(* removeDownloadFileReference and changeFileCountFr keep the list, the      *)
(* count and the download button of a row that the server has rendered in    *)
(* step, for any number of files, deletions, undos and answers in any order; *)
(* and no file leaves the list of the page that is not scheduled for         *)
(* deletion, deleted, or back with the reload that is due.                   *)
THEOREM ListAgrees == Spec => []ListingConsistent
<1>1. Spec => []ListInv
  BY ListBegins, ListStep, InvAlways, StoreAlways, PTL DEF Spec
<1>2. ListInv => ListingConsistent
  BY DEF ListInv, ListingConsistent, RowAgrees, RowListed, Listed, OffListScheduled, OffList,
         Scheduled
<1> QED BY <1>1, <1>2, PTL
=============================================================================
