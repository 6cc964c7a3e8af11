------------------------------ MODULE SseWorker -----------------------------
(***************************************************************************)
(* The shared worker that holds one event stream for all tabs of a browser *)
(* (sse-worker.js).  Tabs and worker post messages to each other through   *)
(* ports, which keep the order.  The messages of type log and error, which *)
(* a tab only writes to its console, are left out.                         *)
(***************************************************************************)
EXTENDS Naturals, Sequences

CONSTANTS
    Tabs,     \* a tab has one port while it lives; a reload makes a new tab
    Notices,  \* what tabs tell each other: files that were added or deleted
    Statuses  \* what the server sends through the stream

VARIABLES
    attached, \* tabs that have made their port and have not gone away
    ports,    \* the array of the worker
    source,   \* there is an EventSource
    timer,    \* reconnectTimer is set
    streams,  \* EventSources that have been opened and not closed
    outbox,   \* outbox[t]: messages from tab t to the worker
    inbox     \* inbox[t]: messages from the worker to tab t

workerVars == <<attached, ports, source, timer, streams, outbox, inbox>>

Connect == [type |-> "connect"]
Shutdown == [type |-> "shutdown"]
Notice(n) == [type |-> "notice", notice |-> n]
Status(s) == [type |-> "message", data |-> s]

ToWorker == {Connect, Shutdown} \cup {Notice(n) : n \in Notices}
ToTab == {Shutdown} \cup {Notice(n) : n \in Notices} \cup {Status(s) : s \in Statuses}

WorkerTypeOK ==
    /\ attached \in SUBSET Tabs
    /\ ports \in SUBSET Tabs
    /\ source \in BOOLEAN
    /\ timer \in BOOLEAN
    /\ streams \in Nat
    /\ outbox \in [Tabs -> Seq(ToWorker)]
    /\ inbox \in [Tabs -> Seq(ToTab)]

WorkerInit ==
    /\ attached = {}
    /\ ports = {}
    /\ source = FALSE /\ timer = FALSE /\ streams = 0
    /\ outbox = [t \in Tabs |-> <<>>]
    /\ inbox = [t \in Tabs |-> <<>>]

-----------------------------------------------------------------------------
(* A message to a port whose tab has gone away is dropped. *)
broadcastTo(receivers, msg) ==
    inbox' = [t \in Tabs |-> IF t \in receivers \cap attached
                             THEN Append(inbox[t], msg) ELSE inbox[t]]

broadcast(msg) == broadcastTo(ports, msg)

broadcastExcept(msg, sender) == broadcastTo(ports \ {sender}, msg)

connect ==
    /\ timer' = FALSE
    /\ source' = TRUE
    /\ streams' = streams + 1

(* Mutant of closeSource: a stream is closed that may not be there. *)
CloseUnchecked == source' = FALSE /\ streams' = streams - 1

closeSource ==
    /\ source' = FALSE
    /\ streams' = IF source THEN streams - 1 ELSE streams

(* onconnect: the first tab opens the stream. *)
onconnect(t) ==
    /\ ports' = ports \cup {t}
    /\ IF ~source /\ ~timer THEN connect ELSE UNCHANGED <<source, timer, streams>>
    /\ UNCHANGED inbox

(* Mutant of shutdown: only the stream is closed, the timer goes on. *)
ShutdownKeepsTimer(t) ==
    /\ closeSource /\ UNCHANGED timer
    /\ broadcastExcept(Shutdown, t)
    /\ ports' = {}

(* A tab logs out: the stream is closed, and every other tab is told. *)
shutdown(t) ==
    /\ closeSource /\ timer' = FALSE
    /\ broadcastExcept(Shutdown, t)
    /\ ports' = {}

(* port.onmessage, and onconnect for the first event of a port *)
onmessage(t) ==
    /\ outbox[t] # <<>>
    /\ outbox' = [outbox EXCEPT ![t] = Tail(@)]
    /\ LET msg == Head(outbox[t]) IN
       \/ msg.type = "connect" /\ onconnect(t)
       \/ msg.type = "shutdown" /\ shutdown(t)
       \/ /\ msg.type = "notice" /\ broadcastExcept(msg, t)
          /\ UNCHANGED <<ports, source, timer, streams>>
    /\ UNCHANGED attached

(* removePort, by the close event of a port whose tab is gone, which not every *)
(* browser sends.  The last port takes the stream with it.  No page sends the  *)
(* message `close', which would do the same.                                   *)
removePort(t) ==
    /\ t \in ports \ attached /\ outbox[t] = <<>>
    /\ ports' = ports \ {t}
    /\ IF ports' = {} THEN closeSource /\ timer' = FALSE
                      ELSE UNCHANGED <<source, timer, streams>>
    /\ UNCHANGED <<attached, outbox, inbox>>

(* source.onerror *)
onerror ==
    /\ source
    /\ closeSource
    /\ timer' = (ports # {})
    /\ UNCHANGED <<attached, ports, outbox, inbox>>

(* setTimeout(connect, RECONNECT_DELAY_MS) *)
Reconnect ==
    /\ timer
    /\ connect
    /\ UNCHANGED <<attached, ports, outbox, inbox>>

(* source.onmessage *)
StreamMessage(s) ==
    /\ source
    /\ broadcast(Status(s))
    /\ UNCHANGED <<attached, ports, source, timer, streams, outbox>>

-----------------------------------------------------------------------------
(* What a tab does: it makes its port, posts, reads, and goes away.  What is *)
(* already on its way to the worker still arrives.                           *)
Attach(t) ==
    /\ attached' = attached \cup {t}
    /\ outbox' = [outbox EXCEPT ![t] = <<Connect>>]
    /\ UNCHANGED <<ports, source, timer, streams, inbox>>

Post(t, msg) ==
    /\ outbox' = [outbox EXCEPT ![t] = Append(@, msg)]
    /\ UNCHANGED <<attached, ports, source, timer, streams, inbox>>

Receive(t) ==
    /\ inbox[t] # <<>>
    /\ inbox' = [inbox EXCEPT ![t] = Tail(@)]
    /\ UNCHANGED <<attached, ports, source, timer, streams, outbox>>

Detach(t) ==
    /\ attached' = attached \ {t}
    /\ inbox' = [inbox EXCEPT ![t] = <<>>]
    /\ UNCHANGED <<ports, source, timer, streams, outbox>>

WorkerStep ==
    \/ onerror \/ Reconnect
    \/ \E t \in Tabs : onmessage(t) \/ removePort(t)

WorkerNext ==
    \/ WorkerStep
    \/ \E s \in Statuses : StreamMessage(s)
    \/ \E t \in Tabs :
        \/ t \notin attached \cup ports /\ outbox[t] = <<>> /\ Attach(t)
        \/ t \in attached /\ (Receive(t) \/ Detach(t))
        \/ t \in attached /\ \E msg \in ToWorker \ {Connect} : Post(t, msg)

WorkerSpec == WorkerInit /\ [][WorkerNext]_workerVars

-----------------------------------------------------------------------------
(* However tabs come, go and log out, and however often the stream breaks,   *)
(* there is never more than one stream, none without a tab that listens, and *)
(* no tab listens without a stream or the timer that opens the next one.     *)
OneConnection ==
    /\ streams = (IF source THEN 1 ELSE 0)
    /\ ~(source /\ timer)
    /\ (source \/ timer) <=> ports # {}
=============================================================================
