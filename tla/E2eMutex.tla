------------------------------ MODULE E2eMutex ------------------------------
(***************************************************************************)
(* The per-user mutex that guards the end-to-end encryption information    *)
(* (e2emutex.timedMutex), the API handlers that use it (e2e/mutex/lock,    *)
(* e2e/mutex/unlock, e2e/get, e2e/set), and the client that adds one file  *)
(* to the information: lock, get, set, unlock (addE2EFileInfo of the       *)
(* command line uploader, the upload page of the web interface).           *)
(*                                                                         *)
(* The fields isLocked and timer are only written under stateMutex, so     *)
(* each of its critical sections is one step.  IsLocked reads without it.  *)
(***************************************************************************)
EXTENDS Integers

CONSTANTS
    Users,      \* user ids
    Sessions,   \* clients, each adding one file
    UserOf,     \* UserOf[s]: the user that s is logged in as
    Cli,        \* the sessions of the command line uploader
    NoTimer     \* the nil timer

ASSUME SessionsAssumption ==
    /\ UserOf \in [Sessions -> Users]
    /\ Cli \subseteq Sessions
    /\ NoTimer \notin Sessions

VARIABLES
    held,       \* held[u]: timedMutex.mutex of u is locked
    isLocked,   \* isLocked[u]: timedMutex.isLocked
    timer,      \* timer[u]: timedMutex.timer, named by the session that set it
    timerState, \* timerState[s]: the timer that the lock call of s created
    pc,         \* pc[s]: the next step of s
    info,       \* info[u]: the files in the table E2EConfig
    base,       \* base[s]: the files that s got from the server
    outcome,    \* outcome[s]: what the client tells its user
    saved,      \* history: the sessions whose file has been saved
    disturbed   \* history: the users of which a client has kept the lock for
                \* 30 seconds, or has unlocked after its lock request failed

mutexVars == <<held, isLocked, timer, timerState>>
dataVars == <<info, base, outcome, saved>>
vars == <<mutexVars, pc, dataVars, disturbed>>

PCs == {"idle", "waiting", "locking", "locked", "getting", "got", "setting",
        "unlocking", "done"}

(* From the answer to the lock request until the unlock request *)
InSession(s) == pc[s] \in {"locked", "getting", "got", "setting", "unlocking"}

(* Type invariant. *)
TypeOK ==
    /\ held \in [Users -> BOOLEAN]
    /\ isLocked \in [Users -> BOOLEAN]
    /\ timer \in [Users -> Sessions \cup {NoTimer}]
    /\ timerState \in [Sessions -> {"unset", "armed", "fired", "stopped", "ran"}]
    /\ pc \in [Sessions -> PCs]
    /\ info \in [Users -> SUBSET Sessions]
    /\ base \in [Sessions -> SUBSET Sessions]
    /\ outcome \in [Sessions -> {"pending", "success", "error"}]
    /\ saved \in SUBSET Sessions
    /\ disturbed \in SUBSET Users

Init ==
    /\ held = [u \in Users |-> FALSE]
    /\ isLocked = [u \in Users |-> FALSE]
    /\ timer = [u \in Users |-> NoTimer]
    /\ timerState = [s \in Sessions |-> "unset"]
    /\ pc = [s \in Sessions |-> "idle"]
    /\ info = [u \in Users |-> {}]
    /\ base = [s \in Sessions |-> {}]
    /\ outcome = [s \in Sessions |-> "pending"]
    /\ saved = {}
    /\ disturbed = {}

Goto(s, from, to) == pc[s] = from /\ pc' = [pc EXCEPT ![s] = to]

-----------------------------------------------------------------------------
(* Mutant of unlock: isLocked is not reset. *)
UnlockKeepsMark(u, states) ==
    IF ~isLocked[u]
    THEN timerState' = states /\ UNCHANGED <<held, isLocked, timer>>
    ELSE /\ timerState' = states
         /\ timer' = [timer EXCEPT ![u] = NoTimer]
         /\ held' = [held EXCEPT ![u] = FALSE]
         /\ UNCHANGED isLocked

(* timedMutex.unlock, where states is timerState as the caller leaves it.   *)
(* Stop keeps an armed timer from firing and does nothing to a fired one.   *)
unlock(u, states) ==
    IF ~isLocked[u]
    THEN timerState' = states /\ UNCHANGED <<held, isLocked, timer>>
    ELSE /\ timerState' = IF timer[u] # NoTimer /\ states[timer[u]] = "armed"
                          THEN [states EXCEPT ![timer[u]] = "stopped"]
                          ELSE states
         /\ timer' = [timer EXCEPT ![u] = NoTimer]
         /\ isLocked' = [isLocked EXCEPT ![u] = FALSE]
         /\ held' = [held EXCEPT ![u] = FALSE]

(* apiE2eMutexLock *)
LockRequest(s) ==
    /\ Goto(s, "idle", "waiting")
    /\ UNCHANGED <<mutexVars, dataVars, disturbed>>

(* Mutant of LockRequestFails: an unlock request without a lock request. *)
UnlockUnasked(s) ==
    /\ Goto(s, "idle", "unlocking")
    /\ UNCHANGED <<mutexVars, dataVars, disturbed>>

(* The request fails before it reaches the handler, and the client goes on *)
(* to unlock: `finally' in the web interface, `defer' in addE2EFileInfo.   *)
(* A client that gives up while its handler waits is two sessions, one     *)
(* that vanishes with its request and one whose request fails here.        *)
LockRequestFails(s) ==
    /\ Goto(s, "idle", "unlocking")
    /\ outcome' = [outcome EXCEPT ![s] = "error"]
    /\ disturbed' = disturbed \cup {UserOf[s]}
    /\ UNCHANGED <<mutexVars, info, base, saved>>

(* Mutant of MutexLock: it does not wait for the holder. *)
MutexLockAtOnce(s) ==
    /\ Goto(s, "waiting", "locking")
    /\ held' = [held EXCEPT ![UserOf[s]] = TRUE]
    /\ UNCHANGED <<isLocked, timer, timerState, dataVars, disturbed>>

(* timedMutex.lock: t.mutex.Lock() *)
MutexLock(s) ==
    /\ Goto(s, "waiting", "locking")
    /\ ~held[UserOf[s]]
    /\ held' = [held EXCEPT ![UserOf[s]] = TRUE]
    /\ UNCHANGED <<isLocked, timer, timerState, dataVars, disturbed>>

(* Mutant of SetLocked: no timer is started. *)
SetLockedNoTimer(s) ==
    /\ Goto(s, "locking", "locked")
    /\ isLocked' = [isLocked EXCEPT ![UserOf[s]] = TRUE]
    /\ UNCHANGED <<held, timer, timerState, dataVars, disturbed>>

(* timedMutex.lock: the section under stateMutex *)
SetLocked(s) ==
    /\ Goto(s, "locking", "locked")
    /\ isLocked' = [isLocked EXCEPT ![UserOf[s]] = TRUE]
    /\ timer' = [timer EXCEPT ![UserOf[s]] = s]
    /\ timerState' = [timerState EXCEPT ![s] = "armed"]
    /\ UNCHANGED <<held, dataVars, disturbed>>

(* 30 seconds after SetLocked the runtime starts the function of the timer, *)
(* which then has to wait for stateMutex.                                   *)
TimerFires(s) ==
    /\ timerState[s] = "armed"
    /\ timerState' = [timerState EXCEPT ![s] = "fired"]
    /\ disturbed' = disturbed \cup {UserOf[s]}
    /\ UNCHANGED <<held, isLocked, timer, pc, dataVars>>

TimerUnlocks(s) ==
    /\ timerState[s] = "fired"
    /\ unlock(UserOf[s], [timerState EXCEPT ![s] = "ran"])
    /\ UNCHANGED <<pc, dataVars, disturbed>>

(* The lock is granted and its answer lost: the client unlocks what it has *)
(* without knowing, as after a failed request.                             *)
LockAnswerLost(s) ==
    /\ Goto(s, "locked", "unlocking")
    /\ outcome' = [outcome EXCEPT ![s] = "error"]
    /\ UNCHANGED <<mutexVars, info, base, saved, disturbed>>

-----------------------------------------------------------------------------
(* apiE2eGet: IsLocked, then GetEnd2EndInfo *)
GetChecked(s) ==
    /\ isLocked[UserOf[s]]
    /\ Goto(s, "locked", "getting")
    /\ UNCHANGED <<mutexVars, dataVars, disturbed>>

GetRejected(s) ==
    /\ ~isLocked[UserOf[s]]
    /\ Goto(s, "locked", "unlocking")
    /\ outcome' = [outcome EXCEPT ![s] = "error"]
    /\ UNCHANGED <<mutexVars, info, base, saved, disturbed>>

GetEnd2EndInfo(s) ==
    /\ Goto(s, "getting", "got")
    /\ base' = [base EXCEPT ![s] = info[UserOf[s]]]
    /\ UNCHANGED <<mutexVars, info, outcome, saved, disturbed>>

(* apiE2eSet: IsLocked, then SaveEnd2EndInfo of what the client sent *)
SetChecked(s) ==
    /\ isLocked[UserOf[s]]
    /\ Goto(s, "got", "setting")
    /\ UNCHANGED <<mutexVars, dataVars, disturbed>>

(* The web interface reports the error status; setE2eInfo of the command   *)
(* line uploader does not look at the status of the response.              *)
SetRejected(s) ==
    /\ ~isLocked[UserOf[s]]
    /\ Goto(s, "got", "unlocking")
    /\ outcome' = [outcome EXCEPT ![s] = IF s \in Cli THEN "success" ELSE "error"]
    /\ UNCHANGED <<mutexVars, info, base, saved, disturbed>>

(* Mutant of SaveEnd2EndInfo: the new entry replaces the earlier ones. *)
SaveOnlyNewEntry(s) ==
    /\ Goto(s, "setting", "unlocking")
    /\ info' = [info EXCEPT ![UserOf[s]] = {s}]
    /\ saved' = saved \cup {s}
    /\ outcome' = [outcome EXCEPT ![s] = "success"]
    /\ UNCHANGED <<mutexVars, base, disturbed>>

SaveEnd2EndInfo(s) ==
    /\ Goto(s, "setting", "unlocking")
    /\ info' = [info EXCEPT ![UserOf[s]] = base[s] \cup {s}]
    /\ saved' = saved \cup {s}
    /\ outcome' = [outcome EXCEPT ![s] = "success"]
    /\ UNCHANGED <<mutexVars, base, disturbed>>

(* apiE2eMutexUnlock *)
UnlockRequest(s) ==
    /\ Goto(s, "unlocking", "done")
    /\ unlock(UserOf[s], timerState)
    /\ UNCHANGED <<dataVars, disturbed>>

Client(s) ==
    \/ LockRequest(s) \/ LockRequestFails(s) \/ LockAnswerLost(s)
    \/ GetChecked(s) \/ GetRejected(s) \/ GetEnd2EndInfo(s)
    \/ SetChecked(s) \/ SetRejected(s) \/ SaveEnd2EndInfo(s)
    \/ UnlockRequest(s)

Next == \E s \in Sessions :
    Client(s) \/ MutexLock(s) \/ SetLocked(s) \/ TimerFires(s) \/ TimerUnlocks(s)

Spec == Init /\ [][Next]_vars

(* The server keeps running and time passes; a client may vanish at any    *)
(* point, so its steps carry no fairness.                                  *)
ServerFairSpec ==
    /\ Spec
    /\ \A s \in Sessions :
         /\ WF_vars(MutexLock(s))
         /\ WF_vars(SetLocked(s))
         /\ WF_vars(TimerFires(s))
         /\ WF_vars(TimerUnlocks(s))

-----------------------------------------------------------------------------
(* Properties *)

(* unlock is never reached with isLocked set and the mutex free, which the *)
(* Go runtime answers by ending the process; and a mutex that is taken is  *)
(* either about to be marked or carries a timer that will release it, so   *)
(* that no order of lock, unlock and timer calls leaves it locked forever. *)
MutexReleasable ==
    \A u \in Users :
        /\ isLocked[u] => held[u]
        /\ held[u] => \/ \E s \in Sessions : UserOf[s] = u /\ pc[s] = "locking"
                      \/ /\ timer[u] # NoTimer
                         /\ timerState[timer[u]] \in {"armed", "fired"}

(* Two clients of a user are never both between lock and unlock, while no  *)
(* client of the user has been slower than the timer or has unlocked       *)
(* without a lock.                                                         *)
SessionsExclusive ==
    \A s, t \in Sessions :
        s # t /\ UserOf[s] = UserOf[t] /\ UserOf[s] \notin disturbed
            => ~(InSession(s) /\ InSession(t))

(* A file that was saved in the information of such a user stays in it: the *)
(* keys of an end-to-end encrypted file are not overwritten by another      *)
(* client that started from an older version.                               *)
NoEntryLost ==
    \A s \in saved : UserOf[s] \notin disturbed => s \in info[UserOf[s]]

(* The lock that s has taken is released by the unlock request of s and by  *)
(* nothing else, up to the first disturbance.                               *)
OnlyOwnRelease ==
    [][\A s \in Sessions :
          timer[UserOf[s]] = s /\ timer'[UserOf[s]] # s
              => \/ pc[s] = "unlocking" /\ pc'[s] = "done"
                 \/ UserOf[s] \in disturbed']_vars

(* The client that has told its user of success has its file saved.        *)
SuccessMeansSaved == \A s \in Sessions : outcome[s] = "success" => s \in saved

(* A lock request is answered, also when every other client vanishes.      *)
LockAnswered == \A s \in Sessions : pc[s] = "waiting" ~> pc[s] = "locked"
=============================================================================
