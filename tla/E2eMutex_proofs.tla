-------------------------- MODULE E2eMutex_proofs --------------------------
(* Proofs about E2eMutex.tla, for every set of users and sessions.         *)
EXTENDS E2eMutex, TLAPS

(* The inductive invariant behind MutexReleasable.                         *)
TimerOfLock ==
    \A u \in Users :
        /\ isLocked[u] => held[u]
        /\ isLocked[u] <=> timer[u] # NoTimer
        /\ timer[u] # NoTimer =>
              UserOf[timer[u]] = u /\ timerState[timer[u]] \in {"armed", "fired"}

(* Only the current timer of a user may still fire for the first time.     *)
ArmedIsCurrent ==
    \A s \in Sessions : timerState[s] = "armed" => timer[UserOf[s]] = s

(* One session at a time is inside lock(), with the mutex and no mark yet. *)
Locking ==
    /\ \A s \in Sessions :
          pc[s] = "locking" => held[UserOf[s]] /\ ~isLocked[UserOf[s]]
    /\ \A s, t \in Sessions :
          pc[s] = "locking" /\ pc[t] = "locking" /\ UserOf[s] = UserOf[t] => s = t

TakenByLocking ==
    \A u \in Users : held[u] /\ ~isLocked[u] =>
        \E s \in Sessions : UserOf[s] = u /\ pc[s] = "locking"

(* A lock call creates one timer. *)
TimerAfterLock ==
    \A s \in Sessions :
        pc[s] \in {"idle", "waiting", "locking"} => timerState[s] = "unset"

MutexInv ==
    /\ TypeOK
    /\ TimerOfLock
    /\ ArmedIsCurrent
    /\ Locking
    /\ TakenByLocking
    /\ TimerAfterLock

LEMMA MutexInvInit == Init => MutexInv
BY SessionsAssumption
   DEF Init, MutexInv, TypeOK, PCs, TimerOfLock, ArmedIsCurrent, Locking,
       TakenByLocking, TimerAfterLock

(* What a call of unlock for user u does, by a client (states = timerState) *)
(* or by the function of a fired timer.                                     *)
LEMMA UnlockStep ==
    ASSUME MutexInv, NEW u \in Users,
           NEW states \in [Sessions -> {"unset", "armed", "fired", "stopped", "ran"}],
           \A s \in Sessions : \/ states[s] = timerState[s]
                               \/ timerState[s] = "fired" /\ states[s] = "ran",
           \A s \in Sessions : UserOf[s] # u => states[s] = timerState[s],
           unlock(u, states),
           pc' \in [Sessions -> PCs],
           \A s \in Sessions : \/ pc'[s] = pc[s]
                               \/ pc[s] = "unlocking" /\ pc'[s] = "done",
           UNCHANGED <<dataVars, disturbed>>
    PROVE  MutexInv'
<1> USE SessionsAssumption DEF MutexInv, TypeOK, dataVars
<1>1. CASE ~isLocked[u]
  <2>1. timerState' = states /\ UNCHANGED <<held, isLocked, timer>>
    BY <1>1 DEF unlock
  <2>2. TypeOK'
    BY <2>1
  <2>3. TimerOfLock'
    BY <1>1, <2>1 DEF TimerOfLock
  <2>4. ArmedIsCurrent'
    BY <2>1 DEF ArmedIsCurrent
  <2>5. Locking' /\ TakenByLocking' /\ TimerAfterLock'
    BY <2>1 DEF Locking, TakenByLocking, TimerAfterLock, PCs
  <2> QED
    BY <2>2, <2>3, <2>4, <2>5
<1>2. CASE isLocked[u]
  <2>1. /\ timer[u] \in Sessions /\ UserOf[timer[u]] = u
        /\ timer' = [timer EXCEPT ![u] = NoTimer]
        /\ isLocked' = [isLocked EXCEPT ![u] = FALSE]
        /\ held' = [held EXCEPT ![u] = FALSE]
    BY <1>2 DEF unlock, TimerOfLock
  <2>2. timerState' = IF states[timer[u]] = "armed"
                      THEN [states EXCEPT ![timer[u]] = "stopped"] ELSE states
    BY <1>2, <2>1 DEF unlock
  <2>3. /\ timerState' \in [Sessions -> {"unset", "armed", "fired", "stopped", "ran"}]
        /\ \A s \in Sessions : timerState'[s] = "armed" =>
              timerState[s] = "armed" /\ UserOf[s] # u
    BY <2>1, <2>2 DEF ArmedIsCurrent
  <2>4. \A s \in Sessions : UserOf[s] # u => timerState'[s] = timerState[s]
    BY <2>1, <2>2
  <2>5. TypeOK'
    BY <2>1, <2>3
  <2>6. TimerOfLock'
    BY <2>1, <2>4 DEF TimerOfLock
  <2>7. ArmedIsCurrent'
    BY <2>1, <2>3 DEF ArmedIsCurrent
  <2>8. Locking' /\ TakenByLocking'
    BY <1>2, <2>1 DEF Locking, TakenByLocking, PCs
  <2>9. TimerAfterLock'
    <3>1. ASSUME NEW s \in Sessions, pc'[s] \in {"idle", "waiting", "locking"}
          PROVE  timerState'[s] = "unset"
      <4>1. timerState[s] = "unset"
        BY <3>1 DEF TimerAfterLock
      <4>2. states[s] = "unset"
        BY <4>1
      <4>3. timer[u] # s
        BY <1>2, <4>1 DEF TimerOfLock
      <4> QED
        BY <2>1, <2>2, <4>2, <4>3
    <3> QED
      BY <3>1 DEF TimerAfterLock
  <2> QED
    BY <2>5, <2>6, <2>7, <2>8, <2>9
<1> QED
  BY <1>1, <1>2

LEMMA MutexInvNext == MutexInv /\ [Next]_vars => MutexInv'
<1> SUFFICES ASSUME MutexInv, [Next]_vars PROVE MutexInv'
  OBVIOUS
<1> USE SessionsAssumption
<1>1. CASE UNCHANGED vars
  BY <1>1 DEF vars, mutexVars, dataVars, MutexInv, TypeOK, TimerOfLock,
       ArmedIsCurrent, Locking, TakenByLocking, TimerAfterLock
<1>2. ASSUME NEW s \in Sessions, UnlockRequest(s) PROVE MutexInv'
  <2>1. /\ unlock(UserOf[s], timerState)
        /\ pc' = [pc EXCEPT ![s] = "done"] /\ pc[s] = "unlocking"
        /\ UNCHANGED <<dataVars, disturbed>>
    BY <1>2 DEF UnlockRequest, Goto
  <2>2. pc' \in [Sessions -> PCs]
    BY <2>1 DEF MutexInv, TypeOK, PCs
  <2>3. \A t \in Sessions : \/ pc'[t] = pc[t]
                            \/ pc[t] = "unlocking" /\ pc'[t] = "done"
    BY <2>1 DEF MutexInv, TypeOK
  <2>4. /\ UserOf[s] \in Users
        /\ timerState \in [Sessions -> {"unset", "armed", "fired", "stopped", "ran"}]
    BY DEF MutexInv, TypeOK
  <2> QED
    BY <2>1, <2>2, <2>3, <2>4, UnlockStep
<1>3. ASSUME NEW s \in Sessions, TimerUnlocks(s) PROVE MutexInv'
  <2> DEFINE ran == [timerState EXCEPT ![s] = "ran"]
  <2>1. /\ unlock(UserOf[s], ran) /\ timerState[s] = "fired"
        /\ UNCHANGED <<pc, dataVars, disturbed>>
    BY <1>3 DEF TimerUnlocks
  <2>2. /\ ran \in [Sessions -> {"unset", "armed", "fired", "stopped", "ran"}]
        /\ ran[s] = "ran"
        /\ \A t \in Sessions \ {s} : ran[t] = timerState[t]
    BY DEF MutexInv, TypeOK
  <2>3. pc' \in [Sessions -> PCs] /\ \A t \in Sessions : pc'[t] = pc[t]
    BY <2>1 DEF MutexInv, TypeOK
  <2>4. UserOf[s] \in Users
    OBVIOUS
  <2>5. \A t \in Sessions : UserOf[t] # UserOf[s] => ran[t] = timerState[t]
    BY <2>2
  <2>6. \A t \in Sessions : \/ ran[t] = timerState[t]
                            \/ timerState[t] = "fired" /\ ran[t] = "ran"
    BY <2>1, <2>2
  <2> HIDE DEF ran
  <2> QED
    BY <2>1, <2>2, <2>3, <2>4, <2>5, <2>6, UnlockStep
<1>4. ASSUME NEW s \in Sessions, Client(s), ~UnlockRequest(s) PROVE MutexInv'
  <2>1. /\ UNCHANGED mutexVars
        /\ pc' \in [Sessions -> PCs]
        /\ \A t \in Sessions : (pc'[t] = "locking") <=> (pc[t] = "locking")
        /\ \A t \in Sessions : pc'[t] \in {"idle", "waiting", "locking"} =>
                pc[t] \in {"idle", "waiting", "locking"}
    BY <1>4 DEF Client, LockRequest, LockRequestFails, LockAnswerLost,
         GetChecked, GetRejected,
         GetEnd2EndInfo, SetChecked, SetRejected, SaveEnd2EndInfo, Goto, MutexInv,
         TypeOK, PCs
  <2>2. /\ info' \in [Users -> SUBSET Sessions]
        /\ base' \in [Sessions -> SUBSET Sessions]
    BY <1>4 DEF Client, LockRequest, LockRequestFails, LockAnswerLost,
         GetChecked, GetRejected,
         GetEnd2EndInfo, SetChecked, SetRejected, SaveEnd2EndInfo, dataVars,
         MutexInv, TypeOK
  <2>3. /\ outcome' \in [Sessions -> {"pending", "success", "error"}]
        /\ saved' \in SUBSET Sessions /\ disturbed' \in SUBSET Users
    BY <1>4 DEF Client, LockRequest, LockRequestFails, LockAnswerLost,
         GetChecked, GetRejected,
         GetEnd2EndInfo, SetChecked, SetRejected, SaveEnd2EndInfo, dataVars,
         MutexInv, TypeOK
  <2>4. TypeOK'
    BY <2>1, <2>2, <2>3 DEF MutexInv, TypeOK, mutexVars
  <2>5. TimerOfLock' /\ ArmedIsCurrent'
    BY <2>1 DEF MutexInv, mutexVars, TimerOfLock, ArmedIsCurrent
  <2>6. Locking' /\ TakenByLocking' /\ TimerAfterLock'
    BY <2>1 DEF MutexInv, mutexVars, Locking, TakenByLocking, TimerAfterLock
  <2> QED
    BY <2>4, <2>5, <2>6 DEF MutexInv
<1>5. ASSUME NEW s \in Sessions, MutexLock(s) PROVE MutexInv'
  BY <1>5 DEF MutexLock, Goto, dataVars, MutexInv, TypeOK, PCs, TimerOfLock,
       ArmedIsCurrent, Locking, TakenByLocking, TimerAfterLock
<1>6. ASSUME NEW s \in Sessions, SetLocked(s) PROVE MutexInv'
  <2>1. /\ pc[s] = "locking" /\ timerState[s] = "unset"
        /\ held[UserOf[s]] /\ ~isLocked[UserOf[s]] /\ timer[UserOf[s]] = NoTimer
    BY <1>6 DEF SetLocked, Goto, MutexInv, Locking, TimerAfterLock, TimerOfLock, TypeOK
  <2>2. TypeOK'
    BY <1>6 DEF SetLocked, Goto, dataVars, MutexInv, TypeOK, PCs
  <2>3. TimerOfLock'
    BY <1>6, <2>1 DEF SetLocked, MutexInv, TypeOK, TimerOfLock
  <2>4. ArmedIsCurrent'
    BY <1>6, <2>1 DEF SetLocked, MutexInv, TypeOK, ArmedIsCurrent
  <2>5. Locking' /\ TakenByLocking'
    BY <1>6, <2>1 DEF SetLocked, Goto, MutexInv, TypeOK, Locking, TakenByLocking
  <2>6. TimerAfterLock'
    BY <1>6, <2>1 DEF SetLocked, Goto, MutexInv, TypeOK, TimerAfterLock
  <2> QED
    BY <2>2, <2>3, <2>4, <2>5, <2>6 DEF MutexInv
<1>7. ASSUME NEW s \in Sessions, TimerFires(s) PROVE MutexInv'
  BY <1>7 DEF TimerFires, dataVars, MutexInv, TypeOK, TimerOfLock,
       ArmedIsCurrent, Locking, TakenByLocking, TimerAfterLock
<1> QED
  BY <1>1, <1>2, <1>3, <1>4, <1>5, <1>6, <1>7 DEF Next

(* Every variable keeps its type. *)
THEOREM TypeCorrect == Spec => []TypeOK
<1>1. MutexInv => TypeOK
  BY DEF MutexInv
<1> QED
  BY <1>1, MutexInvInit, MutexInvNext, PTL DEF Spec

(* In every order of lock calls, unlock calls and timers, however late,     *)
(* unlock never ends the process by unlocking a free mutex, and a taken     *)
(* mutex has a live timer or a lock call that is about to set one.          *)
THEOREM AlwaysReleasable == Spec => []MutexReleasable
<1>1. MutexInv => MutexReleasable
  BY DEF MutexInv, MutexReleasable, TimerOfLock, TakenByLocking
<1> QED
  BY <1>1, MutexInvInit, MutexInvNext, PTL DEF Spec

-----------------------------------------------------------------------------
(* While no client of a user has disturbed the protocol, no timer of that  *)
(* user has fired, the current timer names the session between lock and    *)
(* unlock, and what that session got is still what is stored.              *)
NoTimerFired ==
    \A s \in Sessions : UserOf[s] \notin disturbed => timerState[s] # "fired"
TimerNamesSession ==
    \A s \in Sessions :
        InSession(s) /\ UserOf[s] \notin disturbed => timer[UserOf[s]] = s
BaseIsCurrent ==
    \A s \in Sessions :
        pc[s] \in {"got", "setting"} /\ UserOf[s] \notin disturbed
            => base[s] = info[UserOf[s]]

PromptInv ==
    /\ NoTimerFired
    /\ TimerNamesSession
    /\ BaseIsCurrent
    /\ NoEntryLost

LEMMA PromptInvInit == Init => PromptInv
BY DEF Init, PromptInv, NoTimerFired, TimerNamesSession, BaseIsCurrent,
       InSession, NoEntryLost

(* A step that disturbs a user says nothing about that user any more, and   *)
(* leaves what concerns the others.                                         *)
LEMMA DisturbingStep ==
    ASSUME MutexInv, PromptInv, NEW s \in Sessions,
           disturbed' = disturbed \cup {UserOf[s]},
           \A t \in Sessions \ {s} :
               pc'[t] = pc[t] /\ timerState'[t] = timerState[t],
           UNCHANGED <<timer, base, info, saved>>
    PROVE  PromptInv'
BY DEF PromptInv, NoTimerFired, TimerNamesSession, BaseIsCurrent, InSession,
       NoEntryLost, MutexInv, TypeOK

LEMMA PromptInvNext == MutexInv /\ PromptInv /\ [Next]_vars => PromptInv'
<1> SUFFICES ASSUME MutexInv, PromptInv, [Next]_vars PROVE PromptInv'
  OBVIOUS
<1> USE SessionsAssumption
<1> USE DEF PromptInv, NoTimerFired, TimerNamesSession, BaseIsCurrent
<1>1. CASE UNCHANGED vars
  BY <1>1 DEF vars, mutexVars, dataVars, InSession, NoEntryLost
<1>2. ASSUME NEW s \in Sessions, UnlockRequest(s) PROVE PromptInv'
  <2>1. /\ pc[s] = "unlocking" /\ pc' = [pc EXCEPT ![s] = "done"]
        /\ unlock(UserOf[s], timerState)
        /\ UNCHANGED <<dataVars, disturbed>>
    BY <1>2 DEF UnlockRequest, Goto
  <2>2. \A t \in Sessions : timerState'[t] = "fired" => timerState[t] = "fired"
    BY <2>1 DEF unlock, MutexInv, TypeOK
  <2>3. \A t \in Sessions :
           InSession(t) /\ UserOf[t] = UserOf[s] /\ UserOf[s] \notin disturbed => t = s
    BY <2>1 DEF InSession
  <2>4. \A t \in Sessions : UserOf[t] # UserOf[s] => timer'[UserOf[t]] = timer[UserOf[t]]
    BY <2>1 DEF unlock, MutexInv, TypeOK
  <2>5. \A t \in Sessions : InSession(t)' => t # s /\ InSession(t)
    BY <2>1 DEF InSession, MutexInv, TypeOK
  <2>6. TimerNamesSession'
    BY <2>1, <2>3, <2>4, <2>5
  <2>7. BaseIsCurrent'
    BY <2>1 DEF dataVars, MutexInv, TypeOK
  <2> QED
    BY <2>1, <2>2, <2>6, <2>7 DEF dataVars, NoEntryLost
<1>3. ASSUME NEW s \in Sessions, TimerUnlocks(s) PROVE PromptInv'
  <2>1. /\ timerState[s] = "fired" /\ UserOf[s] \in disturbed
        /\ unlock(UserOf[s], [timerState EXCEPT ![s] = "ran"])
        /\ UNCHANGED <<pc, dataVars, disturbed>>
    BY <1>3 DEF TimerUnlocks
  <2>2. \A t \in Sessions : timerState'[t] = "fired" => timerState[t] = "fired"
    BY <2>1 DEF unlock, MutexInv, TypeOK
  <2>3. \A t \in Sessions : UserOf[t] # UserOf[s] => timer'[UserOf[t]] = timer[UserOf[t]]
    BY <2>1 DEF unlock, MutexInv, TypeOK
  <2> QED
    BY <2>1, <2>2, <2>3 DEF dataVars, InSession, NoEntryLost
<1>4. ASSUME NEW s \in Sessions, SaveEnd2EndInfo(s) PROVE PromptInv'
  <2>1. /\ pc[s] = "setting" /\ pc' = [pc EXCEPT ![s] = "unlocking"]
        /\ info' = [info EXCEPT ![UserOf[s]] = base[s] \cup {s}]
        /\ saved' = saved \cup {s}
        /\ UNCHANGED <<mutexVars, base, disturbed>>
    BY <1>4 DEF SaveEnd2EndInfo, Goto
  <2>2. UserOf[s] \notin disturbed => info'[UserOf[s]] = info[UserOf[s]] \cup {s}
    BY <2>1 DEF MutexInv, TypeOK
  <2>3. NoEntryLost'
    BY <2>1, <2>2 DEF NoEntryLost, MutexInv, TypeOK
  <2>4. \A t \in Sessions : InSession(t)' => InSession(t)
    BY <2>1 DEF InSession, MutexInv, TypeOK
  <2>5. BaseIsCurrent'
    <3>1. ASSUME NEW t \in Sessions, pc'[t] \in {"got", "setting"},
                 UserOf[t] \notin disturbed
          PROVE  t # s /\ UserOf[t] # UserOf[s] /\ base[t] = info[UserOf[t]]
      BY <2>1, <3>1 DEF InSession, MutexInv, TypeOK
    <3> QED
      BY <2>1, <3>1 DEF MutexInv, TypeOK
  <2> QED
    BY <2>1, <2>3, <2>4, <2>5 DEF mutexVars
<1>5. ASSUME NEW s \in Sessions, Client(s), ~UnlockRequest(s), ~SaveEnd2EndInfo(s),
             ~LockRequestFails(s)
      PROVE  PromptInv'
  <2>1. UNCHANGED <<mutexVars, info, saved, disturbed>>
    BY <1>5 DEF Client, LockRequest, LockAnswerLost, GetChecked, GetRejected,
         GetEnd2EndInfo, SetChecked, SetRejected, dataVars
  <2>2. \A t \in Sessions : InSession(t)' => InSession(t)
    BY <1>5 DEF Client, LockRequest, LockAnswerLost, GetChecked, GetRejected,
         GetEnd2EndInfo, SetChecked, SetRejected, Goto, InSession, MutexInv, TypeOK
  <2>3. \A t \in Sessions :
           pc'[t] \in {"got", "setting"} /\ UserOf[t] \notin disturbed
               => base'[t] = info[UserOf[t]]
    BY <1>5 DEF Client, LockRequest, LockAnswerLost, GetChecked, GetRejected,
         GetEnd2EndInfo, SetChecked, SetRejected, Goto, dataVars, MutexInv, TypeOK
  <2> QED
    BY <2>1, <2>2, <2>3 DEF mutexVars, NoEntryLost
<1>6. ASSUME NEW s \in Sessions, LockRequestFails(s) PROVE PromptInv'
  <2>1. \A t \in Sessions \ {s} : pc'[t] = pc[t] /\ timerState'[t] = timerState[t]
    BY <1>6 DEF LockRequestFails, Goto, mutexVars, MutexInv, TypeOK
  <2> QED
    BY <1>6, <2>1, DisturbingStep DEF LockRequestFails, mutexVars
<1>7. ASSUME NEW s \in Sessions, MutexLock(s) PROVE PromptInv'
  BY <1>7 DEF MutexLock, Goto, dataVars, InSession, NoEntryLost, MutexInv, TypeOK
<1>8. ASSUME NEW s \in Sessions, SetLocked(s) PROVE PromptInv'
  <2>1. /\ pc[s] = "locking" /\ pc' = [pc EXCEPT ![s] = "locked"]
        /\ timer' = [timer EXCEPT ![UserOf[s]] = s]
        /\ timerState' = [timerState EXCEPT ![s] = "armed"]
        /\ UNCHANGED <<dataVars, disturbed>>
    BY <1>8 DEF SetLocked, Goto
  <2>2. timer[UserOf[s]] = NoTimer
    BY <2>1 DEF MutexInv, Locking, TimerOfLock, TypeOK
  <2>3. \A t \in Sessions :
           InSession(t) /\ UserOf[t] \notin disturbed => UserOf[t] # UserOf[s]
    BY <2>2
  <2>4. \A t \in Sessions : InSession(t)' => t = s \/ InSession(t)
    BY <2>1 DEF InSession, MutexInv, TypeOK
  <2>5. TimerNamesSession'
    BY <2>1, <2>3, <2>4 DEF MutexInv, TypeOK
  <2> QED
    BY <2>1, <2>5 DEF dataVars, NoEntryLost, MutexInv, TypeOK
<1>9. ASSUME NEW s \in Sessions, TimerFires(s) PROVE PromptInv'
  <2>1. \A t \in Sessions \ {s} : pc'[t] = pc[t] /\ timerState'[t] = timerState[t]
    BY <1>9 DEF TimerFires, MutexInv, TypeOK
  <2> QED
    BY <1>9, <2>1, DisturbingStep DEF TimerFires, dataVars
<1> QED
  BY <1>1, <1>2, <1>3, <1>4, <1>5, <1>6, <1>7, <1>8, <1>9 DEF Next

(* The clients of a user never overlap between lock and unlock, up to the   *)
(* first one that keeps the lock for 30 seconds or unlocks without a lock.  *)
THEOREM PromptClientsExclusive == Spec => []SessionsExclusive
<1>1. MutexInv /\ PromptInv => SessionsExclusive
  BY DEF PromptInv, TimerNamesSession, SessionsExclusive
<1> QED
  BY <1>1, MutexInvInit, MutexInvNext, PromptInvInit, PromptInvNext, PTL DEF Spec

(* Under the same condition no saved entry is overwritten by an older       *)
(* version of the information.                                              *)
THEOREM PromptEntriesKept == Spec => []NoEntryLost
<1>1. PromptInv => NoEntryLost
  BY DEF PromptInv
<1> QED
  BY <1>1, MutexInvInit, MutexInvNext, PromptInvInit, PromptInvNext, PTL DEF Spec

LEMMA OwnReleaseStep ==
    ASSUME MutexInv, PromptInv, [Next]_vars, NEW s \in Sessions,
           timer[UserOf[s]] = s, timer'[UserOf[s]] # s, UserOf[s] \notin disturbed'
    PROVE  pc[s] = "unlocking" /\ pc'[s] = "done"
<1> USE SessionsAssumption DEF MutexInv, TypeOK
<1>1. CASE UNCHANGED vars
  BY <1>1 DEF vars, mutexVars
<1>2. ASSUME NEW t \in Sessions, UnlockRequest(t)
      PROVE  pc[s] = "unlocking" /\ pc'[s] = "done"
  <2>1. UserOf[t] = UserOf[s]
    BY <1>2 DEF UnlockRequest, unlock
  <2>2. pc[t] = "unlocking" /\ pc'[t] = "done" /\ UNCHANGED disturbed
    BY <1>2 DEF UnlockRequest, Goto
  <2>3. timer[UserOf[t]] = t
    BY <2>1, <2>2 DEF PromptInv, TimerNamesSession, InSession
  <2> QED
    BY <2>1, <2>2, <2>3
<1>3. ASSUME NEW t \in Sessions, TimerUnlocks(t) PROVE FALSE
  <2>1. UserOf[t] \in disturbed /\ UNCHANGED disturbed
    BY <1>3 DEF TimerUnlocks, PromptInv, NoTimerFired
  <2>2. UserOf[t] # UserOf[s]
    BY <2>1
  <2> QED
    BY <1>3, <2>2 DEF TimerUnlocks, unlock
<1>4. ASSUME NEW t \in Sessions, SetLocked(t) PROVE FALSE
  <2>1. timer[UserOf[t]] = NoTimer
    BY <1>4 DEF SetLocked, Goto, Locking, TimerOfLock
  <2> QED
    BY <1>4, <2>1 DEF SetLocked
<1>5. ASSUME NEW t \in Sessions,
             (Client(t) /\ ~UnlockRequest(t)) \/ MutexLock(t) \/ TimerFires(t)
      PROVE  UNCHANGED timer
  BY <1>5 DEF Client, LockRequest, LockRequestFails, LockAnswerLost,
         GetChecked, GetRejected,
       GetEnd2EndInfo, SetChecked, SetRejected, SaveEnd2EndInfo, MutexLock,
       TimerFires, mutexVars
<1> QED
  BY <1>1, <1>2, <1>3, <1>4, <1>5 DEF Next

(* Up to the first disturbance the lock of a session is released by its own *)
(* unlock request only.                                                     *)
THEOREM PromptOwnRelease == Spec => OnlyOwnRelease
<1>1. MutexInv /\ PromptInv /\ [Next]_vars =>
        [\A s \in Sessions :
            timer[UserOf[s]] = s /\ timer'[UserOf[s]] # s
                => \/ pc[s] = "unlocking" /\ pc'[s] = "done"
                   \/ UserOf[s] \in disturbed']_vars
  BY OwnReleaseStep
<1> QED
  BY <1>1, MutexInvInit, MutexInvNext, PromptInvInit, PromptInvNext, PTL
     DEF Spec, OnlyOwnRelease
=============================================================================
