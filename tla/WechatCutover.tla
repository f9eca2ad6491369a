---------------------------- MODULE WechatCutover ----------------------------
(***************************************************************************)
(* Replacing and removing the WeChat connection of the relay server        *)
(* (apps/server/src/wechat/login): QR logins, the blue/green cutover of a  *)
(* confirmed login, the disconnect, and the running monitor that saves its *)
(* session into the same encrypted file.                                   *)
(*                                                                         *)
(* Three asynchronous mutexes order them, each granted in the order of the *)
(* requests: the cutover mutex of BlueGreenCoordinator, the staging gate   *)
(* of RuntimeBackend and the write lock of the secret store, which a       *)
(* staged secret keeps until it is committed or discarded.  A mutex maps   *)
(* each party that has it or asked for it to those that asked before; who  *)
(* has nobody before it holds the mutex.  A credential is named after the  *)
(* login it came from.                                                     *)
(***************************************************************************)
EXTENDS Integers, FiniteSets

CONSTANTS
    Logins,         \* login ids
    Original,       \* the credential the server started with
    NoCred,         \* no credential
    MaxDisconnects  \* bound on the number of disconnects

VARIABLES
    session,    \* LoginSession.state with awaiting_cutover, cutover_committing
    candidate,  \* LoginSessions.candidate_id
    task,       \* where the worker of each login stands (run_login, cutover)
    outcome,    \* the CutoverOutcome it will report
    cutover,    \* the cutover mutex
    gate,       \* the staging gate
    lock,       \* the write lock of the store
    staged,     \* RuntimeBackend.staged
    file,       \* the encrypted file
    runtime,    \* RuntimeConnection: credential and status
    monitor,    \* the monitor: credential in SharedState, worker, its token
    late,       \* renames and removals still running whose caller was dropped
    disc,       \* where the disconnect stands
    disconnects,\* how many were requested
    truth,      \* what the last promotion or removal left on disk (history)
    stray,      \* since then a late write has landed (history)
    torn        \* since then a disconnect was cut off half-way (history)

loginVars == <<session, candidate, task, outcome>>
mutexes == <<cutover, gate, lock>>
history == <<truth, stray, torn>>
cutoverVars == <<loginVars, mutexes, staged, file, runtime, monitor, late,
                 disc, disconnects, history>>

(* Besides the logins, the disconnect and the monitor ask for mutexes.     *)
D == "disconnect"
M == "monitor"

ASSUME CutoverAssumption ==
    /\ Original # NoCred
    /\ {Original, NoCred, D, M} \cap Logins = {}
    /\ MaxDisconnects \in Nat

Creds == Logins \cup {Original, NoCred}

Ended == {"confirmed", "failed", "cancelled", "expired"}
LoginStates == {"none", "open", "awaiting", "committing"} \cup Ended
TaskStates == {"none", "login", "gate", "write", "cutover", "join", "promote",
               "start", "resume", "finish", "done"}

(* The mutexes: nobody at it, p asks for q, p holds q, the parties P leave *)
(* it (by an unlock or because the future that waited was dropped).        *)
Unused == [p \in {} |-> {}]
Ask(q, p) == [x \in DOMAIN q \cup {p} |-> IF x = p THEN DOMAIN q ELSE q[x]]
Holds(q, p) == p \in DOMAIN q /\ q[p] = {}
Without(q, P) == [x \in DOMAIN q \ P |-> q[x] \ P]

Release(l) == IF candidate = l THEN NoCred ELSE candidate

At(l, pc) == task' = [task EXCEPT ![l] = pc]

-----------------------------------------------------------------------------
(* LoginManager: one candidate at a time.                                  *)

StartLogin(l) ==
    /\ session[l] = "none"
    /\ candidate = NoCred
    /\ session' = [session EXCEPT ![l] = "open"]
    /\ candidate' = l
    /\ At(l, "login")
    /\ UNCHANGED <<outcome, mutexes, staged, file, runtime, monitor, late,
                   disc, disconnects, history>>

(* The provider confirms the scan: the worker asks for the staging gate.   *)
Confirm(l) ==
    /\ task[l] = "login"
    /\ session[l] = "open"
    /\ session' = [session EXCEPT ![l] = "awaiting"]
    /\ At(l, "gate")
    /\ gate' = Ask(gate, l)
    /\ UNCHANGED <<candidate, outcome, cutover, lock, staged, file, runtime,
                   monitor, late, disc, disconnects, history>>

(* Mutant: a login that is being committed can still be cancelled.         *)
EndableAlways(l) == session[l] \in {"open", "awaiting", "committing"}

Endable(l) == session[l] \in {"open", "awaiting"}

(* The owner cancels, the deadline passes, or the provider fails (only     *)
(* before the confirmation).                                               *)
EndLogin(l, s) ==
    /\ Endable(l)
    /\ s = "failed" => session[l] = "open"
    /\ session' = [session EXCEPT ![l] = s]
    /\ candidate' = Release(l)
    /\ UNCHANGED <<task, outcome, mutexes, staged, file, runtime, monitor,
                   late, disc, disconnects, history>>

(* A worker that still polls the provider sees its token cancelled.        *)
LeaveLogin(l) ==
    /\ task[l] = "login"
    /\ session[l] \in Ended
    /\ At(l, "done")
    /\ UNCHANGED <<session, candidate, outcome, mutexes, staged, file,
                   runtime, monitor, late, disc, disconnects, history>>

-----------------------------------------------------------------------------
(* BlueGreenCoordinator::cutover, for the worker of login l.               *)

(* stage_candidate has the gate and asks the store for its write lock.     *)
StageBegins(l) ==
    /\ task[l] = "gate"
    /\ Holds(gate, l)
    /\ lock' = Ask(lock, l)
    /\ At(l, "write")
    /\ UNCHANGED <<session, candidate, outcome, cutover, gate, staged, file,
                   runtime, monitor, late, disc, disconnects, history>>

(* Mutant: the write lock ends with the write.                             *)
AfterStageUnlocked(l) == Without(lock, {l})

(* The staged secret keeps the write lock.                                 *)
AfterStage(l) == lock

(* The candidate is encrypted and synced, and its login asks for the       *)
(* cutover mutex.                                                          *)
StageDone(l) ==
    /\ task[l] = "write"
    /\ Holds(lock, l)
    /\ staged' = staged \cup {l}
    /\ lock' = AfterStage(l)
    /\ gate' = Without(gate, {l})
    /\ cutover' = Ask(cutover, l)
    /\ At(l, "cutover")
    /\ UNCHANGED <<session, candidate, outcome, file, runtime, monitor,
                   late, disc, disconnects, history>>

StageFails(l) ==
    /\ task[l] = "write"
    /\ Holds(lock, l)
    /\ gate' = Without(gate, {l})
    /\ lock' = Without(lock, {l})
    /\ outcome' = [outcome EXCEPT ![l] = "rejected"]
    /\ At(l, "finish")
    /\ UNCHANGED <<session, candidate, cutover, staged, file, runtime, monitor,
                   late, disc, disconnects, history>>

(* discard_staged and its lock; a disconnect may have drained it before.   *)
Discard(l) ==
    /\ staged' = staged \ {l}
    /\ lock' = Without(lock, {l})

(* Under the mutex: the login was cancelled, its authorization lapsed, or  *)
(* it is not the candidate any more.                                       *)
TurnedAway(l) ==
    /\ task[l] = "cutover"
    /\ Holds(cutover, l)
    /\ Discard(l)
    /\ cutover' = Without(cutover, {l})
    /\ outcome' = [outcome EXCEPT ![l] = IF session[l] \in Ended
                                           THEN "cancelled" ELSE "rejected"]
    /\ At(l, "finish")
    /\ UNCHANGED <<session, candidate, gate, file, runtime, monitor, late,
                   disc, disconnects, history>>

(* begin_cutover: from here the login can no longer be cancelled; the old  *)
(* monitor is told to stop.                                                *)
BeginCutover(l) ==
    /\ task[l] = "cutover"
    /\ Holds(cutover, l)
    /\ session[l] = "awaiting"
    /\ candidate = l
    /\ session' = [session EXCEPT ![l] = "committing"]
    /\ monitor' = [monitor EXCEPT !.cancelled = TRUE]
    /\ At(l, "join")
    /\ UNCHANGED <<candidate, outcome, mutexes, staged, file, runtime,
                   late, disc, disconnects, history>>

(* The monitor was joined; validate_before_promote.                        *)
Joined(l) ==
    /\ task[l] = "join"
    /\ monitor.worker = "off"
    /\ session[l] = "committing" /\ candidate = l
    /\ At(l, "promote")
    /\ UNCHANGED <<session, candidate, outcome, mutexes, staged, file,
                   runtime, monitor, late, disc, disconnects, history>>

(* The join failed, the authorization lapsed, or the rename failed.        *)
CutoverFails(l) ==
    /\ \/ task[l] = "join" /\ monitor.worker = "off"
       \/ task[l] = "promote"
    /\ Discard(l)
    /\ outcome' = [outcome EXCEPT ![l] = "rejected"]
    /\ At(l, "resume")
    /\ UNCHANGED <<session, candidate, cutover, gate, file, runtime, monitor,
                   late, disc, disconnects, history>>

(* promote_staged: the rename, also when its durability is uncertain.      *)
Promote(l) ==
    /\ task[l] = "promote"
    /\ l \in staged
    /\ file' = l
    /\ truth' = l /\ stray' = FALSE /\ torn' = FALSE
    /\ runtime' = [cred |-> l, status |-> "connected"]
    /\ Discard(l)
    /\ At(l, "start")
    /\ UNCHANGED <<session, candidate, outcome, cutover, gate, monitor,
                   late, disc, disconnects>>

Running(cred) == [cred |-> cred, worker |-> "polling", cancelled |-> FALSE]

(* start_promoted.  replace_bundle reports an error only for an invalid    *)
(* bundle or for a worker that cannot be joined, and there is none here.   *)
StartPromoted(l) ==
    /\ task[l] = "start"
    /\ monitor' = Running(runtime.cred)
    /\ outcome' = [outcome EXCEPT ![l] = "activated"]
    /\ cutover' = Without(cutover, {l})
    /\ At(l, "finish")
    /\ UNCHANGED <<session, candidate, gate, lock, staged, file, runtime,
                   late, disc, disconnects, history>>

(* Mutant: what is resumed is the credential that was to be promoted.      *)
ResumableNew(l) == l

(* The monitor's own copy, which has the newest session, before the one of *)
(* the runtime.                                                            *)
Resumable(l) == IF monitor.cred # NoCred THEN monitor.cred ELSE runtime.cred

(* resume_active_after_failed_cutover.                                     *)
Resume(l) ==
    /\ task[l] = "resume"
    /\ runtime' = [runtime EXCEPT !.status = IF runtime.cred # NoCred
                                               THEN "connected"
                                               ELSE "disconnected"]
    /\ monitor' = IF Resumable(l) # NoCred THEN Running(Resumable(l))
                                          ELSE monitor
    /\ cutover' = Without(cutover, {l})
    /\ At(l, "finish")
    /\ UNCHANGED <<session, candidate, outcome, gate, lock, staged, file,
                   late, disc, disconnects, history>>

(* finish_cutover, after the mutex was released.                           *)
FinishCutover(l) ==
    /\ task[l] = "finish"
    /\ IF session[l] \in {"awaiting", "committing"}
         THEN /\ session' = [session EXCEPT ![l] =
                               IF outcome[l] = "activated" THEN "confirmed"
                                                           ELSE "failed"]
              /\ candidate' = Release(l)
         ELSE UNCHANGED <<session, candidate>>
    /\ At(l, "done")
    /\ UNCHANGED <<outcome, mutexes, staged, file, runtime, monitor, late,
                   disc, disconnects, history>>

-----------------------------------------------------------------------------
(* The monitor saves its session: store.save is stage and commit.          *)

SaveBegins ==
    /\ monitor.worker = "polling"
    /\ ~monitor.cancelled
    /\ monitor' = [monitor EXCEPT !.worker = "saving"]
    /\ lock' = Ask(lock, M)
    /\ UNCHANGED <<loginVars, cutover, gate, staged, file, runtime, late,
                   disc, disconnects, history>>

(* The rename is handed to the pool of blocking threads.                   *)
RenameBegins ==
    /\ monitor.worker = "saving"
    /\ Holds(lock, M)
    /\ monitor' = [monitor EXCEPT !.worker = "renaming"]
    /\ UNCHANGED <<loginVars, mutexes, staged, file, runtime, late, disc,
                   disconnects, history>>

RenameDone ==
    /\ monitor.worker = "renaming"
    /\ file' = monitor.cred
    /\ monitor' = [monitor EXCEPT !.worker = "polling"]
    /\ lock' = Without(lock, {M})
    /\ UNCHANGED <<loginVars, cutover, gate, staged, runtime, late, disc,
                   disconnects, history>>

(* Mutant: a dropped save keeps its place at the write lock.               *)
AfterDropKept == lock

(* Dropping the future of a save gives up its place at the write lock.     *)
AfterDrop == Without(lock, {M})

(* What the pool of blocking threads is still to write.  A rename that has *)
(* begun is not undone when its save is dropped.                           *)
Started(c) == [late EXCEPT ![c] = @ + 1]
LeftBehind == IF monitor.worker = "renaming" THEN Started(monitor.cred)
                                             ELSE late

(* A cancelled worker drops the save it awaits and ends.                   *)
MonitorStops ==
    /\ monitor.worker # "off"
    /\ monitor.cancelled
    /\ monitor' = [monitor EXCEPT !.worker = "off"]
    /\ lock' = AfterDrop
    /\ late' = LeftBehind
    /\ UNCHANGED <<loginVars, cutover, gate, staged, file, runtime, disc,
                   disconnects, history>>

(* A rename, or a removal (NoCred), that nobody waits for takes effect.    *)
LateWrite(c) ==
    /\ late[c] > 0
    /\ file' = c
    /\ late' = [late EXCEPT ![c] = @ - 1]
    /\ stray' = TRUE
    /\ UNCHANGED <<loginVars, mutexes, staged, runtime, monitor, disc,
                   disconnects, truth, torn>>

-----------------------------------------------------------------------------
(* WechatLoginService::disconnect, called by a route handler.              *)

RequestDisconnect ==
    /\ disc = "idle"
    /\ disconnects < MaxDisconnects
    /\ disconnects' = disconnects + 1
    /\ cutover' = Ask(cutover, D)
    /\ disc' = "cutover"
    /\ UNCHANGED <<loginVars, gate, lock, staged, file, runtime, monitor, late,
                   history>>

(* Other tasks run between the two requests: a mutex is handed to the next *)
(* in its queue before that task is polled, and the threads are several.   *)
AskGate ==
    /\ disc = "cutover"
    /\ Holds(cutover, D)
    /\ gate' = Ask(gate, D)
    /\ disc' = "gate"
    /\ UNCHANGED <<loginVars, cutover, lock, staged, file, runtime, monitor,
                   late, disconnects, history>>

(* Mutant: the secrets that wait for the cutover mutex are not drained.    *)
DrainedNone == {}

Drained == staged

(* Under both locks: the candidate is cancelled and staged secrets are     *)
(* discarded.                                                              *)
Drain ==
    /\ disc = "gate"
    /\ Holds(gate, D)
    /\ session' = IF candidate # NoCred /\ session[candidate] \notin Ended
                    THEN [session EXCEPT ![candidate] = "cancelled"]
                    ELSE session
    /\ candidate' = NoCred
    /\ staged' = staged \ Drained
    /\ lock' = Without(lock, Drained)
    /\ disc' = "stop"
    /\ UNCHANGED <<task, outcome, cutover, gate, file, runtime, monitor, late,
                   disconnects, history>>

(* stop_and_clear tells the worker to stop and joins it.                   *)
TellMonitor ==
    /\ disc = "stop"
    /\ monitor' = [monitor EXCEPT !.cancelled = TRUE]
    /\ disc' = "join"
    /\ UNCHANGED <<loginVars, mutexes, staged, file, runtime, late,
                   disconnects, history>>

(* The worker has ended: its bundle is dropped, and store.clear asks for   *)
(* the write lock.                                                         *)
AskClear ==
    /\ disc = "join"
    /\ monitor.worker = "off"
    /\ monitor' = [cred |-> NoCred, worker |-> "off", cancelled |-> FALSE]
    /\ lock' = Ask(lock, D)
    /\ disc' = "clear"
    /\ UNCHANGED <<loginVars, cutover, gate, staged, file, runtime, late,
                   disconnects, history>>

(* The removal is handed to the pool of blocking threads.                  *)
RemoveBegins ==
    /\ disc = "clear"
    /\ Holds(lock, D)
    /\ disc' = "removing"
    /\ UNCHANGED <<loginVars, mutexes, staged, file, runtime, monitor, late,
                   disconnects, history>>

(* The file is gone; its directory is still to be synced.                  *)
Removed ==
    /\ disc = "removing"
    /\ file' = NoCred
    /\ truth' = NoCred /\ stray' = FALSE /\ torn' = FALSE
    /\ disc' = "removed"
    /\ UNCHANGED <<loginVars, mutexes, staged, runtime, monitor, late,
                   disconnects>>

(* runtime.disconnect, after which the guards are dropped.                 *)
EndDisconnect(status) ==
    /\ runtime' = [cred |-> NoCred, status |-> status]
    /\ lock' = Without(lock, {D})
    /\ gate' = Without(gate, {D})
    /\ cutover' = Without(cutover, {D})
    /\ disc' = "idle"
    /\ UNCHANGED <<loginVars, staged, file, monitor, late, disconnects,
                   history>>

ClearDone == disc = "removed" /\ EndDisconnect("disconnected")

(* The file could not be removed, or the directory not synced: a           *)
(* fail-closed status.                                                     *)
ClearFails == disc \in {"removing", "removed"} /\ EndDisconnect("unreadable")

(* The route's time is up (TimeoutLayer): the handler is dropped where it  *)
(* waits, with the guards it holds and its places in the queues.  Nobody   *)
(* joins the worker it had told to stop any more; the last step of that    *)
(* worker, which waits for nothing and only lets go, is taken here.  A     *)
(* removal that has begun is not undone.                                   *)
RouteTimeout ==
    /\ disc # "idle"
    /\ disc' = "idle"
    /\ cutover' = Without(cutover, {D})
    /\ gate' = Without(gate, {D})
    /\ IF disc = "join"
         THEN /\ monitor' = [monitor EXCEPT !.worker = "off"]
              /\ lock' = Without(lock, {D, M})
              /\ late' = LeftBehind
         ELSE /\ lock' = Without(lock, {D})
              /\ late' = IF disc = "removing" THEN Started(NoCred) ELSE late
              /\ UNCHANGED monitor
    /\ torn' = (torn \/ disc \in {"clear", "removing", "removed"})
    /\ UNCHANGED <<loginVars, staged, file, runtime, disconnects, truth,
                   stray>>

-----------------------------------------------------------------------------
CutoverInit ==
    /\ session = [l \in Logins |-> "none"]
    /\ candidate = NoCred
    /\ task = [l \in Logins |-> "none"]
    /\ outcome = [l \in Logins |-> "none"]
    /\ cutover = Unused /\ gate = Unused /\ lock = Unused
    /\ staged = {}
    /\ file = Original
    /\ runtime = [cred |-> Original, status |-> "connected"]
    /\ monitor = Running(Original)
    /\ late = [c \in Creds |-> 0]
    /\ disc = "idle"
    /\ disconnects = 0
    /\ truth = Original /\ stray = FALSE /\ torn = FALSE

(* What the worker of a login does by itself.                              *)
TaskStep(l) ==
    \/ LeaveLogin(l) \/ StageBegins(l) \/ StageDone(l) \/ StageFails(l)
    \/ TurnedAway(l) \/ BeginCutover(l) \/ Joined(l) \/ CutoverFails(l)
    \/ Promote(l) \/ StartPromoted(l) \/ Resume(l) \/ FinishCutover(l)

SaveStep ==
    \/ SaveBegins \/ RenameBegins \/ RenameDone \/ MonitorStops

DisconnectStep ==
    \/ AskGate \/ Drain \/ TellMonitor \/ AskClear
    \/ RemoveBegins \/ Removed \/ ClearDone \/ ClearFails

CutoverNext ==
    \/ \E l \in Logins : StartLogin(l)
    \/ \E l \in Logins : Confirm(l)
    \/ \E l \in Logins, s \in {"cancelled", "expired", "failed"} :
          EndLogin(l, s)
    \/ \E l \in Logins : TaskStep(l)
    \/ SaveStep
    \/ \E c \in Creds : LateWrite(c)
    \/ RequestDisconnect
    \/ DisconnectStep
    \/ RouteTimeout

CutoverSpec == CutoverInit /\ [][CutoverNext]_cutoverVars

(* The tasks run on, the timer of the route fires, and a login that is not *)
(* finished expires.                                                       *)
CutoverFairSpec ==
    /\ CutoverSpec
    /\ \A l \in Logins : /\ WF_cutoverVars(TaskStep(l))
                         /\ WF_cutoverVars(EndLogin(l, "expired"))
    /\ WF_cutoverVars(RenameBegins \/ RenameDone)
    /\ WF_cutoverVars(MonitorStops)
    /\ WF_cutoverVars(DisconnectStep)
    /\ WF_cutoverVars(RouteTimeout)

-----------------------------------------------------------------------------
(* Properties.                                                             *)

Parties == Logins \cup {D, M}

(* A mutex orders finitely many parties, by when they asked for it.        *)
IsMutex(q) ==
    /\ q \in [DOMAIN q -> SUBSET (DOMAIN q)]
    /\ DOMAIN q \subseteq Parties /\ IsFiniteSet(DOMAIN q)
    /\ \A x, y \in DOMAIN q : x \in q[y] <=> x # y /\ y \notin q[x]
    /\ \A x \in DOMAIN q : \A y \in q[x] : q[y] \subseteq q[x]

(* Types; and each mutex is granted in the order of the requests.          *)
CutoverTypeOK ==
    /\ session \in [Logins -> LoginStates]
    /\ candidate \in Logins \cup {NoCred}
    /\ task \in [Logins -> TaskStates]
    /\ outcome \in [Logins -> {"none", "rejected", "cancelled", "activated"}]
    /\ IsMutex(cutover) /\ IsMutex(gate) /\ IsMutex(lock)
    /\ staged \in SUBSET Logins
    /\ file \in Creds /\ late \in [Creds -> Nat]
    /\ truth \in Creds /\ stray \in BOOLEAN /\ torn \in BOOLEAN
    /\ runtime \in [cred: Creds,
                    status: {"connected", "disconnected", "unreadable"}]
    /\ monitor \in [cred: Creds, cancelled: BOOLEAN,
                    worker: {"off", "polling", "saving", "renaming"}]
    /\ disc \in {"idle", "cutover", "gate", "stop", "join", "clear",
                 "removing", "removed"}
    /\ disconnects \in 0..MaxDisconnects

(* The file holds what the last promotion or removal left there, unless a  *)
(* write that nobody waited for has landed since, or a disconnect was cut  *)
(* off half-way.  Only disconnects leave such writes behind: logins alone, *)
(* however they end, never put the file at odds, because a staged secret   *)
(* keeps the write lock while the old monitor is joined.                   *)
DiskFollows ==
    /\ stray \/ torn \/ file = truth
    /\ disconnects = 0 => file = truth

(* There is one connection.  A monitor that runs and was not told to stop  *)
(* runs with the credential last promoted ("Never restore the old          *)
(* credential after promotion"), and between operations the runtime and    *)
(* the monitor agree on it, whichever step of a cutover or of a disconnect *)
(* failed.  A disconnect that the route's timeout cut off after it had     *)
(* emptied the monitor is excepted, until the next promotion or removal;   *)
(* even then the monitor runs with nothing older than what was removed.    *)
OneConnection ==
    /\ monitor.worker # "off" /\ ~monitor.cancelled =>
           monitor.cred = truth \/ (torn /\ truth = NoCred)
    /\ DOMAIN cutover = {} /\ ~torn =>
           /\ monitor.cred = runtime.cred
           /\ runtime.status = "connected" => runtime.cred = truth

(* Only the current candidate is promoted, and only while its session is   *)
(* alive: no login that was cancelled, expired or overtaken by a           *)
(* disconnect, also by one that was cut off, replaces the connection.      *)
OnlyLivePromotes ==
    [][\A l \in Logins : truth' = l /\ truth # l =>
         session[l] = "committing" /\ candidate = l]_cutoverVars

(* Three parties waiting for each other: disconnect has the cutover mutex  *)
(* and waits for the gate, a stage writer has the gate and waits for the   *)
(* write lock, and a staged login has the lock and waits for the mutex.    *)
Circle ==
    /\ Holds(cutover, D) /\ disc = "gate"
    /\ \E l, k \in Logins :
          /\ Holds(gate, l) /\ task[l] = "write"
          /\ Holds(lock, k) /\ task[k] = "cutover"

(* Each of S waits for a mutex that only one of S can release.             *)
Stuck(S) ==
    \A p \in S : \E q \in {cutover, gate, lock} :
        /\ p \in DOMAIN q /\ ~Holds(q, p)
        /\ \A h \in Parties : Holds(q, h) => h \in S

(* No tasks wait for each other, and none for a mutex that nobody has and  *)
(* nobody will get, unless those three meet: the staging gate is released  *)
(* before the cutover mutex is asked for, and a disconnect drains the      *)
(* staged secrets before it asks for their lock.                           *)
OnlyCircleBlocks == \A S \in SUBSET Parties : S # {} /\ Stuck(S) => Circle

(* Every login and every disconnect comes to an end, through every failure *)
(* of a step and every order of the mutexes: those three do not wait for   *)
(* each other for good, because the route's timeout lets the disconnect go,*)
(* and no dropped save blocks anybody.                                     *)
EveryoneFinishes ==
    /\ \A l \in Logins : task[l] = "login" ~> task[l] = "done"
    /\ disc # "idle" ~> disc = "idle"

=============================================================================
