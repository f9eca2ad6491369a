---------------------------- MODULE DesktopDelivery ----------------------------
(***************************************************************************)
(* The desktop's notification outbox under two authorities of the user:    *)
(* the hold, a document in the database that postpones every request, and  *)
(* the capture policy, a file whose atomic replacement is the save and of  *)
(* which the database and the settings in memory are projections.  One     *)
(* worker thread claims, sends and settles rows; the ingestor and the      *)
(* finalizer insert rows from a snapshot of the settings; saving a policy  *)
(* stops the worker, commits the file, applies it and starts the worker    *)
(* again; the maintenance loop reconciles the worker with the state of the *)
(* connection and recovers a policy that was saved and not applied.        *)
(*                                                                         *)
(* Time is abstract: a hold may elapse and the clock may be set back at    *)
(* any step, and whether a row is past its expiry is decided where the     *)
(* code looks, which always settles a row that is.                         *)
(***************************************************************************)
EXTENDS Integers, FiniteSets

CONSTANTS
    Ids,            \* ids of outbox rows
    Policies,       \* the policies a user may save
    DefaultPolicy,  \* the one a fresh installation writes
    RetryLimit,     \* attempts a retry schedule allows
    MaxAttempts,    \* bound: claims of one row
    MaxRevision,    \* bound: saves
    MaxFaults,      \* bound: crashes and failing steps
    None

Classes == {"started", "ended", "attention", "test"}

ASSUME DesktopAssumption ==
    /\ Policies \subseteq [allowed: SUBSET (Classes \ {"test"}),
                           content: Nat, task_input: BOOLEAN]
    /\ DefaultPolicy \in Policies
    /\ RetryLimit \in Nat /\ MaxAttempts \in Nat /\ MaxRevision \in Nat
    /\ MaxFaults \in Nat
    /\ None \notin Ids

VARIABLES
    row,            \* notification_outbox: None, or the row
    requests,       \* history: requests started for each row
    revoked,        \* history: a committed policy has withdrawn this row
    hold,           \* where the clock stands to the hold document
    gate,           \* HoldGate.held
    file,           \* capture-policy.json
    applied,        \* desktop_privacy: the policy the database is at
    settings,       \* SettingsStore: the snapshot and its pending flag
    control,        \* RuntimeControl: paused, and who has its lock
    worker,         \* the delivery thread
    save,           \* the policy operation that has the operation lock
    ingest,         \* the event under way, with the policy it has read
    up,             \* the process runs
    faults

vars == <<row, requests, revoked, hold, gate, file, applied, settings, control,
          worker, save, ingest, up, faults>>

storage == <<row, requests, revoked, hold, gate>>
policy  == <<file, applied, settings>>

-----------------------------------------------------------------------------
Waiting  == {"pending", "retry_wait", "blocked_reconnect"}
Terminal == {"delivered", "expired", "cancelled", "dead_letter"}

PolicyStates == [revision: 0..MaxRevision, policy: Policies, generation: 0..MaxRevision]

Outcomes == {"accepted", "held", "retry", "blocked", "permanent", "cancelled", "revoked"}

NewRow(class, generation) ==
    [status |-> "pending", class |-> class, generation |-> generation,
     attempts |-> 0]

NoWorker == [pc |-> "none", row |-> None, permit |-> FALSE, cancelled |-> FALSE,
             result |-> None]
NoSave   == [pc |-> "idle", target |-> None, recovering |-> FALSE]
NoIngest == [pc |-> "idle", revision |-> 0, snapshot |-> None]

Rows == [status: Waiting \cup Terminal \cup {"sending"}, class: Classes,
         generation: 0..MaxRevision, attempts: 0..MaxAttempts]

ASSUME NoneAssumption == None \notin Rows

DesktopTypeOK ==
    /\ row \in [Ids -> {None} \cup Rows]
    /\ requests \in [Ids -> Nat]
    /\ revoked \in [Ids -> BOOLEAN]
    /\ hold \in {"none", "uncertain", "active", "elapsed"} /\ gate \in BOOLEAN
    /\ file \in PolicyStates /\ applied \in PolicyStates
    /\ settings \in [pending: BOOLEAN, state: PolicyStates]
    /\ control \in [paused: BOOLEAN, lock: {"free", "reconcile", "policy"}]
    /\ worker \in [pc: {"none", "start", "loop", "claimed", "deliver", "permitted",
                         "inflight", "done"},
                    row: Ids \cup {None}, permit: BOOLEAN, cancelled: BOOLEAN,
                    result: Outcomes \cup {None}]
    /\ save \in [pc: {"idle", "pause", "join", "begin", "commit", "apply", "replace",
                       "resume"},
                  target: Policies \cup {None}, recovering: BOOLEAN]
    /\ ingest \in [pc: {"idle", "read", "snapshot"}, revision: 0..MaxRevision,
                    snapshot: PolicyStates \cup {None}]
    /\ up \in BOOLEAN
    /\ faults \in 0..MaxFaults

Init ==
    /\ row = [n \in Ids |-> None]
    /\ requests = [n \in Ids |-> 0]
    /\ revoked = [n \in Ids |-> FALSE]
    /\ hold = "none" /\ gate = FALSE
    /\ file = [revision |-> 0, policy |-> DefaultPolicy, generation |-> 0]
    /\ applied = file
    /\ settings = [pending |-> FALSE, state |-> file]
    /\ control = [paused |-> FALSE, lock |-> "free"]
    /\ worker = NoWorker /\ save = NoSave /\ ingest = NoIngest
    /\ up = TRUE
    /\ faults = 0

Fault == faults < MaxFaults /\ faults' = faults + 1

Live(n) == row[n] # None
In(n, S) == Live(n) /\ row[n].status \in S

-----------------------------------------------------------------------------
(* The hold.  The clock is before the document's start ("uncertain"),      *)
(* within it, or past it; "none" when there is no document or it was ended *)
(* by the user.                                                            *)

Permits == hold \in {"none", "elapsed"}

\* sync_gate_state: a change of the gate's state voids the permits given out.
SyncGate(held) ==
    /\ gate' = held
    /\ worker' = IF gate # held THEN [worker EXCEPT !.permit = FALSE] ELSE worker

Others == <<file, applied, settings, control, save, ingest, up, faults>>

\* The document is written, and the gate moved, under the gate's mutex.
Hold ==
    /\ up
    /\ hold' = "active"
    /\ SyncGate(TRUE)
    /\ UNCHANGED <<row, requests, revoked, Others>>

ResumeHold ==
    /\ up
    /\ hold' = "none"
    /\ SyncGate(FALSE)
    /\ UNCHANGED <<row, requests, revoked, Others>>

\* The wall clock moves on, or is set back.
ClockMoves ==
    /\ \/ hold = "uncertain" /\ hold' = "active"
       \/ hold = "active" /\ hold' \in {"uncertain", "elapsed"}
       \/ hold = "elapsed" /\ hold' = "active"
    /\ UNCHANGED <<row, requests, revoked, gate, worker, Others>>

-----------------------------------------------------------------------------
(* The worker.                                                             *)

WorkerOnly == <<requests, revoked, hold, Others>>

Settle(n, status) == row' = [row EXCEPT ![n].status = status]

\* recover_stale_claims, once, before the loop: of the claims an earlier worker
\* left behind, those older than STALE_CLAIM_MS.
RecoverStaleClaims ==
    /\ worker.pc = "start"
    /\ \E stale \in SUBSET {n \in Ids : In(n, {"sending"})} :
          row' \in {[n \in Ids |->
                       IF n \notin stale THEN row[n]
                       ELSE [row[n] EXCEPT !.status = IF n \in late THEN "expired"
                                                      ELSE "retry_wait"]]
                    : late \in SUBSET stale}
    /\ worker' = [worker EXCEPT !.pc = "loop"]
    /\ UNCHANGED <<gate, WorkerOnly>>

Exit ==
    /\ worker.pc = "loop" /\ worker.cancelled
    /\ worker' = NoWorker
    /\ UNCHANGED <<row, gate, WorkerOnly>>

\* claim_next_for_with_hold: any row that is due; how long a retry waits is
\* abstract.
Claim(n) ==
    /\ worker.pc = "loop" /\ ~worker.cancelled
    /\ Permits
    /\ In(n, {"pending", "retry_wait"})
    /\ row[n].attempts < MaxAttempts
    /\ row' = [row EXCEPT ![n].status = "sending", ![n].attempts = @ + 1]
    /\ worker' = [worker EXCEPT !.pc = "claimed", !.row = n]
    /\ UNCHANGED <<gate, WorkerOnly>>

\* expire_due, before every claim, whether or not a hold lets it be made.
ExpireDue(n) ==
    /\ worker.pc = "loop" /\ ~worker.cancelled
    /\ In(n, Waiting)
    /\ Settle(n, "expired")
    /\ UNCHANGED <<gate, worker, WorkerOnly>>

\* The stored payload cannot be read, for now or for good.
Undecodable ==
    /\ worker.pc = "claimed"
    /\ \E status \in {"retry_wait", "dead_letter"} : Settle(worker.row, status)
    /\ worker' = [worker EXCEPT !.pc = "loop", !.row = None]
    /\ UNCHANGED <<gate, WorkerOnly>>

Concluded(result) == [worker EXCEPT !.pc = "done", !.result = result, !.permit = FALSE]

\* current_policy_fingerprint: only the ended class has a content permission in
\* its fingerprint.
PolicyAllows(state, r) ==
    \/ r.class = "test"
    \/ /\ r.class \in state.policy.allowed
       /\ r.class = "ended" => r.generation = state.generation

\* Cancelled before the transport: the gate is asked again, so that a hold that
\* has begun restores the claim.  Otherwise the policy the row was built under
\* must still be the policy of the settings.
CheckPolicy ==
    /\ worker.pc = "claimed"
    /\ \/ /\ worker.cancelled
          /\ gate' = ~Permits
          /\ worker' = Concluded(IF Permits THEN "cancelled" ELSE "held")
       \/ /\ ~worker.cancelled
          /\ UNCHANGED gate
          /\ worker' = IF /\ row[worker.row].class # "test"
                          /\ \/ settings.pending
                             \/ ~PolicyAllows(settings.state, row[worker.row])
                       THEN Concluded("revoked")
                       ELSE [worker EXCEPT !.pc = "deliver"]
    /\ UNCHANGED <<row, WorkerOnly>>

\* deliver up to the permit: no credentials, no result pages, an identity that
\* conflicts or cannot be saved; then acquire_send_permit.
AcquirePermit ==
    /\ worker.pc = "deliver"
    /\ \/ /\ worker.cancelled
          /\ worker' = Concluded(IF Permits THEN "cancelled" ELSE "held")
          /\ UNCHANGED gate
       \/ /\ ~worker.cancelled
          /\ \E result \in {"blocked", "permanent", "retry"} : worker' = Concluded(result)
          /\ UNCHANGED gate
       \/ /\ ~worker.cancelled
          /\ gate' = ~Permits
          /\ worker' = IF Permits THEN [worker EXCEPT !.pc = "permitted", !.permit = TRUE]
                       ELSE Concluded("held")
    /\ UNCHANGED <<row, WorkerOnly>>

Start == [worker EXCEPT !.pc = "inflight"]

\* As StartHttp, but the permit is taken for the hold: the document is not read
\* again.
StartOnPermit ==
    /\ worker.pc = "permitted"
    /\ \/ /\ gate \/ ~worker.permit
          /\ worker' = Concluded("held")
          /\ UNCHANGED <<gate, requests>>
       \/ /\ ~gate /\ worker.permit
          /\ worker' = IF worker.cancelled THEN Concluded("cancelled") ELSE Start
          /\ requests' = [requests EXCEPT ![worker.row] = @ + (IF worker.cancelled THEN 0 ELSE 1)]
          /\ UNCHANGED gate
    /\ UNCHANGED <<row, revoked, hold, Others>>

\* start_http: under the gate's mutex, the generation, then the document, then
\* the cancellation; only then the first poll, which is the request.
StartHttp ==
    /\ worker.pc = "permitted"
    /\ \/ /\ gate \/ ~worker.permit
          /\ worker' = Concluded("held")
          /\ UNCHANGED <<gate, requests>>
       \/ /\ ~gate /\ worker.permit /\ ~Permits
          /\ gate' = TRUE
          /\ worker' = Concluded("held")
          /\ UNCHANGED requests
       \/ /\ ~gate /\ worker.permit /\ Permits
          /\ worker' = IF worker.cancelled THEN Concluded("cancelled") ELSE Start
          /\ requests' = [requests EXCEPT ![worker.row] = @ + (IF worker.cancelled THEN 0 ELSE 1)]
          /\ UNCHANGED gate
    /\ UNCHANGED <<row, revoked, hold, Others>>

\* The answer, the client's timeout, or a cancellation that wins.
Respond ==
    /\ worker.pc = "inflight"
    /\ \/ \E result \in {"accepted", "retry", "blocked", "permanent"} :
             worker' = Concluded(result)
       \/ worker.cancelled /\ worker' = Concluded("cancelled")
    /\ UNCHANGED <<row, gate, WorkerOnly>>

\* preserve_held_when_cancelled.
Result == IF worker.cancelled /\ worker.result \notin {"accepted", "held"}
          THEN "cancelled" ELSE worker.result

\* complete_delivery, of a row that is or is not late.  An acceptance counts
\* even then; a held claim is undone together with its attempt.
Completed(r, late) ==
    LET to(status) == [r EXCEPT !.status = status] IN
    CASE Result = "accepted" -> to("delivered")
      [] Result = "held" -> [to(IF late THEN "expired" ELSE "pending")
                                EXCEPT !.attempts = @ - 1]
      [] Result \notin {"accepted", "held"} /\ late -> to("expired")
      [] Result = "retry" /\ ~late ->
             to(IF r.attempts <= RetryLimit THEN "retry_wait" ELSE "dead_letter")
      [] Result = "blocked" /\ ~late   -> to("blocked_reconnect")
      [] Result = "permanent" /\ ~late -> to("dead_letter")
      [] Result = "cancelled" /\ ~late -> to("retry_wait")
      [] Result = "revoked" /\ ~late   -> to("cancelled")

\* The statements ask only that the row be 'sending', and of a held one that its
\* claim be the same.
CompleteDelivery ==
    /\ worker.pc = "done"
    /\ worker' = [worker EXCEPT !.pc = "loop", !.row = None, !.result = None]
    /\ IF In(worker.row, {"sending"})
       THEN \E late \in BOOLEAN : row' = [row EXCEPT ![worker.row] = Completed(@, late)]
       ELSE UNCHANGED row
    /\ UNCHANGED <<gate, WorkerOnly>>

\* The database refuses the completion: reported, and the row stays 'sending'.
CompletionFails ==
    /\ worker.pc = "done"
    /\ Fault
    /\ worker' = [worker EXCEPT !.pc = "loop", !.row = None, !.result = None]
    /\ UNCHANGED <<row, requests, revoked, hold, gate, policy, control, save, ingest, up>>

-----------------------------------------------------------------------------
(* Other changes of the rows.                                              *)

RowsOnly == <<hold, gate, worker, Others>>

\* retry_blocked_for_relay.
Unblock(n) ==
    /\ up /\ In(n, {"blocked_reconnect"})
    /\ \E status \in {"expired", "retry_wait"} : Settle(n, status)
    /\ UNCHANGED <<requests, revoked, RowsOnly>>

\* The run changed: its start or completion notice is withdrawn.
Withdraw(n) ==
    /\ up /\ In(n, Waiting)
    /\ row[n].class # "test"
    /\ Settle(n, "cancelled")
    /\ UNCHANGED <<requests, revoked, RowsOnly>>

PruneRetained(n) ==
    /\ worker.pc = "loop" /\ ~worker.cancelled
    /\ In(n, Terminal)
    /\ row' = [row EXCEPT ![n] = None]
    /\ requests' = [requests EXCEPT ![n] = 0]
    /\ revoked' = [revoked EXCEPT ![n] = FALSE]
    /\ UNCHANGED RowsOnly

\* A test message, refused under a hold.
EnqueueControl(n) ==
    /\ up /\ Permits /\ ~Live(n)
    /\ row' = [row EXCEPT ![n] = NewRow("test", 0)]
    /\ UNCHANGED <<requests, revoked, RowsOnly>>

\* What a policy withdraws from a row that was allowed under an earlier one.
RevokedBy(class, old, new) ==
    \/ class # "test" /\ class \notin new.allowed
    \/ class = "ended" /\ new.content < old.content
    \/ class = "started" /\ old.task_input /\ ~new.task_input

IngestOnly == <<hold, gate, file, applied, control, worker, save, up>>

\* PolicyProcessor.process: the file first, then the projection.
ReadAuthority ==
    /\ up /\ ingest.pc = "idle"
    /\ \/ /\ ingest' = [ingest EXCEPT !.pc = "read", !.revision = file.revision]
          /\ UNCHANGED <<settings, faults>>
       \/ /\ Fault
          /\ settings' = [settings EXCEPT !.pending = TRUE]
          /\ UNCHANGED ingest
    /\ UNCHANGED <<row, requests, revoked, IngestOnly>>

CompareProjection ==
    /\ ingest.pc = "read"
    /\ \/ /\ settings.pending
          /\ ingest' = NoIngest
          /\ UNCHANGED settings
       \/ /\ ~settings.pending /\ settings.state.revision # ingest.revision
          /\ ingest' = NoIngest
          /\ settings' = [settings EXCEPT !.pending = TRUE]
       \/ /\ ~settings.pending /\ settings.state.revision = ingest.revision
          /\ ingest' = NoIngest
          /\ UNCHANGED settings
    /\ UNCHANGED <<row, requests, revoked, faults, IngestOnly>>

\* The snapshot an insertion is made from: the ingestor takes it after the
\* comparison, the finalizer without one.
Snapshot ==
    /\ up /\ ingest.pc = "idle" /\ ~settings.pending
    /\ ingest' = [NoIngest EXCEPT !.pc = "snapshot", !.snapshot = settings.state]
    /\ UNCHANGED <<row, requests, revoked, settings, faults, IngestOnly>>

\* As Insert, but the applied revision is not compared with the snapshot's.
InsertUnapplied(n) ==
    /\ ingest.pc = "snapshot" /\ ~Live(n)
    /\ \E class \in ingest.snapshot.policy.allowed :
          /\ row' = [row EXCEPT ![n] = NewRow(class, ingest.snapshot.generation)]
          /\ revoked' = [revoked EXCEPT ![n] =
                            RevokedBy(class, ingest.snapshot.policy, file.policy)]
    /\ ingest' = NoIngest
    /\ UNCHANGED <<requests, settings, faults, IngestOnly>>

\* The transaction: require_applied, then the notices of the event.
Insert(n) ==
    /\ ingest.pc = "snapshot" /\ ~Live(n)
    /\ ingest.snapshot.revision = applied.revision
    /\ \E class \in ingest.snapshot.policy.allowed :
          /\ row' = [row EXCEPT ![n] = NewRow(class, ingest.snapshot.generation)]
          /\ revoked' = [revoked EXCEPT ![n] =
                            RevokedBy(class, ingest.snapshot.policy, file.policy)]
    /\ ingest' = NoIngest
    /\ UNCHANGED <<requests, settings, faults, IngestOnly>>

\* An event without a notice, or one that is left to be tried again.
InsertNothing ==
    /\ ingest.pc = "snapshot"
    /\ ingest' = NoIngest
    /\ UNCHANGED <<row, requests, revoked, settings, faults, IngestOnly>>

-----------------------------------------------------------------------------
(* The worker's life: RuntimeControl.                                      *)

StopWorker == [worker EXCEPT !.cancelled = worker.pc # "none"]
StartWorker == IF worker.pc = "none" THEN [NoWorker EXCEPT !.pc = "start"] ELSE worker

\* reconcile, by the maintenance loop: the connection may be ready or not.
Reconcile ==
    /\ up /\ control.lock = "free" /\ ~control.paused
    /\ \/ /\ worker.pc # "none"
          /\ control' = [control EXCEPT !.lock = "reconcile"]
          /\ worker' = StopWorker
       \/ /\ ~settings.pending /\ worker.pc = "none"
          /\ worker' = StartWorker
          /\ UNCHANGED control
    /\ UNCHANGED <<storage, policy, save, ingest, up, faults>>

Reconciled ==
    /\ control.lock = "reconcile" /\ worker.pc = "none"
    /\ control' = [control EXCEPT !.lock = "free"]
    /\ UNCHANGED <<storage, policy, worker, save, ingest, up, faults>>

-----------------------------------------------------------------------------
(* Saving and recovering the policy, under the operation lock.             *)

SaveOnly == <<ingest, up>>
Goto(pc) == save' = [save EXCEPT !.pc = pc]

\* save_policy_local: a saved policy that was not applied is applied first.
BeginSave(p) ==
    /\ up /\ save.pc = "idle"
    /\ file.revision < MaxRevision
    /\ settings.pending \/ p # file.policy
    /\ save' = [pc |-> "pause", target |-> p, recovering |-> settings.pending]
    /\ UNCHANGED <<storage, policy, control, worker, SaveOnly, faults>>

\* recover_policy, by the maintenance loop.
BeginRecover ==
    /\ up /\ save.pc = "idle" /\ settings.pending
    /\ save' = [pc |-> "pause", target |-> None, recovering |-> TRUE]
    /\ UNCHANGED <<storage, policy, control, worker, SaveOnly, faults>>

\* As PauseForPolicy, but a runtime that is paused already is an error.
PauseOnce ==
    /\ save.pc = "pause" /\ control.lock = "free"
    /\ IF control.paused
       THEN save' = NoSave /\ UNCHANGED <<control, worker>>
       ELSE /\ control' = [paused |-> TRUE, lock |-> "policy"]
            /\ worker' = StopWorker
            /\ Goto("join")
    /\ UNCHANGED <<storage, policy, SaveOnly, faults>>

\* As PauseForPolicy, but without waiting for the worker.
PauseDetached ==
    /\ save.pc = "pause" /\ control.lock = "free"
    /\ control' = [control EXCEPT !.paused = TRUE]
    /\ worker' = StopWorker
    /\ Goto("begin")
    /\ UNCHANGED <<storage, policy, SaveOnly, faults>>

\* pause keeps the control lock until the worker has ended.
PauseForPolicy ==
    /\ save.pc = "pause" /\ control.lock = "free"
    /\ IF control.paused
       THEN Goto("begin") /\ UNCHANGED <<control, worker>>
       ELSE /\ control' = [paused |-> TRUE, lock |-> "policy"]
            /\ worker' = StopWorker
            /\ Goto("join")
    /\ UNCHANGED <<storage, policy, SaveOnly, faults>>

Joined ==
    /\ save.pc = "join" /\ worker.pc = "none"
    /\ control' = [control EXCEPT !.lock = "free"]
    /\ Goto("begin")
    /\ UNCHANGED <<storage, policy, worker, SaveOnly, faults>>

BeginApply ==
    /\ save.pc = "begin"
    /\ settings' = [settings EXCEPT !.pending = TRUE]
    /\ Goto(IF save.recovering THEN "apply" ELSE "commit")
    /\ UNCHANGED <<storage, file, applied, control, worker, SaveOnly, faults>>

\* The atomic replacement of the file, unless the policy or the revision the
\* user has seen is not the file's (unchanged, conflict).  It may fail, before
\* or after it has become durable; then the file is read to find out, and when
\* it cannot be read the policy stays to be applied.
Commit ==
    LET narrowed == save.target.content < file.policy.content
        next     == [revision |-> file.revision + 1, policy |-> save.target,
                     generation |-> file.generation + (IF narrowed THEN 1 ELSE 0)]
        withdraw == [n \in Ids |-> \/ revoked[n]
                                   \/ /\ Live(n)
                                      /\ RevokedBy(row[n].class, file.policy, save.target)]
        saved    == file' = next /\ revoked' = withdraw
    IN
    /\ save.pc = "commit"
    /\ \/ saved /\ Goto("apply") /\ UNCHANGED faults
       \/ UNCHANGED <<file, revoked, faults>> /\ Goto("apply")
       \/ Fault /\ saved /\ save' = NoSave
       \/ Fault /\ UNCHANGED <<file, revoked>> /\ (Goto("apply") \/ save' = NoSave)
    /\ UNCHANGED <<row, requests, hold, gate, applied, settings, control, worker, SaveOnly>>

\* The rows apply_projection cancels.
Cancelled(n) ==
    /\ In(n, Waiting \cup {"sending"})
    /\ \/ row[n].class # "test" /\ row[n].class \notin file.policy.allowed
       \/ row[n].class = "ended" /\ applied.generation < file.generation
       \/ /\ row[n].class = "started"
          /\ applied.policy.task_input /\ ~file.policy.task_input

\* apply_projection's transaction: it withdraws rows and moves the database's
\* revision; it never moves it back.
Project ==
    /\ applied.revision <= file.revision /\ applied.generation <= file.generation
    /\ row' = [n \in Ids |-> IF Cancelled(n) THEN [row[n] EXCEPT !.status = "cancelled"]
                             ELSE row[n]]
    /\ applied' = file

Apply ==
    /\ save.pc = "apply"
    /\ \/ Project /\ Goto("replace") /\ UNCHANGED faults
       \/ Fault /\ save' = NoSave /\ UNCHANGED <<row, applied>>
    /\ UNCHANGED <<requests, revoked, hold, gate, file, settings, control, worker, SaveOnly>>

Replace ==
    /\ save.pc = "replace"
    /\ settings' = [pending |-> FALSE, state |-> applied]
    /\ Goto("resume")
    /\ UNCHANGED <<storage, file, applied, control, worker, SaveOnly, faults>>

\* resume: unpaused, and the worker started when the connection is ready.  A
\* worker that cannot be started leaves the policy to be applied again.
Resume ==
    /\ save.pc = "resume" /\ control.lock = "free"
    /\ control' = [control EXCEPT !.paused = FALSE]
    /\ \/ /\ worker' \in {worker} \cup (IF settings.pending THEN {} ELSE {StartWorker})
          /\ save' = IF save.recovering /\ save.target # None
                     THEN [save EXCEPT !.pc = "pause", !.recovering = FALSE] ELSE NoSave
          /\ UNCHANGED <<settings, faults>>
       \/ /\ Fault
          /\ settings' = [settings EXCEPT !.pending = TRUE]
          /\ save' = NoSave
          /\ UNCHANGED worker
    /\ UNCHANGED <<storage, file, applied, SaveOnly>>

-----------------------------------------------------------------------------
(* The process.                                                            *)

Crash ==
    /\ up /\ Fault
    /\ up' = FALSE
    /\ gate' = FALSE
    /\ control' = [paused |-> FALSE, lock |-> "free"]
    /\ worker' = NoWorker /\ save' = NoSave /\ ingest' = NoIngest
    /\ settings' = [pending |-> TRUE, state |-> applied]
    /\ UNCHANGED <<row, requests, revoked, hold, file, applied>>

\* initialize, before any consumer or sender starts.
Initialize ==
    /\ ~up
    /\ Project
    /\ settings' = [pending |-> FALSE, state |-> file]
    /\ up' = TRUE
    /\ UNCHANGED <<requests, revoked, hold, gate, file, control, worker, save, ingest, faults>>

WorkerStep ==
    \/ RecoverStaleClaims \/ Exit \/ Undecodable \/ CheckPolicy
    \/ AcquirePermit \/ StartHttp \/ Respond \/ CompleteDelivery
    \/ \E n \in Ids : Claim(n) \/ ExpireDue(n)

SaveStep == \/ PauseForPolicy \/ Joined \/ BeginApply \/ Commit \/ Apply \/ Replace
            \/ Resume

Next ==
    \/ WorkerStep \/ CompletionFails
    \/ SaveStep \/ BeginRecover \/ \E p \in Policies : BeginSave(p)
    \/ Hold \/ ResumeHold \/ ClockMoves
    \/ \E n \in Ids : \/ Unblock(n) \/ Withdraw(n)
                      \/ PruneRetained(n) \/ EnqueueControl(n) \/ Insert(n)
    \/ ReadAuthority \/ CompareProjection \/ Snapshot \/ InsertNothing
    \/ Reconcile \/ Reconciled
    \/ Crash \/ Initialize

\* The worker's thread runs, and its requests have a timeout; a policy operation
\* that has begun goes on; the maintenance loop comes round; the process is
\* started again.
Fairness ==
    /\ WF_vars(WorkerStep) /\ WF_vars(SaveStep) /\ WF_vars(Reconciled)
    /\ WF_vars(BeginRecover) /\ WF_vars(Initialize)

Spec     == Init /\ [][Next]_vars
FairSpec == Spec /\ Fairness

-----------------------------------------------------------------------------
(* Properties. *)

\* No request is started while the hold is in force, nor while the clock leaves
\* open whether it is: not for a claim made before the hold, not for a permit
\* given before it, not after the clock was set back (start_http).
NoSendUnderHold ==
    [][\A n \in Ids : requests'[n] > requests[n] => Permits]_vars

\* A notice that any saved policy has withdrawn is never sent, although the
\* save may fail half way, be followed by another that allows its class again,
\* meet a request about to start, or be cut short by a crash
\* (save_policy_local, apply_projection, require_applied).
RevokedNeverSent ==
    [][\A n \in Ids : requests'[n] > requests[n] => ~revoked[n]]_vars

\* The claim the worker completes is its own: nobody settles, cancels or
\* recovers the row under it, so the completions that name only the id and the
\* status cannot touch another claim (finish_sending, finish_accepted).
WorkerOwnsClaim ==
    worker.row # None => In(worker.row, {"sending"})

\* A saved policy is applied in the end, whatever failed after the save
\* (recover_policy, initialize).
PolicyIsApplied ==
    (applied.revision < file.revision) ~> (applied = file /\ settings.state = file)
=============================================================================
