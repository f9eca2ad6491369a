---------------------------- MODULE WechatDelivery ----------------------------
(***************************************************************************)
(* The WeChat connection of the relay server and the two tasks that share  *)
(* it: the long-poll monitor (apps/server/src/wechat/monitor), which owns  *)
(* the cursor and the context token, and the outbox worker that sends      *)
(* through the channel (apps/server/src/wechat/channel).  They meet in     *)
(* SharedState, behind a mutex neither of them holds across an await, and  *)
(* in the outbox, whose blocked rows the monitor's hook releases.          *)
(*                                                                         *)
(* The model has one row of the outbox, the log of messages the user sent  *)
(* to the bot, the durable sink that captures them, the encrypted file     *)
(* with the connection, logins, disconnects and crashes of the process.    *)
(***************************************************************************)
EXTENDS Integers, Sequences, FiniteSets

CONSTANTS
    Messages,     \* what the user will have sent, in order: records with
                  \* `text` (a finished text message) and `ctx` (its
                  \* context_token, or NoContext)
    NoContext,    \* Option::None for a context token
    NoBundle,     \* Option::None for a ConnectionBundle
    DegradedAfter,\* DEGRADED_AFTER_FAILURES
    MaxRevision   \* bound on the revision at which a login may begin

VARIABLES
    sh,        \* SharedState
    disk,      \* the bundle in the secret store
    mon,       \* the monitor worker
    cancelled, \* its cancellation token
    lifecycle, \* the operation that holds the lifecycle lock
    arrived,   \* how many of Messages the provider has
    captured,  \* the messages that crossed the durable sink boundary
    row,       \* the row of the outbox
    snd,       \* the outbox worker in NotificationChannel::send
    refused,   \* context tokens the provider refused since the connection
               \* was installed and no message has brought since (history)
    forgotten  \* those it had refused before that (history)

refusals == <<refused, forgotten>>
vars == <<sh, disk, mon, cancelled, lifecycle, arrived, captured, row, snd,
          refusals>>
monVars == <<mon, cancelled, lifecycle>>
sendVars == <<row, snd, refusals>>

ASSUME DeliveryAssumption ==
    /\ DegradedAfter \in Nat \ {0}
    /\ MaxRevision \in Nat
    /\ Len(Messages) \in Nat
    /\ \A i \in 1..Len(Messages) : Messages[i].text \in BOOLEAN

MonitorStates == {"stopped", "starting", "active", "reconnecting",
                  "degraded", "reconnect_required"}
Blocked == {"blocked_activation", "blocked_reconnect"}

(* The part of a ConnectionBundle that changes: the session.  The cursor   *)
(* is the number of messages it acknowledges.                              *)
FreshBundle == [cursor |-> 0, ctx |-> NoContext]
Bundles == [cursor : 0..Len(Messages),
            ctx : {Messages[i].ctx : i \in 1..Len(Messages)} \cup {NoContext}]

ASSUME NoneAssumption == NoBundle \notin Bundles

Status(monitor, activated) ==
    [sh EXCEPT !.monitor = monitor, !.activated = activated]

NoWorker == [pc |-> "off", bundle |-> FreshBundle, failures |-> 0,
             reconnecting |-> FALSE, upto |-> 0, at |-> 0]
NoSend == [pc |-> "idle", revision |-> 0, ctx |-> NoContext,
           outcome |-> "none"]

-----------------------------------------------------------------------------
(* The monitor: run_monitor.                                               *)

Goto(pc) == mon' = [mon EXCEPT !.pc = pc]

(* set_retry_failure and set_terminal_failure.                             *)
RetryFailure(failures) ==
    IF sh.monitor = "reconnect_required" THEN sh
    ELSE Status(IF failures >= DegradedAfter THEN "degraded"
                                             ELSE "reconnecting", FALSE)

TerminalFailure == Status("reconnect_required", FALSE)

(* The way every retryable error takes: count, publish, wait.              *)
FailAndWait ==
    LET failures == IF mon.failures < DegradedAfter THEN mon.failures + 1
                                                    ELSE mon.failures
    IN  /\ sh' = RetryFailure(failures)
        /\ mon' = [mon EXCEPT !.pc = "backoff", !.failures = failures,
                              !.reconnecting = TRUE]

(* Mutant: a rejected context is forgotten when the monitor reconnects.    *)
SetActiveForgetful(bundle) ==
    IF sh.monitor = "reconnect_required"
      THEN [sh EXCEPT !.activated = FALSE]
      ELSE Status("active", bundle.ctx # NoContext)

SetActive(bundle) ==
    IF sh.monitor = "reconnect_required"
      THEN [sh EXCEPT !.activated = FALSE]
      ELSE Status("active", bundle.ctx # NoContext /\ ~sh.required)

(* notify_start succeeded.  A terminal state that a sender published in    *)
(* the meantime wins; otherwise rows are released on the edge to activated *)
(* before the loop goes on.                                                *)
NotifyStartOk ==
    /\ mon.pc = "start"
    /\ sh' = SetActive(mon.bundle)
    /\ Goto(IF sh.monitor = "reconnect_required" THEN "stop"
            ELSE IF ~sh.activated /\ sh'.activated THEN "hook_started"
            ELSE "started")
    /\ UNCHANGED <<disk, cancelled, lifecycle, arrived, captured, sendVars>>

(* is_monitor_active is asked before and after the hook `reconnected`.     *)
CheckStarted ==
    /\ mon.pc = "started"
    /\ mon' = [mon EXCEPT
                 !.pc = IF sh.monitor # "active" THEN "stop"
                        ELSE IF mon.reconnecting THEN "hook_reconnected"
                        ELSE "poll",
                 !.reconnecting = FALSE]
    /\ UNCHANGED <<sh, disk, cancelled, lifecycle, arrived, captured,
                   sendVars>>

CheckReconnected ==
    /\ mon.pc = "reconnected"
    /\ Goto(IF sh.monitor # "active" THEN "stop" ELSE "poll")
    /\ UNCHANGED <<sh, disk, cancelled, lifecycle, arrived, captured,
                   sendVars>>

(* notify_start or get_updates failed: the credential is refused, or the   *)
(* call may be repeated, or the worker was cancelled.                      *)
CallRefused ==
    /\ mon.pc \in {"start", "poll"}
    /\ sh' = TerminalFailure
    /\ Goto("stop")
    /\ UNCHANGED <<disk, cancelled, lifecycle, arrived, captured, sendVars>>

CallFailed ==
    /\ mon.pc \in {"start", "poll"}
    /\ FailAndWait
    /\ UNCHANGED <<disk, cancelled, lifecycle, arrived, captured, sendVars>>

CallCancelled ==
    /\ mon.pc \in {"start", "poll", "backoff"}
    /\ cancelled
    /\ Goto("stop")
    /\ UNCHANGED <<sh, disk, cancelled, lifecycle, arrived, captured,
                   sendVars>>

(* wait_to_retry, then 'connect again.                                     *)
RetryDue ==
    /\ mon.pc = "backoff"
    /\ ~cancelled
    /\ Goto("start")
    /\ UNCHANGED <<sh, disk, cancelled, lifecycle, arrived, captured,
                   sendVars>>

SetLastPoll == IF sh.monitor = "reconnect_required" THEN sh
               ELSE [sh EXCEPT !.monitor = "active"]

(* get_updates answered with the messages after the cursor, up to k.       *)
PollOk(k) ==
    /\ mon.pc = "poll"
    /\ k \in mon.bundle.cursor..arrived
    /\ sh' = SetLastPoll
    /\ mon' = [mon EXCEPT !.pc = "apply", !.upto = k,
                          !.at = mon.bundle.cursor + 1]
    /\ UNCHANGED <<disk, cancelled, lifecycle, arrived, captured, sendVars>>

-----------------------------------------------------------------------------
(* apply_response.                                                         *)

(* One message: a finished text must cross the sink before the next one.   *)
Capture ==
    /\ mon.pc = "apply"
    /\ mon.at <= mon.upto
    /\ captured' = IF Messages[mon.at].text THEN captured \cup {mon.at}
                                            ELSE captured
    /\ mon' = [mon EXCEPT !.at = @ + 1]
    /\ UNCHANGED <<sh, disk, cancelled, lifecycle, arrived, sendVars>>

(* Mutant: a message the sink refused is skipped.                          *)
CaptureSkips ==
    /\ mon.pc = "apply"
    /\ mon.at <= mon.upto
    /\ mon' = [mon EXCEPT !.at = @ + 1]
    /\ UNCHANGED <<sh, disk, cancelled, lifecycle, arrived, captured,
                   sendVars>>

(* The sink fails, before or after its transaction: nothing of the         *)
(* response is kept in the session.                                        *)
CaptureFails ==
    /\ mon.pc = "apply"
    /\ mon.at <= mon.upto
    /\ Messages[mon.at].text
    /\ captured' \in {captured, captured \cup {mon.at}}
    /\ FailAndWait
    /\ UNCHANGED <<disk, cancelled, lifecycle, arrived, sendVars>>

(* The bundle with the response applied: the last context token wins.      *)
NextBundle ==
    LET tokens == {i \in (mon.bundle.cursor + 1)..mon.upto :
                     Messages[i].ctx # NoContext}
    IN  [cursor |-> mon.upto,
         ctx |-> IF tokens = {} THEN mon.bundle.ctx
                 ELSE Messages[CHOOSE i \in tokens :
                                 \A j \in tokens : j <= i].ctx]

Unchanged ==
    /\ mon.pc = "apply"
    /\ mon.at > mon.upto
    /\ mon.upto = mon.bundle.cursor
    /\ mon' = [mon EXCEPT !.pc = "poll", !.failures = 0]
    /\ UNCHANGED <<sh, disk, cancelled, lifecycle, arrived, captured,
                   sendVars>>

(* store.save renames the new file into place.                             *)
SaveBundle ==
    /\ mon.pc = "apply"
    /\ mon.at > mon.upto
    /\ mon.upto # mon.bundle.cursor
    /\ disk' = NextBundle
    /\ Goto("saved")
    /\ UNCHANGED <<sh, cancelled, lifecycle, arrived, captured, sendVars>>

(* It fails or is cancelled, before or after the rename.                   *)
SaveFails ==
    /\ mon.pc = "apply"
    /\ mon.at > mon.upto
    /\ mon.upto # mon.bundle.cursor
    /\ disk' \in {disk, NextBundle}
    /\ FailAndWait
    /\ UNCHANGED <<cancelled, lifecycle, arrived, captured, sendVars>>

(* The session is published to the senders.  A token that a message brings *)
(* counts as a new one, also if it was refused before.                     *)
PublishSession ==
    LET next == NextBundle
        changed == next.ctx # mon.bundle.ctx
        required == sh.required /\ ~changed
    IN  /\ mon.pc = "saved"
        /\ sh' = [sh EXCEPT !.bundle = next,
                            !.revision = IF changed THEN @ + 1 ELSE @,
                            !.required = required,
                            !.activated = /\ sh.monitor = "active"
                                          /\ next.ctx # NoContext
                                          /\ ~required]
        /\ mon' = [mon EXCEPT
                     !.pc = IF ~sh.activated /\ sh'.activated
                              THEN "hook_saved" ELSE "poll",
                     !.bundle = next, !.failures = 0]
        /\ refused' = IF changed THEN refused \ {next.ctx} ELSE refused
        /\ forgotten' = IF changed THEN forgotten \ {next.ctx} ELSE forgotten
        /\ UNCHANGED <<disk, cancelled, lifecycle, arrived, captured, row,
                       snd>>

-----------------------------------------------------------------------------
(* The hook of the server: OutboxActivationHook.                           *)

AfterHook == CASE mon.pc = "hook_started" -> "started"
               [] mon.pc = "hook_reconnected" -> "reconnected"
               [] mon.pc = "hook_saved" -> "poll"

(* Mutant: activation releases only the rows that wait for activation.     *)
ReleasesNarrow == IF mon.pc = "hook_reconnected" THEN {"blocked_reconnect"}
                  ELSE {"blocked_activation"}

(* `reconnected` releases reconnect-blocked rows, `activated` both kinds.  *)
Releases == IF mon.pc = "hook_reconnected" THEN {"blocked_reconnect"}
            ELSE Blocked

HookRuns ==
    /\ mon.pc \in {"hook_started", "hook_reconnected", "hook_saved"}
    /\ row' = IF row.status \in Releases
                THEN [row EXCEPT !.status = "queued"] ELSE row
    /\ Goto(AfterHook)
    /\ UNCHANGED <<sh, disk, cancelled, lifecycle, arrived, captured, snd,
                   refusals>>

(* The outbox is unavailable: logged, and the monitor goes on.             *)
HookFails ==
    /\ mon.pc \in {"hook_started", "hook_reconnected", "hook_saved"}
    /\ Goto(AfterHook)
    /\ UNCHANGED <<sh, disk, cancelled, lifecycle, arrived, captured,
                   sendVars>>

(* finish_monitor, and the observer task of replace_bundle.                *)
FinishMonitor ==
    /\ mon.pc = "stop"
    /\ LET kept == sh.monitor \in {"degraded", "reconnect_required"}
           ended == IF ~cancelled /\ sh.monitor # "reconnect_required"
                      THEN "degraded"
                    ELSE IF kept THEN sh.monitor ELSE "stopped"
       IN  sh' = Status(ended, FALSE)
    /\ mon' = NoWorker
    /\ UNCHANGED <<disk, cancelled, lifecycle, arrived, captured, sendVars>>

-----------------------------------------------------------------------------
(* WechatMonitorRuntime: who holds the lifecycle lock replaces the worker. *)

(* replace_bundle at boot (start_installed) or after a login, and          *)
(* stop_and_clear of a disconnect, cancel the worker and join it.          *)
BeginReplace ==
    /\ lifecycle = "idle"
    /\ sh.revision < MaxRevision
    /\ lifecycle' = "replace"
    /\ cancelled' = TRUE
    /\ UNCHANGED <<sh, disk, mon, arrived, captured, sendVars>>

BeginClear ==
    /\ lifecycle = "idle"
    /\ sh.revision < MaxRevision
    /\ lifecycle' = "clear"
    /\ cancelled' = TRUE
    /\ UNCHANGED <<sh, disk, mon, arrived, captured, sendVars>>

Installed(bundle) ==
    /\ sh' = [bundle |-> bundle, revision |-> sh.revision + 1,
              monitor |-> "starting", activated |-> FALSE, required |-> FALSE]
    /\ mon' = [NoWorker EXCEPT !.pc = "start", !.bundle = bundle]
    /\ cancelled' = FALSE
    /\ lifecycle' = "idle"
    /\ refused' = {}
    /\ forgotten' = forgotten \cup refused
    /\ UNCHANGED <<row, snd>>

InstallLogin ==
    /\ lifecycle = "replace"
    /\ mon.pc = "off"
    /\ disk' = FreshBundle
    /\ Installed(FreshBundle)
    /\ UNCHANGED <<arrived, captured>>

(* The cutover of the login failed after the monitor was stopped: the old  *)
(* connection is resumed from the monitor's own copy.                      *)
ResumeOld ==
    /\ lifecycle = "replace"
    /\ mon.pc = "off"
    /\ sh.bundle # NoBundle
    /\ Installed(sh.bundle)
    /\ UNCHANGED <<disk, arrived, captured>>

InstallLoaded ==
    /\ lifecycle = "boot"
    /\ sh.bundle # NoBundle
    /\ Installed(sh.bundle)
    /\ UNCHANGED <<disk, arrived, captured>>

Clear ==
    /\ lifecycle = "clear"
    /\ mon.pc = "off"
    /\ disk' = NoBundle
    /\ sh' = [bundle |-> NoBundle, revision |-> sh.revision + 1,
              monitor |-> "stopped", activated |-> FALSE, required |-> FALSE]
    /\ lifecycle' = "idle"
    /\ cancelled' = FALSE
    /\ UNCHANGED <<mon, arrived, captured, sendVars>>

(* The process dies and is started again: the bundle is read from disk and *)
(* the outbox recovers the claim of the dead process.                      *)
Restart ==
    /\ sh' = [bundle |-> disk, revision |-> IF disk = NoBundle THEN 0 ELSE 1,
              monitor |-> "stopped", activated |-> FALSE, required |-> FALSE]
    /\ mon' = NoWorker
    /\ cancelled' = FALSE
    /\ lifecycle' = IF disk = NoBundle THEN "idle" ELSE "boot"
    /\ row' = IF row.status = "claimed" THEN [row EXCEPT !.status = "queued"]
              ELSE row
    /\ snd' = NoSend
    /\ refused' = {} /\ forgotten' = {}
    /\ UNCHANGED <<disk, arrived, captured>>

-----------------------------------------------------------------------------
(* The outbox worker sends its row.                                        *)

Return(o) == snd' = [snd EXCEPT !.pc = "returned", !.outcome = o]

Claim ==
    /\ snd.pc = "idle"
    /\ row.status = "queued"
    /\ row' = [status |-> "claimed",
               attempts |-> IF row.attempts < 2 THEN row.attempts + 1 ELSE 2]
    /\ snd' = [NoSend EXCEPT !.pc = "gate"]
    /\ UNCHANGED <<sh, disk, monVars, arrived, captured, refusals>>

(* connection_snapshot: the status and the bundle are read under two       *)
(* separate acquisitions of the mutex.                                     *)
ReadStatus ==
    /\ snd.pc = "gate"
    /\ snd' = [snd EXCEPT !.pc = IF sh.activated THEN "snapshot" ELSE "ask"]
    /\ UNCHANGED <<sh, disk, monVars, arrived, captured, row, refusals>>

ReadSnapshot ==
    /\ snd.pc = "snapshot"
    /\ IF sh.bundle = NoBundle THEN snd' = [snd EXCEPT !.pc = "ask"]
       ELSE IF sh.bundle.ctx = NoContext THEN Return("BlockedActivation")
       ELSE snd' = [snd EXCEPT !.pc = "sending", !.revision = sh.revision,
                                !.ctx = sh.bundle.ctx]
    /\ UNCHANGED <<sh, disk, monVars, arrived, captured, row, refusals>>

(* has_connection.                                                         *)
AskConnection ==
    /\ snd.pc = "ask"
    /\ Return(IF sh.bundle # NoBundle THEN "BlockedActivation"
                                      ELSE "BlockedReconnect")
    /\ UNCHANGED <<sh, disk, monVars, arrived, captured, row, refusals>>

(* send_message returned without a verdict on the connection.              *)
SendSettles(o) ==
    /\ snd.pc = "sending"
    /\ Return(o)
    /\ UNCHANGED <<sh, disk, monVars, arrived, captured, row, refusals>>

(* The provider refused the credential or the context: published only if   *)
(* the connection is still the one that was used.                          *)
SendUnauthorized ==
    /\ snd.pc = "sending"
    /\ IF sh.revision = snd.revision
         THEN sh' = TerminalFailure /\ Return("BlockedReconnect")
         ELSE sh' = sh /\ Return("ContextChanged")
    /\ UNCHANGED <<disk, monVars, arrived, captured, row, refusals>>

SendRejected ==
    /\ snd.pc = "sending"
    /\ IF sh.revision = snd.revision /\ sh.monitor # "reconnect_required"
         THEN /\ sh' = [sh EXCEPT !.required = TRUE, !.activated = FALSE]
              /\ refused' = refused \cup {snd.ctx}
              /\ Return("ContextRejected")
         ELSE /\ UNCHANGED <<sh, refused>>
              /\ Return("ContextChanged")
    /\ UNCHANGED <<disk, monVars, arrived, captured, row, forgotten>>

(* finish_claim: what becomes of the row.  A network error is retried or,  *)
(* at the end of the schedule, given up on.                                *)
StatusAfter(o, attempts) ==
    CASE o \in {"Accepted", "PermanentFailure"} -> {"settled"}
      [] o = "Network" -> {"queued", "settled"}
      [] o \in {"ContextChanged", "ContextRejected"} ->
           IF attempts <= 1 THEN {"queued"} ELSE {"blocked_activation"}
      [] o = "BlockedActivation" -> {"blocked_activation"}
      [] o = "BlockedReconnect" -> {"blocked_reconnect"}

FinishClaim ==
    /\ snd.pc = "returned"
    /\ \E s \in StatusAfter(snd.outcome, row.attempts) :
          row' = [row EXCEPT !.status = s]
    /\ snd' = NoSend
    /\ UNCHANGED <<sh, disk, monVars, arrived, captured, refusals>>

-----------------------------------------------------------------------------
(* EXTERNAL: the user sends the next message.                              *)
UserSends ==
    /\ arrived < Len(Messages)
    /\ arrived' = arrived + 1
    /\ UNCHANGED <<sh, disk, monVars, captured, sendVars>>

Init ==
    /\ sh = [bundle |-> NoBundle, revision |-> 0, monitor |-> "stopped",
             activated |-> FALSE, required |-> FALSE]
    /\ disk = NoBundle
    /\ mon = NoWorker
    /\ cancelled = FALSE
    /\ lifecycle = "idle"
    /\ arrived = 0
    /\ captured = {}
    /\ row = [status |-> "queued", attempts |-> 0]
    /\ snd = NoSend
    /\ refused = {} /\ forgotten = {}

MonitorStep ==
    \/ NotifyStartOk \/ CheckStarted \/ CheckReconnected
    \/ CallRefused \/ CallFailed \/ CallCancelled \/ RetryDue
    \/ \E k \in 0..Len(Messages) : PollOk(k)
    \/ Capture \/ CaptureFails \/ Unchanged
    \/ SaveBundle \/ SaveFails \/ PublishSession
    \/ HookRuns \/ HookFails \/ FinishMonitor

SenderStep ==
    \/ Claim \/ ReadStatus \/ ReadSnapshot \/ AskConnection
    \/ \E o \in {"Accepted", "Network", "PermanentFailure"} : SendSettles(o)
    \/ SendUnauthorized \/ SendRejected \/ FinishClaim

LifecycleStep == InstallLogin \/ ResumeOld \/ InstallLoaded \/ Clear

Next ==
    \/ MonitorStep
    \/ SenderStep
    \/ LifecycleStep
    \/ BeginReplace
    \/ BeginClear
    \/ Restart
    \/ UserSends

Spec == Init /\ [][Next]_vars

(* Both tasks run on, an installation that can finish does, and the outbox *)
(* is not unavailable every time `activated`, or `reconnected`, needs it.  *)
Fairness ==
    /\ WF_vars(MonitorStep)
    /\ WF_vars(SenderStep)
    /\ WF_vars(LifecycleStep)
    /\ SF_vars(HookRuns /\ mon.pc # "hook_reconnected")
    /\ SF_vars(HookRuns /\ mon.pc = "hook_reconnected")

FairSpec == Spec /\ Fairness

-----------------------------------------------------------------------------
(* Properties.                                                             *)

(* Types of the shared state, the file, the monitor worker and the outbox  *)
(* row; the failure count saturates, and a cursor and a context come from  *)
(* the log of messages (poll.rs apply_response, set_retry_failure).        *)
DeliveryTypeOK ==
    /\ sh.bundle \in Bundles \cup {NoBundle}
    /\ sh.revision \in Nat
    /\ sh.monitor \in MonitorStates
    /\ {sh.activated, sh.required, cancelled} \subseteq BOOLEAN
    /\ disk \in Bundles \cup {NoBundle}
    /\ mon.bundle \in Bundles
    /\ mon.failures \in 0..DegradedAfter
    /\ arrived \in 0..Len(Messages)
    /\ captured \in SUBSET (1..Len(Messages))
    /\ row.status \in Blocked \cup {"queued", "claimed", "settled"}

(* A text message whose cursor was made durable has been captured: no      *)
(* failure of the sink, of the store or of the process loses one.          *)
NoMessageLost ==
    disk # NoBundle =>
        \A i \in 1..disk.cursor : Messages[i].text => i \in captured

(* No message is sent with a context token the provider has refused since  *)
(* the connection was installed, until a message brings that token again:  *)
(* not after the monitor has reconnected, and not by a sender that read    *)
(* the status and the bundle at different moments.                         *)
RejectedContextUnused == snd.pc = "sending" => snd.ctx \notin refused

(* mark_activation_required works by "preventing sends from reusing a      *)
(* provider-rejected context", until "a later owned inbound context": also *)
(* when the same connection is installed again in the same process.        *)
ContextNotReused ==
    snd.pc = "sending" => snd.ctx \notin refused \cup forgotten

(* A row that waits is released whenever the connection comes back, again  *)
(* and again: it is not stuck while the connection goes up and down.       *)
ReactivationReleases ==
    ([]<>sh.activated /\ []<>~sh.activated)
        => []<>(row.status \notin Blocked)

=============================================================================
