--------------------------- MODULE InboundCommands ---------------------------
(***************************************************************************)
(* Commands that the owner sends to the bot (apps/server/src/inbound): the *)
(* durable sink that captures each message once, the worker that claims a  *)
(* command, asks a device through the gateway and queues exactly one       *)
(* reply, and the two-step control of a device: a start or a stop is only  *)
(* prepared, and carried out when the owner sends back the six-digit code  *)
(* of the confirmation.                                                    *)
(*                                                                         *)
(* Both tables are in one SQLite database, so a transaction is one step;   *)
(* between transactions the worker may be overtaken by the sink, by the    *)
(* hourly retention, by another process, or die.  A claim token is a fresh *)
(* UUID; because a worker holds at most one claim, the worker itself       *)
(* stands for the token of the claim it holds.                             *)
(***************************************************************************)
EXTENDS Integers, Sequences, FiniteSets

CONSTANTS
    NoWorker,      \* claim_token IS NULL
    Plans,         \* what may happen around the server: records with `msgs`,
                   \* the messages (their `kind` and `from`) in order, `procs`,
                   \* the processes, each with one inbound worker, and
                   \* `faults`, the bound on lost cursors, crashes and stops
    CommandTTL,    \* INBOUND_COMMAND_TTL_MS
    ConfirmTTL,    \* CONTROL_CONFIRMATION_TTL_MS
    StaleClaim,    \* STALE_COMMAND_CLAIM_MS
    RetryDelay,    \* the 1_000 ms of retry_control_dispatch_at
    MaxAttempts,   \* control_confirmations.max_attempts
    LastArrival,   \* bound: no new message reaches the sink after this time
    MaxNow         \* bound on the clock

VARIABLES
    now,        \* the wall clock
    plan,       \* the plan of this behaviour
    pos,        \* messages handed to the sink, up to the cursor in use
    typed,      \* the confirmation whose code message m contains, or 0
    cmds,       \* table inbound_commands, one row per message
    confs,      \* table control_confirmations, one row per `start` message
    wk,         \* the workers
    faults,     \* lost cursors, crashes and stops so far
    sent,       \* messages on whose behalf the intent reached a device
    told        \* the reply staged in the outbox for a message

vars == <<now, plan, pos, typed, cmds, confs, wk, faults, sent, told>>
feedVars == <<plan, pos, typed>>

ASSUME InboundAssumption ==
    /\ {CommandTTL, StaleClaim, RetryDelay, MaxAttempts, ConfirmTTL}
         \subseteq Nat \ {0}
    /\ {LastArrival, MaxNow} \subseteq Nat
    /\ \A p \in Plans :
         /\ NoWorker \notin p.procs /\ p.faults \in Nat
         /\ Len(p.msgs) \in Nat
         /\ \A i \in 1..Len(p.msgs) :
              p.msgs[i].kind \in {"help", "query", "start", "confirm", "cancel"}

Workers == plan.procs
Msgs == 1..Len(plan.msgs)
Kind(m) == plan.msgs[m].kind
Sender(m) == plan.msgs[m].from
Starts == {m \in Msgs : Kind(m) = "start"}
ExpiresAt(m) == cmds[m].created_at + CommandTTL

Claimed == {"dispatching", "waiting_gateway"}
Final == {"reply_queued", "expired"}
Bound == {"pending", "outcome", "failed"}        \* consumed_at IS NOT NULL
Unconsumed == {"awaiting_confirmation", "locked", "cancelled"}

NoCommand == [status |-> "absent", owner |-> NoWorker, claimed_at |-> 0,
              next_attempt_at |-> 0, interrupted |-> FALSE, conf |-> 0,
              created_at |-> 0]
Unsent == -1          \* typed[m] before message m is sent
NoConf == [state |-> "none", expires_at |-> 0, attempts |-> 0, key |-> 0]
Down == [pc |-> "down", msg |-> 0, at |-> 0, answer |-> "none",
         expires |-> 0, stopping |-> FALSE]

Fault == faults < plan.faults /\ faults' = faults + 1

(* The confirmation a control dispatch of message m is bound to, if it     *)
(* still has its row.                                                      *)
HasBinding(m) == \E c \in Starts : confs[c].key = m /\ confs[c].state \in Bound

-----------------------------------------------------------------------------
(* The sink: DurableInboundMessageSink::accept.                            *)

(* resolve_confirmation_code: the sender's one awaiting confirmation is    *)
(* cancelled when it is due, and charged an attempt when the code is not   *)
(* its own; the last attempt locks it.                                     *)
Resolve(s, code) ==
    LET live == {c \in Starts : /\ confs[c].state = "awaiting_confirmation"
                                /\ Sender(c) = s}
    IN  [c \in Starts |->
           IF c \notin live THEN confs[c]
           ELSE IF confs[c].expires_at <= now
             THEN [confs[c] EXCEPT !.state = "cancelled"]
           ELSE IF c = code THEN confs[c]
           ELSE [confs[c] EXCEPT
                   !.attempts = @ + 1,
                   !.state = IF confs[c].attempts + 1 >= MaxAttempts
                               THEN "locked" ELSE @]]

(* What it returns: the confirmation, or an error for which the command    *)
(* `unknown` is stored.                                                    *)
Resolved(s, code) ==
    IF /\ code # 0
       /\ Sender(code) = s
       /\ confs[code].state = "awaiting_confirmation"
       /\ confs[code].expires_at > now
      THEN code ELSE 0

(* accept_with_status: INSERT ... ON CONFLICT(message_key) DO NOTHING, so  *)
(* a message that is delivered again keeps its first row.                  *)
Store(m, status, conf) ==
    IF cmds[m].status # "absent" THEN cmds
    ELSE [cmds EXCEPT ![m] = [NoCommand EXCEPT !.status = status,
                                               !.conf = conf,
                                               !.created_at = now]]

(* The codes a sender can know: those of prompts sent to anyone; 0 stands  *)
(* for a code that is not right.                                           *)
KnownCodes == {c \in Starts : told[c] = "prompt"} \cup {0}

(* A message that arrives now, or again: its text never changes, so its    *)
(* code is chosen once.                                                    *)
Arrives(m, code) ==
    /\ m = pos + 1 /\ m \in Msgs
    /\ now <= LastArrival \/ cmds[m].status # "absent"
    /\ code \in IF typed[m] # Unsent THEN {typed[m]}
               ELSE IF Kind(m) = "confirm" THEN KnownCodes ELSE {0}
    /\ typed' = [typed EXCEPT ![m] = code]

(* apply_response hands the next message of the batch to the sink.         *)
Accept(m, code) ==
    /\ Arrives(m, code)
    /\ confs' = IF Kind(m) = "confirm" THEN Resolve(Sender(m), code) ELSE confs
    /\ cmds' = Store(m, "received", Resolved(Sender(m), code))
    /\ pos' = m
    /\ UNCHANGED <<now, plan, wk, faults, sent, told>>

(* accept is cancelled between its two transactions: the code has been     *)
(* looked at, the message is not stored and will be delivered again.       *)
AcceptCancelled(m, code) ==
    /\ Arrives(m, code)
    /\ Kind(m) = "confirm"
    /\ confs' = Resolve(Sender(m), code)
    /\ UNCHANGED <<now, plan, pos, cmds, wk, faults, sent, told>>

(* DiscardingInboundMessageSink: in notification-only mode the message is  *)
(* kept as a tombstone and its code is not looked at.                      *)
Discard(m, code) ==
    /\ Arrives(m, code)
    /\ cmds' = Store(m, "expired", 0)
    /\ pos' = m
    /\ UNCHANGED <<now, plan, confs, wk, faults, sent, told>>

(* The batch ends with the save of the cursor.  When it fails, or the      *)
(* process dies first, the provider sends the messages after the last      *)
(* saved cursor again.                                                     *)
LoseCursor ==
    /\ Fault
    /\ pos' \in 0..pos - 1
    /\ UNCHANGED <<now, plan, typed, cmds, confs, wk, sent, told>>

-----------------------------------------------------------------------------
(* Claims.                                                                 *)

(* The pass is over; the worker forgets its claim.                         *)
EndPass(w) ==
    wk' = [wk EXCEPT ![w] = [Down EXCEPT !.pc = "idle",
                                         !.stopping = wk[w].stopping]]

(* claim_token = ?: the row still carries the token of w's claim.          *)
Owns(w) == /\ cmds[wk[w].msg].status \in Claimed
           /\ cmds[wk[w].msg].owner = w

Unclaimed(row, status) ==
    [row EXCEPT !.status = status, !.owner = NoWorker, !.claimed_at = 0,
                !.next_attempt_at = 0]

(* Mutant: waiting rows are resumed without looking for a binding.         *)
RecoverBlind ==
    [m \in Msgs |->
       LET row == cmds[m]
       IN  IF row.status \in {"received"} \cup Claimed /\ ExpiresAt(m) <= now
             THEN Unclaimed(row, "expired")
           ELSE IF row.status = "waiting_gateway"
             THEN [Unclaimed(row, "received") EXCEPT !.interrupted = TRUE]
           ELSE IF /\ row.status = "dispatching"
                   /\ row.claimed_at < now - StaleClaim
             THEN Unclaimed(row, "received")
           ELSE row]

(* Mutant: only stale claims are taken back, not waiting rows.             *)
RecoverOnlyStale ==
    [m \in Msgs |->
       LET row == cmds[m]
       IN  IF row.status \in {"received", "dispatching"} /\ ExpiresAt(m) <= now
             THEN Unclaimed(row, "expired")
           ELSE IF /\ row.status = "dispatching"
                   /\ row.claimed_at < now - StaleClaim
             THEN [Unclaimed(row, "received") EXCEPT
                     !.interrupted = @ /\ ~HasBinding(m)]
           ELSE row]

(* recover_stale_claims_at: one transaction, four updates.  Rows that are  *)
(* due expire; a command that waited for the gateway is answered           *)
(* `interrupted`, unless its confirmation records what became of it; a     *)
(* claim whose work had not begun is only taken back once it is stale.     *)
RecoverStaleClaims ==
    [m \in Msgs |->
       LET row == cmds[m]
       IN  IF row.status \in {"received"} \cup Claimed /\ ExpiresAt(m) <= now
             THEN Unclaimed(row, "expired")
           ELSE IF row.status = "waiting_gateway"
             THEN [Unclaimed(row, "received") EXCEPT
                     !.interrupted = ~HasBinding(m)]
           ELSE IF /\ row.status = "dispatching"
                   /\ row.claimed_at < now - StaleClaim
             THEN [Unclaimed(row, "received") EXCEPT
                     !.interrupted = @ /\ ~HasBinding(m)]
           ELSE row]

(* run_with_progress begins with a recovery.                               *)
Start(w) ==
    /\ wk[w].pc = "down"
    /\ cmds' = RecoverStaleClaims
    /\ EndPass(w)
    /\ UNCHANGED <<now, feedVars, confs, faults, sent, told>>

(* Between passes: the recovery scan, or the end of the worker when it has *)
(* been cancelled.                                                         *)
RecoveryScan(w) ==
    /\ wk[w].pc = "idle" /\ ~wk[w].stopping
    /\ cmds' = RecoverStaleClaims
    /\ UNCHANGED <<now, feedVars, confs, wk, faults, sent, told>>

WorkerEnds(w) ==
    /\ wk[w].pc = "idle" /\ wk[w].stopping
    /\ wk' = [wk EXCEPT ![w] = Down]
    /\ UNCHANGED <<now, feedVars, cmds, confs, faults, sent, told>>

Ready == {m \in Msgs : /\ cmds[m].status = "received"
                       /\ ExpiresAt(m) > now
                       /\ cmds[m].next_attempt_at <= now}

(* claim_next_at: the oldest ready command, by arrival and key.            *)
ClaimNext(w) ==
    /\ wk[w].pc = "idle" /\ ~wk[w].stopping
    /\ \E m \in Ready :
         /\ \A k \in Ready : \/ cmds[m].created_at < cmds[k].created_at
                             \/ cmds[m].created_at = cmds[k].created_at /\ m <= k
         /\ cmds' = [cmds EXCEPT ![m].status = "dispatching", ![m].owner = w,
                                 ![m].claimed_at = now,
                                 ![m].next_attempt_at = 0]
         /\ wk' = [wk EXCEPT ![w].pc = "claimed", ![w].msg = m,
                             ![w].answer = IF cmds[m].interrupted
                                             THEN "interrupted" ELSE "none"]
    /\ UNCHANGED <<now, feedVars, confs, faults, sent, told>>

(* release_claim_at.                                                       *)
Release(w) ==
    IF ~Owns(w) THEN cmds
    ELSE [cmds EXCEPT ![wk[w].msg] =
            Unclaimed(@, IF ExpiresAt(wk[w].msg) <= now THEN "expired"
                                                        ELSE "received")]

(* Cancellation is looked at once more after the claim.                    *)
ReleaseOnStop(w) ==
    /\ wk[w].pc = "claimed" /\ wk[w].stopping
    /\ cmds' = Release(w)
    /\ EndPass(w)
    /\ UNCHANGED <<now, feedVars, confs, faults, sent, told>>

-----------------------------------------------------------------------------
(* execute_command.  A reply in hand is an `answer`; a prompt also carries *)
(* the expiry of the confirmation that goes with it.                       *)

Answer(w, answer) ==
    wk' = [wk EXCEPT ![w].pc = "reply", ![w].answer = answer]

(* mark_waiting_gateway_at, also part of prepare_control_dispatch_at.      *)
CanWait(w) == /\ Owns(w)
              /\ cmds[wk[w].msg].status = "dispatching"
              /\ ExpiresAt(wk[w].msg) > now

Waiting(w) == [cmds EXCEPT ![wk[w].msg].status = "waiting_gateway",
                           ![wk[w].msg].next_attempt_at = 0]

(* A command that was interrupted by a restart is not executed again.      *)
AnswerInterrupted(w) ==
    /\ wk[w].pc = "claimed"
    /\ wk[w].answer = "interrupted"
    /\ Answer(w, "interrupted")
    /\ UNCHANGED <<now, feedVars, cmds, confs, faults, sent, told>>

Executes(w, kinds) ==
    /\ wk[w].pc = "claimed"
    /\ wk[w].answer = "none"
    /\ Kind(wk[w].msg) \in kinds

(* Replies made without a gateway: help, an unknown command or rejected    *)
(* code, a selection, or an error found before anything is asked.          *)
AnswerLocally(w) ==
    /\ Executes(w, {"help", "query", "start", "confirm"})
    /\ Kind(wk[w].msg) = "confirm" => cmds[wk[w].msg].conf = 0
    /\ Answer(w, "plain")
    /\ UNCHANGED <<now, feedVars, cmds, confs, faults, sent, told>>

(* dispatch and dispatch_catalog: a claim that is lost or due is left to   *)
(* the recovery.                                                           *)
AskGateway(w) ==
    /\ Executes(w, {"query"})
    /\ IF CanWait(w)
         THEN /\ cmds' = Waiting(w)
              /\ wk' = [wk EXCEPT ![w].pc = "query"]
         ELSE EndPass(w) /\ UNCHANGED cmds
    /\ UNCHANGED <<now, feedVars, confs, faults, sent, told>>

GatewayAnswers(w) ==
    /\ wk[w].pc = "query"
    /\ Answer(w, "plain")
    /\ UNCHANGED <<now, feedVars, cmds, confs, faults, sent, told>>

(* Cancelled while a request is out: the row stays claimed.                *)
GatewayAbandoned(w) ==
    /\ wk[w].pc \in {"query", "control"} /\ wk[w].stopping
    /\ EndPass(w)
    /\ UNCHANGED <<now, feedVars, cmds, confs, faults, sent, told>>

(* prepare_start_confirmation and prepare_cancel_confirmation.             *)
PrepareConfirmation(w) ==
    /\ Executes(w, {"start"})
    /\ wk' = [wk EXCEPT ![w].pc = "reply", ![w].answer = "prompt",
                        ![w].expires = now + ConfirmTTL]
    /\ UNCHANGED <<now, feedVars, cmds, confs, faults, sent, told>>

Due(c) == confs[c].expires_at <= now /\ confs[c].state \notin {"none", "pending"}

(* cancel_confirmations_at.                                                *)
CancelConfirmations(w) ==
    /\ Executes(w, {"cancel"})
    /\ confs' = [c \in Starts |->
                   IF /\ Sender(c) = Sender(wk[w].msg)
                      /\ Due(c) \/ confs[c].state \in Unconsumed
                     THEN [confs[c] EXCEPT !.state = "deleted"]
                     ELSE confs[c]]
    /\ Answer(w, "plain")
    /\ UNCHANGED <<now, feedVars, cmds, faults, sent, told>>

-----------------------------------------------------------------------------
(* execute_confirmation.                                                   *)

(* Mutant: a binding to another message is not noticed.                    *)
PrepareUnbound(w, c) ==
    LET row == confs[c]
    IN  IF row.state \in {"none", "deleted"} THEN "missing"
        ELSE IF row.state = "outcome" THEN "outcome"
        ELSE IF row.state = "failed" THEN "failed"
        ELSE IF row.key = 0 /\ row.expires_at <= now THEN "expired"
        ELSE IF row.state = "locked" \/ ~CanWait(w) THEN "missing"
        ELSE "dispatch"

(* The error, the recorded answer, or "dispatch", that                     *)
(* prepare_control_dispatch_at finds for confirmation c and the claim of   *)
(* w.  The CHECK of the table refuses to bind a locked row.                *)
Prepare(w, c) ==
    LET row == confs[c]
    IN  IF row.state \in {"none", "deleted"} THEN "missing"
        ELSE IF row.key # 0 /\ row.key # wk[w].msg THEN "wrong_scope"
        ELSE IF row.state = "outcome" THEN "outcome"
        ELSE IF row.state = "failed" THEN "failed"
        ELSE IF row.key = 0 /\ row.expires_at <= now THEN "expired"
        ELSE IF row.state = "locked" \/ ~CanWait(w) THEN "missing"
        ELSE "dispatch"

ExecuteConfirmation(w) ==
    LET m == wk[w].msg
        c == cmds[m].conf
        found == Prepare(w, c)
    IN  /\ Executes(w, {"confirm"})
        /\ c # 0
        /\ IF found = "dispatch"
             THEN /\ confs' = [confs EXCEPT ![c].state = "pending",
                                            ![c].key = m]
                  /\ cmds' = Waiting(w)
                  /\ wk' = [wk EXCEPT ![w].pc = "control", ![w].at = now]
             ELSE /\ Answer(w, found)
                  /\ UNCHANGED <<cmds, confs>>
        /\ UNCHANGED <<now, feedVars, faults, sent, told>>

(* The request reaches the device, which carries out an intent once.       *)
DeviceActs(w) ==
    LET c == cmds[wk[w].msg].conf
    IN  /\ wk[w].pc = "control"
        /\ sent' = [sent EXCEPT ![c] = @ \cup {wk[w].msg}]
        /\ UNCHANGED <<now, feedVars, cmds, confs, wk, faults, told>>

(* The claim a dispatch is still working for, by the clock reading `at`    *)
(* that execute_confirmation took before the request.                      *)
StillWaiting(w) == /\ Owns(w)
                   /\ cmds[wk[w].msg].status = "waiting_gateway"
                   /\ ExpiresAt(wk[w].msg) > wk[w].at

(* persist_control_outcome_at and fail_control_dispatch_at.                *)
Record(w, state, answer) ==
    LET c == cmds[wk[w].msg].conf
    IN  IF /\ StillWaiting(w)
           /\ confs[c].key = wk[w].msg /\ confs[c].state = "pending"
          THEN /\ confs' = [confs EXCEPT ![c].state = state]
               /\ Answer(w, answer)
          ELSE EndPass(w) /\ UNCHANGED confs

ControlAnswered(w) ==
    /\ wk[w].pc = "control"
    /\ wk[w].msg \in sent[cmds[wk[w].msg].conf]
    /\ Record(w, "outcome", "outcome")
    /\ UNCHANGED <<now, feedVars, cmds, faults, sent, told>>

ControlFailed(w) ==
    /\ wk[w].pc = "control"
    /\ Record(w, "failed", "failed")
    /\ UNCHANGED <<now, feedVars, cmds, faults, sent, told>>

(* An error that may pass: retry_control_dispatch_at.                      *)
ControlRetries(w) ==
    /\ wk[w].pc = "control"
    /\ cmds' = IF ~StillWaiting(w) THEN cmds
               ELSE [cmds EXCEPT ![wk[w].msg] =
                       [Unclaimed(@, "received") EXCEPT
                          !.next_attempt_at = wk[w].at + RetryDelay,
                          !.interrupted = FALSE]]
    /\ EndPass(w)
    /\ UNCHANGED <<now, feedVars, confs, faults, sent, told>>

-----------------------------------------------------------------------------
(* queue_reply.                                                            *)

(* queue_reply_with_confirmation_at: rows that are due are deleted, the    *)
(* sender's live credential is replaced by the one of message m.           *)
Replaced(m, expires) ==
    [c \in Starts |->
       IF c = m
         THEN [NoConf EXCEPT !.state = "awaiting_confirmation",
                             !.expires_at = expires]
       ELSE IF Due(c) THEN [confs[c] EXCEPT !.state = "deleted"]
       ELSE IF /\ confs[c].state = "awaiting_confirmation"
               /\ Sender(c) = Sender(m)
         THEN [confs[c] EXCEPT !.state = "cancelled"]
       ELSE confs[c]]

(* interrupt_claim_at.                                                     *)
Interrupted(w) ==
    LET m == wk[w].msg
    IN  IF ~Owns(w) THEN cmds
        ELSE [cmds EXCEPT ![m] =
                [Unclaimed(@, "received") EXCEPT
                   !.interrupted = \/ cmds[m].interrupted
                                   \/ /\ cmds[m].status = "waiting_gateway"
                                      /\ ~HasBinding(m)]]

InterruptReply(w) ==
    /\ wk[w].pc = "reply" /\ wk[w].stopping
    /\ cmds' = Interrupted(w)
    /\ EndPass(w)
    /\ UNCHANGED <<now, feedVars, confs, faults, sent, told>>

IsPrompt(w) == wk[w].answer = "prompt"
TooLate(w) == \/ now >= ExpiresAt(wk[w].msg)
              \/ IsPrompt(w) /\ now >= wk[w].expires

(* The command or the prompt is due before its reply is queued.            *)
ReplyTooLate(w) ==
    /\ wk[w].pc = "reply" /\ ~wk[w].stopping
    /\ TooLate(w)
    /\ cmds' = Release(w)
    /\ EndPass(w)
    /\ UNCHANGED <<now, feedVars, confs, faults, sent, told>>

Outlives(w) == IsPrompt(w) /\ wk[w].expires > ExpiresAt(wk[w].msg)

(* A confirmation that outlives its command is an error that ends the      *)
(* worker, and with it the process.                                        *)
ReplyRefused(w) ==
    /\ wk[w].pc = "reply" /\ ~wk[w].stopping
    /\ ~TooLate(w) /\ Outlives(w)
    /\ wk' = [wk EXCEPT ![w] = Down]
    /\ UNCHANGED <<now, feedVars, cmds, confs, faults, sent, told>>

(* Mutant: the reply is committed whoever owns the row.                    *)
QueueReplyUnfenced(w) ==
    LET m == wk[w].msg
    IN  /\ wk[w].pc = "reply" /\ ~wk[w].stopping
        /\ ~TooLate(w) /\ ~Outlives(w)
        /\ cmds' = [cmds EXCEPT ![m] = Unclaimed(@, "reply_queued")]
        /\ told' = [told EXCEPT ![m] = wk[w].answer]
        /\ confs' = IF IsPrompt(w) THEN Replaced(m, wk[w].expires) ELSE confs
        /\ EndPass(w)
        /\ UNCHANGED <<now, feedVars, faults, sent>>

(* The reply, the confirmation and the end of the claim are one            *)
(* transaction, rolled back when the claim has been lost.                  *)
QueueReply(w) ==
    LET m == wk[w].msg
    IN  /\ wk[w].pc = "reply" /\ ~wk[w].stopping
        /\ ~TooLate(w) /\ ~Outlives(w)
        /\ IF Owns(w)
             THEN /\ cmds' = [cmds EXCEPT ![m] = Unclaimed(@, "reply_queued")]
                  /\ told' = [told EXCEPT ![m] = wk[w].answer]
                  /\ confs' = IF IsPrompt(w) THEN Replaced(m, wk[w].expires)
                                             ELSE confs
                  /\ EndPass(w)
             ELSE /\ EndPass(w)
                  /\ UNCHANGED <<cmds, told, confs>>
        /\ UNCHANGED <<now, feedVars, faults, sent>>

-----------------------------------------------------------------------------
(* The rest of the process and its surroundings.                           *)

(* RetentionService::delete_selections_at, at startup and every hour.      *)
SweepConfirmations ==
    /\ \E w \in Workers : wk[w].pc # "down"
    /\ \E c \in Starts : Due(c)
    /\ confs' = [c \in Starts |-> IF Due(c)
                                    THEN [confs[c] EXCEPT !.state = "deleted"]
                                    ELSE confs[c]]
    /\ UNCHANGED <<now, feedVars, cmds, wk, faults, sent, told>>

RequestStop(w) ==
    /\ wk[w].pc # "down" /\ ~wk[w].stopping
    /\ Fault
    /\ wk' = [wk EXCEPT ![w].stopping = TRUE]
    /\ UNCHANGED <<now, feedVars, cmds, confs, sent, told>>

Crash(w) ==
    /\ wk[w].pc # "down"
    /\ Fault
    /\ wk' = [wk EXCEPT ![w] = Down]
    /\ UNCHANGED <<now, feedVars, cmds, confs, sent, told>>

Tick ==
    /\ now < MaxNow
    /\ now' = now + 1
    /\ UNCHANGED <<feedVars, cmds, confs, wk, faults, sent, told>>

-----------------------------------------------------------------------------

Init ==
    /\ now = 0
    /\ plan \in Plans
    /\ pos = 0
    /\ typed = [m \in Msgs |-> Unsent]
    /\ cmds = [m \in Msgs |-> NoCommand]
    /\ confs = [c \in Starts |-> NoConf]
    /\ wk = [w \in Workers |-> Down]
    /\ faults = 0
    /\ sent = [c \in Starts |-> {}]
    /\ told = [m \in Msgs |-> "none"]

Feed ==
    \/ \E m \in Msgs : \E code \in Starts \cup {0} :
         Accept(m, code) \/ AcceptCancelled(m, code) \/ Discard(m, code)
    \/ LoseCursor

Loop(w) == Start(w) \/ RecoveryScan(w) \/ WorkerEnds(w)
           \/ ClaimNext(w) \/ ReleaseOnStop(w)

Execute(w) == AnswerInterrupted(w) \/ AnswerLocally(w) \/ AskGateway(w)
              \/ GatewayAnswers(w) \/ GatewayAbandoned(w)
              \/ PrepareConfirmation(w) \/ CancelConfirmations(w)
              \/ ExecuteConfirmation(w) \/ ControlAnswered(w)
              \/ ControlFailed(w) \/ ControlRetries(w)

Reply(w) == InterruptReply(w) \/ ReplyTooLate(w) \/ ReplyRefused(w)
            \/ QueueReply(w)

Next ==
    \/ Feed
    \/ \E w \in Workers : Loop(w) \/ Execute(w) \/ Reply(w)
    \/ \E w \in Workers : DeviceActs(w) \/ RequestStop(w) \/ Crash(w)
    \/ SweepConfirmations
    \/ Tick

Spec == Init /\ [][Next]_vars

(* The service manager starts a process again, the runtime polls its task, *)
(* gateway requests time out, and time passes.  Nothing is assumed of the  *)
(* owner, the provider, the device, the retention or the operator, nor     *)
(* that the recovery scan gets its turn while commands are ready.          *)
FairSpec ==
    /\ Spec
    /\ WF_vars(Tick)
    /\ \A w \in UNION {p.procs : p \in Plans} :
         WF_vars(w \in Workers /\ (Loop(w) \/ Execute(w) \/ Reply(w)))

-----------------------------------------------------------------------------
(* Properties.                                                             *)

Answers == {"none", "plain", "prompt", "interrupted", "missing", "wrong_scope",
            "expired", "outcome", "failed"}

(* The two tables satisfy the CHECK constraints of 001_init.sql after      *)
(* every transaction: none of the updates can fail on one, apart from the  *)
(* binding of a locked row, which prepare_control_dispatch_at reports.     *)
InboundTypeOK ==
    /\ now \in 0..MaxNow /\ faults \in 0..plan.faults
    /\ pos \in 0..Len(plan.msgs) 
    /\ \A m \in Msgs :
         LET row == cmds[m]
         IN  /\ row.status \in {"absent", "received"} \cup Claimed \cup Final
             /\ row.status \in Claimed <=> row.owner \in Workers
             /\ row.status \notin Claimed => row.owner = NoWorker
             /\ row.conf \in Starts \cup {0}
             /\ told[m] \in Answers
             /\ told[m] # "none" <=> row.status = "reply_queued"
    /\ \A c \in Starts :
         LET row == confs[c]
         IN  /\ row.state \in {"none", "deleted"} \cup Bound \cup Unconsumed
             /\ row.state \in Bound => row.key \in Msgs
             /\ row.state \in Unconsumed => row.key = 0
             /\ row.attempts \in 0..MaxAttempts
             /\ row.state = "locked" => row.attempts = MaxAttempts
             /\ row.state \in {"awaiting_confirmation", "cancelled"}
                  => row.attempts < MaxAttempts
    /\ \A c, d \in Starts :
         /\ c # d /\ confs[c].state = "awaiting_confirmation"
         /\ confs[d].state = "awaiting_confirmation"
         => Sender(c) # Sender(d)

(* An intent reaches the device on behalf of one message only, sent by the *)
(* owner who asked for it, with the code of that very confirmation, before *)
(* it was due: through repeated deliveries, two messages with the right    *)
(* code, retries, restarts, and a second process that takes over.  One     *)
(* whose credential wrong codes have locked is never carried out, not even *)
(* for a right code that was accepted before the last wrong one.           *)
IntentAuthorised ==
    \A c \in Starts :
      /\ Cardinality(sent[c]) <= 1
      /\ confs[c].attempts = MaxAttempts => sent[c] = {}
      /\ \A m \in sent[c] : /\ typed[m] = c
                            /\ Sender(m) = Sender(c)
                            /\ cmds[m].created_at < confs[c].expires_at

(* What the owner reads about a control command is what the device did:    *)
(* an outcome is the device's own, and a message told that nothing was     *)
(* done (missing, expired, wrong scope, interrupted) had nothing done on   *)
(* its behalf -- unless the recorded outcome of its confirmation was       *)
(* deleted because the confirmation's two minutes were over.               *)
ReplyIsTrue ==
    \A m \in Msgs :
      LET c == cmds[m].conf
      IN  c # 0 =>
            /\ told[m] = "outcome" => m \in sent[c]
            /\ /\ told[m] \in {"missing", "expired", "wrong_scope",
                                "interrupted"}
               /\ m \in sent[c]
               => confs[c].state = "deleted"

(* A settled command stays settled and keeps its one reply, whatever a     *)
(* repeated delivery, a recovery or a worker that lost its claim does.     *)
SettledForever ==
    [][\A m \in Msgs : cmds[m].status \in Final =>
         cmds'[m] = cmds[m] /\ told'[m] = told[m]]_vars

(* Every captured command is answered or expires: when no more messages    *)
(* come, in the end none is left in between.                               *)
CommandsSettle ==
    <>[](\A m \in Msgs : cmds[m].status \in {"absent"} \cup Final)
=============================================================================
