----------------------------- MODULE RelayOutbox -----------------------------
(***************************************************************************)
(* The durable notification outbox of the relay server                     *)
(* (apps/server/src/outbox): the rows of the SQLite table                  *)
(* notification_outbox, the ingress that stages them, the worker that      *)
(* claims, sends and settles them, the startup recovery of the claims a    *)
(* dead process left behind, the hook that releases blocked rows, the      *)
(* cancellation of the notices of a revoked result, and retention.         *)
(*                                                                         *)
(* One action is one SQL transaction or one hand-over between the worker   *)
(* and the channel, so everything the code may interleave is interleaved.  *)
(* A worker is the outbox worker of one server process on the database.    *)
(***************************************************************************)
EXTENDS Integers, Sequences, FiniteSets

CONSTANTS
    RowIds,              \* rows ever staged, in the order of staging
    Workers,             \* server processes, each with one outbox worker
    Tokens,              \* claim tokens
    Notifications,       \* what callers may submit
    None,                \* SQL NULL for a token, Rust None for a claim
    NetworkRetry,        \* NETWORK_RETRY_MS
    RateLimitRetry,      \* RATE_LIMIT_RETRY_MS
    ContextRetry,        \* the 30 s delay after a rejected context
    StaleClaim,          \* STALE_CLAIM_MS
    MaxTTL,              \* MAX_TTL_MS
    AdminTestTTL,        \* ADMIN_TEST_TTL_MS
    AcceptedRetention,   \* [retention] accepted_days
    DeadLetterRetention, \* [retention] dead_letter_days
    RetentionBatch,      \* RETENTION_BATCH
    MaxTime,             \* bound on the clock
    MaxAttempts          \* bound on attempt_count (the code has none)

VARIABLES
    now,        \* the wall clock, unix_timestamp_ms()
    rows,       \* the table, one record per row id
    acked,      \* notifications whose caller saw AcceptedNotification
    pc,         \* where each process stands
    passNow,    \* the `now` a worker pass read before it claimed
    claim,      \* the ClaimedNotification a worker holds
    outcome,    \* the ChannelOutcome a worker was handed
    stopping,   \* the cancellation token of each process
    delivered   \* rows whose message the provider has taken (history)

(* Row ids and claim tokens are fresh UUIDs, of which only the identity    *)
(* matters: the model hands out the smallest number that is free.          *)
ASSUME IdsAssumption ==
    /\ RowIds \subseteq Nat
    /\ Tokens \subseteq Nat
    /\ None \notin Tokens

ASSUME NotificationsAssumption ==
    \A n \in Notifications :
        /\ n.origin # "admin"
        /\ n.kind \in {"plain", "result_link"}
        /\ n.sensitive \in BOOLEAN
        /\ n.kind = "result_link" => ~n.sensitive
        /\ n.expires_at \in Nat

ASSUME TimesAssumption ==
    /\ {StaleClaim, ContextRetry, MaxTTL, AdminTestTTL, AcceptedRetention,
        DeadLetterRetention, MaxTime, MaxAttempts} \subseteq Nat
    /\ NetworkRetry \in Seq(Nat)
    /\ RateLimitRetry \in Seq(Nat)
    /\ AdminTestTTL > 0

workerVars == <<pc, passNow, claim, outcome, stopping>>
vars == <<now, rows, acked, workerVars, delivered>>

-----------------------------------------------------------------------------
(* The vocabulary of the table and of the channel.                         *)

NoTime == -1    \* SQL NULL for a timestamp

Kinds == {"plain", "result_link"}

Waiting == {"pending_channel", "retry_wait", "blocked_activation",
            "blocked_reconnect"}
Terminal == {"provider_accepted", "expired", "cancelled", "dead_letter"}
Status == Waiting \cup {"sending_channel"} \cup Terminal
            \cup {"absent", "deleted"}

ContextClasses == {"ContextChanged", "ContextRejected", "AmbiguousMinusTwo"}
Outcomes == {"Accepted", "Network", "RateLimited", "BlockedActivation",
             "BlockedReconnect", "BlockedTargetChanged", "PermanentFailure"}
              \cup ContextClasses

PcStates == {"down", "recovered", "idle", "swept", "claimed", "sending",
             "returned"}

(* The Admin test notification: a fresh identity that no other submission  *)
(* can collide with, highest priority, five minutes to live.               *)
AdminTest(r, at) ==
    [origin |-> "admin", notification_id |-> r, dedupe_key |-> r,
     payload |-> "test", kind |-> "plain", priority |-> 100,
     sensitive |-> FALSE, expires_at |-> at + AdminTestTTL]

Contents == Notifications
              \cup {AdminTest(r, at) : r \in RowIds, at \in 0..MaxTime}

(* A row.  `content` is what was staged; `redacted` says that the body     *)
(* column holds '[REDACTED]'.  created_at is not_before as well: both are  *)
(* bound to accepted_at.  A deleted row leaves its content as a tombstone. *)
RowType ==
    [status : Status, content : Contents \cup {None}, created_at : Nat,
     updated_at : Nat, next_attempt_at : Nat \cup {NoTime},
     attempt_count : Nat, claim_token : Tokens \cup {None},
     claimed_at : Nat \cup {NoTime}, redacted : BOOLEAN]

NoRow ==
    [status |-> "absent", content |-> None, created_at |-> 0,
     updated_at |-> 0, next_attempt_at |-> NoTime, attempt_count |-> 0,
     claim_token |-> None, claimed_at |-> NoTime, redacted |-> FALSE]

ClaimType ==
    [row : RowIds, token : Tokens, expires_at : Nat, attempt_count : Nat]

ASSUME NoneAssumption == None \notin ClaimType

Exists(r) == rows[r].status \notin {"absent", "deleted"}
ExpiresAt(r) == rows[r].content.expires_at
RowsIn(S) == {r \in RowIds : rows[r].status \in S}

(* Rewrite every row of S with Op, leave the others.                       *)
Rewrite(S, Op(_)) ==
    [r \in RowIds |-> IF r \in S THEN Op(rows[r]) ELSE rows[r]]

(* Mutant: the body is redacted only when the provider accepted it.        *)
SettledKeepingBody(row, status, next, at) ==
    [row EXCEPT !.status = status, !.next_attempt_at = next,
                !.claim_token = None, !.claimed_at = NoTime,
                !.updated_at = at,
                !.redacted = @ \/ (row.content.sensitive
                                    /\ status = "provider_accepted")]

(* A row that leaves sending_channel, or is settled where it waits.        *)
Settled(row, status, next, at) ==
    [row EXCEPT !.status = status, !.next_attempt_at = next,
                !.claim_token = None, !.claimed_at = NoTime,
                !.updated_at = at,
                !.redacted = @ \/ (row.content.sensitive
                                    /\ status \in Terminal)]

-----------------------------------------------------------------------------
(* Ingress: validate_notification and stage_origin_in.  accepted_at, here  *)
(* `at`, is read before the transaction waits for a connection and for the *)
(* write lock: it may be older than the commit by any time.                *)

(* Mutant: the thirty-day bound on the time to live is not checked.        *)
ValidUnbounded(n, at) == n.expires_at > at

Valid(n, at) == /\ n.expires_at > at
                /\ n.expires_at - at <= MaxTTL

(* What payload_hash covers: everything of the payload, not the identity   *)
(* (which is compared beside it) and not the sensitive flag.               *)
PayloadHash(n) == <<n.payload, n.kind, n.priority, n.expires_at>>

Collisions(n) ==
    {r \in RowIds :
        /\ Exists(r)
        /\ rows[r].content.origin = n.origin
        /\ \/ rows[r].content.notification_id = n.notification_id
           \/ rows[r].content.dedupe_key = n.dedupe_key}

(* Mutant: the payload hash is not compared.                               *)
SameIdentity(r, n) ==
    /\ rows[r].content.notification_id = n.notification_id
    /\ rows[r].content.dedupe_key = n.dedupe_key

SameSubmission(r, n) ==
    /\ rows[r].content.notification_id = n.notification_id
    /\ rows[r].content.dedupe_key = n.dedupe_key
    /\ PayloadHash(rows[r].content) = PayloadHash(n)

NewRow(n, at) ==
    [NoRow EXCEPT !.status = "pending_channel", !.content = n,
                  !.created_at = at, !.updated_at = at]

Insert(r, n, at) ==
    /\ rows[r].status = "absent"
    /\ \A s \in RowIds : s < r => rows[s].status # "absent"
    /\ n.expires_at <= MaxTime      \* the model's horizon
    /\ rows' = [rows EXCEPT ![r] = NewRow(n, at)]

(* A submission that is new: the row commits; the caller sees the answer   *)
(* or the connection is lost before it does.                               *)
Enqueue(r, n, at) ==
    /\ n.kind = "plain"
    /\ Valid(n, at)
    /\ Collisions(n) = {}
    /\ Insert(r, n, at)
    /\ acked' \in {acked, acked \cup {n}}
    /\ UNCHANGED <<now, workerVars, delivered>>

(* A retried submission whose row is still there: existing = true.  Any    *)
(* other collision is an IdempotencyConflict and changes nothing.          *)
EnqueueReplay(n, at) ==
    /\ n.kind = "plain"
    /\ Valid(n, at)
    /\ \E r \in RowIds : Collisions(n) = {r} /\ SameSubmission(r, n)
    /\ acked' = acked \cup {n}
    /\ UNCHANGED <<now, rows, workerVars, delivered>>

EnqueueAdminTest(r, at) ==
    /\ Insert(r, AdminTest(r, at), at)
    /\ UNCHANGED <<now, acked, workerVars, delivered>>

(* The notice of a result, inserted by the result service's transaction.   *)
StageNotice(r, n, at) ==
    /\ n.kind = "result_link"
    /\ n.expires_at > at
    /\ Collisions(n) = {}
    /\ Insert(r, n, at)
    /\ UNCHANGED <<now, acked, workerVars, delivered>>

-----------------------------------------------------------------------------
(* The worker of one server process.                                       *)

(* Mutant: every claim is recovered, however young.                        *)
RecoverAllClaims(t) ==
    [r \in RowIds |->
        IF rows[r].status # "sending_channel" THEN rows[r]
        ELSE IF ExpiresAt(r) <= t
               THEN Settled(rows[r], "expired", NoTime, t)
        ELSE Settled(rows[r], "retry_wait", t, t)]

(* recover_stale_claims_at: a claim whose row has expired is settled, a    *)
(* claim older than STALE_CLAIM_MS goes back to the queue, a younger one   *)
(* is left to the process that may still be sending it.                    *)
RecoverStaleClaims(t) ==
    [r \in RowIds |->
        IF rows[r].status # "sending_channel" THEN rows[r]
        ELSE IF ExpiresAt(r) <= t
               THEN Settled(rows[r], "expired", NoTime, t)
        ELSE IF rows[r].claimed_at < t - StaleClaim
               THEN Settled(rows[r], "retry_wait", t, t)
        ELSE rows[r]]

(* serve: recovery runs before the listeners are bound.                    *)
StartServer(w) ==
    /\ pc[w] = "down"
    /\ rows' = RecoverStaleClaims(now)
    /\ pc' = [pc EXCEPT ![w] = "recovered"]
    /\ UNCHANGED <<now, acked, passNow, claim, outcome, stopping, delivered>>

(* OutboxWorker::run recovers once more, then enters its loop.             *)
StartWorker(w) ==
    /\ pc[w] = "recovered"
    /\ rows' = RecoverStaleClaims(now)
    /\ pc' = [pc EXCEPT ![w] = "idle"]
    /\ UNCHANGED <<now, acked, passNow, claim, outcome, stopping, delivered>>

(* Mutant: rows that wait for the channel are not looked at.               *)
ExpireDueQueued(w) ==
    /\ pc[w] = "idle"
    /\ ~stopping[w]
    /\ rows' = Rewrite({r \in RowsIn({"pending_channel", "retry_wait"}) :
                          ExpiresAt(r) <= now},
                       LAMBDA row : Settled(row, "expired", NoTime, now))
    /\ passNow' = [passNow EXCEPT ![w] = now]
    /\ pc' = [pc EXCEPT ![w] = "swept"]
    /\ UNCHANGED <<now, acked, claim, outcome, stopping, delivered>>

(* A pass reads the clock and expires every waiting row that is due.       *)
ExpireDue(w) ==
    /\ pc[w] = "idle"
    /\ ~stopping[w]
    /\ rows' = Rewrite({r \in RowsIn(Waiting) : ExpiresAt(r) <= now},
                       LAMBDA row : Settled(row, "expired", NoTime, now))
    /\ passNow' = [passNow EXCEPT ![w] = now]
    /\ pc' = [pc EXCEPT ![w] = "swept"]
    /\ UNCHANGED <<now, acked, claim, outcome, stopping, delivered>>

DueAt(r) == IF rows[r].next_attempt_at # NoTime
              THEN rows[r].next_attempt_at ELSE rows[r].created_at

Due(t) ==
    {r \in RowsIn({"pending_channel", "retry_wait"}) :
        /\ DueAt(r) <= t
        /\ ExpiresAt(r) > t
        /\ rows[r].attempt_count < MaxAttempts}

(* ORDER BY priority DESC, COALESCE(next_attempt_at, not_before),          *)
(* created_at; what is left is decided by the random row id.               *)
Before(r, s) ==
    LET p == rows[r].content.priority
        q == rows[s].content.priority
    IN  \/ p > q
        \/ p = q /\ DueAt(r) < DueAt(s)
        \/ p = q /\ DueAt(r) = DueAt(s)
             /\ rows[r].created_at < rows[s].created_at

FreshTokens ==
    LET used == {rows[r].claim_token : r \in RowIds}
                  \cup {claim[w].token : w \in {v \in Workers :
                                                  claim[v] # None}}
    IN  {t \in Tokens \ used : \A u \in Tokens \ used : t <= u}

Claimed(row, token, at) ==
    [row EXCEPT !.status = "sending_channel", !.claim_token = token,
                !.claimed_at = at, !.attempt_count = @ + 1, !.updated_at = at]

ClaimNext(w) ==
    /\ pc[w] = "swept"
    /\ \E r \in Due(passNow[w]), t \in FreshTokens :
         /\ \A s \in Due(passNow[w]) : ~Before(s, r)
         /\ rows' = [rows EXCEPT ![r] = Claimed(@, t, passNow[w])]
         /\ claim' = [claim EXCEPT ![w] =
                       [row |-> r, token |-> t, expires_at |-> ExpiresAt(r),
                        attempt_count |-> rows[r].attempt_count + 1]]
    /\ pc' = [pc EXCEPT ![w] = "claimed"]
    /\ UNCHANGED <<now, acked, passNow, outcome, stopping, delivered>>

(* The end of a pass: the claim is gone whether or not its row was still   *)
(* this worker's to write.                                                 *)
EndPass(w) ==
    /\ pc' = [pc EXCEPT ![w] = "idle"]
    /\ passNow' = [passNow EXCEPT ![w] = 0]
    /\ claim' = [claim EXCEPT ![w] = None]
    /\ outcome' = [outcome EXCEPT ![w] = None]
    /\ UNCHANGED <<now, acked, stopping, delivered>>

(* WorkerPass::Idle.                                                       *)
NothingDue(w) ==
    /\ pc[w] = "swept"
    /\ Due(passNow[w]) = {}
    /\ UNCHANGED rows
    /\ EndPass(w)

(* The body is resolved: the text of a result link is decrypted now, and   *)
(* a revoked or expired page has none (the pass then settles the claim as  *)
(* PermanentFailure without calling the channel).                          *)
ResolveBody(w, available) ==
    /\ pc[w] = "claimed"
    /\ available \/ rows[claim[w].row].content.kind = "result_link"
    /\ IF available
         THEN /\ pc' = [pc EXCEPT ![w] = "sending"]
              /\ UNCHANGED outcome
         ELSE /\ pc' = [pc EXCEPT ![w] = "returned"]
              /\ outcome' = [outcome EXCEPT ![w] = "NoBody"]
    /\ UNCHANGED <<now, rows, acked, passNow, claim, stopping, delivered>>

(* EXTERNAL: the provider takes the message of a send in progress.         *)
Deliver(w) ==
    /\ pc[w] = "sending"
    /\ delivered' = delivered \cup {claim[w].row}
    /\ UNCHANGED <<now, rows, acked, workerVars>>

(* NotificationChannel::send returns.  Accepted is reported only of a      *)
(* message that was delivered; every failure may hide a delivery.          *)
ChannelReturns(w, o) ==
    /\ pc[w] = "sending"
    /\ o = "Accepted" => claim[w].row \in delivered
    /\ outcome' = [outcome EXCEPT ![w] = o]
    /\ pc' = [pc EXCEPT ![w] = "returned"]
    /\ UNCHANGED <<now, rows, acked, passNow, claim, stopping, delivered>>

RetryDelay(schedule, attempts) ==
    IF attempts \in 1..Len(schedule) THEN schedule[attempts] ELSE NoTime

(* failure_transition, the delay of its retry or NoTime for none.          *)
FailureDelay(o, attempts) ==
    CASE o = "Network" -> RetryDelay(NetworkRetry, attempts)
      [] o = "RateLimited" -> RetryDelay(RateLimitRetry, attempts)
      [] o = "ContextChanged" -> IF attempts <= 1 THEN 0 ELSE NoTime
      [] o \in {"ContextRejected", "AmbiguousMinusTwo"} ->
           IF attempts <= 1 THEN ContextRetry ELSE NoTime
      [] OTHER -> NoTime

FailureStatus(o, attempts) ==
    IF FailureDelay(o, attempts) # NoTime THEN "retry_wait"
    ELSE IF o \in ContextClasses \cup {"BlockedActivation"}
           THEN "blocked_activation"
    ELSE IF o = "BlockedReconnect" THEN "blocked_reconnect"
    ELSE "dead_letter"

(* Mutant: a retry is scheduled without looking at the expiry.             *)
FinishedPastExpiry(row, c, o, t) ==
    LET delay == FailureDelay(o, c.attempt_count)
    IN  IF o = "Accepted"
          THEN Settled(row, "provider_accepted", NoTime, t)
        ELSE IF t >= c.expires_at
          THEN Settled(row, "expired", NoTime, t)
        ELSE Settled(row, FailureStatus(o, c.attempt_count),
                     IF delay = NoTime THEN NoTime ELSE t + delay, t)

(* The row after finish_claim_at(claim, o, t) applies.                     *)
Finished(row, c, o, t) ==
    LET delay == FailureDelay(o, c.attempt_count)
    IN  IF o = "Accepted"
          THEN Settled(row, "provider_accepted", NoTime, t)
        ELSE IF t >= c.expires_at
                  \/ (delay # NoTime /\ t + delay >= c.expires_at)
          THEN Settled(row, "expired", NoTime, t)
        ELSE Settled(row, FailureStatus(o, c.attempt_count),
                     IF delay = NoTime THEN NoTime ELSE t + delay, t)

(* Mutant: completions are addressed by row id alone.                      *)
ClaimsRow(w) == claim[w] # None

OwnsClaim(w) ==
    /\ claim[w] # None
    /\ rows[claim[w].row].status = "sending_channel"
    /\ rows[claim[w].row].claim_token = claim[w].token

FinishClaim(w) ==
    /\ pc[w] = "returned"
    /\ LET c == claim[w]
           t == IF outcome[w] = "NoBody" THEN passNow[w] ELSE now
       IN  rows' = IF OwnsClaim(w)
                     THEN [rows EXCEPT ![c.row] =
                             Finished(@, c, outcome[w], t)]
                     ELSE rows
    /\ EndPass(w)

(* The row after release_claim_at(claim, t): the attempt is given back.    *)
Released(row, t) ==
    [(IF row.content.expires_at <= t
        THEN Settled(row, "expired", NoTime, t)
        ELSE Settled(row, "retry_wait", t, t))
     EXCEPT !.attempt_count = IF @ > 0 THEN @ - 1 ELSE 0]

(* Shutdown cancels a send in progress, or the channel reports Cancelled.  *)
ReleaseClaim(w) ==
    /\ pc[w] = "sending"
    /\ stopping[w]
    /\ rows' = IF OwnsClaim(w)
                 THEN [rows EXCEPT ![claim[w].row] = Released(@, now)]
                 ELSE rows
    /\ EndPass(w)

RequestStop(w) ==
    /\ pc[w] \notin {"down", "recovered"}
    /\ ~stopping[w]
    /\ stopping' = [stopping EXCEPT ![w] = TRUE]
    /\ UNCHANGED <<now, rows, acked, pc, passNow, claim, outcome, delivered>>

ProcessGone(w) ==
    /\ pc' = [pc EXCEPT ![w] = "down"]
    /\ passNow' = [passNow EXCEPT ![w] = 0]
    /\ claim' = [claim EXCEPT ![w] = None]
    /\ outcome' = [outcome EXCEPT ![w] = None]
    /\ stopping' = [stopping EXCEPT ![w] = FALSE]
    /\ UNCHANGED <<now, rows, acked, delivered>>

(* The loop sees the cancelled token between two passes.                   *)
Stop(w) ==
    /\ pc[w] = "idle"
    /\ stopping[w]
    /\ ProcessGone(w)

(* The process dies, or a database error ends the critical worker and with *)
(* it the server, at any point of a pass.                                  *)
Crash(w) ==
    /\ pc[w] # "down"
    /\ ProcessGone(w)

-----------------------------------------------------------------------------
(* The rest of the server.                                                 *)

(* unblock_at, run by the activation hook of the monitor.                  *)
Unblocked(row, at) ==
    [row EXCEPT !.status = "retry_wait", !.next_attempt_at = at,
                !.updated_at = at]

Unblock(status) ==
    /\ rows' = Rewrite({r \in RowsIn({status}) : ExpiresAt(r) > now},
                       LAMBDA row : Unblocked(row, now))
    /\ UNCHANGED <<now, acked, workerVars, delivered>>

Notices ==
    {r \in RowIds : Exists(r) /\ rows[r].content.kind = "result_link"}

(* admin_revoke cancels the notices of its result that nobody has claimed. *)
Cancelled(row, at) ==
    [row EXCEPT !.status = "cancelled", !.next_attempt_at = NoTime,
                !.updated_at = IF @ + 1 > at THEN @ + 1 ELSE at]

CancelNotices(S) ==
    /\ rows' = Rewrite(S \cap RowsIn(Waiting), LAMBDA row : Cancelled(row, now))
    /\ UNCHANGED <<now, acked, workerVars, delivered>>

(* delete_outbox_at: one batch of terminal rows past their retention, the  *)
(* oldest first; `kept` are the notices of pages that are still live.      *)
Deletable ==
    {r \in RowIds :
        \/ /\ rows[r].status \in {"provider_accepted", "cancelled", "expired"}
           /\ rows[r].updated_at < now - AcceptedRetention
        \/ /\ rows[r].status = "dead_letter"
           /\ rows[r].updated_at < now - DeadLetterRetention}

Tombstone(row) == [NoRow EXCEPT !.status = "deleted", !.content = row.content]

DeleteOutbox(kept) ==
    \E S \in SUBSET (Deletable \ kept) :
        /\ S # {}
        /\ \/ S = Deletable \ kept /\ Cardinality(S) <= RetentionBatch
           \/ Cardinality(S) = RetentionBatch
        /\ \A r \in S, s \in (Deletable \ kept) \ S :
              rows[r].updated_at <= rows[s].updated_at
        /\ rows' = Rewrite(S, Tombstone)
        /\ UNCHANGED <<now, acked, workerVars, delivered>>

Tick ==
    /\ now < MaxTime
    /\ now' = now + 1
    /\ UNCHANGED <<rows, acked, workerVars, delivered>>

-----------------------------------------------------------------------------
Init ==
    /\ now = 0
    /\ rows = [r \in RowIds |-> NoRow]
    /\ acked = {}
    /\ pc = [w \in Workers |-> "down"]
    /\ passNow = [w \in Workers |-> 0]
    /\ claim = [w \in Workers |-> None]
    /\ outcome = [w \in Workers |-> None]
    /\ stopping = [w \in Workers |-> FALSE]
    /\ delivered = {}

Ingress ==
    \E at \in 0..now :
        \/ \E r \in RowIds, n \in Notifications : Enqueue(r, n, at)
        \/ \E n \in Notifications : EnqueueReplay(n, at)
        \/ \E r \in RowIds : EnqueueAdminTest(r, at)
        \/ \E r \in RowIds, n \in Notifications : StageNotice(r, n, at)

(* One step of the worker loop of w.                                       *)
WorkerStep(w) ==
    \/ StartServer(w)
    \/ StartWorker(w)
    \/ ExpireDue(w)
    \/ ClaimNext(w)
    \/ NothingDue(w)
    \/ \E available \in BOOLEAN : ResolveBody(w, available)
    \/ \E o \in Outcomes : ChannelReturns(w, o)
    \/ FinishClaim(w)
    \/ ReleaseClaim(w)
    \/ Stop(w)

Next ==
    \/ Ingress
    \/ \E w \in Workers : WorkerStep(w)
    \/ \E w \in Workers : Deliver(w)
    \/ \E w \in Workers : RequestStop(w)
    \/ \E w \in Workers : Crash(w)
    \/ \E s \in {"blocked_activation", "blocked_reconnect"} : Unblock(s)
    \/ \E S \in SUBSET Notices : CancelNotices(S)
    \/ \E S \in SUBSET Notices : DeleteOutbox(S)
    \/ Tick

Spec == Init /\ [][Next]_vars

(* Time passes, and every process keeps taking the steps of its loop: the  *)
(* loop polls every IDLE_POLL, a send ends by its HTTP timeout, and the    *)
(* service manager restarts a server that went down.                       *)
Fairness ==
    /\ WF_vars(Tick)
    /\ \A w \in Workers : WF_vars(WorkerStep(w))

FairSpec == Spec /\ Fairness

-----------------------------------------------------------------------------
(* Properties.                                                             *)

(* The columns of a row, the claims of the workers and their loops have    *)
(* their types; a row that was ever staged keeps a known content, and a    *)
(* release never takes back more attempts than were counted.               *)
TypeOK ==
    /\ now \in 0..MaxTime
    /\ rows \in [RowIds -> RowType]
    /\ \A r \in RowIds : rows[r].status # "absent" => rows[r].content \in Contents
    /\ acked \in SUBSET Notifications
    /\ pc \in [Workers -> PcStates]
    /\ passNow \in [Workers -> 0..MaxTime]
    /\ claim \in [Workers -> ClaimType \cup {None}]
    /\ outcome \in [Workers -> Outcomes \cup {"NoBody", None}]
    /\ stopping \in [Workers -> BOOLEAN]
    /\ delivered \in SUBSET RowIds

(* A row is in sending_channel exactly while it carries a claim, a         *)
(* retry_wait row knows when to try again and that is before it expires,   *)
(* and the claim a worker still owns describes the row as it is.           *)
ClaimConsistent ==
    /\ \A r \in RowIds :
         /\ (rows[r].status = "sending_channel")
              <=> (rows[r].claim_token # None)
         /\ rows[r].status = "retry_wait" =>
              /\ rows[r].next_attempt_at # NoTime
              /\ rows[r].next_attempt_at < ExpiresAt(r)
    /\ \A w \in Workers : OwnsClaim(w) =>
         /\ claim[w].expires_at = ExpiresAt(claim[w].row)
         /\ claim[w].attempt_count = rows[claim[w].row].attempt_count

(* Two processes send the same row at once only when the earlier claim was *)
(* past STALE_CLAIM_MS, the lease that startup recovery grants it.         *)
ExclusiveWithinLease ==
    \A v, w \in Workers :
        /\ v # w
        /\ claim[v] # None /\ claim[w] # None
        /\ claim[v].row = claim[w].row
        => \/ passNow[v] < passNow[w] - StaleClaim
           \/ passNow[w] < passNow[v] - StaleClaim

(* The body of a sensitive row is gone once the row is terminal, and no    *)
(* body is redacted while the row may still have to be sent.               *)
RedactedWhenSettled ==
    \A r \in RowIds : Exists(r) =>
        (rows[r].redacted <=> /\ rows[r].content.sensitive
                              /\ rows[r].status \in Terminal)

(* provider_accepted is never claimed of a message the provider never got. *)
AcceptedWasDelivered ==
    \A r \in RowIds : rows[r].status = "provider_accepted" => r \in delivered

(* As long as a submission is valid it is stored once, however often it is *)
(* retried, and although retention removes its first row.  A retry that    *)
(* was checked in time and waited past its expires_at for the write lock   *)
(* may be stored again, as a row that is already due to expire.            *)
StoredOnce ==
    \A r, s \in RowIds :
        /\ r # s
        /\ rows[r].status # "absent" /\ rows[s].status # "absent"
        /\ rows[r].content.kind = "plain"
        /\ rows[r].content = rows[s].content
        => rows[r].content.expires_at < now

(* A caller that was told "accepted" has its own payload in the table (or  *)
(* had it there until retention removed it): a reused notification_id or   *)
(* dedupe_key is never answered with somebody else's row.                  *)
AckedIsStored ==
    \A n \in acked : \E r \in RowIds :
        /\ rows[r].status # "absent"
        /\ rows[r].content.origin = n.origin
        /\ rows[r].content.notification_id = n.notification_id
        /\ rows[r].content.payload = n.payload
        /\ rows[r].content.expires_at = n.expires_at

StaysUp == <>[](\A w \in Workers : pc[w] # "down" /\ ~stopping[w])

(* The claim of a process that died before it could finish or release it.  *)
Orphaned(r) ==
    /\ rows[r].status = "sending_channel"
    /\ \A w \in Workers :
          claim[w] # None => claim[w].token # rows[r].claim_token

(* Once the servers stay up, every stored row is settled: delivered,       *)
(* expired, cancelled or given up on, with crashes at any point of a pass. *)
(* The orphaned claim of a dead process, not stale at any later start, is  *)
(* the only way a row is left behind (worker.rs, recover_stale_claims).    *)
SettlesUnlessOrphaned ==
    StaysUp => \A r \in RowIds :
                  \/ Exists(r) ~> rows[r].status \in Terminal \cup {"deleted"}
                  \/ <>[]Orphaned(r)

(* A settled row never reopens: late completions, recoveries, unblocking   *)
(* and releases leave it alone; only retention removes it.                 *)
TerminalForever ==
    [][\A r \in RowIds :
         rows[r].status \in Terminal =>
            \/ rows'[r] = rows[r]
            \/ rows'[r].status = "deleted"]_vars

(* The outbox implements the life cycle of a delivery.                     *)
Lifecycle == INSTANCE DeliveryLifecycle
               WITH status <- [r \in RowIds |-> rows[r].status]

ImplementsLifecycle == Lifecycle!Spec

=============================================================================
