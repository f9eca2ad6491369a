-------------------------- MODULE RelayOutboxProofs --------------------------
(***************************************************************************)
(* Proofs about the relay outbox, for every value of the constants: first  *)
(* the operators and the types, then safety.  The argument for safety:     *)
(* whatever the interleaving, one step changes a row in one of five ways   *)
(* (RowStep); an invariant over single rows, over the claims the workers   *)
(* hold and over what the provider took is preserved by each.  The last    *)
(* two parts follow the times of the rows (TimeStep) as well: to the lease *)
(* of a claim, and to what retention may have removed.                     *)
(***************************************************************************)
EXTENDS RelayOutbox, TLAPS

-----------------------------------------------------------------------------
(* The operators the model is built from.                                  *)

(* Whatever is staged has an expiry, a sensitivity and a kind.             *)
LEMMA ContentFields ==
    \A c \in Contents : /\ c.expires_at \in Nat
                        /\ c.sensitive \in BOOLEAN
                        /\ c.kind \in Kinds
  <1> SUFFICES ASSUME NEW c \in Contents
               PROVE  /\ c.expires_at \in Nat
                      /\ c.sensitive \in BOOLEAN
                      /\ c.kind \in Kinds
    OBVIOUS
  <1>1. CASE c \in Notifications
    BY <1>1, NotificationsAssumption DEF Kinds
  <1>2. CASE c \in {AdminTest(r, at) : r \in RowIds, at \in 0..MaxTime}
    <2>1. PICK r \in RowIds, at \in 0..MaxTime : c = AdminTest(r, at)
      BY <1>2
    <2>2. at + AdminTestTTL \in Nat
      BY TimesAssumption
    <2> QED
      BY <2>1, <2>2 DEF AdminTest, Kinds
  <1> QED
    BY <1>1, <1>2 DEF Contents

(* Settling rewrites a row into a row and keeps its content.               *)
LEMMA SettledRow ==
    ASSUME NEW row \in RowType, NEW s \in Status,
           NEW next \in Nat \cup {NoTime}, NEW at \in Nat
    PROVE  /\ Settled(row, s, next, at) \in RowType
           /\ Settled(row, s, next, at).status = s
           /\ Settled(row, s, next, at).content = row.content
  BY DEF Settled, RowType

(* A retry delay is a natural number or "no retry".                        *)
LEMMA DelayType ==
    ASSUME NEW o, NEW a \in Nat
    PROVE  FailureDelay(o, a) \in Nat \cup {NoTime}
  <1>1. ASSUME NEW s \in Seq(Nat), NEW a2 \in Nat
        PROVE  RetryDelay(s, a2) \in Nat \cup {NoTime}
    <2>1. a2 \in 1..Len(s) => s[a2] \in Nat
      OBVIOUS
    <2> QED
      BY <2>1 DEF RetryDelay
  <1>2. ContextRetry \in Nat
    BY TimesAssumption
  <1>3. NetworkRetry \in Seq(Nat) /\ RateLimitRetry \in Seq(Nat)
    BY TimesAssumption
  <1> QED
    BY <1>1, <1>2, <1>3 DEF FailureDelay

(* A failure moves a row to a status that is not "absent".                 *)
LEMMA FailureStatusType ==
    ASSUME NEW o, NEW a
    PROVE  FailureStatus(o, a) \in Status \ {"absent"}
  BY DEF FailureStatus, Status, Waiting, Terminal

(* Finishing a claim rewrites its row into a row.                          *)
LEMMA FinishedRow ==
    ASSUME NEW row \in RowType, NEW c \in ClaimType, NEW o, NEW t \in Nat
    PROVE  /\ Finished(row, c, o, t) \in RowType
           /\ Finished(row, c, o, t).status # "absent"
           /\ Finished(row, c, o, t).content = row.content
  <1> DEFINE delay == FailureDelay(o, c.attempt_count)
  <1>1. delay \in Nat \cup {NoTime}
    BY DelayType DEF ClaimType
  <1>2. (IF delay = NoTime THEN NoTime ELSE t + delay) \in Nat \cup {NoTime}
    BY <1>1 DEF NoTime
  <1>3. {"provider_accepted", "expired"} \subseteq Status \ {"absent"}
    BY DEF Status, Terminal
  <1>4. FailureStatus(o, c.attempt_count) \in Status \ {"absent"}
    BY FailureStatusType
  <1>5. NoTime \in Nat \cup {NoTime}
    OBVIOUS
  <1> HIDE DEF delay
  <1>6. \A s \in Status \ {"absent"}, next \in Nat \cup {NoTime} :
          /\ Settled(row, s, next, t) \in RowType
          /\ Settled(row, s, next, t).status # "absent"
          /\ Settled(row, s, next, t).content = row.content
    BY SettledRow
  <1> QED
    BY <1>2, <1>3, <1>4, <1>5, <1>6 DEF Finished, delay

(* The other statements rewrite a row into a row and keep its content.     *)
LEMMA ClaimedRow ==
    ASSUME NEW row \in RowType, NEW t \in Tokens, NEW at \in Nat
    PROVE  /\ Claimed(row, t, at) \in RowType
           /\ Claimed(row, t, at).content = row.content
  <1>1. row.attempt_count + 1 \in Nat
    BY DEF RowType
  <1>2. "sending_channel" \in Status
    BY DEF Status
  <1> DEFINE n == row.attempt_count + 1
  <1> HIDE DEF n
  <1>3. Claimed(row, t, at)
          = [row EXCEPT !.status = "sending_channel", !.claim_token = t,
                        !.claimed_at = at, !.attempt_count = n,
                        !.updated_at = at]
    BY DEF Claimed, n
  <1>4. n \in Nat
    BY <1>1 DEF n
  <1> QED
    BY <1>2, <1>3, <1>4 DEF RowType

LEMMA UnblockedRow ==
    ASSUME NEW row \in RowType, NEW at \in Nat
    PROVE  /\ Unblocked(row, at) \in RowType
           /\ Unblocked(row, at).content = row.content
  BY DEF Unblocked, RowType, Status, Waiting

LEMMA CancelledRow ==
    ASSUME NEW row \in RowType, NEW at \in Nat
    PROVE  /\ Cancelled(row, at) \in RowType
           /\ Cancelled(row, at).content = row.content
  <1> DEFINE u == IF row.updated_at + 1 > at THEN row.updated_at + 1 ELSE at
  <1>1. u \in Nat
    BY DEF RowType
  <1>2. "cancelled" \in Status
    BY DEF Status, Terminal
  <1>3. Cancelled(row, at)
          = [row EXCEPT !.status = "cancelled", !.next_attempt_at = NoTime,
                        !.updated_at = u]
    BY DEF Cancelled
  <1> HIDE DEF u
  <1> QED
    BY <1>1, <1>2, <1>3 DEF RowType

LEMMA TombstoneRow ==
    ASSUME NEW row \in RowType
    PROVE  /\ Tombstone(row) \in RowType
           /\ Tombstone(row).content = row.content
  BY DEF Tombstone, RowType, NoRow, Status, NoTime

LEMMA ReleasedRow ==
    ASSUME NEW row \in RowType, NEW at \in Nat
    PROVE  /\ Released(row, at) \in RowType
           /\ Released(row, at).content = row.content
  <1>1. "expired" \in Status /\ "retry_wait" \in Status
    BY DEF Status, Waiting, Terminal
  <1>2. \A s \in Status, next \in Nat \cup {NoTime} :
          /\ Settled(row, s, next, at) \in RowType
          /\ Settled(row, s, next, at).content = row.content
    BY SettledRow
  <1> DEFINE new == IF row.content.expires_at <= at
                      THEN Settled(row, "expired", NoTime, at)
                      ELSE Settled(row, "retry_wait", at, at)
  <1>3. new \in RowType /\ new.content = row.content
    BY <1>1, <1>2
  <1>4. Released(row, at)
          = [new EXCEPT !.attempt_count = IF @ > 0 THEN @ - 1 ELSE 0]
    BY DEF Released
  <1> HIDE DEF new
  <1>5. (IF new.attempt_count > 0 THEN new.attempt_count - 1 ELSE 0) \in Nat
    BY <1>3 DEF RowType
  <1> QED
    BY <1>3, <1>4, <1>5 DEF RowType

-----------------------------------------------------------------------------
(* Type correctness.                                                       *)

(* A worker holds a claim from claiming to the end of its pass.            *)
WorkerOK ==
    \A w \in Workers : pc[w] \in {"claimed", "sending", "returned"}
                         => claim[w] \in ClaimType

TypeInv == TypeOK /\ WorkerOK

(* The rows alone: what every statement on the table must preserve.        *)
RowsOK(t) ==
    /\ t \in [RowIds -> RowType]
    /\ \A r \in RowIds : t[r].status # "absent" => t[r].content \in Contents

(* Startup recovery rewrites rows into rows.                               *)
LEMMA RecoverOK ==
    ASSUME RowsOK(rows), NEW t \in Nat
    PROVE  RowsOK(RecoverStaleClaims(t))
  <1>1. \A r \in RowIds :
          /\ Settled(rows[r], "expired", NoTime, t) \in RowType
          /\ Settled(rows[r], "expired", NoTime, t).content = rows[r].content
          /\ Settled(rows[r], "retry_wait", t, t) \in RowType
          /\ Settled(rows[r], "retry_wait", t, t).content = rows[r].content
    <2> TAKE r \in RowIds
    <2>1. rows[r] \in RowType
      BY DEF RowsOK
    <2>2. "expired" \in Status /\ "retry_wait" \in Status
      BY DEF Status, Waiting, Terminal
    <2>3. NoTime \in Nat \cup {NoTime} /\ t \in Nat \cup {NoTime}
      OBVIOUS
    <2>4. \A s \in Status, next \in Nat \cup {NoTime} :
            /\ Settled(rows[r], s, next, t) \in RowType
            /\ Settled(rows[r], s, next, t).content = rows[r].content
      BY <2>1, SettledRow
    <2> QED
      BY <2>2, <2>3, <2>4
  <1> QED
    BY <1>1 DEF RowsOK, RecoverStaleClaims

(* A staged row is a row.                                                  *)
LEMMA NewRowType ==
    ASSUME NEW n \in Contents, NEW at \in Nat
    PROVE  /\ NewRow(n, at) \in RowType
           /\ NewRow(n, at).content = n
           /\ NewRow(n, at).status = "pending_channel"
  BY DEF NewRow, NoRow, RowType, Status, Waiting, NoTime

(* A row settled at a legal time stays a row.                              *)
LEMMA SettledAny ==
    ASSUME RowsOK(rows), NEW t \in Nat
    PROVE  \A r \in RowIds, s \in Status, next \in Nat \cup {NoTime} :
             /\ Settled(rows[r], s, next, t) \in RowType
             /\ Settled(rows[r], s, next, t).status = s
             /\ Settled(rows[r], s, next, t).content = rows[r].content
  BY SettledRow DEF RowsOK

(* The worker's bookkeeping at the end of a pass, or of the process.       *)
LEMMA EndPassOK ==
    ASSUME TypeInv, NEW w \in Workers, EndPass(w) \/ ProcessGone(w)
    PROVE  /\ now' \in 0..MaxTime /\ acked' \in SUBSET Notifications
           /\ pc' \in [Workers -> PcStates]
           /\ passNow' \in [Workers -> 0..MaxTime]
           /\ claim' \in [Workers -> ClaimType \cup {None}]
           /\ outcome' \in [Workers -> Outcomes \cup {"NoBody", None}]
           /\ stopping' \in [Workers -> BOOLEAN]
           /\ delivered' \in SUBSET RowIds
           /\ WorkerOK'
  <1>1. 0 \in 0..MaxTime
    BY TimesAssumption
  <1> QED
    BY <1>1 DEF EndPass, ProcessGone, TypeInv, TypeOK, WorkerOK, PcStates

(* Nothing but rows changes when one statement runs outside the worker.    *)
LEMMA TableStepOK ==
    ASSUME TypeInv, RowsOK(rows'),
           UNCHANGED <<now, acked, workerVars, delivered>>
    PROVE  TypeInv'
  BY DEF TypeInv, TypeOK, WorkerOK, RowsOK, workerVars

LEMMA IngressType ==
    ASSUME TypeInv, Ingress
    PROVE  TypeInv'
  <1>1. /\ RowsOK(rows) /\ now \in Nat /\ now \in 0..MaxTime
    BY TimesAssumption DEF TypeInv, TypeOK, RowsOK
  <1>2. \A r \in RowIds, n \in Contents, at \in Nat :
          Insert(r, n, at) => RowsOK(rows')
    BY <1>1, NewRowType DEF Insert, RowsOK
  <1>7. PICK at \in 0..now :
          \/ \E r \in RowIds, n \in Notifications : Enqueue(r, n, at)
          \/ \E n \in Notifications : EnqueueReplay(n, at)
          \/ \E r \in RowIds : EnqueueAdminTest(r, at)
          \/ \E r \in RowIds, n \in Notifications : StageNotice(r, n, at)
    BY DEF Ingress
  <1>8. at \in Nat /\ at \in 0..MaxTime
    BY <1>1, TimesAssumption
  <1>3. ASSUME NEW r \in RowIds, NEW n \in Notifications, Enqueue(r, n, at)
        PROVE  TypeInv'
    <2>1. RowsOK(rows')
      BY <1>2, <1>3, <1>8 DEF Enqueue, Contents
    <2> QED
      BY <1>3, <2>1 DEF Enqueue, TypeInv, TypeOK, WorkerOK, RowsOK, workerVars
  <1>4. ASSUME NEW n \in Notifications, EnqueueReplay(n, at)
        PROVE  TypeInv'
    BY <1>4 DEF EnqueueReplay, TypeInv, TypeOK, WorkerOK, workerVars
  <1>5. ASSUME NEW r \in RowIds, EnqueueAdminTest(r, at)
        PROVE  TypeInv'
    <2>1. AdminTest(r, at) \in Contents
      BY <1>8 DEF Contents
    <2> QED
      BY <1>2, <1>5, <1>8, <2>1, TableStepOK DEF EnqueueAdminTest
  <1>6. ASSUME NEW r \in RowIds, NEW n \in Notifications, StageNotice(r, n, at)
        PROVE  TypeInv'
    BY <1>2, <1>6, <1>8, TableStepOK DEF StageNotice, Contents
  <1> QED
    BY <1>3, <1>4, <1>5, <1>6, <1>7

LEMMA WorkerType ==
    ASSUME TypeInv, NEW w \in Workers, WorkerStep(w)
    PROVE  TypeInv'
  <1>1. /\ RowsOK(rows) /\ now \in Nat /\ now \in 0..MaxTime
        /\ passNow[w] \in Nat /\ passNow[w] \in 0..MaxTime
    BY TimesAssumption DEF TypeInv, TypeOK, RowsOK
  <1>2. "expired" \in Status /\ NoTime \in Nat \cup {NoTime}
    BY DEF Status, Waiting, Terminal
  <1>3. CASE StartServer(w) \/ StartWorker(w)
    <2>1. RowsOK(rows')
      BY <1>1, <1>3, RecoverOK DEF StartServer, StartWorker
    <2> QED
      BY <1>3, <2>1 DEF StartServer, StartWorker, TypeInv, TypeOK, WorkerOK,
                        RowsOK, PcStates
  <1>4. CASE ExpireDue(w)
    <2>1. \A r \in RowIds :
            /\ Settled(rows[r], "expired", NoTime, now) \in RowType
            /\ Settled(rows[r], "expired", NoTime, now).content
                 = rows[r].content
      BY <1>1, <1>2, SettledAny
    <2>2. RowsOK(rows')
      BY <1>1, <1>4, <2>1 DEF ExpireDue, Rewrite, RowsOK, RowsIn, Waiting
    <2> QED
      BY <1>1, <1>4, <2>2 DEF ExpireDue, TypeInv, TypeOK, WorkerOK, RowsOK,
                              PcStates
  <1>5. CASE ClaimNext(w)
    <2>1. PICK r \in Due(passNow[w]), t \in FreshTokens :
            /\ rows' = [rows EXCEPT ![r] = Claimed(@, t, passNow[w])]
            /\ claim' = [claim EXCEPT ![w] =
                          [row |-> r, token |-> t,
                           expires_at |-> ExpiresAt(r),
                           attempt_count |-> rows[r].attempt_count + 1]]
      BY <1>5 DEF ClaimNext
    <2>2. /\ r \in RowIds /\ t \in Tokens /\ rows[r] \in RowType
          /\ rows[r].status # "absent" /\ rows[r].content \in Contents
      BY <1>1 DEF Due, RowsIn, FreshTokens, RowsOK
    <2>3. ExpiresAt(r) \in Nat /\ rows[r].attempt_count + 1 \in Nat
      BY <2>2, ContentFields DEF ExpiresAt, RowType
    <2>4. RowsOK(rows')
      BY <1>1, <2>1, <2>2, <2>3, ClaimedRow DEF RowsOK
    <2> QED
      BY <1>5, <2>1, <2>2, <2>3, <2>4
         DEF ClaimNext, TypeInv, TypeOK, WorkerOK, RowsOK, ClaimType, PcStates
  <1>6. CASE NothingDue(w) \/ Stop(w)
    <2>1. rows' = rows /\ (EndPass(w) \/ ProcessGone(w))
      BY <1>6 DEF NothingDue, Stop, ProcessGone
    <2> QED
      BY <1>1, <2>1, EndPassOK DEF TypeInv, TypeOK, RowsOK
  <1>7. ASSUME NEW available \in BOOLEAN, ResolveBody(w, available)
        PROVE  TypeInv'
    BY <1>7 DEF ResolveBody, TypeInv, TypeOK, WorkerOK, PcStates
  <1>8. ASSUME NEW o \in Outcomes, ChannelReturns(w, o)
        PROVE  TypeInv'
    BY <1>8 DEF ChannelReturns, TypeInv, TypeOK, WorkerOK, PcStates
  <1>9. CASE FinishClaim(w)
    <2> DEFINE t == IF outcome[w] = "NoBody" THEN passNow[w] ELSE now
    <2>1. claim[w] \in ClaimType /\ claim[w].row \in RowIds /\ t \in Nat
      BY <1>1, <1>9 DEF FinishClaim, TypeInv, WorkerOK, ClaimType
    <2> DEFINE row == rows[claim[w].row]
    <2>2. row \in RowType
      BY <1>1, <2>1 DEF RowsOK
    <2>3. /\ Finished(row, claim[w], outcome[w], t) \in RowType
          /\ Finished(row, claim[w], outcome[w], t).content = row.content
      BY <2>1, <2>2, FinishedRow
    <2>4. OwnsClaim(w) => row.content \in Contents
      BY <1>1, <2>1 DEF OwnsClaim, RowsOK
    <2>5. rows' = IF OwnsClaim(w)
                    THEN [rows EXCEPT ![claim[w].row] =
                            Finished(@, claim[w], outcome[w], t)]
                    ELSE rows
      BY <1>9 DEF FinishClaim
    <2>6. RowsOK(rows')
      BY <1>1, <2>1, <2>3, <2>4, <2>5 DEF RowsOK
    <2>7. EndPass(w)
      BY <1>9 DEF FinishClaim
    <2> QED
      BY <2>6, <2>7, EndPassOK DEF TypeInv, TypeOK, RowsOK
  <1>10. CASE ReleaseClaim(w)
    <2>1. claim[w] \in ClaimType /\ claim[w].row \in RowIds
      BY <1>10 DEF ReleaseClaim, TypeInv, WorkerOK, ClaimType
    <2> DEFINE row == rows[claim[w].row]
    <2>2. row \in RowType
      BY <1>1, <2>1 DEF RowsOK
    <2>5. /\ Released(row, now) \in RowType
          /\ Released(row, now).content = row.content
      BY <1>1, <2>2, ReleasedRow
    <2>6. OwnsClaim(w) => row.content \in Contents
      BY <1>1, <2>1 DEF OwnsClaim, RowsOK
    <2>7. RowsOK(rows')
      BY <1>1, <1>10, <2>1, <2>5, <2>6 DEF ReleaseClaim, RowsOK
    <2>8. EndPass(w)
      BY <1>10 DEF ReleaseClaim
    <2> QED
      BY <2>7, <2>8, EndPassOK DEF TypeInv, TypeOK, RowsOK
  <1> QED
    BY <1>3, <1>4, <1>5, <1>6, <1>7, <1>8, <1>9, <1>10 DEF WorkerStep

LEMMA EnvironmentType ==
    ASSUME TypeInv,
           \/ \E w \in Workers : Deliver(w) \/ RequestStop(w) \/ Crash(w)
           \/ \E s \in {"blocked_activation", "blocked_reconnect"} : Unblock(s)
           \/ \E S \in SUBSET RowIds : CancelNotices(S) \/ DeleteOutbox(S)
           \/ Tick
    PROVE  TypeInv'
  <1>1. /\ RowsOK(rows) /\ now \in Nat /\ MaxTime \in Nat
    BY TimesAssumption DEF TypeInv, TypeOK, RowsOK
  <1>2. ASSUME NEW w \in Workers, Deliver(w) \/ RequestStop(w)
        PROVE  TypeInv'
    BY <1>2 DEF Deliver, RequestStop, TypeInv, TypeOK, WorkerOK, ClaimType,
                workerVars
  <1>3. ASSUME NEW w \in Workers, Crash(w)
        PROVE  TypeInv'
    BY <1>1, <1>3, EndPassOK DEF Crash, ProcessGone, TypeInv, TypeOK, RowsOK
  <1>4. ASSUME NEW s \in {"blocked_activation", "blocked_reconnect"},
               Unblock(s)
        PROVE  TypeInv'
    <2>1. RowsOK(rows')
      BY <1>1, <1>4, UnblockedRow DEF Unblock, Rewrite, RowsIn, RowsOK
    <2> QED
      BY <1>4, <2>1, TableStepOK DEF Unblock
  <1>5. ASSUME NEW S \in SUBSET RowIds, CancelNotices(S)
        PROVE  TypeInv'
    <2>1. RowsOK(rows')
      BY <1>1, <1>5, CancelledRow
         DEF CancelNotices, Rewrite, RowsIn, RowsOK, Waiting
    <2> QED
      BY <1>5, <2>1, TableStepOK DEF CancelNotices
  <1>6. ASSUME NEW K \in SUBSET RowIds, DeleteOutbox(K)
        PROVE  TypeInv'
    <2>1. PICK S \in SUBSET (Deletable \ K) :
            rows' = Rewrite(S, Tombstone)
      BY <1>6 DEF DeleteOutbox
    <2>3. \A r \in S : r \in RowIds /\ rows[r].content \in Contents
      BY <1>1 DEF Deletable, RowsOK
    <2>4. RowsOK(rows')
      BY <1>1, <2>1, <2>3, TombstoneRow DEF RowsOK, Rewrite
    <2> QED
      BY <1>6, <2>4, TableStepOK DEF DeleteOutbox
  <1>7. ASSUME Tick
        PROVE  TypeInv'
    BY <1>1, <1>7 DEF Tick, TypeInv, TypeOK, WorkerOK, workerVars
  <1> QED
    BY <1>2, <1>3, <1>4, <1>5, <1>6, <1>7

(* The inductive step.                                                     *)
LEMMA TypeStep ==
    ASSUME TypeInv, [Next]_vars
    PROVE  TypeInv'
  <1>1. CASE UNCHANGED vars
    BY <1>1 DEF vars, workerVars, TypeInv, TypeOK, WorkerOK
  <1>2. CASE Next
    BY <1>2, IngressType, WorkerType, EnvironmentType DEF Next, Notices
  <1> QED
    BY <1>1, <1>2

(* Every reachable state of the outbox is well typed, whatever the rows,   *)
(* workers, schedules and retention periods are.                           *)
THEOREM TypeCorrect == Spec => []TypeOK
  <1>1. Init => TypeInv
    BY TimesAssumption DEF Init, TypeInv, TypeOK, WorkerOK, NoRow, RowType,
                           Status, PcStates, NoTime
  <1>2. TypeInv /\ [Next]_vars => TypeInv'
    BY TypeStep
  <1>3. TypeInv => TypeOK
    BY DEF TypeInv
  <1> QED
    BY <1>1, <1>2, <1>3, PTL DEF Spec

-----------------------------------------------------------------------------
(* The inductive invariant.                                                *)

(* One row: a claim token exactly while it is being sent, a retry before   *)
(* the expiry, a redacted body exactly when it is settled and sensitive.   *)
RowInv(row) ==
    /\ (row.status = "sending_channel") <=> (row.claim_token # None)
    /\ row.status = "retry_wait" =>
         /\ row.next_attempt_at # NoTime
         /\ row.next_attempt_at < row.content.expires_at
    /\ row.status \notin {"absent", "deleted"} =>
         (row.redacted <=> row.content.sensitive /\ row.status \in Terminal)
    /\ row.status = "absent" => ~row.redacted

(* The claim of a worker: its row was staged, the claim describes the row  *)
(* as long as the row carries its token, and the outcome Accepted is held  *)
(* only of a row the provider took.                                        *)
ClaimInv(w) ==
    /\ claim[w] # None => rows[claim[w].row].status # "absent"
    /\ OwnsClaim(w) =>
         /\ claim[w].expires_at = ExpiresAt(claim[w].row)
         /\ claim[w].attempt_count = rows[claim[w].row].attempt_count
    /\ pc[w] = "returned" /\ outcome[w] = "Accepted"
         => claim[w].row \in delivered

SafeInv ==
    /\ TypeInv
    /\ \A r \in RowIds : RowInv(rows[r])
    /\ \A w \in Workers : ClaimInv(w)
    /\ AcceptedWasDelivered

-----------------------------------------------------------------------------
(* What one step may do to one row.                                        *)

Stages(row, new) ==
    /\ row.status = "absent"
    /\ new.status = "pending_channel"
    /\ new.claim_token = None
    /\ ~new.redacted

Claims(row, new) ==
    /\ row.status \in {"pending_channel", "retry_wait"}
    /\ new.status = "sending_channel"
    /\ new.claim_token \in FreshTokens
    /\ new.content = row.content
    /\ new.redacted = row.redacted

(* A row leaves the queue or the channel.                                  *)
Leaves(row, new) ==
    /\ row.status \in Waiting \cup {"sending_channel"}
    /\ \/ Lifecycle!can_transition_to(row.status, new.status)
       \/ Lifecycle!Released(row.status, new.status)
    /\ new.status # "sending_channel"
    /\ new.claim_token = None
    /\ new.content = row.content
    /\ new.redacted <=> \/ row.redacted
                        \/ row.content.sensitive /\ new.status \in Terminal
    /\ new.status = "retry_wait" =>
         /\ new.next_attempt_at # NoTime
         /\ new.next_attempt_at < row.content.expires_at

Removes(row, new) ==
    /\ row.status \in Terminal
    /\ new.status = "deleted"
    /\ new.claim_token = None
    /\ new.content = row.content

RowStep(row, new) ==
    \/ new = row
    \/ Stages(row, new)
    \/ Claims(row, new)
    \/ Leaves(row, new)
    \/ Removes(row, new)

-----------------------------------------------------------------------------
(* The rewrites of a row are such steps.                                   *)

LEMMA SettledFields ==
    ASSUME NEW row \in RowType, NEW s, NEW next, NEW at
    PROVE  /\ Settled(row, s, next, at).status = s
           /\ Settled(row, s, next, at).next_attempt_at = next
           /\ Settled(row, s, next, at).claim_token = None
           /\ Settled(row, s, next, at).content = row.content
           /\ Settled(row, s, next, at).attempt_count = row.attempt_count
           /\ Settled(row, s, next, at).redacted
                <=> (row.redacted \/ (row.content.sensitive /\ s \in Terminal))
  BY DEF Settled, RowType

(* A waiting or sending row may expire at any time.                        *)
LEMMA ExpiresStep ==
    ASSUME NEW row \in RowType, NEW at,
           row.status \in Waiting \cup {"sending_channel"}
    PROVE  Leaves(row, Settled(row, "expired", NoTime, at))
  <1> DEFINE new == Settled(row, "expired", NoTime, at)
  <1>1. /\ new.status = "expired" /\ new.claim_token = None
        /\ new.content = row.content
        /\ new.redacted <=> (row.redacted \/ row.content.sensitive)
    BY SettledFields DEF Terminal
  <1> HIDE DEF new
  <1>2. Lifecycle!can_transition_to(row.status, new.status)
    BY <1>1 DEF Waiting, Lifecycle!can_transition_to, Lifecycle!is_terminal
  <1> QED
    BY <1>1, <1>2 DEF Leaves, new, Terminal

(* A row that is being sent may go back to the queue before it expires.    *)
LEMMA RequeueStep ==
    ASSUME NEW row \in RowType, NEW next \in Nat, NEW at,
           row.status = "sending_channel",
           next < row.content.expires_at
    PROVE  Leaves(row, Settled(row, "retry_wait", next, at))
  <1> DEFINE new == Settled(row, "retry_wait", next, at)
  <1>1. /\ new.status = "retry_wait" /\ new.claim_token = None
        /\ new.content = row.content /\ new.next_attempt_at = next
        /\ new.redacted <=> row.redacted
    BY SettledFields DEF Terminal
  <1> HIDE DEF new
  <1>2. Lifecycle!can_transition_to(row.status, new.status)
    BY <1>1 DEF Lifecycle!can_transition_to, Lifecycle!is_terminal
  <1>3. next # NoTime
    BY DEF NoTime
  <1> QED
    BY <1>1, <1>2, <1>3 DEF Leaves, new, Terminal

(* A finished claim leaves the channel, and is accepted only on Accepted.  *)
LEMMA FinishedStep ==
    ASSUME NEW row \in RowType, NEW c \in ClaimType, NEW o, NEW t \in Nat,
           row.status = "sending_channel",
           c.expires_at = row.content.expires_at
    PROVE  /\ Leaves(row, Finished(row, c, o, t))
           /\ Finished(row, c, o, t).status = "provider_accepted"
                => o = "Accepted"
  <1> DEFINE delay == FailureDelay(o, c.attempt_count)
             stat == FailureStatus(o, c.attempt_count)
             next == IF delay = NoTime THEN NoTime ELSE t + delay
  <1>1. delay \in Nat \cup {NoTime}
    BY DelayType DEF ClaimType
  <1>2. /\ stat \in {"retry_wait", "blocked_activation", "blocked_reconnect",
                     "dead_letter"}
        /\ stat = "retry_wait" => delay # NoTime
    BY DEF FailureStatus
  <1>3. CASE o = "Accepted"
    <2>1. Finished(row, c, o, t) = Settled(row, "provider_accepted", NoTime, t)
      BY <1>3 DEF Finished
    <2> DEFINE new == Settled(row, "provider_accepted", NoTime, t)
    <2>2. /\ new.status = "provider_accepted" /\ new.claim_token = None
          /\ new.content = row.content
          /\ new.redacted <=> (row.redacted \/ row.content.sensitive)
      BY SettledFields DEF Terminal
    <2> HIDE DEF new
    <2>3. Lifecycle!can_transition_to(row.status, new.status)
      BY <2>2 DEF Lifecycle!can_transition_to, Lifecycle!is_terminal
    <2>4. Leaves(row, new)
      BY <2>2, <2>3 DEF Leaves, Terminal
    <2> QED
      BY <1>3, <2>1, <2>4 DEF new
  <1>4. CASE /\ o # "Accepted"
             /\ \/ t >= c.expires_at
                \/ delay # NoTime /\ t + delay >= c.expires_at
    <2>1. Finished(row, c, o, t) = Settled(row, "expired", NoTime, t)
      BY <1>4 DEF Finished
    <2>2. Settled(row, "expired", NoTime, t).status = "expired"
      BY SettledFields
    <2> QED
      BY <2>1, <2>2, ExpiresStep
  <1>5. CASE /\ o # "Accepted"
             /\ ~(\/ t >= c.expires_at
                  \/ delay # NoTime /\ t + delay >= c.expires_at)
    <2>1. Finished(row, c, o, t) = Settled(row, stat, next, t)
      BY <1>5 DEF Finished
    <2>2. stat = "retry_wait" => next \in Nat /\ next < row.content.expires_at
      <3>1. c.expires_at \in Nat
        BY DEF ClaimType
      <3> QED
        BY <1>1, <1>2, <1>5, <3>1 DEF NoTime
    <2> HIDE DEF stat, next, delay
    <2>3. stat = "retry_wait" => next # NoTime
      BY <2>2 DEF NoTime
    <2> DEFINE new == Settled(row, stat, next, t)
    <2>4. /\ new.status = stat /\ new.claim_token = None
          /\ new.content = row.content /\ new.next_attempt_at = next
          /\ new.redacted <=> \/ row.redacted
                              \/ row.content.sensitive /\ stat \in Terminal
      BY SettledFields
    <2> HIDE DEF new
    <2>5. Lifecycle!can_transition_to(row.status, new.status)
      BY <1>2, <2>4 DEF Lifecycle!can_transition_to, Lifecycle!is_terminal
    <2>6. Leaves(row, new) /\ new.status # "provider_accepted"
      BY <1>2, <2>2, <2>3, <2>4, <2>5 DEF Leaves
    <2> QED
      BY <2>1, <2>6 DEF new
  <1> QED
    BY <1>3, <1>4, <1>5

LEMMA ReleasedStep ==
    ASSUME NEW row \in RowType, NEW t \in Nat,
           row.content \in Contents,
           row.status = "sending_channel"
    PROVE  Leaves(row, Released(row, t))
  <1> DEFINE base == IF row.content.expires_at <= t
                       THEN Settled(row, "expired", NoTime, t)
                       ELSE Settled(row, "retry_wait", t, t)
  <1>1. row.content.expires_at \in Nat
    BY ContentFields
  <1>2. Leaves(row, base)
    BY <1>1, ExpiresStep, RequeueStep
  <1>3. base \in RowType
    BY SettledRow DEF Status, Waiting, Terminal
  <1>4. Released(row, t)
          = [base EXCEPT !.attempt_count = IF @ > 0 THEN @ - 1 ELSE 0]
    BY DEF Released
  <1> HIDE DEF base
  <1>5. /\ Released(row, t).status = base.status
        /\ Released(row, t).claim_token = base.claim_token
        /\ Released(row, t).content = base.content
        /\ Released(row, t).redacted = base.redacted
        /\ Released(row, t).next_attempt_at = base.next_attempt_at
    BY <1>3, <1>4 DEF RowType
  <1> QED
    BY <1>2, <1>5 DEF Leaves

LEMMA CancelledStep ==
    ASSUME NEW row \in RowType, NEW at \in Nat, RowInv(row),
           row.content \in Contents, row.content.kind = "result_link",
           row.status \in Waiting
    PROVE  Leaves(row, Cancelled(row, at))
  <1> DEFINE new == Cancelled(row, at)
  <1>1. ~row.content.sensitive
    BY NotificationsAssumption DEF Contents, AdminTest
  <1>2. /\ new.status = "cancelled" /\ new.claim_token = row.claim_token
        /\ new.content = row.content /\ new.redacted = row.redacted
    BY DEF Cancelled, RowType
  <1> HIDE DEF new
  <1>3. row.claim_token = None
    BY DEF RowInv, Waiting
  <1>4. Lifecycle!can_transition_to(row.status, new.status)
    BY <1>2 DEF Waiting, Lifecycle!can_transition_to, Lifecycle!is_terminal
  <1> QED
    BY <1>1, <1>2, <1>3, <1>4 DEF Leaves, new

LEMMA UnblockedStep ==
    ASSUME NEW row \in RowType, NEW at \in Nat, RowInv(row),
           row.status \in {"blocked_activation", "blocked_reconnect"},
           row.content.expires_at > at, row.content \in Contents
    PROVE  Leaves(row, Unblocked(row, at))
  <1> DEFINE new == Unblocked(row, at)
  <1>1. /\ new.status = "retry_wait" /\ new.claim_token = row.claim_token
        /\ new.content = row.content /\ new.redacted = row.redacted
        /\ new.next_attempt_at = at
    BY DEF Unblocked, RowType
  <1> HIDE DEF new
  <1>2. row.claim_token = None
    BY DEF RowInv
  <1>3. at # NoTime /\ at < row.content.expires_at
    <2>1. row.content.expires_at \in Nat
      BY ContentFields
    <2> QED
      BY <2>1 DEF NoTime
  <1>4. Lifecycle!Released(row.status, new.status)
    BY <1>1 DEF Lifecycle!Released
  <1> QED
    BY <1>1, <1>2, <1>3, <1>4 DEF Leaves, Waiting, Terminal, new

-----------------------------------------------------------------------------
(* Every step of the outbox changes every row in one of the five ways, and *)
(* a row becomes provider_accepted only if the provider took it.           *)
RowsStep ==
    \A r \in RowIds :
        /\ RowStep(rows[r], rows'[r])
        /\ rows'[r].status = "provider_accepted"
             => rows[r].status = "provider_accepted" \/ r \in delivered

LEMMA IngressRows ==
    ASSUME SafeInv, Ingress
    PROVE  RowsStep
  <1>1. now \in Nat /\ rows \in [RowIds -> RowType]
    BY TimesAssumption DEF SafeInv, TypeInv, TypeOK
  <1>2. \A r \in RowIds : \A n, at : Insert(r, n, at) => RowsStep
    <2> SUFFICES ASSUME NEW r \in RowIds, NEW n, NEW at, Insert(r, n, at)
                 PROVE  RowsStep
      OBVIOUS
    <2>1. /\ NewRow(n, at).status = "pending_channel"
          /\ NewRow(n, at).claim_token = None
          /\ NewRow(n, at).redacted = FALSE
      BY DEF NewRow, NoRow
    <2>2. Stages(rows[r], NewRow(n, at))
      BY <2>1 DEF Stages, Insert
    <2> QED
      BY <1>1, <2>1, <2>2 DEF RowsStep, RowStep, Insert
  <1>3. rows' = rows => RowsStep
    BY DEF RowsStep, RowStep
  <1> QED
    BY <1>2, <1>3 DEF Ingress, Enqueue, EnqueueReplay, EnqueueAdminTest,
                      StageNotice

LEMMA WorkerRows ==
    ASSUME SafeInv, NEW w \in Workers, WorkerStep(w)
    PROVE  RowsStep
  <1>1. /\ now \in Nat /\ passNow[w] \in Nat
        /\ rows \in [RowIds -> RowType]
        /\ \A r \in RowIds : /\ rows[r] \in RowType
                             /\ rows[r].status # "absent"
                                  => /\ rows[r].content \in Contents
                                     /\ ExpiresAt(r) \in Nat
    BY TimesAssumption, ContentFields DEF SafeInv, TypeInv, TypeOK, ExpiresAt
  <1>2. rows' = rows => RowsStep
    BY DEF RowsStep, RowStep
  <1>3. CASE StartServer(w) \/ StartWorker(w)
    <2>1. rows' = RecoverStaleClaims(now)
      BY <1>3 DEF StartServer, StartWorker
    <2> SUFFICES ASSUME NEW r \in RowIds
                 PROVE  /\ RowStep(rows[r], rows'[r])
                        /\ rows'[r].status = "provider_accepted"
                             => rows[r].status = "provider_accepted"
      BY DEF RowsStep
    <2>2. CASE rows'[r] = rows[r]
      BY <2>2 DEF RowStep
    <2>3. CASE /\ rows[r].status = "sending_channel"
               /\ rows'[r] = Settled(rows[r], "expired", NoTime, now)
      <3>1. Leaves(rows[r], rows'[r]) /\ rows'[r].status = "expired"
        BY <1>1, <2>3, ExpiresStep, SettledFields
      <3> QED
        BY <3>1 DEF RowStep
    <2>4. CASE /\ rows[r].status = "sending_channel"
               /\ ~(ExpiresAt(r) <= now)
               /\ rows'[r] = Settled(rows[r], "retry_wait", now, now)
      <3>1. now < rows[r].content.expires_at
        BY <1>1, <2>4 DEF ExpiresAt
      <3>2. Leaves(rows[r], rows'[r]) /\ rows'[r].status = "retry_wait"
        BY <1>1, <2>4, <3>1, RequeueStep, SettledFields
      <3> QED
        BY <3>2 DEF RowStep
    <2> QED
      BY <2>1, <2>2, <2>3, <2>4 DEF RecoverStaleClaims
  <1>4. CASE ExpireDue(w)
    <2> SUFFICES ASSUME NEW r \in RowIds
                 PROVE  /\ RowStep(rows[r], rows'[r])
                        /\ rows'[r].status = "provider_accepted"
                             => rows[r].status = "provider_accepted"
      BY DEF RowsStep
    <2>1. \/ rows'[r] = rows[r]
          \/ /\ rows[r].status \in Waiting
             /\ rows'[r] = Settled(rows[r], "expired", NoTime, now)
      BY <1>4 DEF ExpireDue, Rewrite, RowsIn
    <2>2. CASE rows'[r] = rows[r]
      BY <2>2 DEF RowStep
    <2>3. CASE /\ rows[r].status \in Waiting
               /\ rows'[r] = Settled(rows[r], "expired", NoTime, now)
      <3>1. Leaves(rows[r], rows'[r]) /\ rows'[r].status = "expired"
        BY <1>1, <2>3, ExpiresStep, SettledFields
      <3> QED
        BY <3>1 DEF RowStep
    <2> QED
      BY <2>1, <2>2, <2>3
  <1>5. CASE ClaimNext(w)
    <2>1. PICK c \in Due(passNow[w]), t \in FreshTokens :
            rows' = [rows EXCEPT ![c] = Claimed(@, t, passNow[w])]
      BY <1>5 DEF ClaimNext
    <2>2. /\ c \in RowIds /\ t \in Tokens
          /\ rows[c].status \in {"pending_channel", "retry_wait"}
      BY DEF Due, RowsIn, FreshTokens
    <2>3. /\ Claimed(rows[c], t, passNow[w]).status = "sending_channel"
          /\ Claimed(rows[c], t, passNow[w]).claim_token = t
          /\ Claimed(rows[c], t, passNow[w]).content = rows[c].content
          /\ Claimed(rows[c], t, passNow[w]).redacted = rows[c].redacted
      BY <1>1, <2>2 DEF Claimed, RowType
    <2>4. Claims(rows[c], Claimed(rows[c], t, passNow[w]))
      BY <2>2, <2>3 DEF Claims
    <2> QED
      BY <1>1, <2>1, <2>2, <2>3, <2>4 DEF RowsStep, RowStep
  <1>6. CASE NothingDue(w) \/ Stop(w)
    BY <1>2, <1>6 DEF NothingDue, Stop, ProcessGone
  <1>7. ASSUME NEW available \in BOOLEAN, ResolveBody(w, available)
        PROVE  RowsStep
    BY <1>2, <1>7 DEF ResolveBody
  <1>8. ASSUME NEW o \in Outcomes, ChannelReturns(w, o)
        PROVE  RowsStep
    BY <1>2, <1>8 DEF ChannelReturns
  <1>9. CASE FinishClaim(w)
    <2> DEFINE t == IF outcome[w] = "NoBody" THEN passNow[w] ELSE now
               c == claim[w].row
               new == Finished(rows[c], claim[w], outcome[w], t)
    <2>1. /\ claim[w] \in ClaimType /\ c \in RowIds /\ t \in Nat
          /\ pc[w] = "returned"
      BY <1>1, <1>9 DEF FinishClaim, SafeInv, TypeInv, WorkerOK, ClaimType
    <2>2. rows' = IF OwnsClaim(w) THEN [rows EXCEPT ![c] = new] ELSE rows
      BY <1>9 DEF FinishClaim
    <2>3. OwnsClaim(w) => /\ rows[c].status = "sending_channel"
                          /\ claim[w].expires_at = rows[c].content.expires_at
      BY DEF SafeInv, ClaimInv, OwnsClaim, ExpiresAt
    <2>4. outcome[w] = "Accepted" => c \in delivered
      BY <2>1 DEF SafeInv, ClaimInv
    <2> HIDE DEF t
    <2>5. OwnsClaim(w) => /\ Leaves(rows[c], new)
                          /\ new.status = "provider_accepted"
                               => outcome[w] = "Accepted"
      BY <1>1, <2>1, <2>3, FinishedStep
    <2> HIDE DEF new, c
    <2> QED
      BY <1>1, <1>2, <2>1, <2>2, <2>4, <2>5 DEF RowsStep, RowStep
  <1>10. CASE ReleaseClaim(w)
    <2> DEFINE c == claim[w].row
               new == Released(rows[c], now)
    <2>1. c \in RowIds
      BY <1>10 DEF ReleaseClaim, SafeInv, TypeInv, WorkerOK, ClaimType
    <2>2. rows' = IF OwnsClaim(w) THEN [rows EXCEPT ![c] = new] ELSE rows
      BY <1>10 DEF ReleaseClaim
    <2>3. OwnsClaim(w) => rows[c].status = "sending_channel"
      BY DEF OwnsClaim
    <2>4. OwnsClaim(w) => Leaves(rows[c], new)
      BY <1>1, <2>1, <2>3, ReleasedStep
    <2>5. OwnsClaim(w) => new.status # "provider_accepted"
      <3>1. "expired" \in Status /\ "retry_wait" \in Status
        BY DEF Status, Waiting, Terminal
      <3> DEFINE base == IF rows[c].content.expires_at <= now
                           THEN Settled(rows[c], "expired", NoTime, now)
                           ELSE Settled(rows[c], "retry_wait", now, now)
      <3>2. base.status \in {"expired", "retry_wait"}
        BY <1>1, <2>1, SettledFields
      <3>3. base \in RowType
        BY <1>1, <2>1, <3>1, SettledRow
      <3>4. new = [base EXCEPT !.attempt_count = IF @ > 0 THEN @ - 1 ELSE 0]
        BY DEF Released
      <3> HIDE DEF base, new
      <3> QED
        BY <3>2, <3>3, <3>4 DEF RowType
    <2> HIDE DEF new, c
    <2> QED
      BY <1>1, <1>2, <2>1, <2>2, <2>4, <2>5 DEF RowsStep, RowStep
  <1> QED
    BY <1>3, <1>4, <1>5, <1>6, <1>7, <1>8, <1>9, <1>10 DEF WorkerStep

LEMMA EnvironmentRows ==
    ASSUME SafeInv,
           \/ \E w \in Workers : Deliver(w) \/ RequestStop(w) \/ Crash(w)
           \/ \E s \in {"blocked_activation", "blocked_reconnect"} : Unblock(s)
           \/ \E S \in SUBSET Notices : CancelNotices(S) \/ DeleteOutbox(S)
           \/ Tick
    PROVE  RowsStep
  <1>1. /\ now \in Nat
        /\ \A r \in RowIds : /\ rows[r] \in RowType /\ RowInv(rows[r])
                             /\ rows[r].status # "absent"
                                  => rows[r].content \in Contents
    BY TimesAssumption DEF SafeInv, TypeInv, TypeOK
  <1>2. rows' = rows => RowsStep
    BY DEF RowsStep, RowStep
  <1>3. ASSUME NEW w \in Workers, Deliver(w) \/ RequestStop(w) \/ Crash(w)
        PROVE  RowsStep
    BY <1>2, <1>3 DEF Deliver, RequestStop, Crash, ProcessGone
  <1>4. ASSUME NEW s \in {"blocked_activation", "blocked_reconnect"},
               Unblock(s), NEW r \in RowIds
        PROVE  /\ RowStep(rows[r], rows'[r])
               /\ rows'[r].status = "provider_accepted"
                    => rows[r].status = "provider_accepted"
    <2>1. \/ rows'[r] = rows[r]
          \/ /\ rows[r].status = s /\ rows[r].content.expires_at > now
             /\ rows'[r] = Unblocked(rows[r], now)
      BY <1>4 DEF Unblock, Rewrite, RowsIn, ExpiresAt
    <2>2. CASE rows'[r] = rows[r]
      BY <2>2 DEF RowStep
    <2>3. CASE /\ rows[r].status = s /\ rows[r].content.expires_at > now
               /\ rows'[r] = Unblocked(rows[r], now)
      <3>1. Leaves(rows[r], rows'[r])
        BY <1>1, <2>3, UnblockedStep
      <3>2. rows'[r].status = "retry_wait"
        BY <1>1, <2>3 DEF Unblocked, RowType
      <3> QED
        BY <3>1, <3>2 DEF RowStep
    <2> QED
      BY <2>1, <2>2, <2>3
  <1>5. ASSUME NEW S \in SUBSET Notices, CancelNotices(S), NEW r \in RowIds
        PROVE  /\ RowStep(rows[r], rows'[r])
               /\ rows'[r].status = "provider_accepted"
                    => rows[r].status = "provider_accepted"
    <2>1. \/ rows'[r] = rows[r]
          \/ /\ rows[r].status \in Waiting
             /\ rows[r].content.kind = "result_link"
             /\ rows'[r] = Cancelled(rows[r], now)
      BY <1>5 DEF CancelNotices, Rewrite, RowsIn, Notices
    <2>2. CASE rows'[r] = rows[r]
      BY <2>2 DEF RowStep
    <2>3. CASE /\ rows[r].status \in Waiting
               /\ rows[r].content.kind = "result_link"
               /\ rows'[r] = Cancelled(rows[r], now)
      <3>1. rows[r].content \in Contents
        BY <1>1, <2>3 DEF Waiting
      <3>2. Leaves(rows[r], rows'[r])
        BY <1>1, <2>3, <3>1, CancelledStep
      <3>3. rows'[r].status = "cancelled"
        BY <1>1, <2>3 DEF Cancelled, RowType
      <3> QED
        BY <3>2, <3>3 DEF RowStep
    <2> QED
      BY <2>1, <2>2, <2>3
  <1>6. ASSUME NEW K \in SUBSET Notices, DeleteOutbox(K), NEW r \in RowIds
        PROVE  /\ RowStep(rows[r], rows'[r])
               /\ rows'[r].status = "provider_accepted"
                    => rows[r].status = "provider_accepted"
    <2>1. PICK S \in SUBSET (Deletable \ K) : rows' = Rewrite(S, Tombstone)
      BY <1>6 DEF DeleteOutbox
    <2>2. \/ rows'[r] = rows[r]
          \/ /\ rows[r].status \in Terminal
             /\ rows'[r] = Tombstone(rows[r])
      BY <2>1 DEF Rewrite, Deletable, Terminal
    <2>3. /\ Tombstone(rows[r]).status = "deleted"
          /\ Tombstone(rows[r]).claim_token = None
          /\ Tombstone(rows[r]).content = rows[r].content
      BY DEF Tombstone, NoRow
    <2> QED
      BY <2>2, <2>3 DEF RowStep, Removes
  <1>7. ASSUME Tick
        PROVE  RowsStep
    BY <1>2, <1>7 DEF Tick
  <1> QED
    BY <1>3, <1>4, <1>5, <1>6, <1>7 DEF RowsStep

(* One step of the specification, a stuttering step included.              *)
LEMMA StepRows ==
    ASSUME SafeInv, [Next]_vars
    PROVE  RowsStep
  <1>1. CASE UNCHANGED vars
    BY <1>1 DEF vars, RowsStep, RowStep
  <1>2. CASE Next
    BY <1>2, IngressRows, WorkerRows, EnvironmentRows DEF Next
  <1> QED
    BY <1>1, <1>2

-----------------------------------------------------------------------------
(* The invariant is inductive.                                             *)

(* A row step keeps the invariant of the row.                              *)
LEMMA RowInvStep ==
    ASSUME NEW row \in RowType, NEW new \in RowType, RowInv(row),
           RowStep(row, new)
    PROVE  RowInv(new)
  <1>1. CASE new = row
    BY <1>1
  <1>2. CASE Stages(row, new)
    BY <1>2 DEF Stages, RowInv, Terminal
  <1>3. CASE Claims(row, new)
    BY <1>3, IdsAssumption DEF Claims, RowInv, Terminal, FreshTokens
  <1>4. CASE Leaves(row, new)
    <2>1. new.status \notin {"absent", "deleted", "sending_channel"}
      BY <1>4 DEF Leaves, Waiting, Lifecycle!can_transition_to,
                  Lifecycle!is_terminal, Lifecycle!Released
    <2>2. ~row.redacted
      BY <1>4 DEF Leaves, RowInv, Waiting, Terminal
    <2> QED
      BY <1>4, <2>1, <2>2 DEF Leaves, RowInv
  <1>5. CASE Removes(row, new)
    BY <1>5 DEF Removes, RowInv
  <1> QED
    BY <1>1, <1>2, <1>3, <1>4, <1>5 DEF RowStep

(* A worker's claim changes only when it claims or when its pass ends, and *)
(* the outcome it holds only when its channel returns.                     *)
LEMMA ClaimChange ==
    ASSUME SafeInv, [Next]_vars, NEW v \in Workers
    PROVE  /\ \/ claim'[v] = claim[v]
              \/ claim'[v] = None
              \/ ClaimNext(v)
           /\ delivered \subseteq delivered'
           /\ pc'[v] = "returned" /\ outcome'[v] = "Accepted"
                => /\ claim'[v] = claim[v]
                   /\ claim[v].row \in delivered
  <1>1. /\ claim \in [Workers -> ClaimType \cup {None}]
        /\ pc \in [Workers -> PcStates]
        /\ outcome \in [Workers -> Outcomes \cup {"NoBody", None}]
        /\ pc[v] = "returned" /\ outcome[v] = "Accepted"
             => claim[v].row \in delivered
    BY DEF SafeInv, TypeInv, TypeOK, ClaimInv
  <1>2. ASSUME UNCHANGED <<claim, pc, outcome>>, delivered \subseteq delivered'
        PROVE  /\ claim'[v] = claim[v]
               /\ pc'[v] = "returned" /\ outcome'[v] = "Accepted"
                    => claim[v].row \in delivered
    BY <1>1, <1>2
  <1>3. CASE UNCHANGED vars
    BY <1>2, <1>3 DEF vars, workerVars
  <1>4. CASE Ingress
    BY <1>2, <1>4 DEF Ingress, Enqueue, EnqueueReplay, EnqueueAdminTest,
                      StageNotice, workerVars
  <1>5. ASSUME NEW w \in Workers, EndPass(w) \/ ProcessGone(w)
        PROVE  /\ claim'[v] \in {claim[v], None}
               /\ delivered' = delivered
               /\ pc'[v] = "returned" /\ outcome'[v] = "Accepted"
                    => claim'[v] = claim[v] /\ claim[v].row \in delivered
    BY <1>1, <1>5 DEF EndPass, ProcessGone
  <1>6. ASSUME NEW w \in Workers, WorkerStep(w)
        PROVE  /\ \/ claim'[v] = claim[v]
                  \/ claim'[v] = None
                  \/ ClaimNext(v)
               /\ delivered' = delivered
               /\ pc'[v] = "returned" /\ outcome'[v] = "Accepted"
                    => claim'[v] = claim[v] /\ claim[v].row \in delivered
    <2>1. CASE StartServer(w) \/ StartWorker(w) \/ ExpireDue(w)
      BY <1>1, <2>1 DEF StartServer, StartWorker, ExpireDue
    <2>2. CASE ClaimNext(w)
      BY <1>1, <2>2 DEF ClaimNext
    <2>3. CASE NothingDue(w) \/ Stop(w) \/ FinishClaim(w) \/ ReleaseClaim(w)
      <3>1. EndPass(w) \/ ProcessGone(w)
        BY <2>3 DEF NothingDue, Stop, FinishClaim, ReleaseClaim
      <3> QED
        BY <1>5, <3>1
    <2>4. ASSUME NEW available \in BOOLEAN, ResolveBody(w, available)
          PROVE  /\ claim'[v] = claim[v]
                 /\ delivered' = delivered
                 /\ pc'[v] = "returned" /\ outcome'[v] = "Accepted"
                      => claim[v].row \in delivered
      BY <1>1, <2>4 DEF ResolveBody
    <2>5. ASSUME NEW o \in Outcomes, ChannelReturns(w, o)
          PROVE  /\ claim'[v] = claim[v]
                 /\ delivered' = delivered
                 /\ pc'[v] = "returned" /\ outcome'[v] = "Accepted"
                      => claim[v].row \in delivered
      BY <1>1, <2>5 DEF ChannelReturns
    <2> QED
      BY <1>6, <2>1, <2>2, <2>3, <2>4, <2>5 DEF WorkerStep
  <1>7. ASSUME NEW w \in Workers, Deliver(w) \/ RequestStop(w)
        PROVE  UNCHANGED <<claim, pc, outcome>> /\ delivered \subseteq delivered'
    BY <1>7 DEF Deliver, RequestStop, workerVars
  <1>8. ASSUME NEW w \in Workers, Crash(w)
        PROVE  ProcessGone(w)
    BY <1>8 DEF Crash
  <1>9. CASE \/ \E s \in {"blocked_activation", "blocked_reconnect"} :
                   Unblock(s)
             \/ \E S \in SUBSET Notices : CancelNotices(S) \/ DeleteOutbox(S)
             \/ Tick
    BY <1>2, <1>9 DEF Unblock, CancelNotices, DeleteOutbox, Tick, workerVars
  <1> QED
    BY <1>2, <1>3, <1>4, <1>5, <1>6, <1>7, <1>8, <1>9 DEF Next

LEMMA ClaimInvStep ==
    ASSUME SafeInv, [Next]_vars, RowsStep, TypeInv', NEW v \in Workers
    PROVE  ClaimInv(v)'
  <1>1. /\ ClaimInv(v)
        /\ rows \in [RowIds -> RowType]
        /\ claim[v] \in ClaimType \cup {None}
        /\ claim \in [Workers -> ClaimType \cup {None}]
        /\ pc \in [Workers -> PcStates]
        /\ passNow[v] \in Nat
    BY TimesAssumption DEF SafeInv, TypeInv, TypeOK
  <1>2. /\ delivered \subseteq delivered'
        /\ pc'[v] = "returned" /\ outcome'[v] = "Accepted"
             => claim'[v] = claim[v] /\ claim[v].row \in delivered
    BY ClaimChange
  <1>3. CASE claim'[v] = claim[v] /\ claim[v] # None
    <2> DEFINE c == claim[v].row
    <2>1. c \in RowIds
      BY <1>1, <1>3 DEF ClaimType
    <2>2. /\ rows[c] \in RowType /\ rows[c].status # "absent"
          /\ RowStep(rows[c], rows'[c])
      BY <1>1, <1>3, <2>1 DEF ClaimInv, RowsStep
    <2>3. rows'[c].status # "absent"
      BY <2>2 DEF RowStep, Stages, Claims, Leaves, Removes, Waiting,
                  Lifecycle!can_transition_to, Lifecycle!is_terminal,
                  Lifecycle!Released
    <2>4. ASSUME rows'[c].status = "sending_channel",
                 rows'[c].claim_token = claim[v].token
          PROVE  rows'[c] = rows[c]
      <3>1. claim[v].token \notin FreshTokens
        BY <1>3 DEF FreshTokens
      <3> QED
        BY <2>2, <2>4, <3>1 DEF RowStep, Stages, Claims, Leaves, Removes
    <2>5. OwnsClaim(v)' => OwnsClaim(v) /\ rows'[c] = rows[c]
      BY <1>3, <2>4 DEF OwnsClaim
    <2> QED
      BY <1>1, <1>2, <1>3, <2>3, <2>5 DEF ClaimInv, ExpiresAt
  <1>4. CASE claim'[v] = None
    BY <1>2, <1>4 DEF ClaimInv, OwnsClaim
  <1>5. CASE ClaimNext(v)
    <2>1. PICK r \in Due(passNow[v]), t \in FreshTokens :
            /\ rows' = [rows EXCEPT ![r] = Claimed(@, t, passNow[v])]
            /\ claim' = [claim EXCEPT ![v] =
                          [row |-> r, token |-> t,
                           expires_at |-> ExpiresAt(r),
                           attempt_count |-> rows[r].attempt_count + 1]]
      BY <1>5 DEF ClaimNext
    <2>2. r \in RowIds /\ rows[r] \in RowType
      BY <1>1 DEF Due, RowsIn
    <2>3. /\ Claimed(rows[r], t, passNow[v]).status = "sending_channel"
          /\ Claimed(rows[r], t, passNow[v]).content = rows[r].content
          /\ Claimed(rows[r], t, passNow[v]).attempt_count
               = rows[r].attempt_count + 1
      BY <2>2 DEF Claimed, RowType
    <2>4. pc'[v] = "claimed"
      BY <1>1, <1>5 DEF ClaimNext
    <2>5. /\ rows'[r] = Claimed(rows[r], t, passNow[v])
          /\ claim'[v].row = r
          /\ claim'[v].expires_at = rows[r].content.expires_at
          /\ claim'[v].attempt_count = rows[r].attempt_count + 1
      BY <1>1, <2>1, <2>2 DEF ExpiresAt
    <2> QED
      BY <2>3, <2>4, <2>5 DEF ClaimInv, ExpiresAt
  <1> QED
    BY <1>3, <1>4, <1>5, ClaimChange

(* The inductive step.                                                     *)
LEMMA SafeStep ==
    ASSUME SafeInv, [Next]_vars
    PROVE  SafeInv'
  <1>1. RowsStep
    BY StepRows
  <1>2. TypeInv'
    BY TypeStep DEF SafeInv
  <1>3. \A r \in RowIds : RowInv(rows'[r])
    <2> TAKE r \in RowIds
    <2>1. rows[r] \in RowType /\ rows'[r] \in RowType
      BY <1>2 DEF SafeInv, TypeInv, TypeOK
    <2> QED
      BY <1>1, <2>1, RowInvStep DEF SafeInv, RowsStep
  <1>4. \A v \in Workers : ClaimInv(v)'
    BY <1>1, <1>2, ClaimInvStep
  <1>5. delivered \subseteq delivered'
    <2>1. CASE Workers = {}
      BY <2>1 DEF Next, vars, Ingress, Enqueue, EnqueueReplay,
         EnqueueAdminTest, StageNotice, Unblock, CancelNotices, DeleteOutbox,
         Tick
    <2>2. CASE Workers # {}
      BY <2>2, ClaimChange
    <2> QED
      BY <2>1, <2>2
  <1>6. AcceptedWasDelivered'
    BY <1>1, <1>5 DEF RowsStep, SafeInv, AcceptedWasDelivered
  <1> QED
    BY <1>2, <1>3, <1>4, <1>6 DEF SafeInv

LEMMA SafeInit == Init => SafeInv
  <1> SUFFICES ASSUME Init
               PROVE  SafeInv
    OBVIOUS
  <1>1. TypeInv
    BY TimesAssumption DEF Init, TypeInv, TypeOK, WorkerOK, NoRow, RowType,
                           Status, PcStates, NoTime
  <1>2. \A r \in RowIds : RowInv(rows[r])
    BY DEF Init, RowInv, NoRow
  <1>3. \A w \in Workers : ClaimInv(w)
    BY DEF Init, ClaimInv, OwnsClaim
  <1>4. AcceptedWasDelivered
    BY DEF Init, AcceptedWasDelivered, NoRow
  <1> QED
    BY <1>1, <1>2, <1>3, <1>4 DEF SafeInv

-----------------------------------------------------------------------------
(* The theorems.                                                           *)

LEMMA Safe == Spec => []SafeInv
  BY SafeInit, SafeStep, PTL DEF Spec

(* A row carries a claim token exactly while it is being sent, is retried  *)
(* only before it expires, and the claim a worker owns (finish_claim_at    *)
(* trusts its expires_at and attempt_count) describes the row, however the *)
(* workers, restarts, releases and retention interleave.                   *)
THEOREM ClaimsAreConsistent == Spec => []ClaimConsistent
  <1>1. SafeInv => ClaimConsistent
    BY DEF SafeInv, RowInv, ClaimInv, ClaimConsistent, ExpiresAt
  <1> QED
    BY <1>1, Safe, PTL

(* On every path that settles a sensitive row its body is redacted, and on *)
(* no path before.                                                         *)
THEOREM BodiesAreRedacted == Spec => []RedactedWhenSettled
  <1>1. SafeInv => RedactedWhenSettled
    BY DEF SafeInv, RowInv, RedactedWhenSettled, Exists
  <1> QED
    BY <1>1, Safe, PTL

(* The table never claims provider_accepted of a message the provider was  *)
(* not handed: a late completion, a recovered claim or a second worker     *)
(* cannot mark a row that only somebody else's send could have delivered.  *)
THEOREM AcceptedIsDelivered == Spec => []AcceptedWasDelivered
  <1>1. SafeInv => AcceptedWasDelivered
    BY DEF SafeInv
  <1> QED
    BY <1>1, Safe, PTL

(* A settled row is never reopened, by any statement of any process.       *)
THEOREM SettledStaysSettled == Spec => TerminalForever
  <1>1. SafeInv /\ [Next]_vars
          => [\A r \in RowIds : rows[r].status \in Terminal =>
                 \/ rows'[r] = rows[r]
                 \/ rows'[r].status = "deleted"]_vars
    <2> SUFFICES ASSUME SafeInv, [Next]_vars, NEW r \in RowIds,
                        rows[r].status \in Terminal
                 PROVE  rows'[r] = rows[r] \/ rows'[r].status = "deleted"
      OBVIOUS
    <2>1. RowStep(rows[r], rows'[r])
      BY StepRows DEF RowsStep
    <2> QED
      BY <2>1 DEF RowStep, Stages, Claims, Leaves, Removes, Waiting, Terminal
  <1> QED
    BY <1>1, Safe, PTL DEF Spec, TerminalForever

(* The outbox implements the life cycle of crates/relay-domain: each of    *)
(* its steps moves every row along the transition table, releases a        *)
(* blocked row, stages or removes one, delivers, or changes no status.     *)
THEOREM OutboxImplementsLifecycle == Spec => ImplementsLifecycle
  <1> DEFINE st == [r \in RowIds |-> rows[r].status]
  <1>1. Init => Lifecycle!Init
    BY DEF Init, Lifecycle!Init, NoRow
  <1>2. SafeInv /\ SafeInv' /\ [Next]_vars => [Lifecycle!Next]_(Lifecycle!vars)
    <2> SUFFICES ASSUME SafeInv, SafeInv', [Next]_vars
                 PROVE  [Lifecycle!Next]_(Lifecycle!vars)
      OBVIOUS
    <2>1. RowsStep
      BY StepRows
    <2>2. \A r \in RowIds :
            \/ st'[r] = st[r]
            \/ Lifecycle!can_transition_to(st[r], st'[r])
            \/ Lifecycle!Released(st[r], st'[r])
            \/ Lifecycle!Staged(st[r], st'[r])
            \/ Lifecycle!Removed(st[r], st'[r])
      <3> TAKE r \in RowIds
      <3>1. RowStep(rows[r], rows'[r])
        BY <2>1 DEF RowsStep
      <3>2. CASE Claims(rows[r], rows'[r])
        BY <3>2 DEF Claims, Lifecycle!can_transition_to,
                    Lifecycle!is_terminal
      <3> QED
        BY <3>1, <3>2 DEF RowStep, Stages, Leaves, Removes, Terminal,
                          Lifecycle!Staged, Lifecycle!Removed,
                          Lifecycle!is_terminal
    <2>3. \A r \in RowIds : st'[r] = "provider_accepted" => r \in delivered'
      BY DEF SafeInv, AcceptedWasDelivered
    <2>4. delivered' = delivered
            => Lifecycle!Move \/ UNCHANGED Lifecycle!vars
      BY <2>2, <2>3 DEF Lifecycle!Move
    <2>5. ASSUME NEW w \in Workers, Deliver(w)
          PROVE  Lifecycle!Next
      <3>1. claim[w] \in ClaimType /\ claim[w].row \in RowIds
        BY <2>5 DEF Deliver, SafeInv, TypeInv, WorkerOK, ClaimType
      <3>2. rows[claim[w].row].status # "absent"
        BY <3>1, NoneAssumption DEF SafeInv, ClaimInv
      <3>3. Lifecycle!Deliver(claim[w].row)
        BY <2>5, <3>1, <3>2 DEF Deliver, Lifecycle!Deliver
      <3> QED
        BY <3>1, <3>3 DEF Lifecycle!Next
    <2>6. delivered' = delivered \/ \E w \in Workers : Deliver(w)
      BY DEF Next, vars, Ingress, Enqueue, EnqueueReplay, EnqueueAdminTest,
             StageNotice, WorkerStep, StartServer, StartWorker, ExpireDue,
             ClaimNext, NothingDue, ResolveBody, ChannelReturns, FinishClaim,
             ReleaseClaim, Stop, EndPass, ProcessGone, RequestStop, Crash,
             Unblock, CancelNotices, DeleteOutbox, Tick
    <2> QED
      BY <2>4, <2>5, <2>6 DEF Lifecycle!Next
  <1> QED
    BY <1>1, <1>2, Safe, PTL DEF Spec, ImplementsLifecycle, Lifecycle!Spec

-----------------------------------------------------------------------------
(* Acknowledgements.                                                       *)

(* Row r holds the submission n, or held it until retention.               *)
Holds(row, n) ==
    /\ row.status # "absent"
    /\ row.content.origin = n.origin
    /\ row.content.notification_id = n.notification_id
    /\ row.content.payload = n.payload
    /\ row.content.expires_at = n.expires_at

(* No step takes away what a row holds.                                    *)
LEMMA HoldsStep ==
    ASSUME NEW row, NEW new, NEW n, Holds(row, n), RowStep(row, new)
    PROVE  Holds(new, n)
  BY DEF Holds, RowStep, Stages, Claims, Leaves, Removes, Waiting,
         Lifecycle!can_transition_to, Lifecycle!is_terminal,
         Lifecycle!Released

(* Whoever was answered "accepted" has this very payload in the table:     *)
(* retries, replays, colliding ids and retention notwithstanding.          *)
THEOREM AcknowledgedIsStored == Spec => []AckedIsStored
  <1>1. AckedIsStored <=> \A n \in acked : \E r \in RowIds : Holds(rows[r], n)
    BY DEF AckedIsStored, Holds
  <1>2. Init => AckedIsStored
    BY DEF Init, AckedIsStored
  <1>3. SafeInv /\ AckedIsStored /\ [Next]_vars => AckedIsStored'
    <2> SUFFICES ASSUME SafeInv, AckedIsStored, [Next]_vars,
                        NEW n \in acked'
                 PROVE  \E r \in RowIds : Holds(rows'[r], n)
      BY DEF AckedIsStored, Holds
    <2>1. RowsStep
      BY StepRows
    <2>2. ASSUME NEW r \in RowIds, Holds(rows[r], n)
          PROVE  Holds(rows'[r], n)
      BY <2>1, <2>2, HoldsStep DEF RowsStep
    <2>3. CASE n \in acked
      BY <1>1, <2>2, <2>3
    <2>4. CASE \E r \in RowIds, at \in 0..now : Enqueue(r, n, at)
      <3>1. PICK r \in RowIds, at \in 0..now : Enqueue(r, n, at)
        BY <2>4
      <3>2. rows'[r] = NewRow(n, at)
        BY <3>1 DEF Enqueue, Insert, SafeInv, TypeInv, TypeOK
      <3>3. /\ NewRow(n, at).status = "pending_channel"
            /\ NewRow(n, at).content = n
        BY DEF NewRow, NoRow
      <3> QED
        BY <3>2, <3>3 DEF Holds
    <2>5. CASE \E at \in 0..now : EnqueueReplay(n, at)
      <3>1. PICK r \in RowIds : Collisions(n) = {r} /\ SameSubmission(r, n)
        BY <2>5 DEF EnqueueReplay
      <3>2. r \in Collisions(n)
        BY <3>1
      <3>3. Holds(rows[r], n)
        BY <3>1, <3>2 DEF Collisions, SameSubmission, PayloadHash, Holds,
                          Exists
      <3> QED
        BY <2>2, <3>3
    <2>6. \/ n \in acked
          \/ \E r \in RowIds, at \in 0..now : Enqueue(r, n, at)
          \/ \E at \in 0..now : EnqueueReplay(n, at)
      BY DEF Next, vars, Ingress, Enqueue, EnqueueReplay, EnqueueAdminTest,
             StageNotice, WorkerStep, StartServer, StartWorker, ExpireDue,
             ClaimNext, NothingDue, ResolveBody, ChannelReturns, FinishClaim,
             ReleaseClaim, Stop, EndPass, ProcessGone, Deliver, RequestStop,
             Crash, Unblock, CancelNotices, DeleteOutbox, Tick
    <2> QED
      BY <2>3, <2>4, <2>5, <2>6
  <1> QED
    BY <1>2, <1>3, Safe, PTL DEF Spec

-----------------------------------------------------------------------------
(* Times: the lease of a claim, and what retention may remove.             *)

Resting == {"retry_wait", "blocked_activation", "blocked_reconnect"}

(* What one step may do to the times of one row.                           *)
StagedNow(row, new) ==
    /\ row.status = "absent" /\ new.status = "pending_channel"
    /\ new.created_at <= now /\ new.updated_at = new.created_at
    /\ new.next_attempt_at = NoTime

(* A claim of a pass that began at p.                                      *)
ClaimedAt(row, new, p) ==
    /\ row.status \in {"pending_channel", "retry_wait"}
    /\ new.status = "sending_channel"
    /\ new.claimed_at = p /\ new.updated_at = p
    /\ (IF row.next_attempt_at # NoTime THEN row.next_attempt_at
        ELSE row.created_at) <= p
    /\ new.created_at = row.created_at
    /\ new.next_attempt_at = row.next_attempt_at

(* The row is settled at t.                                                *)
EndedAt(row, new, t) ==
    /\ row.status \in Waiting \cup {"sending_channel"}
    /\ new.status \in Terminal
    /\ new.created_at = row.created_at /\ new.updated_at >= t
    /\ new.next_attempt_at = NoTime

(* The row rests, to be tried again from now on or when it is unblocked.   *)
RestsNow(row, new) ==
    /\ new.status \in Resting
    /\ new.created_at = row.created_at /\ new.updated_at = now
    /\ new.status = "retry_wait" => new.next_attempt_at >= now
    /\ new.status # "retry_wait" => new.next_attempt_at = NoTime

(* Its claim is older than the lease, or nobody has one.                   *)
NotLeased(row) ==
    \/ row.status \in Resting
    \/ row.status = "sending_channel" /\ row.claimed_at < now - StaleClaim

RemovedNow(row, new) ==
    /\ row.status \in Terminal /\ new.status = "deleted"
    /\ new.content = row.content
    /\ \/ row.updated_at < now - AcceptedRetention
       \/ row.updated_at < now - DeadLetterRetention

(* Worker w gives up the row it owns.                                      *)
GivesUp(w, r) == OwnsClaim(w) /\ claim[w].row = r /\ claim'[w] = None

TimeStep(r) ==
    \/ rows'[r] = rows[r]
    \/ StagedNow(rows[r], rows'[r])
    \/ \E w \in Workers : ClaimNext(w) /\ ClaimedAt(rows[r], rows'[r], passNow[w])
    \/ EndedAt(rows[r], rows'[r], now)
    \/ \E w \in Workers : GivesUp(w, r) /\ EndedAt(rows[r], rows'[r], passNow[w])
    \/ NotLeased(rows[r]) /\ RestsNow(rows[r], rows'[r])
    \/ \E w \in Workers : GivesUp(w, r) /\ RestsNow(rows[r], rows'[r])
    \/ RemovedNow(rows[r], rows'[r])

TimesStep == \A r \in RowIds : TimeStep(r)

(* The times of a settled row.                                             *)
LEMMA SettledTimes ==
    ASSUME NEW row \in RowType, NEW s, NEW next, NEW at
    PROVE  /\ Settled(row, s, next, at).status = s
           /\ Settled(row, s, next, at).next_attempt_at = next
           /\ Settled(row, s, next, at).created_at = row.created_at
           /\ Settled(row, s, next, at).updated_at = at
  BY DEF Settled, RowType

(* A completion ends the row or lets it rest; one without a body ends it.  *)
LEMMA FinishedTimes ==
    ASSUME NEW row \in RowType, NEW c \in ClaimType, NEW o, NEW t \in Nat
    PROVE  LET new == Finished(row, c, o, t)
           IN  /\ new.created_at = row.created_at /\ new.updated_at = t
               /\ new.status \in Terminal \cup Resting
               /\ new.status = "retry_wait" => new.next_attempt_at >= t
               /\ new.status # "retry_wait" => new.next_attempt_at = NoTime
               /\ o = "NoBody" => new.status \in Terminal
  <1> DEFINE n     == c.attempt_count
             delay == FailureDelay(o, n)
             s     == FailureStatus(o, n)
             next  == IF delay = NoTime THEN NoTime ELSE t + delay
             new   == Finished(row, c, o, t)
  <1>1. n \in Nat
    BY DEF ClaimType
  <1>2. delay \in Nat \cup {NoTime}
    BY <1>1, DelayType
  <1>3. /\ s \in Terminal \cup Resting
        /\ s = "retry_wait" <=> delay # NoTime
        /\ o = "NoBody" => delay = NoTime /\ s = "dead_letter"
    BY DEF FailureStatus, FailureDelay, Terminal, Resting, ContextClasses
  <1>4. \/ new = Settled(row, "provider_accepted", NoTime, t)
        \/ new = Settled(row, "expired", NoTime, t)
        \/ new = Settled(row, s, next, t)
    BY DEF Finished
  <1>5. /\ "provider_accepted" \in Terminal /\ "expired" \in Terminal
        /\ "dead_letter" \in Terminal
        /\ "provider_accepted" # "retry_wait" /\ "expired" # "retry_wait"
    BY DEF Terminal
  <1>6. o = "NoBody" => s \in Terminal
    BY <1>3, <1>5
  <1> HIDE DEF s, delay, new
  <1>7. /\ s = "retry_wait" => next >= t
        /\ s # "retry_wait" => next = NoTime
    BY <1>2, <1>3 DEF NoTime
  <1> HIDE DEF next
  <1>8. /\ new.created_at = row.created_at /\ new.updated_at = t
        /\ \/ new.status \in {"provider_accepted", "expired"} /\ new.next_attempt_at = NoTime
           \/ new.status = s /\ new.next_attempt_at = next
    BY <1>4, SettledTimes
  <1> QED
    BY <1>3, <1>5, <1>6, <1>7, <1>8 DEF new

(* A release rests the row or expires it.                                  *)
LEMMA ReleasedTimes ==
    ASSUME NEW row \in RowType, NEW t \in Nat
    PROVE  LET new == Released(row, t)
           IN  /\ new.created_at = row.created_at /\ new.updated_at = t
               /\ \/ new.status = "expired" /\ new.next_attempt_at = NoTime
                  \/ new.status = "retry_wait" /\ new.next_attempt_at = t
  BY DEF Released, Settled, RowType

-----------------------------------------------------------------------------
(* Every step of the outbox is such a step.                                *)

(* Nothing happens to the rows.                                            *)
LEMMA SameTimes == ASSUME rows' = rows PROVE TimesStep
  BY DEF TimesStep, TimeStep

(* Steps of a worker's process.                                            *)
LEMMA WorkerTimes ==
    ASSUME SafeInv, NEW w \in Workers, WorkerStep(w)
    PROVE  TimesStep
  <1>1. /\ now \in Nat /\ passNow[w] \in Nat
        /\ rows \in [RowIds -> RowType] /\ claim \in [Workers -> ClaimType \cup {None}]
    BY TimesAssumption DEF SafeInv, TypeInv, TypeOK
  <1>2. CASE StartServer(w) \/ StartWorker(w)
    <2>1. rows' = RecoverStaleClaims(now)
      BY <1>2 DEF StartServer, StartWorker
    <2> SUFFICES ASSUME NEW r \in RowIds PROVE TimeStep(r)
      BY DEF TimesStep
    <2>2. CASE rows'[r] = rows[r]
      BY <2>2 DEF TimeStep
    <2>3. CASE /\ rows[r].status = "sending_channel"
               /\ rows'[r] = Settled(rows[r], "expired", NoTime, now)
      <3>1. EndedAt(rows[r], rows'[r], now)
        BY <1>1, <2>3, SettledTimes DEF EndedAt, Terminal
      <3> QED BY <3>1 DEF TimeStep
    <2>4. CASE /\ rows[r].status = "sending_channel"
               /\ rows[r].claimed_at < now - StaleClaim
               /\ rows'[r] = Settled(rows[r], "retry_wait", now, now)
      <3>1. RestsNow(rows[r], rows'[r]) /\ NotLeased(rows[r])
        BY <1>1, <2>4, SettledTimes DEF RestsNow, NotLeased, Resting
      <3> QED BY <3>1 DEF TimeStep
    <2> QED
      BY <2>1, <2>2, <2>3, <2>4 DEF RecoverStaleClaims
  <1>3. CASE ExpireDue(w)
    <2> SUFFICES ASSUME NEW r \in RowIds PROVE TimeStep(r)
      BY DEF TimesStep
    <2>1. \/ rows'[r] = rows[r]
          \/ /\ rows[r].status \in Waiting
             /\ rows'[r] = Settled(rows[r], "expired", NoTime, now)
      BY <1>3 DEF ExpireDue, Rewrite, RowsIn
    <2>2. CASE /\ rows[r].status \in Waiting
               /\ rows'[r] = Settled(rows[r], "expired", NoTime, now)
      <3>1. EndedAt(rows[r], rows'[r], now)
        BY <1>1, <2>2, SettledTimes DEF EndedAt, Terminal
      <3> QED BY <3>1 DEF TimeStep
    <2> QED BY <2>1, <2>2 DEF TimeStep
  <1>4. CASE ClaimNext(w)
    <2>1. PICK r \in Due(passNow[w]), t \in FreshTokens :
            rows' = [rows EXCEPT ![r] = Claimed(@, t, passNow[w])]
      BY <1>4 DEF ClaimNext
    <2>2. /\ r \in RowIds /\ rows[r] \in RowType /\ DueAt(r) <= passNow[w]
          /\ rows[r].status \in {"pending_channel", "retry_wait"}
      BY <1>1 DEF Due, RowsIn
    <2>3. ClaimedAt(rows[r], Claimed(rows[r], t, passNow[w]), passNow[w])
      BY <2>2 DEF ClaimedAt, Claimed, RowType, DueAt
    <2> QED
      BY <1>1, <1>4, <2>1, <2>2, <2>3 DEF TimesStep, TimeStep
  <1>5. CASE FinishClaim(w)
    <2>1. CASE ~OwnsClaim(w)
      BY <1>5, <2>1, SameTimes DEF FinishClaim
    <2>2. CASE OwnsClaim(w)
      <3> DEFINE c   == claim[w]
                 t   == IF outcome[w] = "NoBody" THEN passNow[w] ELSE now
                 new == Finished(rows[c.row], c, outcome[w], t)
      <3>1. c \in ClaimType /\ c.row \in RowIds /\ rows[c.row] \in RowType
        BY <1>1, <2>2 DEF OwnsClaim, ClaimType
      <3>2. rows' = [rows EXCEPT ![c.row] = new]
        BY <1>5, <2>2 DEF FinishClaim
      <3>3. GivesUp(w, c.row)
        BY <1>1, <1>5, <2>2 DEF FinishClaim, EndPass, GivesUp
      <3>4. rows[c.row].status = "sending_channel"
        BY <2>2 DEF OwnsClaim
      <3>5. t \in Nat /\ t \in {now, passNow[w]}
        BY <1>1
      <3>6. /\ new.created_at = rows[c.row].created_at /\ new.updated_at = t
            /\ new.status \in Terminal \cup Resting
            /\ new.status = "retry_wait" => new.next_attempt_at >= t
            /\ new.status # "retry_wait" => new.next_attempt_at = NoTime
            /\ outcome[w] = "NoBody" => new.status \in Terminal
        BY <3>1, <3>5, FinishedTimes
      <3>7. CASE new.status \in Terminal
        <4>1. EndedAt(rows[c.row], new, t)
          <5>1. new.status # "retry_wait"
            BY <3>7 DEF Terminal
          <5> QED BY <3>4, <3>5, <3>6, <3>7, <5>1 DEF EndedAt
        <4>2. \/ EndedAt(rows[c.row], new, now)
              \/ EndedAt(rows[c.row], new, passNow[w])
          BY <3>5, <4>1
        <4> HIDE DEF new, t
        <4> QED
          BY <1>1, <3>1, <3>2, <3>3, <4>2 DEF TimesStep, TimeStep
      <3>8. CASE new.status \notin Terminal
        <4>1. t = now
          BY <3>6, <3>8
        <4>2. RestsNow(rows[c.row], new)
          BY <3>6, <3>8, <4>1 DEF RestsNow
        <4> HIDE DEF new, t
        <4> QED
          BY <1>1, <3>1, <3>2, <3>3, <4>2 DEF TimesStep, TimeStep
      <3> QED BY <3>7, <3>8
    <2> QED BY <2>1, <2>2
  <1>6. CASE ReleaseClaim(w)
    <2>1. CASE ~OwnsClaim(w)
      BY <1>6, <2>1, SameTimes DEF ReleaseClaim
    <2>2. CASE OwnsClaim(w)
      <3> DEFINE r   == claim[w].row
                 new == Released(rows[r], now)
      <3>1. r \in RowIds /\ rows[r] \in RowType
        BY <1>1, <2>2 DEF OwnsClaim, ClaimType
      <3>2. rows' = [rows EXCEPT ![r] = new]
        BY <1>6, <2>2 DEF ReleaseClaim
      <3>3. GivesUp(w, r) /\ rows[r].status = "sending_channel"
        BY <1>1, <1>6, <2>2 DEF ReleaseClaim, EndPass, GivesUp, OwnsClaim
      <3>4. EndedAt(rows[r], new, now) \/ RestsNow(rows[r], new)
        BY <1>1, <3>1, <3>3, ReleasedTimes DEF EndedAt, RestsNow, Terminal, Resting
      <3> HIDE DEF new
      <3> QED
        BY <1>1, <3>1, <3>2, <3>3, <3>4 DEF TimesStep, TimeStep
    <2> QED BY <2>1, <2>2
  <1>7. CASE \/ NothingDue(w) \/ Stop(w)
             \/ \E available \in BOOLEAN : ResolveBody(w, available)
             \/ \E o \in Outcomes : ChannelReturns(w, o)
    BY <1>7, SameTimes DEF NothingDue, Stop, ResolveBody, ChannelReturns, ProcessGone
  <1> QED
    BY <1>2, <1>3, <1>4, <1>5, <1>6, <1>7 DEF WorkerStep

(* The other steps of the server.                                          *)
LEMMA OtherTimes ==
    ASSUME SafeInv,
           \/ Ingress
           \/ \E s \in {"blocked_activation", "blocked_reconnect"} : Unblock(s)
           \/ \E S \in SUBSET Notices : CancelNotices(S) \/ DeleteOutbox(S)
    PROVE  TimesStep
  <1>1. now \in Nat /\ rows \in [RowIds -> RowType]
    BY TimesAssumption DEF SafeInv, TypeInv, TypeOK
  <1>2. CASE Ingress
    <2>1. ASSUME NEW r \in RowIds, NEW n, NEW at \in 0..now, Insert(r, n, at)
          PROVE  TimesStep
      <3>1. StagedNow(rows[r], NewRow(n, at))
        BY <1>1, <2>1 DEF StagedNow, Insert, NewRow, NoRow
      <3> QED
        BY <1>1, <2>1, <3>1 DEF TimesStep, TimeStep, Insert
    <2> QED
      BY <1>2, <2>1, SameTimes DEF Ingress, Enqueue, EnqueueReplay,
         EnqueueAdminTest, StageNotice
  <1>3. ASSUME NEW s \in {"blocked_activation", "blocked_reconnect"}, Unblock(s)
        PROVE  TimesStep
    <2> SUFFICES ASSUME NEW r \in RowIds, rows'[r] # rows[r] PROVE TimeStep(r)
      BY DEF TimesStep, TimeStep
    <2>1. rows[r].status = s /\ rows'[r] = Unblocked(rows[r], now)
      BY <1>3 DEF Unblock, Rewrite, RowsIn
    <2>2. RestsNow(rows[r], rows'[r]) /\ NotLeased(rows[r])
      BY <1>1, <2>1 DEF RestsNow, NotLeased, Resting, Unblocked, RowType
    <2> QED BY <2>2 DEF TimeStep
  <1>4. ASSUME NEW S \in SUBSET Notices, CancelNotices(S)
        PROVE  TimesStep
    <2> SUFFICES ASSUME NEW r \in RowIds, rows'[r] # rows[r] PROVE TimeStep(r)
      BY DEF TimesStep, TimeStep
    <2>1. rows[r].status \in Waiting /\ rows'[r] = Cancelled(rows[r], now)
      BY <1>4 DEF CancelNotices, Rewrite, RowsIn
    <2>2. EndedAt(rows[r], rows'[r], now)
      BY <1>1, <2>1 DEF EndedAt, Cancelled, RowType, Terminal
    <2> QED BY <2>2 DEF TimeStep
  <1>5. ASSUME NEW S \in SUBSET Notices, DeleteOutbox(S)
        PROVE  TimesStep
    <2> SUFFICES ASSUME NEW r \in RowIds, rows'[r] # rows[r] PROVE TimeStep(r)
      BY DEF TimesStep, TimeStep
    <2>1. r \in Deletable /\ rows'[r] = Tombstone(rows[r])
      BY <1>5 DEF DeleteOutbox, Rewrite
    <2>2. RemovedNow(rows[r], rows'[r])
      BY <2>1 DEF RemovedNow, Deletable, Tombstone, NoRow, Terminal
    <2> QED BY <2>2 DEF TimeStep
  <1> QED BY <1>2, <1>3, <1>4, <1>5

(* Every step.                                                             *)
LEMMA StepTimes ==
    ASSUME SafeInv, [Next]_vars
    PROVE  TimesStep
  <1>1. CASE Next
    BY <1>1, WorkerTimes, OtherTimes, SameTimes
       DEF Next, Deliver, RequestStop, Crash, ProcessGone, Tick
  <1>2. CASE UNCHANGED vars
    BY <1>2, SameTimes DEF vars
  <1> QED BY <1>1, <1>2

-----------------------------------------------------------------------------
(* The lease.                                                              *)

(* What a claim with token k, made at p, may find of its row: it is over,  *)
(* or still this claim's, or the lease has run out, and whoever has the    *)
(* row now, or will have it next, began after that.                        *)
Found(row, k, p, t) ==
    \/ row.status \in Terminal \cup {"deleted"}
    \/ /\ row.status = "sending_channel"
       /\ row.claim_token = k /\ row.claimed_at = p
    \/ /\ p + StaleClaim < t
       /\ row.status \in Resting \cup {"sending_channel"}
       /\ row.status = "retry_wait" => row.next_attempt_at > p + StaleClaim
       /\ row.status = "sending_channel" => row.claimed_at > p + StaleClaim

InPass == {"claimed", "sending", "returned"}

LeaseInv ==
    /\ \A w \in Workers :
         /\ passNow[w] <= now
         /\ claim[w] # None => /\ pc[w] \in InPass
                               /\ Found(rows[claim[w].row], claim[w].token,
                                        passNow[w], now)
    /\ \A v, w \in Workers :
         v # w /\ claim[v] # None /\ claim[w] # None
           => claim[v].token # claim[w].token
    /\ ExclusiveWithinLease

(* Time only passes, and the time of a pass stays as long as its claim.    *)
LEMMA PassChange ==
    ASSUME SafeInv, LeaseInv, [Next]_vars
    PROVE  /\ now' \in Nat /\ now <= now'
           /\ \A v \in Workers :
                /\ passNow'[v] <= now'
                /\ claim'[v] # None =>
                     /\ passNow'[v] = passNow[v] /\ pc'[v] \in InPass
                     /\ claim'[v] = claim[v] \/ ClaimNext(v)
  <1>1. /\ now \in Nat /\ claim \in [Workers -> ClaimType \cup {None}]
        /\ pc \in [Workers -> PcStates] /\ passNow \in [Workers -> 0..MaxTime]
        /\ MaxTime \in Nat
    BY TimesAssumption DEF SafeInv, TypeInv, TypeOK
  <1>2. \A v \in Workers : /\ passNow[v] <= now /\ passNow[v] \in Nat
                           /\ claim[v] # None => pc[v] \in InPass
    BY <1>1 DEF LeaseInv
  <1> DEFINE Goal == /\ now' \in Nat /\ now <= now'
                     /\ \A v \in Workers :
                          /\ passNow'[v] <= now'
                          /\ claim'[v] # None =>
                               /\ passNow'[v] = passNow[v] /\ pc'[v] \in InPass
                               /\ claim'[v] = claim[v] \/ ClaimNext(v)
  <1> SUFFICES Goal
    OBVIOUS
  <1>3. ASSUME now' \in Nat, now <= now', UNCHANGED <<pc, passNow, claim>> PROVE Goal
    BY <1>1, <1>2, <1>3
  <1>4. ASSUME NEW w \in Workers, EndPass(w) \/ ProcessGone(w) PROVE Goal
    BY <1>1, <1>2, <1>4 DEF EndPass, ProcessGone
  <1>5. ASSUME NEW w \in Workers, WorkerStep(w) PROVE Goal
    <2>1. CASE StartServer(w) \/ StartWorker(w)
      BY <1>1, <1>2, <2>1 DEF StartServer, StartWorker, InPass
    <2>2. CASE ExpireDue(w)
      BY <1>1, <1>2, <2>2 DEF ExpireDue, InPass
    <2>3. CASE ClaimNext(w)
      <3>1. /\ UNCHANGED <<now, passNow>> /\ pc' = [pc EXCEPT ![w] = "claimed"]
            /\ \A v \in Workers \ {w} : claim'[v] = claim[v]
        BY <1>1, <2>3 DEF ClaimNext
      <3> QED BY <1>1, <1>2, <2>3, <3>1 DEF InPass
    <2>4. CASE NothingDue(w) \/ Stop(w) \/ FinishClaim(w) \/ ReleaseClaim(w)
      BY <1>4, <2>4 DEF NothingDue, Stop, FinishClaim, ReleaseClaim
    <2>5. CASE \/ \E available \in BOOLEAN : ResolveBody(w, available)
               \/ \E o \in Outcomes : ChannelReturns(w, o)
      BY <1>1, <1>2, <2>5 DEF ResolveBody, ChannelReturns, InPass
    <2> QED BY <1>5, <2>1, <2>2, <2>3, <2>4, <2>5 DEF WorkerStep
  <1>6. CASE UNCHANGED vars \/ Ingress
    BY <1>1, <1>3, <1>6 DEF vars, Ingress, Enqueue, EnqueueReplay, EnqueueAdminTest,
                      StageNotice, workerVars
  <1>7. ASSUME NEW w \in Workers, Deliver(w) \/ RequestStop(w) \/ Crash(w) PROVE Goal
    BY <1>1, <1>3, <1>4, <1>7 DEF Deliver, RequestStop, Crash, workerVars
  <1>8. CASE \/ \E s \in {"blocked_activation", "blocked_reconnect"} : Unblock(s)
             \/ \E S \in SUBSET Notices : CancelNotices(S) \/ DeleteOutbox(S)
             \/ Tick
    <2>1. /\ now' = now \/ now' = now + 1
          /\ UNCHANGED workerVars
      BY <1>8 DEF Unblock, CancelNotices, DeleteOutbox, Tick
    <2> QED BY <1>1, <1>3, <2>1 DEF workerVars
  <1> HIDE DEF Goal
  <1> QED
    BY <1>5, <1>6, <1>7, <1>8 DEF Next

(* Whatever happens to the row, a claim that is held finds no more of it   *)
(* than this.                                                              *)
LEMMA FoundStep ==
    ASSUME SafeInv, LeaseInv, [Next]_vars, NEW v \in Workers,
           claim[v] # None, claim'[v] = claim[v], now' \in Nat, now <= now'
    PROVE  Found(rows'[claim[v].row], claim[v].token, passNow[v], now')
  <1> DEFINE r == claim[v].row
             k == claim[v].token
             p == passNow[v]
  <1>1. /\ r \in RowIds /\ rows[r] \in RowType /\ now \in Nat /\ p \in Nat
        /\ StaleClaim \in Nat /\ \A w \in Workers : passNow[w] \in Nat
    BY TimesAssumption DEF SafeInv, TypeInv, TypeOK, ClaimType
  <1>2. Found(rows[r], k, p, now)
    BY DEF LeaseInv
  <1>3. TimeStep(r)
    BY <1>1, StepTimes DEF TimesStep
  <1>4. rows[r].next_attempt_at \in Nat \cup {NoTime} /\ rows[r].claimed_at \in Nat \cup {NoTime}
    BY <1>1 DEF RowType
  <1> HIDE DEF r, k, p
  <1>5. ASSUME rows'[r] = rows[r] PROVE Found(rows'[r], k, p, now')
    BY <1>1, <1>2, <1>5 DEF Found
  <1>6. ASSUME StagedNow(rows[r], rows'[r]) PROVE FALSE
    BY <1>2, <1>6 DEF Found, StagedNow, Terminal, Resting
  <1>7. ASSUME NEW w \in Workers, ClaimedAt(rows[r], rows'[r], passNow[w])
        PROVE  Found(rows'[r], k, p, now')
    <2>1. /\ rows[r].status = "retry_wait" /\ p + StaleClaim < now
          /\ rows[r].next_attempt_at > p + StaleClaim
      BY <1>2, <1>7 DEF Found, ClaimedAt, Terminal, Resting
    <2>2. rows[r].next_attempt_at # NoTime
      BY <1>1, <2>1 DEF NoTime
    <2>3. rows'[r].claimed_at >= rows[r].next_attempt_at /\ rows'[r].claimed_at \in Nat
      BY <1>1, <1>7, <2>2 DEF ClaimedAt
    <2>4. rows'[r].claimed_at > p + StaleClaim
      BY <1>1, <1>4, <2>1, <2>2, <2>3
    <2> QED BY <1>1, <1>7, <2>1, <2>4 DEF Found, ClaimedAt
  <1>8. ASSUME NEW t, EndedAt(rows[r], rows'[r], t)
        PROVE  Found(rows'[r], k, p, now')
    BY <1>8 DEF Found, EndedAt
  <1>9. ASSUME p + StaleClaim < now, RestsNow(rows[r], rows'[r])
        PROVE  Found(rows'[r], k, p, now')
    <2>1. /\ rows'[r].status \in Resting /\ rows'[r].status # "sending_channel"
          /\ rows'[r].status = "retry_wait" => rows'[r].next_attempt_at >= now
      BY <1>9 DEF RestsNow, Resting
    <2>2. rows'[r].next_attempt_at \in Nat \cup {NoTime}
      BY <1>1, TypeStep DEF SafeInv, TypeInv, TypeOK, RowType
    <2>3. rows'[r].status = "retry_wait" => rows'[r].next_attempt_at > p + StaleClaim
      BY <1>1, <1>9, <2>1, <2>2 DEF NoTime
    <2> QED BY <1>1, <1>9, <2>1, <2>3 DEF Found
  <1>10. ASSUME NotLeased(rows[r]) PROVE p + StaleClaim < now
    BY <1>1, <1>2, <1>10 DEF Found, NotLeased, Resting, Terminal
  <1>11. ASSUME NEW w \in Workers, GivesUp(w, r) PROVE p + StaleClaim < now
    <2>1. w # v
      BY <1>11 DEF GivesUp, OwnsClaim
    <2>2. k # claim[w].token
      BY <1>11, <2>1 DEF LeaseInv, GivesUp, OwnsClaim, k
    <2>3. rows[r].status = "sending_channel" /\ rows[r].claim_token = claim[w].token
      BY <1>11 DEF GivesUp, OwnsClaim
    <2> QED BY <1>2, <2>2, <2>3 DEF Found, Terminal
  <1>12. ASSUME RemovedNow(rows[r], rows'[r]) PROVE Found(rows'[r], k, p, now')
    BY <1>12 DEF RemovedNow, Found
  <1>13. Found(rows'[r], k, p, now')
    BY <1>3, <1>5, <1>6, <1>7, <1>8, <1>9, <1>10, <1>11, <1>12 DEF TimeStep
  <1> QED BY <1>13 DEF r, k, p

(* A claim begins after the lease of everybody who still holds the row.    *)
LEMMA NewClaim ==
    ASSUME SafeInv, LeaseInv, [Next]_vars, NEW w \in Workers, ClaimNext(w)
    PROVE  /\ claim'[w] # None /\ claim'[w].token \in FreshTokens
           /\ Found(rows'[claim'[w].row], claim'[w].token, passNow[w], now)
           /\ \A v \in Workers \ {w} :
                claim[v] # None /\ claim[v].row = claim'[w].row
                  => passNow[v] < passNow[w] - StaleClaim
  <1>1. /\ rows \in [RowIds -> RowType] /\ claim \in [Workers -> ClaimType \cup {None}]
        /\ StaleClaim \in Nat /\ \A u \in Workers : passNow[u] \in Nat
    BY TimesAssumption DEF SafeInv, TypeInv, TypeOK
  <1>2. PICK r \in Due(passNow[w]), t \in FreshTokens :
          /\ rows' = [rows EXCEPT ![r] = Claimed(@, t, passNow[w])]
          /\ claim' = [claim EXCEPT ![w] =
                        [row |-> r, token |-> t, expires_at |-> ExpiresAt(r),
                         attempt_count |-> rows[r].attempt_count + 1]]
    BY DEF ClaimNext
  <1>3. /\ r \in RowIds /\ rows[r] \in RowType /\ DueAt(r) <= passNow[w]
        /\ rows[r].status \in {"pending_channel", "retry_wait"}
    BY <1>1 DEF Due, RowsIn
  <1>4. claim'[w].row = r /\ claim'[w].token = t
    BY <1>1, <1>2
  <1>5. claim'[w] # None
    <2>1. TypeInv'
      BY TypeStep DEF SafeInv
    <2>2. pc'[w] = "claimed"
      BY DEF ClaimNext, SafeInv, TypeInv, TypeOK
    <2> QED BY <2>1, <2>2, NoneAssumption DEF TypeInv, WorkerOK
  <1>6. Found(rows'[r], t, passNow[w], now)
    <2>1. /\ Claimed(rows[r], t, passNow[w]).status = "sending_channel"
          /\ Claimed(rows[r], t, passNow[w]).claim_token = t
          /\ Claimed(rows[r], t, passNow[w]).claimed_at = passNow[w]
      BY <1>3 DEF Claimed, RowType
    <2>2. rows'[r] = Claimed(rows[r], t, passNow[w])
      BY <1>1, <1>2, <1>3
    <2> QED BY <2>1, <2>2 DEF Found
  <1>7. ASSUME NEW v \in Workers \ {w}, claim[v] # None, claim[v].row = r
        PROVE  passNow[v] < passNow[w] - StaleClaim
    <2>1. Found(rows[r], claim[v].token, passNow[v], now)
      BY <1>7 DEF LeaseInv
    <2>2. rows[r].status = "retry_wait" /\ rows[r].next_attempt_at > passNow[v] + StaleClaim
      BY <1>3, <2>1 DEF Found, Terminal, Resting
    <2>3. rows[r].next_attempt_at # NoTime /\ rows[r].next_attempt_at \in Nat \cup {NoTime}
      BY <1>1, <1>3, <2>2 DEF NoTime, RowType
    <2>4. rows[r].next_attempt_at <= passNow[w]
      BY <1>3, <2>3 DEF DueAt
    <2> QED BY <1>1, <2>2, <2>3, <2>4
  <1> QED BY <1>4, <1>5, <1>6, <1>7

(* The lease is kept by every step.                                        *)
LEMMA LeaseStep == ASSUME SafeInv, LeaseInv, [Next]_vars PROVE LeaseInv'
  <1>1. /\ now' \in Nat /\ now <= now' /\ now \in Nat /\ StaleClaim \in Nat
        /\ \A v \in Workers :
             /\ passNow'[v] <= now'
             /\ claim'[v] # None =>
                  /\ passNow'[v] = passNow[v] /\ pc'[v] \in InPass
                  /\ claim'[v] = claim[v] \/ ClaimNext(v)
    BY PassChange, TimesAssumption DEF SafeInv, TypeInv, TypeOK
  <1>2. \A u, v \in Workers : ClaimNext(u) /\ u # v => claim'[v] = claim[v]
    BY DEF ClaimNext, SafeInv, TypeInv, TypeOK
  <1>3. ASSUME NEW v \in Workers, claim'[v] # None
        PROVE  Found(rows'[claim'[v].row], claim'[v].token, passNow'[v], now')
    <2>1. passNow'[v] = passNow[v] /\ (claim'[v] = claim[v] \/ ClaimNext(v))
      BY <1>1, <1>3
    <2>2. CASE claim'[v] = claim[v]
      BY <1>1, <1>3, <2>1, <2>2, FoundStep
    <2>3. CASE ClaimNext(v)
      <3>1. Found(rows'[claim'[v].row], claim'[v].token, passNow[v], now)
        BY <2>3, NewClaim
      <3>2. now' = now
        BY <2>3 DEF ClaimNext
      <3> QED BY <2>1, <3>1, <3>2
    <2> QED BY <2>1, <2>2, <2>3
  <1>4. ASSUME NEW v \in Workers, NEW w \in Workers, v # w, claim'[v] # None, claim'[w] # None
        PROVE  claim'[v].token # claim'[w].token
    <2>1. ASSUME NEW u \in Workers, claim[u] # None PROVE claim[u].token \notin FreshTokens
      BY <2>1 DEF FreshTokens
    <2> QED BY <1>1, <1>2, <1>4, <2>1, NewClaim DEF LeaseInv
  <1>5. ExclusiveWithinLease'
    <2> SUFFICES ASSUME NEW v \in Workers, NEW w \in Workers, v # w,
                        claim'[v] # None, claim'[w] # None, claim'[v].row = claim'[w].row
                 PROVE  \/ passNow[v] < passNow[w] - StaleClaim
                        \/ passNow[w] < passNow[v] - StaleClaim
      BY <1>1 DEF ExclusiveWithinLease
    <2>1. CASE claim'[v] = claim[v] /\ claim'[w] = claim[w]
      BY <2>1 DEF LeaseInv, ExclusiveWithinLease
    <2>2. CASE ClaimNext(w)
      BY <1>2, <2>2, NewClaim
    <2>3. CASE ClaimNext(v)
      BY <1>2, <2>3, NewClaim
    <2> QED BY <1>1, <2>1, <2>2, <2>3
  <1> QED
    BY <1>1, <1>3, <1>4, <1>5 DEF LeaseInv

(* Two processes have the same row in hand only when the pass of one began *)
(* more than STALE_CLAIM_MS before the pass of the other, whatever they    *)
(* and retention, unblocking, releases and restarts did in between.        *)
THEOREM LeaseIsExclusive == Spec => []ExclusiveWithinLease
  <1>1. Init => LeaseInv
    BY DEF Init, LeaseInv, ExclusiveWithinLease
  <1>2. LeaseInv => ExclusiveWithinLease
    BY DEF LeaseInv
  <1> QED
    BY <1>1, <1>2, LeaseStep, Safe, PTL DEF Spec

-----------------------------------------------------------------------------
(* One row for a submission.                                               *)

(* The times of a row that is in the table.                                *)
TimesInv(r) ==
    Exists(r) =>
      /\ rows[r].created_at <= now
      /\ rows[r].created_at <= rows[r].updated_at
      /\ rows[r].next_attempt_at = NoTime \/ rows[r].created_at <= rows[r].next_attempt_at

(* A pass that holds a row began after the row was staged.                 *)
PassInv(w) ==
    claim[w] # None /\ Exists(claim[w].row)
      => rows[claim[w].row].created_at <= passNow[w]

(* A test message is named after its row; any other that is not a link     *)
(* expires within its time to live, and retention has removed only what    *)
(* has expired.                                                            *)
ContentInv(r) ==
    rows[r].status # "absent" /\ rows[r].content.kind = "plain" =>
      \/ /\ rows[r].content.origin = "admin"
         /\ rows[r].content.notification_id = r
      \/ /\ rows[r].content.origin # "admin"
         /\ rows[r].status = "deleted" => rows[r].content.expires_at < now
         /\ rows[r].status # "deleted" =>
              rows[r].content.expires_at <= rows[r].created_at + MaxTTL

OnceInv ==
    /\ \A r \in RowIds : TimesInv(r) /\ ContentInv(r)
    /\ \A w \in Workers : PassInv(w)
    /\ StoredOnce

(* A row comes into being in one of three ways only.                       *)
LEMMA Staging ==
    ASSUME SafeInv, [Next]_vars, NEW r \in RowIds,
           rows[r].status = "absent", rows'[r] # rows[r]
    PROVE  \E at \in 0..now :
             \/ \E n \in Notifications : Enqueue(r, n, at) \/ StageNotice(r, n, at)
             \/ EnqueueAdminTest(r, at)
  <1>1. /\ rows \in [RowIds -> RowType] /\ claim \in [Workers -> ClaimType \cup {None}]
    BY DEF SafeInv, TypeInv, TypeOK
  <1>2. ASSUME NEW w \in Workers, WorkerStep(w) PROVE FALSE
    <2>1. CASE StartServer(w) \/ StartWorker(w)
      BY <2>1 DEF StartServer, StartWorker, RecoverStaleClaims
    <2>2. CASE ExpireDue(w)
      BY <2>2 DEF ExpireDue, Rewrite, RowsIn, Waiting
    <2>3. CASE ClaimNext(w)
      BY <1>1, <2>3 DEF ClaimNext, Due, RowsIn
    <2>4. CASE FinishClaim(w) \/ ReleaseClaim(w)
      BY <1>1, <2>4 DEF FinishClaim, ReleaseClaim, OwnsClaim
    <2>5. CASE \/ NothingDue(w) \/ Stop(w)
               \/ \E available \in BOOLEAN : ResolveBody(w, available)
               \/ \E o \in Outcomes : ChannelReturns(w, o)
      BY <2>5 DEF NothingDue, Stop, ResolveBody, ChannelReturns, ProcessGone
    <2> QED BY <1>2, <2>1, <2>2, <2>3, <2>4, <2>5 DEF WorkerStep
  <1>3. ASSUME NEW w \in Workers, Deliver(w) \/ RequestStop(w) \/ Crash(w) PROVE FALSE
    BY <1>3 DEF Deliver, RequestStop, Crash, ProcessGone
  <1>4. ASSUME NEW s \in {"blocked_activation", "blocked_reconnect"}, Unblock(s) PROVE FALSE
    BY <1>4 DEF Unblock, Rewrite, RowsIn
  <1>5. ASSUME NEW S \in SUBSET Notices, CancelNotices(S) \/ DeleteOutbox(S) PROVE FALSE
    BY <1>5 DEF CancelNotices, DeleteOutbox, Rewrite, RowsIn, Waiting, Deletable
  <1>6. CASE Tick \/ UNCHANGED vars
    BY <1>6 DEF Tick, vars
  <1>7. CASE Ingress
    BY <1>1, <1>7 DEF Ingress, Enqueue, EnqueueReplay, EnqueueAdminTest, StageNotice, Insert
  <1> QED
    BY <1>2, <1>3, <1>4, <1>5, <1>6, <1>7 DEF Next

(* A row that is there keeps its content, and never becomes absent.        *)
LEMMA ContentStays ==
    ASSUME NEW row, NEW new, row.status # "absent", RowStep(row, new)
    PROVE  /\ new.content = row.content /\ new.status # "absent"
           /\ row.status = "deleted" => new.status = "deleted"
  BY DEF RowStep, Stages, Claims, Leaves, Removes, Waiting, Terminal,
         Lifecycle!can_transition_to, Lifecycle!is_terminal, Lifecycle!Released

(* A row in the table has its times in order.                              *)
LEMMA TimesInvStep ==
    ASSUME SafeInv, LeaseInv, OnceInv, [Next]_vars, NEW r \in RowIds
    PROVE  /\ TimesInv(r)'
           /\ Exists(r) /\ rows'[r].status \notin {"absent", "deleted"}
                => rows'[r].created_at = rows[r].created_at
           /\ rows'[r].status = "deleted" /\ rows[r].status # "deleted" =>
                /\ Exists(r)
                /\ \/ rows[r].updated_at < now - AcceptedRetention
                   \/ rows[r].updated_at < now - DeadLetterRetention
  <1>1. /\ rows[r] \in RowType /\ rows'[r] \in RowType /\ now \in Nat /\ now' \in Nat
        /\ now <= now'
        /\ \A w \in Workers : passNow[w] \in Nat
    BY TypeStep, PassChange, TimesAssumption DEF SafeInv, TypeInv, TypeOK
  <1>2. /\ rows[r].created_at \in Nat /\ rows[r].updated_at \in Nat
        /\ rows[r].next_attempt_at \in Nat \cup {NoTime}
        /\ rows'[r].created_at \in Nat /\ rows'[r].updated_at \in Nat
        /\ rows'[r].next_attempt_at \in Nat \cup {NoTime}
    BY <1>1 DEF RowType
  <1>3. TimesInv(r)
    BY DEF OnceInv
  <1>4. TimeStep(r)
    BY StepTimes DEF TimesStep
  <1>5. CASE rows'[r] = rows[r]
    BY <1>1, <1>2, <1>3, <1>5 DEF TimesInv, Exists
  <1>6. CASE StagedNow(rows[r], rows'[r])
    BY <1>1, <1>2, <1>6 DEF StagedNow, TimesInv, Exists
  <1>7. ASSUME NEW w \in Workers, ClaimedAt(rows[r], rows'[r], passNow[w])
        PROVE  /\ TimesInv(r)'
               /\ rows'[r].created_at = rows[r].created_at
               /\ rows'[r].status # "deleted"
    BY <1>1, <1>2, <1>3, <1>7 DEF ClaimedAt, TimesInv, Exists
  <1>8. ASSUME EndedAt(rows[r], rows'[r], now)
        PROVE  /\ TimesInv(r)'
               /\ rows'[r].created_at = rows[r].created_at
               /\ rows'[r].status # "deleted"
    BY <1>1, <1>2, <1>3, <1>8 DEF EndedAt, TimesInv, Exists, Waiting, Terminal
  <1>9. ASSUME NEW w \in Workers, GivesUp(w, r), EndedAt(rows[r], rows'[r], passNow[w])
        PROVE  /\ TimesInv(r)'
               /\ rows'[r].created_at = rows[r].created_at
               /\ rows'[r].status # "deleted"
    <2>1. rows[r].created_at <= passNow[w]
      BY <1>9 DEF OnceInv, PassInv, GivesUp, OwnsClaim, Exists
    <2> QED BY <1>1, <1>2, <1>3, <1>9, <2>1 DEF EndedAt, TimesInv, Exists, Waiting, Terminal
  <1>10. ASSUME RestsNow(rows[r], rows'[r]), Exists(r)
        PROVE  /\ TimesInv(r)'
               /\ rows'[r].created_at = rows[r].created_at
               /\ rows'[r].status # "deleted"
    BY <1>1, <1>2, <1>3, <1>10 DEF RestsNow, TimesInv, Exists, Resting
  <1>11. NotLeased(rows[r]) => Exists(r)
    BY DEF NotLeased, Exists, Resting
  <1>12. \A w \in Workers : GivesUp(w, r) => Exists(r)
    BY DEF GivesUp, OwnsClaim, Exists
  <1>13. CASE RemovedNow(rows[r], rows'[r])
    BY <1>13 DEF RemovedNow, TimesInv, Exists, Terminal
  <1> QED
    BY <1>4, <1>5, <1>6, <1>7, <1>8, <1>9, <1>10, <1>11, <1>12, <1>13 DEF TimeStep

(* Retention keeps a row at least as long as a submission may live.        *)
KeptLongEnough == MaxTTL <= AcceptedRetention /\ MaxTTL <= DeadLetterRetention

(* What the contents say stays true, new rows included.                    *)
LEMMA ContentInvStep ==
    ASSUME SafeInv, LeaseInv, OnceInv, [Next]_vars, NEW r \in RowIds, KeptLongEnough
    PROVE  ContentInv(r)'
  <1>1. /\ rows[r] \in RowType /\ rows'[r] \in RowType /\ now \in Nat /\ now' \in Nat
        /\ now <= now' /\ MaxTTL \in Nat /\ AcceptedRetention \in Nat
        /\ DeadLetterRetention \in Nat /\ rows \in [RowIds -> RowType]
    BY TypeStep, PassChange, TimesAssumption DEF SafeInv, TypeInv, TypeOK
  <1>2. rows[r].created_at \in Nat /\ rows[r].updated_at \in Nat
    BY <1>1 DEF RowType
  <1>3. CASE rows[r].status # "absent"
    <2>1. /\ rows'[r].content = rows[r].content /\ rows'[r].status # "absent"
          /\ rows[r].status = "deleted" => rows'[r].status = "deleted"
      BY <1>3, StepRows, ContentStays DEF RowsStep
    <2>2. ContentInv(r) /\ TimesInv(r)
      BY DEF OnceInv
    <2>3. rows[r].content.expires_at \in Nat
      BY <1>3, ContentFields DEF SafeInv, TypeInv, TypeOK
    <2>4. CASE rows'[r].status # "deleted"
      <3>1. rows'[r].created_at = rows[r].created_at
        BY <1>3, <2>1, <2>4, TimesInvStep DEF Exists
      <3> QED BY <1>3, <2>1, <2>2, <2>4, <3>1 DEF ContentInv
    <2>5. CASE rows'[r].status = "deleted" /\ rows[r].status = "deleted"
      BY <1>1, <1>3, <2>1, <2>2, <2>3, <2>5 DEF ContentInv
    <2>6. CASE rows'[r].status = "deleted" /\ rows[r].status # "deleted"
      <3>1. /\ rows[r].created_at <= rows[r].updated_at
            /\ \/ rows[r].updated_at < now - AcceptedRetention
               \/ rows[r].updated_at < now - DeadLetterRetention
        BY <2>2, <2>6, TimesInvStep DEF TimesInv
      <3>2. rows[r].content.expires_at <= rows[r].created_at + MaxTTL
              => rows[r].content.expires_at < now'
        BY <1>1, <1>2, <2>3, <3>1 DEF KeptLongEnough
      <3> QED BY <1>3, <2>1, <2>2, <2>6, <3>2 DEF ContentInv
    <2> QED BY <2>4, <2>5, <2>6
  <1>4. CASE rows[r].status = "absent" /\ rows'[r] = rows[r]
    BY <1>4 DEF ContentInv
  <1>5. CASE rows[r].status = "absent" /\ rows'[r] # rows[r]
    <2>1. ASSUME NEW n, NEW at, Insert(r, n, at)
          PROVE  /\ rows'[r].content = n /\ rows'[r].created_at = at
                 /\ rows'[r].status # "deleted"
      BY <1>1, <2>1 DEF Insert, NewRow, NoRow
    <2>5. PICK at \in 0..now :
            \/ \E n \in Notifications : Enqueue(r, n, at) \/ StageNotice(r, n, at)
            \/ EnqueueAdminTest(r, at)
      BY <1>5, Staging
    <2>2. ASSUME NEW n \in Notifications, Enqueue(r, n, at) PROVE ContentInv(r)'
      <3>1. n.expires_at \in Nat /\ n.origin # "admin" /\ n.expires_at - at <= MaxTTL
            /\ Insert(r, n, at)
        BY <2>2, NotificationsAssumption DEF Enqueue, Valid
      <3>2. n.expires_at <= at + MaxTTL
        BY <1>1, <3>1
      <3> QED BY <2>1, <3>1, <3>2 DEF ContentInv
    <2>3. ASSUME NEW n \in Notifications, StageNotice(r, n, at) PROVE ContentInv(r)'
      BY <2>1, <2>3 DEF ContentInv, StageNotice
    <2>4. CASE EnqueueAdminTest(r, at)
      BY <2>1, <2>4 DEF ContentInv, EnqueueAdminTest, AdminTest
    <2> QED BY <2>2, <2>3, <2>4, <2>5
  <1> QED BY <1>3, <1>4, <1>5

(* No second row for a content that is valid: a submission is compared     *)
(* with the rows that are there, and the ones that are not have expired.   *)
LEMMA NoSecondRow ==
    ASSUME SafeInv, OnceInv, [Next]_vars, NEW r \in RowIds, NEW s \in RowIds, r # s,
           rows[r].status = "absent", rows'[r] # rows[r], rows[s].status # "absent",
           rows[s].content.kind = "plain", rows'[r].content = rows[s].content
    PROVE  rows[s].content.expires_at < now
  <1>1. rows \in [RowIds -> RowType] /\ now \in Nat
    BY TimesAssumption DEF SafeInv, TypeInv, TypeOK
  <1>2. ASSUME NEW n, NEW at, Insert(r, n, at) PROVE rows[s].content = n
    BY <1>1, <1>2 DEF Insert, NewRow, NoRow
  <1>3. ContentInv(s)
    BY DEF OnceInv
  <1>4. ASSUME NEW n \in Notifications, NEW at, Enqueue(r, n, at)
        PROVE  rows[s].content.expires_at < now
    <2>1. Collisions(n) = {} /\ n.origin # "admin" /\ rows[s].content = n
      BY <1>2, <1>4, NotificationsAssumption DEF Enqueue
    <2>2. ~Exists(s)
      BY <2>1 DEF Collisions
    <2>3. rows[s].status = "deleted"
      BY <2>2 DEF Exists
    <2> QED BY <1>3, <2>1, <2>3 DEF ContentInv
  <1>5. ASSUME NEW n \in Notifications, NEW at, StageNotice(r, n, at) PROVE FALSE
    BY <1>2, <1>5 DEF StageNotice
  <1>6. ASSUME NEW at, EnqueueAdminTest(r, at) PROVE FALSE
    <2>1. /\ rows[s].content.origin = "admin"
          /\ rows[s].content.notification_id = r
      BY <1>2, <1>6 DEF EnqueueAdminTest, AdminTest
    <2> QED BY <1>3, <2>1 DEF ContentInv
  <1> QED
    BY <1>4, <1>5, <1>6, Staging

(* Two rows are not staged in one step.                                    *)
LEMMA OneIsStaged ==
    ASSUME SafeInv, [Next]_vars, NEW r \in RowIds, NEW s \in RowIds,
           rows[r].status = "absent", rows'[r] # rows[r],
           rows[s].status = "absent", rows'[s] # rows[s]
    PROVE  r = s
  <1>1. \E n, at : Insert(r, n, at)
    BY Staging DEF Enqueue, StageNotice, EnqueueAdminTest
  <1> QED BY <1>1 DEF Insert, SafeInv, TypeInv, TypeOK

(* The invariant of the contents is kept by every step.                    *)
LEMMA OnceStep ==
    ASSUME SafeInv, LeaseInv, OnceInv, [Next]_vars, KeptLongEnough
    PROVE  OnceInv'
  <1>1. \A r \in RowIds : TimesInv(r)' /\ ContentInv(r)'
    BY TimesInvStep, ContentInvStep
  <1>2. ASSUME NEW r \in RowIds, rows[r].status # "absent"
        PROVE  rows'[r].content = rows[r].content /\ rows'[r].status # "absent"
               /\ (rows[r].status = "deleted" => rows'[r].status = "deleted")
    BY <1>2, StepRows, ContentStays DEF RowsStep
  <1>3. ASSUME NEW w \in Workers PROVE PassInv(w)'
    <2> SUFFICES ASSUME claim'[w] # None, rows'[claim'[w].row].status \notin {"absent", "deleted"}
                 PROVE  rows'[claim'[w].row].created_at <= passNow'[w]
      BY DEF PassInv, Exists
    <2>1. passNow'[w] = passNow[w] /\ (claim'[w] = claim[w] \/ ClaimNext(w))
      BY PassChange
    <2>2. CASE claim'[w] = claim[w]
      <3> DEFINE r == claim[w].row
      <3>1. r \in RowIds /\ rows[r].status # "absent"
        BY <2>2 DEF SafeInv, TypeInv, TypeOK, ClaimInv, ClaimType
      <3>2. Exists(r)
        BY <1>2, <2>2, <3>1 DEF Exists
      <3>3. rows'[r].created_at = rows[r].created_at
        BY <2>2, <3>1, <3>2, TimesInvStep
      <3> QED BY <2>1, <2>2, <3>2, <3>3 DEF OnceInv, PassInv
    <2>3. CASE ClaimNext(w)
      <3>1. PICK r \in Due(passNow[w]), t \in FreshTokens :
              /\ rows' = [rows EXCEPT ![r] = Claimed(@, t, passNow[w])]
              /\ claim' = [claim EXCEPT ![w] =
                            [row |-> r, token |-> t, expires_at |-> ExpiresAt(r),
                             attempt_count |-> rows[r].attempt_count + 1]]
        BY <2>3 DEF ClaimNext
      <3>2. /\ r \in RowIds /\ rows[r] \in RowType /\ DueAt(r) <= passNow[w]
            /\ rows[r].status \in {"pending_channel", "retry_wait"}
            /\ passNow[w] \in Nat /\ claim'[w].row = r
            /\ rows'[r] = Claimed(rows[r], t, passNow[w])
        BY <3>1, TimesAssumption DEF Due, RowsIn, SafeInv, TypeInv, TypeOK
      <3>3. Claimed(rows[r], t, passNow[w]).created_at = rows[r].created_at
        BY <3>2 DEF Claimed, RowType
      <3>4. TimesInv(r) /\ Exists(r)
        BY <3>2 DEF OnceInv, Exists
      <3>5. rows[r].created_at <= DueAt(r) /\ rows[r].created_at \in Nat /\ DueAt(r) \in Nat
        BY <3>2, <3>4 DEF TimesInv, DueAt, RowType, NoTime
      <3> QED BY <2>1, <3>2, <3>3, <3>5
    <2> QED BY <2>1, <2>2, <2>3
  <1>4. StoredOnce'
    <2> SUFFICES ASSUME NEW r \in RowIds, NEW s \in RowIds, r # s,
                        rows'[r].status # "absent", rows'[s].status # "absent",
                        rows'[r].content.kind = "plain", rows'[r].content = rows'[s].content
                 PROVE  rows'[r].content.expires_at < now'
      BY DEF StoredOnce
    <2> DEFINE c == rows'[r].content
    <2>5. now \in Nat /\ now' \in Nat /\ now <= now' /\ c.expires_at \in Nat
      <3>1. c \in Contents
        BY TypeStep DEF SafeInv, TypeInv, TypeOK
      <3> QED BY <3>1, ContentFields, TypeStep, PassChange, TimesAssumption
                 DEF SafeInv, TypeInv, TypeOK
    <2>1. CASE rows[r].status # "absent" /\ rows[s].status # "absent"
      <3>1. c.expires_at < now
        BY <1>2, <2>1 DEF OnceInv, StoredOnce
      <3> QED BY <2>5, <3>1
    <2>2. CASE rows[r].status = "absent" /\ rows[s].status # "absent"
      <3>1. c.expires_at < now
        BY <1>2, <2>2, NoSecondRow
      <3> QED BY <2>5, <3>1
    <2>3. CASE rows[r].status # "absent" /\ rows[s].status = "absent"
      <3>1. c.expires_at < now
        BY <1>2, <2>3, NoSecondRow
      <3> QED BY <2>5, <3>1
    <2>4. CASE rows[r].status = "absent" /\ rows[s].status = "absent"
      BY <2>4, OneIsStaged
    <2> QED BY <2>1, <2>2, <2>3, <2>4
  <1> QED BY <1>1, <1>3, <1>4 DEF OnceInv

(* No submission is stored twice while it is valid, however often it is    *)
(* retried and however long a retry waits for the write lock, as long as   *)
(* retention keeps settled rows for MAX_TTL_MS: with the default of 30 and *)
(* 90 days it does; an accepted_days below 30, which config.rs allows,     *)
(* gives the guarantee up.                                                 *)
THEOREM SubmissionsAreStoredOnce == KeptLongEnough => (Spec => []StoredOnce)
  <1>1. Init => LeaseInv
    BY DEF Init, LeaseInv, ExclusiveWithinLease
  <1>2. Init => OnceInv
    BY DEF Init, OnceInv, TimesInv, ContentInv, PassInv, StoredOnce, Exists, NoRow
  <1>3. OnceInv => StoredOnce
    BY DEF OnceInv
  <1>4. Spec => [](SafeInv /\ LeaseInv)
    BY <1>1, LeaseStep, Safe, PTL DEF Spec
  <1> SUFFICES ASSUME KeptLongEnough PROVE Spec => []StoredOnce
    OBVIOUS
  <1>5. SafeInv /\ LeaseInv /\ OnceInv /\ [Next]_vars => OnceInv'
    BY OnceStep
  <1> QED
    BY <1>2, <1>3, <1>4, <1>5, PTL DEF Spec
=============================================================================
