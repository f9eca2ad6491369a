----------------------------- MODULE ResultPages -----------------------------
(***************************************************************************)
(* One published result on the relay server (apps/server/src/results.rs):  *)
(* its row in `results`, the notices that announce it in the outbox, the   *)
(* trigger that projects the current notice onto the row, revocation,      *)
(* resending, the retention of the body and of the notices, and the        *)
(* receipt every request of the owner is answered with.                    *)
(*                                                                         *)
(* One action is one SQLite write transaction.  An operation reads the     *)
(* clock before it waits for the writer lock, so a transaction may carry a *)
(* time up to WriteLag old.  What the outbox worker does to a notice is    *)
(* taken from DeliveryLifecycle, which RelayOutbox implements.             *)
(***************************************************************************)
EXTENDS Integers, FiniteSets

CONSTANTS
    Notices,     \* notification ids of this result, in order of creation
    Requests,    \* request ids of resend actions, in order of creation
    None,        \* SQL NULL for an id
    PageTTL,     \* [results] share_ttl_days
    Retention,   \* [retention] accepted_days and dead_letter_days
    WriteLag,    \* how old a transaction's clock reading may be
    MaxTime,     \* bound on the clock
    MaxVersion   \* bound on updated_at (the code has none)

VARIABLES
    now,      \* the wall clock
    res,      \* the row of `results`
    notice,   \* the rows of `notification_outbox` with this result_row_id
    resends,  \* result_actions: the notice each resend request created
    device,   \* the row of `devices` of the owner
    exposed   \* notices in the channel's hands when the page was revoked
              \* (history)

serverVars == <<res, notice, resends, device, exposed>>

ASSUME PagesAssumption ==
    /\ Notices \subseteq Nat /\ Requests \subseteq Nat
    /\ None \notin Notices
    /\ {PageTTL, Retention, WriteLag, MaxTime, MaxVersion} \subseteq Nat
    /\ PageTTL > 0

NoTime == -1

MaxOf(a, b) == IF a > b THEN a ELSE b

Life == INSTANCE DeliveryLifecycle
          WITH RowIds <- Notices, delivered <- {},
               status <- [n \in Notices |-> notice[n].status]

Waiting == {"pending_channel", "retry_wait", "blocked_activation",
            "blocked_reconnect"}
Terminal == {"provider_accepted", "expired", "cancelled", "dead_letter"}
Status == Waiting \cup {"sending_channel"} \cup Terminal

PageStates == {"available", "revoked", "expired", "content_unavailable"}

(* The row of the result.  accepted_at is NoTime until it is inserted.     *)
ResultType ==
    [accepted_at : Nat \cup {NoTime}, updated_at : Nat,
     page_expires_at : Nat, revoked : BOOLEAN, body : BOOLEAN,
     initial : Notices \cup {None}, current : Notices \cup {None},
     status : Status]

(* `resolved`: the worker that claimed the notice has decrypted its link   *)
(* and is sending it.  `replaces`: the current notice it took over from.   *)
NoticeType ==
    [status : Status \cup {"absent", "deleted"}, expires_at : Nat,
     updated_at : Nat, resolved : BOOLEAN, replaces : Notices \cup {None}]

NoNotice == [status |-> "absent", expires_at |-> 0, updated_at |-> 0,
             resolved |-> FALSE, replaces |-> None]

Published == res.accepted_at # NoTime
Stored(n) == notice[n].status \notin {"absent", "deleted"}

(* The next id: a fresh UUID in the code, of which only the identity       *)
(* matters.                                                                *)
Fresh(n) ==
    /\ notice[n].status = "absent"
    /\ \A m \in Notices : m < n => notice[m].status # "absent"

(* The clock readings a transaction that commits now may carry.            *)
Readings == {t \in 0..now : now <= t + WriteLag}

-----------------------------------------------------------------------------
(* The trigger notification_outbox_current_result_status.                  *)

(* Mutant: the larger of the two timestamps, as elsewhere in the schema.   *)
ProjectedMax(row, n, s, at) ==
    IF row.current # n THEN row
    ELSE [row EXCEPT !.status = s, !.updated_at = MaxOf(@, at)]

(* Mutant: any notice of the result is projected.                          *)
ProjectedAny(row, n, s, at) ==
    [row EXCEPT !.status = s,
                !.updated_at = IF at > @ THEN at ELSE @ + 1]

Projected(row, n, s, at) ==
    IF row.current # n THEN row
    ELSE [row EXCEPT !.status = s,
                     !.updated_at = IF at > @ THEN at ELSE @ + 1]

-----------------------------------------------------------------------------
(* The operations of the result service.                                   *)

NewNotice(expires, at, old) ==
    [status |-> "pending_channel", expires_at |-> expires,
     updated_at |-> at, resolved |-> FALSE, replaces |-> old]

(* publish_once: the row, its share token and the first notice.            *)
Publish(n, at, expires) ==
    /\ ~Published
    /\ Fresh(n)
    /\ expires > at /\ expires <= at + PageTTL
    /\ res' = [accepted_at |-> at, updated_at |-> at,
               page_expires_at |-> at + PageTTL, revoked |-> FALSE,
               body |-> TRUE, initial |-> n, current |-> n,
               status |-> "pending_channel"]
    /\ notice' = [notice EXCEPT ![n] = NewNotice(expires, at, None)]
    /\ UNCHANGED <<resends, device, exposed>>

(* Under the writer fence: the request is new and the page is live.        *)
ResendAllowed(q, at) ==
    /\ resends[q] = None
    /\ ~res.revoked
    /\ at < res.page_expires_at

(* resend: a second notice with the text of the first.                     *)
Resend(q, n, at) ==
    /\ Published
    /\ ResendAllowed(q, at)
    /\ Stored(res.initial)
    /\ Fresh(n)
    /\ res.updated_at < MaxVersion
    /\ notice' = [notice EXCEPT ![n] =
                    NewNotice(res.page_expires_at, at, res.current)]
    /\ resends' = [resends EXCEPT ![q] = n]
    /\ res' = [res EXCEPT !.current = n, !.status = "pending_channel",
                          !.updated_at = IF @ >= at THEN @ + 1 ELSE at]
    /\ UNCHANGED <<device, exposed>>

CancelledNotice(row, at) ==
    [row EXCEPT !.status = "cancelled", !.updated_at = MaxOf(@ + 1, at)]

(* admin_revoke, also for the owner: the first revocation stamps the row,  *)
(* every one cancels the notices that no worker has claimed.               *)
Revoke(at) ==
    /\ Published
    /\ res.updated_at + 1 < MaxVersion
    /\ LET stamped == IF res.revoked THEN res
                      ELSE [res EXCEPT !.revoked = TRUE,
                                       !.updated_at = MaxOf(@ + 1, at)]
           cut == {n \in Notices : notice[n].status \in Waiting}
       IN  /\ notice' = [n \in Notices |->
                           IF n \in cut THEN CancelledNotice(notice[n], at)
                           ELSE notice[n]]
           /\ res' = IF res.current \in cut
                       THEN Projected(stamped, res.current, "cancelled",
                                      notice'[res.current].updated_at)
                       ELSE stamped
    /\ exposed' = IF res.revoked THEN exposed
                  ELSE {n \in Notices : notice[n].resolved}
    /\ UNCHANGED <<resends, device>>

-----------------------------------------------------------------------------
(* The owner's device (auth.rs).  Neither change touches a result; a       *)
(* request that was authenticated before may still commit after it.        *)

(* set_device_enabled: reversible, and refused or without effect once the  *)
(* device is revoked.                                                      *)
SetDeviceEnabled(on) ==
    /\ device # "revoked"
    /\ device' = IF on THEN "enabled" ELSE "disabled"
    /\ UNCHANGED <<res, notice, resends, exposed>>

(* revoke_device_with_outcome: for good.                                   *)
RevokeDevice ==
    /\ device' = "revoked"
    /\ UNCHANGED <<res, notice, resends, exposed>>

-----------------------------------------------------------------------------
(* The outbox worker and the hook, as the life cycle allows them.          *)

(* Mutant: the link is decrypted whatever became of its page.              *)
LinkAlways(n, at) == notice[n].status = "sending_channel"

(* protected_result_link_body has a text to send.                          *)
LinkAvailable(n, at) ==
    /\ notice[n].status = "sending_channel"
    /\ ~res.revoked
    /\ res.page_expires_at > at

Resolve(n, at) ==
    /\ ~notice[n].resolved
    /\ LinkAvailable(n, at)
    /\ notice' = [notice EXCEPT ![n].resolved = TRUE]
    /\ UNCHANGED <<res, resends, device, exposed>>

(* A statement of the outbox moves notice n to status s: a waiting row is  *)
(* claimed, released or expired, a claimed one finished or given back.     *)
(* What was never sent is neither accepted nor blocked by the channel.     *)
Advance(n, s, at) ==
    /\ Stored(n)
    /\ s \notin {notice[n].status, "cancelled"}
    /\ \/ Life!can_transition_to(notice[n].status, s)
       \/ Life!Released(notice[n].status, s)
    /\ notice[n].status \in Waiting =>
         \/ s = "expired" /\ notice[n].expires_at <= at
         \/ s = "retry_wait" /\ notice[n].expires_at > at
         \/ /\ s = "sending_channel" /\ notice[n].expires_at > at
            /\ notice[n].status \in {"pending_channel", "retry_wait"}
    /\ s \in {"provider_accepted", "blocked_activation",
              "blocked_reconnect"} => notice[n].resolved
    /\ res.updated_at < MaxVersion
    /\ notice' = [notice EXCEPT ![n].status = s, ![n].updated_at = at,
                                ![n].resolved = FALSE]
    /\ res' = Projected(res, n, s, at)
    /\ UNCHANGED <<resends, device, exposed>>

-----------------------------------------------------------------------------
(* Retention.                                                              *)

PurgeDue(at) == res.page_expires_at <= at

PurgeBody(at) ==
    /\ Published
    /\ res.body
    /\ PurgeDue(at)
    /\ res' = [res EXCEPT !.body = FALSE, !.updated_at = MaxOf(@, at)]
    /\ UNCHANGED <<notice, resends, device, exposed>>

(* Mutant: the page of a notice is not looked at.                          *)
DeletableByAge(at) ==
    {n \in Notices : /\ notice[n].status \in Terminal
                     /\ notice[n].updated_at < at - Retention}

Deletable(at) ==
    {n \in Notices : /\ notice[n].status \in Terminal
                     /\ notice[n].updated_at < at - Retention
                     /\ res.page_expires_at <= at}

(* The last state of the current notice is copied to the row.              *)
CopiedBack(copied, at) ==
    IF copied
      THEN [res EXCEPT !.status = notice[res.current].status,
                       !.updated_at = MaxOf(@, at)]
      ELSE res

(* delete_outbox_at.  Its two statements have a batch each, shared with    *)
(* all the results and with all the rows of the outbox: S may be any of    *)
(* the notices that are due, and a current notice that is due may be       *)
(* copied in a round that does not reach it for deletion.                  *)
DeleteNotices(S, copied, at) ==
    /\ S # {} \/ copied
    /\ S \subseteq Deletable(at)
    /\ copied => res.current \in Deletable(at)
    /\ res.current \in S => copied
    /\ notice' = [n \in Notices |->
                    IF n \in S
                      THEN [NoNotice EXCEPT !.status = "deleted",
                                            !.replaces = notice[n].replaces]
                      ELSE notice[n]]
    /\ res' = CopiedBack(copied, at)
    /\ UNCHANGED <<resends, device, exposed>>

-----------------------------------------------------------------------------
(* Answers.                                                                *)

PageState(observed) ==
    IF res.revoked THEN "revoked"
    ELSE IF observed >= res.page_expires_at THEN "expired"
    ELSE IF ~res.body THEN "content_unavailable"
    ELSE "available"

CurrentStatus ==
    IF Stored(res.current) THEN notice[res.current].status ELSE res.status

(* receipt_for and existing: the version of an expired page is at least    *)
(* the moment it expired.                                                  *)
Receipt(observed) ==
    [accepted_at |-> res.accepted_at,
     page_expires_at |-> res.page_expires_at,
     updated_at |-> IF observed >= res.page_expires_at
                      THEN MaxOf(res.updated_at, res.page_expires_at)
                      ELSE res.updated_at,
     page_state |-> PageState(observed),
     notification_id |-> res.current,
     notification_status |-> CurrentStatus]

(* public_body answers the holder of the link.  Nothing ever sets the      *)
(* revoked_at of a share, which its query asks for as well.                *)
Readable == /\ Published
            /\ device = "enabled"
            /\ ~res.revoked
            /\ now < res.page_expires_at
            /\ res.body

-----------------------------------------------------------------------------
Init ==
    /\ now = 0
    /\ res = [accepted_at |-> NoTime, updated_at |-> 0,
              page_expires_at |-> 0, revoked |-> FALSE, body |-> FALSE,
              initial |-> None, current |-> None,
              status |-> "pending_channel"]
    /\ notice = [n \in Notices |-> NoNotice]
    /\ resends = [q \in Requests |-> None]
    /\ device = "enabled"
    /\ exposed = {}

Tick ==
    /\ now < MaxTime
    /\ now' = now + 1
    /\ UNCHANGED serverVars

(* What happens on the server without the owner asking for it.             *)
Background(at) ==
    \/ \E n \in Notices : Resolve(n, at)
    \/ \E n \in Notices, s \in Status : Advance(n, s, at)
    \/ PurgeBody(at)
    \/ \E S \in SUBSET Notices, copied \in BOOLEAN :
          DeleteNotices(S, copied, at)

Next ==
    \/ \E at \in Readings, n \in Notices, e \in 0..(MaxTime + PageTTL) :
          Publish(n, at, e) /\ UNCHANGED now
    \/ \E at \in Readings, q \in Requests, n \in Notices :
          Resend(q, n, at) /\ UNCHANGED now
    \/ \E at \in Readings : Revoke(at) /\ UNCHANGED now
    \/ \E at \in Readings : Background(at) /\ UNCHANGED now
    \/ \E on \in BOOLEAN : SetDeviceEnabled(on) /\ UNCHANGED now
    \/ RevokeDevice /\ UNCHANGED now
    \/ Tick

vars == <<now, serverVars>>

Spec == Init /\ [][Next]_vars

-----------------------------------------------------------------------------
(* Properties.                                                             *)

(* The result, its notices and the resend requests have their types: what  *)
(* retention copies into the result is always a status a receipt may show. *)
PagesTypeOK ==
    /\ now \in 0..MaxTime
    /\ res \in ResultType
    /\ notice \in [Notices -> NoticeType]
    /\ resends \in [Requests -> Notices \cup {None}]
    /\ device \in {"enabled", "disabled", "revoked"}
    /\ exposed \in SUBSET Notices

(* notification_status is the status of the current notice, whichever      *)
(* notices the worker, a revocation or retention touched, so that a        *)
(* receipt says the same before and after the notice is deleted.           *)
ProjectionExact ==
    Published =>
        /\ res.current # None
        /\ Stored(res.current) => res.status = notice[res.current].status
        /\ ~Stored(res.current) => res.status \in Terminal

(* As long as a page is neither revoked nor expired it can be read         *)
(* whenever its owner's device is enabled, also after the device was       *)
(* disabled for a while; and until the page expires the first notice,      *)
(* whose ciphertext every resend copies, is there: retention takes neither *)
(* early, whichever clock reading its statements use (retention.rs).       *)
LivePageKept ==
    Published /\ now < res.page_expires_at =>
        /\ Stored(res.initial)
        /\ device = "enabled" /\ ~res.revoked => Readable

(* After a revocation no link goes out that was not already in the         *)
(* channel's hands: not from a claim in progress, not from a retry, not    *)
(* from a resend that raced the revocation.                                *)
RevokedLinkStays ==
    res.revoked => {n \in Notices : notice[n].resolved} \subseteq exposed

(* Every change an owner can see of the notice or of the revocation raises *)
(* the version, also when several happen in the same millisecond or with   *)
(* clock readings out of order; and the version never falls.               *)
VersionAdvances ==
    [][Published =>
         /\ res'.updated_at >= res.updated_at
         /\ <<res'.current, res'.status, res'.revoked>>
              # <<res.current, res.status, res.revoked>>
            => res'.updated_at > res.updated_at]_vars

=============================================================================
