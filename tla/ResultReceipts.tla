---------------------------- MODULE ResultReceipts ----------------------------
(***************************************************************************)
(* The owner of a result and the server that holds it: the desktop's row   *)
(* in relay_result_publications (apps/desktop/src-tauri/src/relay/         *)
(* result_store.rs), the publication, the background refresh of receipts   *)
(* and the user's resend and revoke actions (relay/state.rs), against      *)
(* ResultPages.                                                            *)
(*                                                                         *)
(* A refresh and an action run concurrently, each awaits its answer        *)
(* without a lock and applies it in a transaction: answers are lost,       *)
(* overtake each other, and requests whose caller gave up still arrive.    *)
(* The device of the owner stays enabled: the server refuses to answer any *)
(* other.                                                                  *)
(***************************************************************************)
EXTENDS ResultPages

VARIABLES
    desk,     \* the durable row of the desktop
    action,   \* the user action in progress (result_action_lock), or None
    fetched,  \* the answer to a publication or refresh in flight, or None
    intent,   \* the notice the user saw when a resend request was made
              \* (history)
    refusals  \* how answers of the server were refused (history)

deskVars == <<desk, action, fetched, intent, refusals>>
allVars == <<now, serverVars, deskVars>>

(* What the server answers every request of the owner with.                *)
ReceiptType ==
    [accepted_at : Nat, page_expires_at : Nat, updated_at : Nat,
     page_state : PageStates, notification_id : Notices,
     notification_status : Status]

(* A user action: what it asked for and the answer it waits for.           *)
ActType ==
    [kind : {"resend", "revoke"}, request : Requests \cup {None},
     reply : ReceiptType \cup {None}]

ASSUME NoneAssumption ==
    /\ None \notin Requests
    /\ None \notin ReceiptType
    /\ None \notin ActType

(* The row: the last receipt applied (its columns are set together), the   *)
(* pending resend with the notice it is about, the pending revocation.     *)
NewDesk == [receipt |-> None, resend |-> None, from |-> None,
            revoke |-> FALSE]

(* A resend or revoke action between its registration and its answer.      *)
Act(kind, q) == [kind |-> kind, request |-> q, reply |-> None]

-----------------------------------------------------------------------------
(* apply_inner.                                                            *)

is_terminal_page(s) == s \in {"revoked", "expired", "content_unavailable"}

Facts(r) == <<r.page_state, r.page_expires_at, r.notification_id,
              r.notification_status>>

(* Mutant: a pending resend does not excuse another notice.                *)
ExplainedNever == FALSE

(* A refresh, or a resend action, that the pending resend explains.        *)
Explained == /\ desk.resend # None
             /\ desk.receipt # None
             /\ desk.from = desk.receipt.notification_id

(* The checks, in the order of the code.  kind is "none" for a publication *)
(* or a refresh.                                                           *)
Verdict(r, kind) ==
    LET old == desk.receipt
        replace == kind = "resend" \/ Explained
        other == old.notification_id # r.notification_id
    IN  IF old = None THEN "applied"
        ELSE IF r.updated_at < old.updated_at THEN "stale"
        ELSE IF kind = "resend" /\ desk.resend # None
                  /\ desk.from = r.notification_id THEN "resend_unconfirmed"
        ELSE IF other /\ ~replace THEN "notification_conflict"
        ELSE IF <<old.accepted_at, old.page_expires_at>>
                  # <<r.accepted_at, r.page_expires_at>>
               THEN "receipt_conflict"
        ELSE IF is_terminal_page(old.page_state)
                  /\ r.page_state = "available" THEN "page_state_conflict"
        ELSE IF /\ old.notification_status \in Terminal
                /\ r.notification_status \notin Terminal
                /\ ~(replace /\ other) THEN "notification_state_conflict"
        ELSE IF r.updated_at > old.updated_at THEN "applied"
        ELSE IF Facts(r) = Facts(old) THEN "already_applied"
        ELSE "receipt_conflict"

(* complete_action_tx.                                                     *)
Completed(d, kind, q) ==
    IF kind = "resend" /\ d.resend = q
      THEN [d EXCEPT !.resend = None, !.from = None]
    ELSE IF kind = "revoke" THEN [d EXCEPT !.revoke = FALSE]
    ELSE d

(* The row after a receipt was stored: a refresh that saw the new notice   *)
(* completes the resend it answers, a revoked page completes a revocation. *)
StoredReceipt(r, kind) ==
    LET seen == kind = "none" /\ Explained /\ desk.from # r.notification_id
    IN  [receipt |-> r,
         resend |-> IF seen THEN None ELSE desk.resend,
         from |-> IF seen THEN None ELSE desk.from,
         revoke |-> desk.revoke /\ r.page_state # "revoked"]

Apply(r, kind, q) ==
    LET v == Verdict(r, kind)
    IN  /\ desk' = CASE v = "applied" ->
                          Completed(StoredReceipt(r, kind), kind, q)
                     [] v = "already_applied" -> Completed(desk, kind, q)
                     [] OTHER -> desk
        /\ refusals' =
             IF v \in {"applied", "already_applied", "stale"} THEN refusals
             ELSE refusals \cup
                    {<<v, r.updated_at > desk.receipt.updated_at>>}

-----------------------------------------------------------------------------
(* Publication and the background refresh.                                 *)

(* Mutant: a terminal notice ends the refresh whatever is pending.         *)
PollableUntilTerminal ==
    desk.receipt # None => desk.receipt.notification_status \notin Terminal

(* relay_reconciliation_candidates_after still lists the row.              *)
Pollable ==
    desk.receipt # None =>
        \/ desk.receipt.notification_status \notin Terminal
        \/ desk.resend # None
        \/ desk.revoke

(* The server answers a publication that is not accepted yet, first or     *)
(* repeated, or a refresh.                                                 *)
Fetch ==
    /\ Published
    /\ fetched = None
    /\ Pollable
    /\ fetched' = Receipt(now)
    /\ UNCHANGED <<now, serverVars, desk, action, intent, refusals>>

ApplyFetched ==
    /\ fetched # None
    /\ Apply(fetched, "none", None)
    /\ fetched' = None
    /\ UNCHANGED <<now, serverVars, action, intent>>

LoseFetched ==
    /\ fetched # None
    /\ fetched' = None
    /\ UNCHANGED <<now, serverVars, desk, action, intent, refusals>>

-----------------------------------------------------------------------------
(* result_action: register the intent, call the server, apply the answer.  *)

(* Mutant: every click takes a request id of its own.                      *)
PendingAlwaysNew(q) == q

(* COALESCE(pending_resend_request_id, ?1).                                *)
PendingOr(q) == IF desk.resend # None THEN desk.resend ELSE q

RegisterResend(q) ==
    LET chosen == PendingOr(q)
        seen == desk.receipt.notification_id
    IN  /\ action = None
        /\ desk.receipt # None
        /\ intent[chosen] = None \/ chosen = desk.resend
        /\ \A p \in Requests : p < chosen => intent[p] # None
        /\ desk' = [desk EXCEPT !.resend = chosen,
                                !.from = IF @ # None THEN @ ELSE seen]
        /\ intent' = [intent EXCEPT ![chosen] = IF @ # None THEN @ ELSE seen]
        /\ action' = Act("resend", chosen)
        /\ UNCHANGED <<now, serverVars, fetched, refusals>>

RegisterRevoke ==
    /\ action = None
    /\ desk.receipt # None
    /\ desk' = [desk EXCEPT !.revoke = TRUE]
    /\ action' = Act("revoke", None)
    /\ UNCHANGED <<now, serverVars, fetched, intent, refusals>>

(* A registered resend reaches the server, while its caller waits or after *)
(* it gave up.                                                             *)
ServeResend(q, n, at) ==
    /\ intent[q] # None
    /\ Resend(q, n, at)
    /\ UNCHANGED <<now, deskVars>>

(* The owner's revocation or the administrator's.                          *)
ServeRevoke(at) ==
    /\ Revoke(at)
    /\ UNCHANGED <<now, deskVars>>

(* The server reads the receipt after the action's transaction.            *)
AnswerAction ==
    /\ action # None
    /\ action.reply = None
    /\ IF action.kind = "resend" THEN resends[action.request] # None
                                 ELSE res.revoked
    /\ action' = [action EXCEPT !.reply = Receipt(now)]
    /\ UNCHANGED <<now, serverVars, desk, fetched, intent, refusals>>

ApplyAction ==
    /\ action # None
    /\ action.reply # None
    /\ Apply(action.reply, action.kind, action.request)
    /\ action' = None
    /\ UNCHANGED <<now, serverVars, fetched, intent>>

(* A hold, a timeout, an error answer, a restart: the intent stays.        *)
LoseAction ==
    /\ action # None
    /\ action' = None
    /\ UNCHANGED <<now, serverVars, desk, fetched, intent, refusals>>

-----------------------------------------------------------------------------
ReceiptsInit ==
    /\ Init
    /\ desk = NewDesk
    /\ action = None
    /\ fetched = None
    /\ intent = [q \in Requests |-> None]
    /\ refusals = {}

ServerStep ==
    \/ \E at \in Readings, n \in Notices, e \in 0..(MaxTime + PageTTL) :
          Publish(n, at, e) /\ UNCHANGED <<now, deskVars>>
    \/ \E at \in Readings, q \in Requests, n \in Notices :
          ServeResend(q, n, at)
    \/ \E at \in Readings : ServeRevoke(at)
    \/ \E at \in Readings : Background(at) /\ UNCHANGED <<now, deskVars>>

DesktopStep ==
    \/ Fetch
    \/ ApplyFetched
    \/ LoseFetched
    \/ \E q \in Requests : RegisterResend(q)
    \/ RegisterRevoke
    \/ AnswerAction
    \/ ApplyAction
    \/ LoseAction

ReceiptsNext ==
    \/ ServerStep
    \/ DesktopStep
    \/ Tick /\ UNCHANGED deskVars

ReceiptsSpec == ReceiptsInit /\ [][ReceiptsNext]_allVars

(* The refresh loop keeps asking, and not every answer is lost.            *)
ReceiptsFairSpec ==
    /\ ReceiptsSpec
    /\ WF_allVars(Fetch)
    /\ SF_allVars(ApplyFetched)

-----------------------------------------------------------------------------
(* Properties.                                                             *)

(* A receipt of an honest server that is newer than what the desktop has   *)
(* is never refused: not for the notice it names, not for a terminal page  *)
(* or a terminal notice going back, however answers overtake each other.   *)
NewerNeverRefused == \A x \in refusals : ~x[2]

(* A resend replaces the notice the user was looking at: retries, lost     *)
(* answers and late requests never turn one wish into two messages.        *)
ResendReplacesSeen ==
    \A q \in Requests :
        resends[q] # None => notice[resends[q]].replaces = intent[q]

(* The desktop shows the current notice and its status.                    *)
Seen == /\ desk.receipt # None
        /\ desk.receipt.notification_id = res.current
        /\ desk.receipt.notification_status = CurrentStatus

(* The refresh keeps the desktop up to date, also through resends whose    *)
(* answer was lost and revocations by the administrator, as long as the    *)
(* page lives.                                                             *)
DesktopCatchesUp ==
    (desk.receipt # None /\ ~Seen) ~> (Seen \/ now >= res.page_expires_at)

=============================================================================
