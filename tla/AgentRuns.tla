------------------------------- MODULE AgentRuns -------------------------------
(***************************************************************************)
(* The desktop's record of agent runs.  The ingestor projects every hook   *)
(* event, in one transaction, on the run it belongs to and on the          *)
(* notification outbox; the finalizer ends a run whose Stop was followed   *)
(* by a quiet period, which proves little: the run may resume, or an       *)
(* authoritative event may correct it.  Meanwhile the delivery worker      *)
(* claims, retries and settles the notices already in the outbox, and the  *)
(* user saves policies that ask for other notices and withdraw the ones    *)
(* that wait.                                                              *)
(*                                                                         *)
(* Events may be ingested long after they were observed, in any order.     *)
(* Of the outbox this module keeps what the projection can tell apart;     *)
(* DesktopDelivery has the rest.  The quiet period is that of one policy,  *)
(* and rows are not yet as old as prune_retained asks for.                 *)
(***************************************************************************)
EXTENDS Integers, FiniteSets

CONSTANTS
    Runs,           \* run keys
    Policies,       \* the policies, each as the set of notices it asks for
    Quiet,          \* completion_quiet_ms, in ticks
    Cooldown,       \* ATTENTION_COOLDOWN_MS, in ticks
    MaxTime,        \* bound: the clock
    MaxEvents,      \* bound: ingested events
    None            \* no run, no deadline, no time

ASSUME RunsAssumption ==
    /\ Policies \subseteq SUBSET {"started", "ended", "attention"}
    /\ Quiet \in Nat /\ Cooldown \in Nat /\ MaxTime \in Nat /\ MaxEvents \in Nat
    /\ Quiet <= MaxTime
    /\ None \notin Int

VARIABLES
    now,            \* the clock
    run,            \* the run records, None before the first event of a run
    notice,         \* the outbox rows by dedupe key
    noticed,        \* last_notice_at of each run
    events,         \* how many events have been ingested
    notify,         \* the applied policy
    unasked         \* history: runs that ended when no notice was asked for

vars == <<now, run, notice, noticed, events, notify, unasked>>

-----------------------------------------------------------------------------
Times == 0..MaxTime

Ends       == {"completed", "failed", "interrupted"}
Terminal   == Ends \cup {"cancelled"}
Confidence == {"provisional", "inferred", "definitive", "authoritative"}

RunRecords == [status: {"running", "settling"} \cup Terminal,
               confidence: Confidence,
               generation: 0..MaxEvents,
               deadline: Times \cup {None}]

\* A dedupe key names the run, what is told and, where the run can tell it more
\* than once, the settle generation or the event.  "loose" is an attention
\* notice of no known run.
Kinds == {"started", "settled", "attention", "loose"} \cup Ends
Keys  == [run: Runs, kind: Kinds, n: 0..MaxEvents]
Key(r, kind, n) == [run |-> r, kind |-> kind, n |-> n]

\* waiting: pending, retry_wait or blocked; closed: delivered, expired or dead;
\* a row is cancelled with the course of its run, or revoked by a policy (status
\* 'cancelled' for NOTIFICATION_POLICY_CHANGED).  attempts is attempt_count > 0;
\* claimed remembers that a worker ever had it.
Rows == [status: {"waiting", "sending", "closed", "cancelled", "revoked"},
         attempts: BOOLEAN, claimed: BOOLEAN]

\* The absence of a record is told from every record.
ASSUME NoneAssumption == None \notin RunRecords /\ None \notin Rows

RunsTypeOK ==
    /\ now \in Times
    /\ run \in [Runs -> RunRecords \cup {None}]
    /\ notice \in [Keys -> Rows \cup {None}]
    /\ noticed \in [Runs -> Times \cup {None}]
    /\ events \in 0..MaxEvents
    /\ notify \in Policies
    /\ unasked \subseteq Runs

Init ==
    /\ now = 0
    /\ run = [r \in Runs |-> None]
    /\ notice = [k \in Keys |-> None]
    /\ noticed = [r \in Runs |-> None]
    /\ events = 0
    /\ notify \in Policies
    /\ unasked = {}

-----------------------------------------------------------------------------
(* The reducer. *)

Rank(c) == CASE c = "authoritative" -> 4
             [] c = "definitive"    -> 3
             [] c = "inferred"      -> 2
             [] c = "provisional"   -> 1

NewRun == [status |-> "running", confidence |-> "provisional",
           generation |-> 0, deadline |-> None]

Known(r) == IF run[r] = None THEN NewRun ELSE run[r]

CanReopenInferred(x)   == x.status = "completed" /\ x.confidence = "inferred"
IsAbsorbingTerminal(x) == x.status \in Terminal /\ ~CanReopenInferred(x)

\* run_started and output_produced.
Reopen(x) == IF IsAbsorbingTerminal(x) THEN x
             ELSE [x EXCEPT !.status = "running", !.confidence = "provisional",
                            !.deadline = None]

\* As Settle, but the generation counts only the first Stop of a run.
SettleAgain(x, observed) ==
    IF IsAbsorbingTerminal(x) THEN x
    ELSE [status     |-> "settling",
          confidence |-> "provisional",
          generation |-> IF x.generation > 0 THEN x.generation
                         ELSE x.generation + 1,
          deadline   |-> IF x.deadline # None /\ x.deadline > observed + Quiet
                         THEN x.deadline ELSE observed + Quiet]

\* As Settle, but a Stop that follows another loses the deadline.
SettleUntimed(x, observed) ==
    IF IsAbsorbingTerminal(x) THEN x
    ELSE [status     |-> "settling",
          confidence |-> "provisional",
          generation |-> IF x.status = "settling" THEN x.generation
                         ELSE x.generation + 1,
          deadline   |-> IF x.deadline # None THEN None ELSE observed + Quiet]

\* A Stop: a further one while the run settles only extends the deadline.
Settle(x, observed) ==
    IF IsAbsorbingTerminal(x) THEN x
    ELSE [status     |-> "settling",
          confidence |-> "provisional",
          generation |-> IF x.status = "settling" THEN x.generation
                         ELSE x.generation + 1,
          deadline   |-> IF x.deadline # None /\ x.deadline > observed + Quiet
                         THEN x.deadline ELSE observed + Quiet]

\* As Applies, but an equally certain verdict replaces the first.
AppliesEqual(x, status, c) ==
    /\ status = "completed" => c = "authoritative"
    /\ x.status \in Terminal => Rank(c) >= Rank(x.confidence)

Applies(x, status, c) ==
    /\ status = "completed" => c = "authoritative"
    /\ x.status \in Terminal => Rank(c) > Rank(x.confidence)

End(x, status, c) ==
    IF Applies(x, status, c)
    THEN [x EXCEPT !.status = status, !.confidence = c, !.deadline = None]
    ELSE x

-----------------------------------------------------------------------------
(* The outbox rows of a run. *)

\* The rows among keys that no worker has, and that are not closed.
Cancel(rows, keys) ==
    [k \in Keys |-> IF k \in keys /\ rows[k] # None /\ rows[k].status = "waiting"
                    THEN [rows[k] EXCEPT !.status = "cancelled"] ELSE rows[k]]

KeysOf(r, kinds) == {k \in Keys : k.run = r /\ k.kind \in kinds}

CancelStart(rows, r) == Cancel(rows, KeysOf(r, {"started"}))

\* As CancelCompleted, but forgetting the notices of the finalizer.
CancelAuthoritativeOnly(rows, r) == Cancel(rows, KeysOf(r, {"completed"}))

CancelCompleted(rows, r) == Cancel(rows, KeysOf(r, {"completed", "settled"}))

\* Rows whose attempt count is zero.
Unattempted(rows) == {k \in Keys : rows[k] # None /\ ~rows[k].attempts}

CancelUnsentAttention(rows, r, x) ==
    IF x.status = "running" THEN rows
    ELSE Cancel(rows, KeysOf(r, {"attention"}) \cap Unattempted(rows))

\* INSERT OR IGNORE on the dedupe key.
InsertOutbox(rows, k) ==
    IF rows[k] # None THEN rows
    ELSE [rows EXCEPT ![k] = [status |-> "waiting", attempts |-> FALSE,
                              claimed |-> FALSE]]

-----------------------------------------------------------------------------
(* The ingestor: one transaction per event. *)

\* What reduce_and_store does for every kind: the run record, and the attention
\* notices of a run that is not running.
Store(r, x) == run' = [run EXCEPT ![r] = x]

\* Events observed at any time up to now; an event of unknown origin is
\* projected only on a run that exists.
Ingest(r, origin) ==
    /\ events < MaxEvents
    /\ origin \in {"user", "unknown"}
    /\ origin = "unknown" => run[r] # None
    /\ events' = events + 1
    /\ UNCHANGED <<now, notify>>

RunStarted(r) ==
    LET x    == Reopen(Known(r))
        kept == CancelUnsentAttention(notice, r, x)
        told == IF CanReopenInferred(Known(r)) THEN CancelCompleted(kept, r) ELSE kept
    IN
    /\ \E origin \in {"user", "unknown"} : Ingest(r, origin)
    /\ Store(r, x)
    /\ notice' = IF "started" \in notify /\ x.status = "running"
                 THEN InsertOutbox(told, Key(r, "started", 0)) ELSE told
    /\ UNCHANGED <<noticed, unasked>>

OutputProduced(r) ==
    LET x    == Reopen(Known(r))
        kept == CancelUnsentAttention(notice, r, x)
    IN
    /\ \E origin \in {"user", "unknown"} : Ingest(r, origin)
    /\ Store(r, x)
    /\ notice' = IF CanReopenInferred(Known(r)) THEN CancelCompleted(kept, r) ELSE kept
    /\ UNCHANGED <<noticed, unasked>>

RunSettling(r) ==
    /\ \E origin \in {"user", "unknown"} : Ingest(r, origin)
    /\ \E observed \in 0..now :
       /\ observed + Quiet <= MaxTime
       /\ LET x == Settle(Known(r), observed) IN
          /\ Store(r, x)
          /\ notice' = CancelStart(CancelUnsentAttention(notice, r, x), r)
    /\ UNCHANGED <<noticed, unasked>>

\* project_terminal_notification: only an authoritative end is told here.
ToldEnd(rows, r, status, c) ==
    IF "ended" \in notify /\ c = "authoritative"
    THEN InsertOutbox(CancelStart(rows, r), Key(r, status, 0))
    ELSE CancelStart(rows, r)

\* The runs of S end where a notice of it is due, if the policy asks for one.
Tell(S) == unasked' = IF "ended" \in notify THEN unasked \ S ELSE unasked \cup S

\* run_completed, run_failed and run_interrupted.  A completion that confirms
\* an inferred one leaves the notice of the finalizer in its place; a failure
\* or an interruption withdraws it.
RunEnded(r, status, c) ==
    LET old      == Known(r)
        x        == End(old, status, c)
        applied  == Applies(old, status, c)
        replaced == applied /\ CanReopenInferred(old)
        kept     == CancelUnsentAttention(notice, r, x)
    IN
    /\ \E origin \in {"user", "unknown"} : Ingest(r, origin)
    /\ Store(r, x)
    /\ notice' = CASE ~applied -> kept
                   [] applied /\ replaced /\ status = "completed" -> kept
                   [] applied /\ replaced /\ status # "completed" ->
                          ToldEnd(CancelCompleted(kept, r), r, status, c)
                   [] applied /\ ~replaced -> ToldEnd(kept, r, status, c)
    /\ IF applied /\ c = "authoritative" /\ ~(replaced /\ status = "completed")
       THEN Tell({r}) ELSE UNCHANGED unasked
    /\ UNCHANGED noticed

RunCancelled(r, c) ==
    LET old      == Known(r)
        x        == End(old, "cancelled", c)
        applied  == Applies(old, "cancelled", c)
        kept     == CancelUnsentAttention(notice, r, x)
        told     == IF applied /\ CanReopenInferred(old)
                    THEN CancelCompleted(kept, r) ELSE kept
    IN
    /\ \E origin \in {"user", "unknown"} : Ingest(r, origin)
    /\ Store(r, x)
    /\ notice' = IF applied THEN CancelStart(told, r) ELSE told
    /\ UNCHANGED <<noticed, unasked>>

\* A permission or input request: told when its run runs and was not told of
\* one within the cooldown; one that expired before ingestion is closed at once.
AttentionRequired(r) ==
    LET known == run[r] # None
        k     == Key(r, IF known THEN "attention" ELSE "loose", events + 1)
        may   == /\ "attention" \in notify
                 /\ known => /\ run[r].status = "running"
                             /\ noticed[r] # None => now - noticed[r] >= Cooldown
    IN
    /\ \E origin \in {"user", "unknown"} : Ingest(r, origin)
    /\ \/ /\ may
          /\ notice' = InsertOutbox(notice, k)
          /\ noticed' = IF known THEN [noticed EXCEPT ![r] = now] ELSE noticed
       \/ /\ may
          /\ notice' = [notice EXCEPT ![k] = [status |-> "closed", attempts |-> FALSE,
                                              claimed |-> FALSE]]
          /\ UNCHANGED noticed
       \/ /\ ~may
          /\ UNCHANGED <<notice, noticed>>
    /\ UNCHANGED <<run, unasked>>

-----------------------------------------------------------------------------
(* The finalizer. *)

Settling(r) == run[r] # None /\ run[r].status = "settling"

Due(r) == /\ Settling(r)
          /\ run[r].deadline # None
          /\ run[r].deadline <= now

FinalizeDueRun(x) == [x EXCEPT !.status = "completed", !.confidence = "inferred",
                               !.deadline = None]

\* finalize_batch: every due run and its notices, in one transaction.
FinalizeBatch ==
    /\ \E r \in Runs : Due(r)
    /\ run' = [r \in Runs |-> IF Due(r) THEN FinalizeDueRun(run[r]) ELSE run[r]]
    /\ LET Ending(k) == Due(k.run)
           quiet == Cancel(notice, {k \in Keys : Ending(k) /\
                        \/ k.kind = "started"
                        \/ k.kind = "attention" /\ k \in Unattempted(notice)})
       IN notice' = [k \in Keys |->
                        IF /\ "ended" \in notify /\ Ending(k) /\ k.kind = "settled"
                           /\ k.n = run[k.run].generation
                        THEN InsertOutbox(quiet, k)[k] ELSE quiet[k]]
    /\ Tell({r \in Runs : Due(r)})
    /\ UNCHANGED <<now, noticed, events, notify>>

-----------------------------------------------------------------------------
(* The delivery worker, as far as a row shows it. *)

Claim(k) ==
    /\ notice[k] # None /\ notice[k].status = "waiting"
    /\ \A j \in Keys : notice[j] # None => notice[j].status # "sending"
    /\ notice' = [notice EXCEPT ![k].status = "sending", ![k].claimed = TRUE]
    /\ UNCHANGED <<now, run, noticed, events, notify, unasked>>

\* Delivered, refused, expired; to be tried again; or, since the row's policy is
\* not the one of the settings or these cannot be read, revoked.
Conclude(k) ==
    /\ notice[k] # None /\ notice[k].status = "sending"
    /\ \E s \in {"waiting", "closed", "revoked"} :
          notice' = [notice EXCEPT ![k].status = s, ![k].attempts = TRUE]
    /\ UNCHANGED <<now, run, noticed, events, notify, unasked>>

\* The user's hold began before the request: the claim and its attempt are undone.
Release(k) ==
    /\ notice[k] # None /\ notice[k].status = "sending"
    /\ notice' = [notice EXCEPT ![k].status = "waiting"]
    /\ UNCHANGED <<now, run, noticed, events, notify, unasked>>

Expire(k) ==
    /\ notice[k] # None /\ notice[k].status = "waiting"
    /\ notice' = [notice EXCEPT ![k].status = "closed"]
    /\ UNCHANGED <<now, run, noticed, events, notify, unasked>>

\* The class of a notice, by which a policy asks for it.
Class(kind) == CASE kind = "started" -> "started"
                 [] kind \in {"attention", "loose"} -> "attention"
                 [] kind \in Ends \cup {"settled"} -> "ended"

\* apply_projection: a saved policy revokes what it no longer asks for, ends
\* built under a wider permission of content and starts built under one of the
\* task input; also rows whose claim was left behind.
ApplyProjection ==
    \E next \in Policies, content, task \in BOOLEAN :
        LET Withdrawn(class) == \/ class \notin next
                                \/ content /\ class = "ended"
                                \/ task /\ class = "started"
        IN
        /\ notify' = next
        /\ notice' = [k \in Keys |->
               IF /\ notice[k] # None /\ notice[k].status \in {"waiting", "sending"}
                  /\ Withdrawn(Class(k.kind))
               THEN [notice[k] EXCEPT !.status = "revoked"] ELSE notice[k]]
        /\ UNCHANGED <<now, run, noticed, events, unasked>>

Tick ==
    /\ now < MaxTime
    /\ now' = now + 1
    /\ UNCHANGED <<run, notice, noticed, events, notify, unasked>>

Next ==
    \/ \E r \in Runs :
         \/ RunStarted(r) \/ OutputProduced(r) \/ RunSettling(r) \/ AttentionRequired(r)
         \/ \E c \in Confidence : RunCancelled(r, c) \/ \E s \in Ends : RunEnded(r, s, c)
    \/ \E k \in Keys : Claim(k) \/ Conclude(k) \/ Release(k) \/ Expire(k)
    \/ FinalizeBatch \/ ApplyProjection \/ Tick

\* The finalizer thread wakes at the next deadline, and time passes.
Spec == Init /\ [][Next]_vars /\ WF_vars(FinalizeBatch) /\ WF_vars(Tick)

-----------------------------------------------------------------------------
(* Properties. *)

Untouched(k) == /\ notice[k] # None
                /\ notice[k].status = "waiting"
                /\ ~notice[k].claimed

\* What a notice that no worker has claimed is about to say is still true of its
\* run: "started" and "needs attention" of a running run, "completed" of a
\* completed one, a failure of a failed one.  Every event or finalisation that
\* moves a run also withdraws the notices it makes false, in the same
\* transaction (project_event, finalize_batch).  A notice of an earlier settle
\* generation is not withdrawn by a later Stop.
NoticesFollowRun ==
    \A k \in Keys : Untouched(k) /\ k.kind # "loose" =>
        /\ run[k.run] # None
        /\ k.kind \in {"started", "attention"} => run[k.run].status = "running"
        /\ k.kind \in Ends => run[k.run].status = k.kind
        /\ k.kind = "settled" /\ k.n = run[k.run].generation =>
               run[k.run].status = "completed"

\* There was a notice, and the course of the run has not withdrawn it.
Reported(k) == notice[k] # None /\ notice[k].status # "cancelled"

\* The end of a run is silent only by the user's settings: a run that is
\* completed by its quiet period, or ended by an authoritative event, while the
\* policy asks for ends, has a notice of it that nothing but a later policy, or
\* settings that cannot be read, takes back; resuming, settling again and ending again do not let an earlier dedupe
\* key swallow the new end, nor a correction take its only notice with it
\* (settle_generation in the dedupe key, project_terminal_notification).
EndIsReported ==
    \A r \in {q \in Runs \ unasked : run[q] # None /\ run[q].status \in Ends} :
        LET settled == Reported(Key(r, "settled", run[r].generation)) IN
        /\ run[r].confidence = "inferred" /\ run[r].status = "completed" => settled
        /\ run[r].confidence = "authoritative" =>
               \/ Reported(Key(r, run[r].status, 0))
               \/ run[r].status = "completed" /\ settled

\* A verdict stands: once a run has ended, other than by a quiet period, no
\* event, however late, changes how it ended, unless it is more certain; in
\* particular an authoritative end is final (is_absorbing_terminal,
\* apply_terminal).
VerdictStands ==
    [][\A r \in Runs :
         run[r] # None /\ IsAbsorbingTerminal(run[r]) /\ run'[r] # run[r] =>
             /\ run'[r].status \in Terminal
             /\ Rank(run'[r].confidence) > Rank(run[r].confidence)]_vars

\* A settling run does not settle for ever: it resumes, is ended by an event, or
\* is finalised (find_due_settling, apply_run_settling).
SettlingEnds ==
    \A r \in Runs : Settling(r) ~> ~Settling(r)
=============================================================================
