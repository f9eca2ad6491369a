--------------------------- MODULE AgentRunsProofs ---------------------------
(***************************************************************************)
(* Proofs about the record of agent runs, for every set of runs, every     *)
(* policy, quiet period and cooldown, and any number of events in any      *)
(* order.                                                                  *)
(***************************************************************************)
EXTENDS AgentRuns, TLAPS

(* A settle generation is counted by the event that raises it.             *)
TypeInv ==
    /\ RunsTypeOK
    /\ \A r \in Runs : run[r] # None => run[r].generation <= events

(* A row that was attempted, or is being sent, has been claimed: a row the *)
(* withdrawal of attention notices passes over is not Untouched.           *)
RowInv ==
    \A k \in Keys : notice[k] # None /\ ~notice[k].claimed =>
        ~notice[k].attempts /\ notice[k].status # "sending"

(* The rows of one run, against its record.  A notice of an end is only    *)
(* ever inserted for an authoritative, hence final, verdict; a notice of   *)
(* the finalizer bears a generation that has been reached, and the one a   *)
(* settling run is about to be given is still free.                        *)
FollowInv(r) ==
    \A k \in Keys : k.run = r /\ k.kind # "loose" /\ notice[k] # None =>
        /\ run[r] # None
        /\ k.kind \in Ends => run[r].status = k.kind /\ run[r].confidence = "authoritative"
        /\ k.kind = "settled" => \/ k.n < run[r].generation
                                 \/ k.n = run[r].generation /\ run[r].status # "settling"
        /\ Untouched(k) =>
              /\ k.kind \in {"started", "attention"} => run[r].status = "running"
              /\ k.kind = "settled" /\ k.n = run[r].generation => run[r].status = "completed"

(* A completion is never definitive: it is inferred from a quiet period,   *)
(* or authoritative.                                                       *)
VerdictInv(r) ==
    run[r] # None /\ run[r].status = "completed" =>
        run[r].confidence \in {"inferred", "authoritative"}

(* EndIsReported, of one run.                                              *)
ReportInv(r) ==
    r \notin unasked /\ run[r] # None /\ run[r].status \in Ends =>
        /\ run[r].confidence = "inferred" /\ run[r].status = "completed" =>
               Reported(Key(r, "settled", run[r].generation))
        /\ run[r].confidence = "authoritative" =>
               \/ Reported(Key(r, run[r].status, 0))
               \/ run[r].status = "completed" /\ Reported(Key(r, "settled", run[r].generation))

RunInv(r) == FollowInv(r) /\ VerdictInv(r) /\ ReportInv(r)

Inv == TypeInv /\ RowInv /\ \A r \in Runs : RunInv(r)

-----------------------------------------------------------------------------
(* The reducer: what each reduction makes of a run record.                 *)

(* The record an event is reduced on is a run record, the stored one if    *)
(* there is one.                                                           *)
LEMMA KnownType ==
    ASSUME TypeInv, NEW r \in Runs
    PROVE  /\ Known(r) \in RunRecords
           /\ Known(r).generation <= events
           /\ run[r] # None => Known(r) = run[r]
  <1>1. 0 \in 0..MaxEvents /\ 0 <= events
    BY RunsAssumption DEF TypeInv, RunsTypeOK
  <1>2. NewRun \in RunRecords /\ NewRun.generation = 0
    BY <1>1 DEF NewRun, RunRecords, Confidence
  <1> QED
    BY <1>1, <1>2 DEF TypeInv, RunsTypeOK, Known

(* Reopening gives a running run, or changes nothing.                      *)
LEMMA ReopenFacts ==
    ASSUME NEW x \in RunRecords
    PROVE  /\ Reopen(x) \in RunRecords
           /\ Reopen(x).generation = x.generation
           /\ \/ Reopen(x) = x /\ IsAbsorbingTerminal(x)
              \/ Reopen(x).status = "running" /\ ~IsAbsorbingTerminal(x)
  BY DEF Reopen, RunRecords, Confidence

(* A Stop gives a settling run, of a new generation unless it was settling *)
(* already, or changes nothing.                                            *)
LEMMA SettleFacts ==
    ASSUME NEW x \in RunRecords, x.generation < MaxEvents,
           NEW observed \in Nat, observed + Quiet <= MaxTime
    PROVE  /\ Settle(x, observed) \in RunRecords
           /\ Settle(x, observed).generation <= x.generation + 1
           /\ \/ Settle(x, observed) = x /\ IsAbsorbingTerminal(x)
              \/ /\ ~IsAbsorbingTerminal(x)
                 /\ Settle(x, observed).status = "settling"
                 /\ Settle(x, observed).generation
                      = IF x.status = "settling" THEN x.generation ELSE x.generation + 1
  <1> DEFINE g == IF x.status = "settling" THEN x.generation ELSE x.generation + 1
             d == IF x.deadline # None /\ x.deadline > observed + Quiet
                  THEN x.deadline ELSE observed + Quiet
  <1>1. g \in 0..MaxEvents /\ g <= x.generation + 1
    BY RunsAssumption DEF RunRecords
  <1>2. d \in Times \cup {None}
    BY RunsAssumption DEF RunRecords, Times
  <1>3. CASE IsAbsorbingTerminal(x)
    <2>1. Settle(x, observed) = x /\ x.generation <= x.generation + 1
      BY <1>3, RunsAssumption DEF Settle, RunRecords
    <2> QED
      BY <1>3, <2>1
  <1>4. CASE ~IsAbsorbingTerminal(x)
    <2>1. Settle(x, observed) = [status |-> "settling", confidence |-> "provisional",
                                 generation |-> g, deadline |-> d]
      BY <1>4 DEF Settle
    <2> HIDE DEF g, d
    <2>2. /\ Settle(x, observed) \in RunRecords
          /\ Settle(x, observed).status = "settling"
          /\ Settle(x, observed).generation = g
      BY <1>1, <1>2, <2>1 DEF RunRecords, Confidence
    <2> QED
      BY <1>1, <1>4, <2>2 DEF g
  <1> QED
    BY <1>3, <1>4

(* Certainty is totally ordered, and nothing is above authoritative.       *)
LEMMA Ranks ==
    /\ Rank("authoritative") = 4 /\ Rank("definitive") = 3
    /\ Rank("inferred") = 2 /\ Rank("provisional") = 1
  BY DEF Rank

(* A verdict ends the run with its status and confidence, or changes       *)
(* nothing; an authoritative one is never replaced.                        *)
LEMMA EndFacts ==
    ASSUME NEW x \in RunRecords, NEW status \in Terminal, NEW c \in Confidence
    PROVE  /\ End(x, status, c) \in RunRecords
           /\ End(x, status, c).generation = x.generation
           /\ Applies(x, status, c) =>
                 /\ End(x, status, c).status = status
                 /\ End(x, status, c).confidence = c
                 /\ x.status \in Terminal => x.confidence # "authoritative"
           /\ ~Applies(x, status, c) => End(x, status, c) = x
  <1>1. Applies(x, status, c) /\ x.status \in Terminal => x.confidence # "authoritative"
    BY Ranks DEF Applies, Confidence
  <1> QED
    BY <1>1 DEF End, RunRecords, Terminal

-----------------------------------------------------------------------------
(* The outbox rows.                                                        *)

NewRow == [status |-> "waiting", attempts |-> FALSE, claimed |-> FALSE]

(* What a transaction does to the rows: those of W that wait are           *)
(* withdrawn, those of I that are missing inserted.                        *)
Rewritten(rows, W, I) ==
    [k \in Keys |->
        IF rows[k] = None THEN IF k \in I THEN NewRow ELSE None
        ELSE IF k \in W /\ rows[k].status = "waiting"
             THEN [rows[k] EXCEPT !.status = "cancelled"] ELSE rows[k]]

RowMaps == [Keys -> Rows \cup {None}]

(* Rewriting gives rows.                                                   *)
LEMMA RewrittenType ==
    ASSUME NEW rows \in RowMaps, NEW W, NEW I
    PROVE  Rewritten(rows, W, I) \in RowMaps
  <1>1. NewRow \in Rows
    BY DEF NewRow, Rows
  <1>2. \A x \in Rows : [x EXCEPT !.status = "cancelled"] \in Rows
    BY DEF Rows
  <1> QED
    BY <1>1, <1>2 DEF Rewritten, RowMaps

(* A withdrawal is a rewriting, and so is leaving the rows alone.          *)
LEMMA CancelIs ==
    ASSUME NEW rows \in RowMaps, NEW W
    PROVE  /\ Cancel(rows, W) = Rewritten(rows, W, {})
           /\ rows = Rewritten(rows, {}, {})
  BY NoneAssumption DEF Cancel, Rewritten, RowMaps

(* Two withdrawals are one, and an insertion is added to them.             *)
LEMMA CancelAgain ==
    ASSUME NEW rows \in RowMaps, NEW W, NEW V
    PROVE  Cancel(Rewritten(rows, W, {}), V) = Rewritten(rows, W \cup V, {})
  <1> SUFFICES ASSUME NEW k \in Keys
               PROVE  Cancel(Rewritten(rows, W, {}), V)[k] = Rewritten(rows, W \cup V, {})[k]
    BY DEF Cancel, Rewritten
  <1>1. rows[k] \in Rows \cup {None}
    BY DEF RowMaps
  <1>2. \A x \in Rows : /\ [x EXCEPT !.status = "cancelled"].status = "cancelled"
                        /\ [x EXCEPT !.status = "cancelled"] \in Rows
    BY DEF Rows
  <1> QED
    BY <1>1, <1>2, NoneAssumption DEF Cancel, Rewritten

(* An insertion after a withdrawal is one rewriting.                       *)
LEMMA InsertInto ==
    ASSUME NEW rows \in RowMaps, NEW W, NEW j \in Keys
    PROVE  InsertOutbox(Rewritten(rows, W, {}), j) = Rewritten(rows, W, {j})
  <1> DEFINE cut == Rewritten(rows, W, {})
  <1>1. cut \in RowMaps
    BY RewrittenType
  <1>2. \A k \in Keys : cut[k] = None <=> rows[k] = None
    <2>1. \A x \in Rows : [x EXCEPT !.status = "cancelled"] \in Rows
      BY DEF Rows
    <2> QED
      BY <2>1, NoneAssumption DEF Rewritten, RowMaps
  <1>3. \A k \in Keys : Rewritten(rows, W, {j})[k] = IF k = j /\ rows[k] = None THEN NewRow ELSE cut[k]
    BY DEF Rewritten
  <1>4. \A k \in Keys : InsertOutbox(cut, j)[k] = IF k = j /\ cut[k] = None THEN NewRow ELSE cut[k]
    BY <1>1 DEF InsertOutbox, NewRow, RowMaps
  <1>5. InsertOutbox(cut, j) = [k \in Keys |-> InsertOutbox(cut, j)[k]]
    BY <1>1 DEF InsertOutbox, RowMaps
  <1>6. Rewritten(rows, W, {j}) = [k \in Keys |-> Rewritten(rows, W, {j})[k]]
    BY DEF Rewritten
  <1> HIDE DEF cut
  <1>7. \A k \in Keys : InsertOutbox(cut, j)[k] = Rewritten(rows, W, {j})[k]
    BY <1>2, <1>3, <1>4
  <1>8. InsertOutbox(cut, j) = Rewritten(rows, W, {j})
    BY <1>5, <1>6, <1>7
  <1> QED
    BY <1>8 DEF cut

(* The attention notices a run that does not run withdraws.                *)
Stale(r, x) ==
    IF x.status = "running" THEN {} ELSE KeysOf(r, {"attention"}) \cap Unattempted(notice)

(* The withdrawal of attention notices, as a rewriting.                    *)
LEMMA StaleIs ==
    ASSUME TypeInv, NEW r, NEW x
    PROVE  CancelUnsentAttention(notice, r, x) = Rewritten(notice, Stale(r, x), {})
  <1>1. notice \in RowMaps
    BY DEF TypeInv, RunsTypeOK, RowMaps
  <1> QED
    BY <1>1, CancelIs DEF CancelUnsentAttention, Stale

(* A dedupe key and its fields.                                            *)
LEMMA KeyType ==
    ASSUME NEW r \in Runs, NEW kind \in Kinds, NEW n \in 0..MaxEvents
    PROVE  /\ Key(r, kind, n) \in Keys
           /\ Key(r, kind, n).run = r /\ Key(r, kind, n).kind = kind /\ Key(r, kind, n).n = n
  BY DEF Key, Keys

-----------------------------------------------------------------------------
(* When a transaction keeps the invariant.                                 *)

(* Rows that a step leaves alone, or moves without making them claimable   *)
(* anew or withdrawing them.                                               *)
Carried(k) ==
    /\ notice'[k] = None <=> notice[k] = None
    /\ Untouched(k)' => Untouched(k)
    /\ Reported(k) => Reported(k)'

(* A run whose record and rows are carried keeps its invariant.            *)
LEMMA RunCarried ==
    ASSUME Inv, NEW q \in Runs, run'[q] = run[q], q \in unasked' <=> q \in unasked,
           \A k \in Keys : k.run = q /\ k.kind # "loose" => Carried(k)
    PROVE  RunInv(q)'
  <1>1. FollowInv(q)'
    BY DEF Inv, RunInv, FollowInv, Carried
  <1>2. VerdictInv(q)'
    BY DEF Inv, RunInv, VerdictInv
  <1>3. ReportInv(q)'
    <2>1. ASSUME run[q] # None, run[q].status \in Ends
          PROVE  /\ Carried(Key(q, "settled", run[q].generation))
                 /\ Carried(Key(q, run[q].status, 0))
      <3>1. run[q].generation \in 0..MaxEvents /\ 0 \in 0..MaxEvents
        BY <2>1, RunsAssumption DEF Inv, TypeInv, RunsTypeOK, RunRecords
      <3>2. "settled" \in Kinds \ {"loose"} /\ run[q].status \in Kinds \ {"loose"}
        BY <2>1 DEF Kinds, Ends
      <3> QED
        BY <3>1, <3>2, KeyType
    <2> QED
      BY <2>1 DEF Inv, RunInv, ReportInv, Carried
  <1> QED
    BY <1>1, <1>2, <1>3 DEF RunInv

(* What a projection that makes x of run q, withdraws W and inserts I must *)
(* take care of: a run that does not run withdraws what says it does; one  *)
(* that is not completed withdraws the notice of its generation; nothing   *)
(* replaces a final verdict; what is inserted is true.                     *)
Truthful(q, x, W, I) ==
    /\ run[q] # None => /\ x.generation >= run[q].generation
                        /\ x.status = "settling" /\ run[q].status # "settling" =>
                               x.generation > run[q].generation
                        /\ run[q].status \in Terminal /\ run[q].confidence = "authoritative" =>
                               x = run[q]
    /\ x.status = "completed" => x.confidence \in {"inferred", "authoritative"}
    /\ \A k \in Keys : k.run = q /\ Untouched(k) /\ k \notin W =>
          /\ k.kind \in {"started", "attention"} => x.status = "running"
          /\ k.kind = "settled" /\ k.n = x.generation => x.status = "completed"
    /\ \A k \in I : k.run = q =>
          \/ k.kind = "started" /\ x.status = "running"
          \/ k.kind = "settled" /\ k.n = x.generation /\ x.status = "completed"
          \/ k.kind \in Ends /\ k.kind = x.status /\ x.confidence = "authoritative"

(* And to be heard: an end was told before and is not withdrawn, or its    *)
(* key is inserted and still free.                                         *)
Heard(q, x, W, I) ==
    q \notin unasked' /\ x.status \in Ends =>
        /\ x.confidence = "inferred" /\ x.status = "completed" =>
              LET k == Key(q, "settled", x.generation) IN
                  \/ k \in I /\ notice[k] = None
                  \/ k \notin W /\ Reported(k)
        /\ x.confidence = "authoritative" =>
              \E k \in {Key(q, x.status, 0), Key(q, "settled", x.generation)} :
                  /\ k.kind = "settled" => x.status = "completed"
                  /\ \/ k \in I /\ notice[k] = None
                     \/ k \notin W /\ Reported(k)

(* One row, after a rewriting.                                             *)
LEMMA RewrittenRow ==
    ASSUME TypeInv, NEW W, NEW I, notice' = Rewritten(notice, W, I), NEW k \in Keys
    PROVE  /\ notice'[k] # None => notice[k] # None \/ k \in I
           /\ Untouched(k)' => \/ notice[k] = None /\ k \in I
                               \/ Untouched(k) /\ k \notin W
           /\ Reported(k) /\ k \notin W => Reported(k)'
           /\ notice[k] = None /\ k \in I => Reported(k)'
           /\ k \notin W \cup I => notice'[k] = notice[k]
  <1>1. notice[k] \in Rows \cup {None}
    BY DEF TypeInv, RunsTypeOK
  <1>2. \A x \in Rows : [x EXCEPT !.status = "cancelled"].status = "cancelled"
    BY DEF Rows
  <1>3. NewRow \in Rows /\ NewRow.status = "waiting"
    BY DEF NewRow, Rows
  <1> QED
    BY <1>1, <1>2, <1>3, NoneAssumption DEF Rewritten, Untouched, Reported

(* A truthful and heard projection keeps the invariant of its run.         *)
LEMMA RunProjected ==
    ASSUME Inv, NEW q \in Runs, NEW x \in RunRecords, run'[q] = x,
           NEW W, NEW I \in SUBSET Keys, notice' = Rewritten(notice, W, I),
           Truthful(q, x, W, I), Heard(q, x, W, I)
    PROVE  RunInv(q)'
  <1>0. x # None /\ TypeInv
    BY NoneAssumption DEF Inv
  <1>1. FollowInv(q)'
    <2> SUFFICES ASSUME NEW k \in Keys, k.run = q, k.kind # "loose", notice'[k] # None
                 PROVE  /\ x # None
                        /\ k.kind \in Ends => x.status = k.kind /\ x.confidence = "authoritative"
                        /\ k.kind = "settled" => \/ k.n < x.generation
                                                 \/ k.n = x.generation /\ x.status # "settling"
                        /\ Untouched(k)' =>
                              /\ k.kind \in {"started", "attention"} => x.status = "running"
                              /\ k.kind = "settled" /\ k.n = x.generation => x.status = "completed"
      BY DEF FollowInv
    <2>1. x.generation \in Nat /\ k.n \in Nat
      BY DEF RunRecords, Keys
    <2>2. CASE notice[k] # None
      <3>1. /\ run[q] # None
            /\ k.kind \in Ends => run[q].status = k.kind /\ run[q].confidence = "authoritative"
            /\ k.kind = "settled" => \/ k.n < run[q].generation
                                     \/ k.n = run[q].generation /\ run[q].status # "settling"
        BY <2>2 DEF Inv, RunInv, FollowInv
      <3>2. run[q].generation \in Nat
        BY <3>1 DEF Inv, TypeInv, RunsTypeOK, RunRecords
      <3>3. Untouched(k)' => Untouched(k) /\ k \notin W
        BY <1>0, <2>2, RewrittenRow
      <3> QED
        BY <1>0, <2>1, <3>1, <3>2, <3>3 DEF Truthful, Terminal
    <2>3. CASE notice[k] = None
      <3>1. k \in I
        BY <1>0, <2>3, RewrittenRow
      <3> QED
        BY <1>0, <2>1, <3>1 DEF Truthful, Ends
    <2> QED
      BY <2>2, <2>3
  <1>2. VerdictInv(q)'
    BY DEF VerdictInv, Truthful
  <1>3. ReportInv(q)'
    <2> SUFFICES ASSUME q \notin unasked', x.status \in Ends
                 PROVE  /\ x.confidence = "inferred" /\ x.status = "completed" =>
                              Reported(Key(q, "settled", x.generation))'
                        /\ x.confidence = "authoritative" =>
                              \/ Reported(Key(q, x.status, 0))'
                              \/ x.status = "completed" /\ Reported(Key(q, "settled", x.generation))'
      BY DEF ReportInv
    <2>1. /\ Key(q, "settled", x.generation) \in Keys /\ Key(q, x.status, 0) \in Keys
          /\ Key(q, "settled", x.generation).kind = "settled"
      <3>1. x.generation \in 0..MaxEvents /\ 0 \in 0..MaxEvents
        BY RunsAssumption DEF RunRecords
      <3>2. "settled" \in Kinds /\ x.status \in Kinds
        BY DEF Kinds
      <3> QED
        BY <3>1, <3>2, KeyType
    <2>2. \A k \in Keys : (k \in I /\ notice[k] = None) \/ (k \notin W /\ Reported(k)) => Reported(k)'
      BY <1>0, RewrittenRow
    <2> QED
      BY <2>1, <2>2 DEF Heard
  <1> QED
    BY <1>1, <1>2, <1>3 DEF RunInv

-----------------------------------------------------------------------------
(* The events.                                                             *)

(* An event of run r that makes x of it, withdraws W and inserts I.        *)
Projects(r, x, W, I) ==
    /\ events < MaxEvents /\ events' = events + 1
    /\ run' = [run EXCEPT ![r] = x]
    /\ notice' = Rewritten(notice, W, I)
    /\ UNCHANGED <<now, noticed, notify>>
    /\ unasked' \subseteq Runs
    /\ \A q \in Runs \ {r} : q \in unasked' <=> q \in unasked

(* A rewriting keeps RowInv.                                               *)
LEMMA RowsKept ==
    ASSUME Inv, NEW W, NEW I, notice' = Rewritten(notice, W, I)
    PROVE  RowInv'
  <1> SUFFICES ASSUME NEW k \in Keys, notice'[k] # None, ~notice'[k].claimed
               PROVE  ~notice'[k].attempts /\ notice'[k].status # "sending"
    BY DEF RowInv
  <1>1. notice[k] \in Rows \cup {None}
    BY DEF Inv, TypeInv, RunsTypeOK
  <1>2. notice[k] # None /\ ~notice[k].claimed => ~notice[k].attempts /\ notice[k].status # "sending"
    BY DEF Inv, RowInv
  <1>3. \/ notice[k] = None /\ notice'[k] = NewRow
        \/ notice[k] # None /\ notice'[k] = notice[k]
        \/ notice[k] # None /\ notice'[k] = [notice[k] EXCEPT !.status = "cancelled"]
    BY DEF Rewritten
  <1>4. CASE notice'[k] = NewRow
    BY <1>4 DEF NewRow
  <1>5. CASE notice[k] # None
    BY <1>1, <1>2, <1>3, <1>4, <1>5 DEF Rows
  <1> QED
    BY <1>3, <1>4, <1>5

(* An event whose projection is truthful and heard keeps the invariant.    *)
LEMMA Projected ==
    ASSUME Inv, NEW r \in Runs, NEW x \in RunRecords, x.generation <= events + 1,
           NEW W, NEW I \in SUBSET Keys, Projects(r, x, W, I),
           \A k \in Keys : k \in W \cup I => k.run = r,
           Truthful(r, x, W, I), Heard(r, x, W, I)
    PROVE  Inv'
  <1>1. /\ run \in [Runs -> RunRecords \cup {None}] /\ run' = [run EXCEPT ![r] = x]
        /\ notice' = Rewritten(notice, W, I)
    BY DEF Inv, TypeInv, RunsTypeOK, Projects
  <1>2. TypeInv'
    <2>1. notice' \in [Keys -> Rows \cup {None}]
      BY RewrittenType DEF Inv, TypeInv, RunsTypeOK, Projects, RowMaps
    <2>2. run' \in [Runs -> RunRecords \cup {None}]
      BY <1>1
    <2>3. events' \in 0..MaxEvents /\ events' = events + 1 /\ events \in Nat
      BY RunsAssumption DEF Inv, TypeInv, RunsTypeOK, Projects
    <2>4. \A q \in Runs : run'[q] # None => run'[q].generation <= events'
      <3> SUFFICES ASSUME NEW q \in Runs, run'[q] # None
                   PROVE  run'[q].generation <= events'
        OBVIOUS
      <3>1. CASE q = r
        BY <1>1, <2>3, <3>1
      <3>2. CASE q # r
        <4>1. run'[q] = run[q] /\ run[q] \in RunRecords /\ run[q].generation <= events
          BY <1>1, <3>2 DEF Inv, TypeInv
        <4> QED
          BY <2>3, <4>1 DEF RunRecords
      <3> QED
        BY <3>1, <3>2
    <2> QED
      BY <2>1, <2>2, <2>3, <2>4 DEF TypeInv, RunsTypeOK, Inv, Projects
  <1>3. RowInv'
    BY <1>1, RowsKept
  <1>4. RunInv(r)'
    BY <1>1, RunProjected
  <1>5. ASSUME NEW q \in Runs \ {r} PROVE RunInv(q)'
    <2>1. run'[q] = run[q]
      BY <1>1
    <2>2. \A k \in Keys : k.run = q => notice'[k] = notice[k]
      BY <1>1, RewrittenRow DEF Inv
    <2>3. q \in unasked' <=> q \in unasked
      BY DEF Projects
    <2> QED
      BY <2>1, <2>2, <2>3, RunCarried DEF Carried, Untouched, Reported
  <1> QED
    BY <1>2, <1>3, <1>4, <1>5 DEF Inv

(* What FollowInv says of a run whose record is known.                     *)
LEMMA Rows0 ==
    ASSUME Inv, NEW r \in Runs, NEW k \in Keys, k.run = r, Untouched(k),
           k.kind \in {"started", "attention", "settled"}
    PROVE  /\ run[r] # None /\ Known(r) = run[r]
           /\ k.kind \in {"started", "attention"} => Known(r).status = "running"
           /\ k.kind = "settled" => /\ k.n <= Known(r).generation
                                    /\ k.n = Known(r).generation => Known(r).status = "completed"
           /\ k.kind = "attention" => k \in KeysOf(r, {"attention"}) \cap Unattempted(notice)
  <1>1. notice[k] # None /\ ~notice[k].claimed
    BY DEF Untouched
  <1>2. run[r] # None /\ Known(r) = run[r]
    BY <1>1 DEF Inv, RunInv, FollowInv, Known
  <1>3. k.n \in Nat /\ run[r].generation \in Nat
    BY <1>2 DEF Inv, TypeInv, RunsTypeOK, RunRecords, Keys
  <1>4. ~notice[k].attempts
    BY <1>1 DEF Inv, RowInv
  <1> QED
    BY <1>1, <1>2, <1>3, <1>4 DEF Inv, RunInv, FollowInv, KeysOf, Unattempted

(* What every ingested event can rely on.                                  *)
LEMMA IngestFacts ==
    ASSUME Inv, NEW r \in Runs, \E origin \in {"user", "unknown"} : Ingest(r, origin)
    PROVE  /\ events < MaxEvents /\ events' = events + 1 /\ UNCHANGED <<now, notify>>
           /\ Known(r) \in RunRecords /\ Known(r).generation <= events
           /\ Known(r).generation \in Nat /\ events \in Nat
           /\ Known(r).generation < MaxEvents
  <1>1. events < MaxEvents /\ events' = events + 1 /\ UNCHANGED <<now, notify>>
    BY DEF Ingest
  <1>2. Known(r) \in RunRecords /\ Known(r).generation <= events
    BY KnownType DEF Inv
  <1>3. Known(r).generation \in Nat /\ events \in Nat
    BY <1>2 DEF RunRecords, Inv, TypeInv, RunsTypeOK
  <1> QED
    BY <1>1, <1>2, <1>3, RunsAssumption

(* What the record of a run that has not been seen yet tells.              *)
LEMMA NewRunFacts ==
    ASSUME Inv, NEW r \in Runs
    PROVE  /\ Known(r).status \in Terminal \cup {"settling"} => run[r] # None
           /\ run[r] # None => Known(r) = run[r]
           /\ Known(r).status = "completed" =>
                  Known(r).confidence \in {"inferred", "authoritative"}
  BY DEF Known, NewRun, Terminal, Ends, Inv, RunInv, VerdictInv

CompletedKeys(r) == KeysOf(r, {"completed", "settled"})

(* A run that reopens: run_started and output_produced.                    *)
LEMMA Reopened ==
    ASSUME Inv, NEW r \in Runs, \E origin \in {"user", "unknown"} : Ingest(r, origin),
           NEW I \in SUBSET Keys,
           \A k \in I : k.run = r /\ k.kind = "started" /\ Reopen(Known(r)).status = "running",
           NEW W, W = Stale(r, Reopen(Known(r)))
                      \cup (IF CanReopenInferred(Known(r)) THEN CompletedKeys(r) ELSE {}),
           Projects(r, Reopen(Known(r)), W, I), UNCHANGED unasked
    PROVE  Inv'
  <1> DEFINE old == Known(r)
             x == Reopen(old)
  <1>1. old \in RunRecords /\ old.generation \in Nat /\ old.generation <= events + 1
    BY IngestFacts
  <1>2. /\ x \in RunRecords /\ x.generation = old.generation
        /\ \/ x = old /\ IsAbsorbingTerminal(old)
           \/ x.status = "running" /\ ~IsAbsorbingTerminal(old)
    BY <1>1, ReopenFacts
  <1>3. \A k \in Keys : k \in W \cup I => k.run = r
    BY DEF Stale, CompletedKeys, KeysOf
  <1>4. Truthful(r, x, W, I)
    <2>1. run[r] # None => /\ x.generation >= run[r].generation
                           /\ x.status = "settling" /\ run[r].status # "settling" =>
                                  x.generation > run[r].generation
                           /\ run[r].status \in Terminal /\ run[r].confidence = "authoritative" =>
                                  x = run[r]
      BY <1>1, <1>2, NewRunFacts DEF IsAbsorbingTerminal, CanReopenInferred
    <2>2. x.status = "completed" => x.confidence \in {"inferred", "authoritative"}
      BY <1>2, NewRunFacts
    <2>3. ASSUME NEW k \in Keys, k.run = r, Untouched(k), k \notin W
          PROVE  /\ k.kind \in {"started", "attention"} => x.status = "running"
                 /\ k.kind = "settled" /\ k.n = x.generation => x.status = "completed"
      BY <1>2, <2>3, Rows0 DEF IsAbsorbingTerminal, CanReopenInferred, Terminal, Ends, CompletedKeys, KeysOf
    <2> QED
      BY <2>1, <2>2, <2>3 DEF Truthful
  <1>5. Heard(r, x, W, I)
    <2> SUFFICES ASSUME r \notin unasked, x.status \in Ends
                 PROVE  /\ x.confidence = "inferred" /\ x.status = "completed" => FALSE
                        /\ x.confidence = "authoritative" =>
                              \E k \in {Key(r, x.status, 0), Key(r, "settled", x.generation)} :
                                 /\ k.kind = "settled" => x.status = "completed"
                                 /\ k \notin W /\ Reported(k)
      BY DEF Heard
    <2>1. x = old /\ IsAbsorbingTerminal(old) /\ run[r] = old /\ run[r] # None
      BY <1>2, NewRunFacts DEF Ends, Terminal
    <2>2. W = Stale(r, x) /\ \A k \in W : k.kind = "attention"
      BY <2>1 DEF IsAbsorbingTerminal, Stale, KeysOf
    <2>3. Key(r, x.status, 0).kind = x.status /\ Key(r, "settled", x.generation).kind = "settled"
      BY DEF Key
    <2> QED
      BY <2>1, <2>2, <2>3 DEF IsAbsorbingTerminal, CanReopenInferred, Inv, RunInv, ReportInv, Ends
  <1>6. x.generation <= events + 1
    BY <1>1, <1>2
  <1> HIDE DEF x, old
  <1> QED
    BY <1>2, <1>3, <1>4, <1>5, <1>6, Projected DEF x, old

(* The outbox is a map of rows.                                            *)
LEMMA NoticeType ==
    ASSUME Inv PROVE notice \in RowMaps
  BY DEF Inv, TypeInv, RunsTypeOK, RowMaps

(* run_started and output_produced keep the invariant.                     *)
LEMMA StartedStep ==
    ASSUME Inv, NEW r \in Runs, RunStarted(r) \/ OutputProduced(r)
    PROVE  Inv'
  <1> DEFINE x == Reopen(Known(r))
             kept == CancelUnsentAttention(notice, r, x)
             told == IF CanReopenInferred(Known(r)) THEN CancelCompleted(kept, r) ELSE kept
             W == Stale(r, x) \cup (IF CanReopenInferred(Known(r)) THEN CompletedKeys(r) ELSE {})
             k0 == Key(r, "started", 0)
  <1>1. told = Rewritten(notice, W, {})
    BY NoticeType, StaleIs, CancelAgain DEF CancelCompleted, CompletedKeys, Inv
  <1>2. k0 \in Keys /\ k0.run = r /\ k0.kind = "started"
    BY KeyType, RunsAssumption DEF Kinds
  <1>3. InsertOutbox(told, k0) = Rewritten(notice, W, {k0})
    BY <1>1, <1>2, NoticeType, InsertInto
  <1>4. \E origin \in {"user", "unknown"} : Ingest(r, origin)
    BY DEF RunStarted, OutputProduced
  <1>5. Store(r, x) /\ UNCHANGED <<noticed, unasked>> /\ unasked \subseteq Runs
    BY DEF RunStarted, OutputProduced, Inv, TypeInv, RunsTypeOK
  <1>6. \/ notice' = told
        \/ x.status = "running" /\ notice' = InsertOutbox(told, k0)
    BY DEF RunStarted, OutputProduced
  <1> HIDE DEF x, kept, told, W, k0
  <1>7. CASE notice' = told
    <2>1. Projects(r, x, W, {})
      BY <1>1, <1>4, <1>5, <1>7, IngestFacts DEF Projects, Store
    <2> QED
      BY <1>4, <1>5, <2>1, Reopened DEF x, W
  <1>8. CASE x.status = "running" /\ notice' = InsertOutbox(told, k0)
    <2>1. Projects(r, x, W, {k0})
      BY <1>3, <1>4, <1>5, <1>8, IngestFacts DEF Projects, Store
    <2> QED
      BY <1>2, <1>4, <1>5, <1>8, <2>1, Reopened DEF x, W
  <1> QED
    BY <1>6, <1>7, <1>8

StartKeys(r) == KeysOf(r, {"started"})

(* A Stop keeps the invariant: its generation is new, or the run was       *)
(* settling already and has no notice of it.                               *)
LEMMA SettlingStep ==
    ASSUME Inv, NEW r \in Runs, RunSettling(r)
    PROVE  Inv'
  <1>1. \E origin \in {"user", "unknown"} : Ingest(r, origin)
    BY DEF RunSettling
  <1>2. PICK observed \in 0..now :
           /\ observed + Quiet <= MaxTime
           /\ Store(r, Settle(Known(r), observed))
           /\ notice' = CancelStart(CancelUnsentAttention(notice, r, Settle(Known(r), observed)), r)
    BY DEF RunSettling
  <1> DEFINE old == Known(r)
             x == Settle(old, observed)
             W == Stale(r, x) \cup StartKeys(r)
  <1>3. /\ old \in RunRecords /\ old.generation \in Nat /\ old.generation <= events
        /\ old.generation < MaxEvents /\ events \in Nat
    BY <1>1, IngestFacts
  <1>4. /\ x \in RunRecords
        /\ x.generation <= old.generation + 1
        /\ \/ x = old /\ IsAbsorbingTerminal(old)
           \/ /\ ~IsAbsorbingTerminal(old)
              /\ x.status = "settling"
              /\ x.generation = IF old.status = "settling" THEN old.generation
                                ELSE old.generation + 1
    <2>1. observed \in Nat
      BY DEF Inv, TypeInv, RunsTypeOK, Times
    <2> QED
      BY <1>2, <1>3, <2>1, SettleFacts
  <1>5. Projects(r, x, W, {}) /\ UNCHANGED unasked
    <2>1. notice' = Rewritten(notice, W, {})
      BY <1>2, NoticeType, StaleIs, CancelAgain DEF CancelStart, StartKeys, Inv
    <2> QED
      BY <1>1, <1>2, <2>1, IngestFacts
         DEF Projects, Store, RunSettling, Inv, TypeInv, RunsTypeOK
  <1>6. \A k \in Keys : k \in W => k.run = r /\ k.kind \in {"attention", "started"}
    BY DEF Stale, StartKeys, KeysOf
  <1>7. x.generation \in Nat /\ x.generation <= events + 1
    BY <1>3, <1>4 DEF RunRecords
  <1>8. Truthful(r, x, W, {})
    <2>1. run[r] # None => /\ x.generation >= run[r].generation
                           /\ x.status = "settling" /\ run[r].status # "settling" =>
                                  x.generation > run[r].generation
                           /\ run[r].status \in Terminal /\ run[r].confidence = "authoritative" =>
                                  x = run[r]
      BY <1>3, <1>4, NewRunFacts DEF IsAbsorbingTerminal, CanReopenInferred
    <2>2. x.status = "completed" => x.confidence \in {"inferred", "authoritative"}
      BY <1>4, NewRunFacts
    <2>3. ASSUME NEW k \in Keys, k.run = r, Untouched(k), k \notin W
          PROVE  /\ k.kind \in {"started", "attention"} => x.status = "running"
                 /\ k.kind = "settled" /\ k.n = x.generation => x.status = "completed"
      <3>1. CASE k.kind \in {"started", "attention"}
        BY <1>4, <2>3, <3>1, Rows0 DEF IsAbsorbingTerminal, Stale, StartKeys, KeysOf
      <3>2. CASE k.kind = "settled" /\ k.n = x.generation
        <4>1. k.n <= old.generation /\ (k.n = old.generation => old.status = "completed")
          BY <2>3, <3>2, Rows0
        <4> QED
          BY <1>3, <1>4, <3>2, <4>1
      <3> QED
        BY <3>1, <3>2
    <2> QED
      BY <2>1, <2>2, <2>3 DEF Truthful
  <1>9. Heard(r, x, W, {})
    <2> SUFFICES ASSUME r \notin unasked, x.status \in Ends
                 PROVE  /\ x.confidence = "inferred" /\ x.status = "completed" => FALSE
                        /\ x.confidence = "authoritative" =>
                              \E k \in {Key(r, x.status, 0), Key(r, "settled", x.generation)} :
                                 /\ k.kind = "settled" => x.status = "completed"
                                 /\ k \notin W /\ Reported(k)
      BY <1>5 DEF Heard
    <2>1. x = old /\ IsAbsorbingTerminal(old) /\ run[r] = old /\ run[r] # None
      BY <1>4, NewRunFacts DEF Ends, Terminal
    <2>2. Key(r, x.status, 0).kind = x.status /\ Key(r, "settled", x.generation).kind = "settled"
      BY DEF Key
    <2>3. /\ Key(r, x.status, 0) \notin W /\ Key(r, "settled", x.generation) \notin W
      BY <2>2 DEF Ends, Stale, StartKeys, KeysOf
    <2> QED
      BY <2>1, <2>2, <2>3 DEF IsAbsorbingTerminal, CanReopenInferred, Inv, RunInv, ReportInv, Ends
  <1> HIDE DEF x, old, W
  <1> QED
    BY <1>4, <1>5, <1>6, <1>7, <1>8, <1>9, Projected

(* A verdict that changes nothing.                                         *)
LEMMA NotApplied ==
    ASSUME Inv, NEW r \in Runs, \E origin \in {"user", "unknown"} : Ingest(r, origin),
           Projects(r, Known(r), Stale(r, Known(r)), {}), UNCHANGED unasked
    PROVE  Inv'
  <1> DEFINE x == Known(r)
             W == Stale(r, x)
  <1>1. x \in RunRecords /\ x.generation \in Nat /\ x.generation <= events /\ events \in Nat
    BY IngestFacts
  <1>2. /\ run[r] # None => run[r] = x
        /\ x.status \in Ends => run[r] # None
    BY NewRunFacts DEF Terminal
  <1>3. \A k \in Keys : k \in W => k.run = r /\ k.kind = "attention"
    BY DEF Stale, KeysOf
  <1>4. Truthful(r, x, W, {})
    <2>1. x.status = "completed" => x.confidence \in {"inferred", "authoritative"}
      BY NewRunFacts
    <2>2. ASSUME NEW k \in Keys, k.run = r, Untouched(k), k \notin W
          PROVE  /\ k.kind \in {"started", "attention"} => x.status = "running"
                 /\ k.kind = "settled" /\ k.n = x.generation => x.status = "completed"
      BY <2>2, Rows0
    <2> QED
      BY <1>1, <1>2, <2>1, <2>2 DEF Truthful
  <1>5. Heard(r, x, W, {})
    <2>1. Key(r, x.status, 0).kind = x.status /\ Key(r, "settled", x.generation).kind = "settled"
      BY DEF Key
    <2>2. x.status \in Ends => /\ Key(r, x.status, 0) \notin W
                               /\ Key(r, "settled", x.generation) \notin W
      BY <2>1 DEF Ends, Stale, KeysOf
    <2> QED
      BY <1>2, <2>1, <2>2 DEF Heard, Inv, RunInv, ReportInv, Ends
  <1>6. x.generation <= events + 1
    BY <1>1
  <1> HIDE DEF x, W
  <1> QED
    BY <1>1, <1>3, <1>4, <1>5, <1>6, Projected DEF x, W

(* What a verdict that applies does to the notices.  V: the completion     *)
(* notices, when an inferred completion is replaced by another end.  S:    *)
(* the start notice, unless the run had ended already.  I: the notice of   *)
(* an authoritative end, unless it confirms an inferred one, or none was   *)
(* asked for.                                                              *)
Tells(r, status, c, V, S, I) ==
    /\ \/ V = CompletedKeys(r) /\ CanReopenInferred(Known(r)) /\ status # "completed"
       \/ V = {} /\ (CanReopenInferred(Known(r)) => status = "completed")
    /\ \/ S = StartKeys(r)
       \/ S = {} /\ CanReopenInferred(Known(r))
    /\ \/ I = {} /\ (r \notin unasked' /\ status \in Ends /\ c = "authoritative" =>
                          /\ CanReopenInferred(Known(r)) /\ status = "completed"
                          /\ UNCHANGED unasked)
       \/ I = {Key(r, status, 0)} /\ status \in Ends /\ c = "authoritative"

(* A verdict that applies keeps the invariant.                             *)
LEMMA Applied ==
    ASSUME Inv, NEW r \in Runs, \E origin \in {"user", "unknown"} : Ingest(r, origin),
           NEW status \in Terminal, NEW c \in Confidence, Applies(Known(r), status, c),
           NEW W, NEW V, NEW S, NEW I \in SUBSET Keys, Tells(r, status, c, V, S, I),
           W = (Stale(r, End(Known(r), status, c)) \cup V) \cup S,
           Projects(r, End(Known(r), status, c), W, I)
    PROVE  Inv'
  <1> DEFINE old == Known(r)
             x == End(old, status, c)
             k0 == Key(r, status, 0)
             kg == Key(r, "settled", x.generation)
  <1> USE DEF Tells
  <1>1. /\ old \in RunRecords /\ old.generation \in Nat /\ old.generation <= events
        /\ events \in Nat
    BY IngestFacts
  <1>2. /\ x \in RunRecords /\ x.generation = old.generation
        /\ x.status = status /\ x.confidence = c
        /\ old.status \in Terminal => old.confidence # "authoritative"
    BY <1>1, EndFacts
  <1>3. k0.run = r /\ k0.kind = status /\ kg.kind = "settled"
    BY DEF Key
  <1>4. \A k \in Keys : k \in W \cup I => k.run = r
    BY <1>3 DEF Stale, CompletedKeys, StartKeys, KeysOf
  <1>5. /\ old.status = "completed" => CanReopenInferred(old)
        /\ status = "completed" => c = "authoritative"
    BY <1>1, <1>2, NewRunFacts DEF CanReopenInferred, Terminal, Ends, Applies
  <1>6. Truthful(r, x, W, I)
    <2>1. run[r] # None => /\ x.generation >= run[r].generation
                           /\ x.status # "settling"
                           /\ ~(run[r].status \in Terminal /\ run[r].confidence = "authoritative")
      BY <1>1, <1>2, NewRunFacts DEF Terminal, Ends
    <2>2. ASSUME NEW k \in Keys, k.run = r, Untouched(k), k \notin W
          PROVE  /\ k.kind \in {"started", "attention"} => x.status = "running"
                 /\ k.kind = "settled" /\ k.n = x.generation => x.status = "completed"
      <3>1. CASE k.kind = "attention"
        <4>1. x.status # "running"
          BY <1>2 DEF Terminal, Ends
        <4> QED
          BY <2>2, <3>1, <4>1, Rows0 DEF Stale
      <3>2. CASE k.kind = "started"
        <4>1. k \in StartKeys(r) /\ old.status = "running"
          BY <2>2, <3>2, Rows0 DEF StartKeys, KeysOf
        <4> QED
          BY <2>2, <3>2, <4>1 DEF CanReopenInferred
      <3>3. CASE k.kind = "settled" /\ k.n = x.generation
        <4>1. CanReopenInferred(old) /\ k \in CompletedKeys(r)
          BY <1>2, <1>5, <2>2, <3>3, Rows0 DEF CompletedKeys, KeysOf
        <4> QED
          BY <1>2, <2>2, <3>3, <4>1
      <3> QED
        BY <3>1, <3>2, <3>3
    <2>3. \A k \in I : k.run = r =>
            k.kind \in Ends /\ k.kind = x.status /\ x.confidence = "authoritative"
      BY <1>2, <1>3
    <2>4. x.status = "completed" => x.confidence \in {"inferred", "authoritative"}
      BY <1>2, <1>5
    <2> QED
      BY <2>1, <2>2, <2>3, <2>4 DEF Truthful
  <1>7. Heard(r, x, W, I)
    <2> SUFFICES ASSUME r \notin unasked', x.status \in Ends, x.confidence = "authoritative"
                 PROVE  \E k \in {k0, kg} :
                            /\ k.kind = "settled" => x.status = "completed"
                            /\ \/ k \in I /\ notice[k] = None
                               \/ k \notin W /\ Reported(k)
      BY <1>2, <1>5 DEF Heard
    <2>1. CASE I = {k0}
      <3>1. k0 \in Keys
        BY <2>1
      <3>2. notice[k0] = None
        <4>1. k0.kind \in Ends /\ k0.kind # "loose"
          BY <1>2, <1>3 DEF Ends
        <4> QED
          BY <1>2, <1>3, <3>1, <4>1, NewRunFacts DEF Inv, RunInv, FollowInv, Terminal
      <3>3. status # "settled"
        BY DEF Terminal, Ends
      <3> QED
        BY <1>3, <2>1, <3>2, <3>3
    <2>2. CASE I = {} /\ CanReopenInferred(old) /\ status = "completed" /\ UNCHANGED unasked
      <3>1. run[r] # None /\ run[r] = old
        BY <2>2, NewRunFacts DEF CanReopenInferred, Terminal, Ends
      <3>2. Reported(kg)
        BY <1>2, <2>2, <3>1 DEF CanReopenInferred, Inv, RunInv, ReportInv, Ends
      <3>3. kg \notin W
        BY <1>3, <2>2 DEF Stale, StartKeys, KeysOf
      <3> QED
        BY <1>2, <2>2, <3>2, <3>3
    <2> QED
      BY <1>2, <2>1, <2>2
  <1>8. x.generation <= events + 1
    BY <1>1, <1>2
  <1> HIDE DEF x, old, k0, kg
  <1> QED
    BY <1>2, <1>4, <1>6, <1>7, <1>8, Projected DEF x, old

(* run_completed, run_failed and run_interrupted keep the invariant.       *)
LEMMA EndedStep ==
    ASSUME Inv, NEW r \in Runs, NEW status \in Ends, NEW c \in Confidence,
           RunEnded(r, status, c)
    PROVE  Inv'
  <1> DEFINE old == Known(r)
             x == End(old, status, c)
             kept == CancelUnsentAttention(notice, r, x)
             k0 == Key(r, status, 0)
  <1>1. \E origin \in {"user", "unknown"} : Ingest(r, origin)
    BY DEF RunEnded
  <1>2. Store(r, x) /\ UNCHANGED noticed /\ old \in RunRecords /\ status \in Terminal
    BY <1>1, IngestFacts DEF RunEnded, Terminal
  <1>4. kept = Rewritten(notice, Stale(r, x), {}) /\ notice \in RowMaps
    BY StaleIs, NoticeType DEF Inv
  <1>5. k0 \in Keys
    <2>1. status \in Kinds /\ 0 \in 0..MaxEvents
      BY RunsAssumption DEF Kinds
    <2> QED
      BY <2>1, KeyType
  <1>6. ASSUME NEW V, NEW rows, rows = Rewritten(notice, Stale(r, x) \cup V, {})
        PROVE  LET W == (Stale(r, x) \cup V) \cup StartKeys(r) IN
               ToldEnd(rows, r, status, c) =
                   IF "ended" \in notify /\ c = "authoritative"
                   THEN Rewritten(notice, W, {k0}) ELSE Rewritten(notice, W, {})
    BY <1>4, <1>5, <1>6, CancelAgain, InsertInto DEF ToldEnd, CancelStart, StartKeys
  <1>3. /\ unasked' \subseteq Runs
        /\ \A q \in Runs \ {r} : q \in unasked' <=> q \in unasked
        /\ ~Applies(old, status, c) => UNCHANGED unasked
        /\ CanReopenInferred(old) /\ status = "completed" => UNCHANGED unasked
        /\ /\ Applies(old, status, c) /\ ~(CanReopenInferred(old) /\ status = "completed")
           /\ "ended" \notin notify /\ c = "authoritative"
           => r \in unasked'
    BY DEF RunEnded, Tell, Inv, TypeInv, RunsTypeOK
  <1>7. CASE ~Applies(old, status, c)
    <2>1. x = old
      BY <1>2, <1>7, EndFacts
    <2>2. notice' = Rewritten(notice, Stale(r, x), {})
      BY <1>4, <1>7 DEF RunEnded
    <2>3. Projects(r, old, Stale(r, old), {})
      BY <1>1, <1>2, <1>3, <2>1, <2>2, IngestFacts DEF Projects, Store
    <2> QED
      BY <1>1, <1>3, <1>7, <2>3, NotApplied
  <1>8. CASE Applies(old, status, c) /\ CanReopenInferred(old) /\ status = "completed"
    <2>1. notice' = Rewritten(notice, (Stale(r, x) \cup {}) \cup {}, {})
      <3>1. (Stale(r, x) \cup {}) \cup {} = Stale(r, x)
        OBVIOUS
      <3> QED
        BY <1>4, <1>8, <3>1 DEF RunEnded
    <2>2. Projects(r, x, (Stale(r, x) \cup {}) \cup {}, {})
      BY <1>1, <1>2, <1>3, <2>1, IngestFacts DEF Projects, Store
    <2>3. Tells(r, status, c, {}, {}, {})
      BY <1>3, <1>8 DEF Tells
    <2> QED
      BY <1>1, <1>2, <1>8, <2>2, <2>3, Applied
  <1>9. CASE Applies(old, status, c) /\ CanReopenInferred(old) /\ status # "completed"
    <2> DEFINE W == (Stale(r, x) \cup CompletedKeys(r)) \cup StartKeys(r)
    <2>1. CancelCompleted(kept, r) = Rewritten(notice, Stale(r, x) \cup CompletedKeys(r), {})
      BY <1>4, CancelAgain DEF CancelCompleted, CompletedKeys
    <2>2. notice' = ToldEnd(CancelCompleted(kept, r), r, status, c)
      BY <1>9 DEF RunEnded
    <2>3. notice' = IF "ended" \in notify /\ c = "authoritative"
                    THEN Rewritten(notice, W, {k0}) ELSE Rewritten(notice, W, {})
      BY <1>6, <2>1, <2>2
    <2>4. CASE "ended" \in notify /\ c = "authoritative"
      <3>1. Projects(r, x, W, {k0})
        BY <1>1, <1>2, <1>3, <2>3, <2>4, IngestFacts DEF Projects, Store
      <3>2. Tells(r, status, c, CompletedKeys(r), StartKeys(r), {k0})
        BY <1>9, <2>4 DEF Tells
      <3> QED
        BY <1>1, <1>2, <1>5, <1>9, <3>1, <3>2, Applied
    <2>5. CASE ~("ended" \in notify /\ c = "authoritative")
      <3>1. Projects(r, x, W, {})
        BY <1>1, <1>2, <1>3, <2>3, <2>5, IngestFacts DEF Projects, Store
      <3>2. Tells(r, status, c, CompletedKeys(r), StartKeys(r), {})
        BY <1>3, <1>9, <2>5 DEF Tells
      <3> QED
        BY <1>1, <1>2, <1>9, <3>1, <3>2, Applied
    <2> QED
      BY <2>4, <2>5
  <1>10. CASE Applies(old, status, c) /\ ~CanReopenInferred(old)
    <2> DEFINE W == (Stale(r, x) \cup {}) \cup StartKeys(r)
    <2>1. kept = Rewritten(notice, Stale(r, x) \cup {}, {})
      <3>1. Stale(r, x) \cup {} = Stale(r, x)
        OBVIOUS
      <3> QED
        BY <1>4, <3>1
    <2>2. notice' = ToldEnd(kept, r, status, c)
      BY <1>10 DEF RunEnded
    <2>3. notice' = IF "ended" \in notify /\ c = "authoritative"
                    THEN Rewritten(notice, W, {k0}) ELSE Rewritten(notice, W, {})
      BY <1>6, <2>1, <2>2
    <2>4. CASE "ended" \in notify /\ c = "authoritative"
      <3>1. Projects(r, x, W, {k0})
        BY <1>1, <1>2, <1>3, <2>3, <2>4, IngestFacts DEF Projects, Store
      <3>2. Tells(r, status, c, {}, StartKeys(r), {k0})
        BY <1>10, <2>4 DEF Tells
      <3> QED
        BY <1>1, <1>2, <1>5, <1>10, <3>1, <3>2, Applied
    <2>5. CASE ~("ended" \in notify /\ c = "authoritative")
      <3>1. Projects(r, x, W, {})
        BY <1>1, <1>2, <1>3, <2>3, <2>5, IngestFacts DEF Projects, Store
      <3>2. Tells(r, status, c, {}, StartKeys(r), {})
        BY <1>3, <1>10, <2>5 DEF Tells
      <3> QED
        BY <1>1, <1>2, <1>10, <3>1, <3>2, Applied
    <2> QED
      BY <2>4, <2>5
  <1> QED
    BY <1>7, <1>8, <1>9, <1>10

(* A cancellation keeps the invariant.                                     *)
LEMMA CancelledStep ==
    ASSUME Inv, NEW r \in Runs, NEW c \in Confidence, RunCancelled(r, c)
    PROVE  Inv'
  <1> DEFINE old == Known(r)
             x == End(old, "cancelled", c)
             kept == CancelUnsentAttention(notice, r, x)
  <1>1. \E origin \in {"user", "unknown"} : Ingest(r, origin)
    BY DEF RunCancelled
  <1>2. /\ Store(r, x) /\ old \in RunRecords /\ "cancelled" \in Terminal
        /\ UNCHANGED <<noticed, unasked>> /\ unasked \subseteq Runs
    BY <1>1, IngestFacts DEF RunCancelled, Terminal, Inv, TypeInv, RunsTypeOK
  <1>3. kept = Rewritten(notice, Stale(r, x), {}) /\ notice \in RowMaps
    BY StaleIs, NoticeType DEF Inv
  <1>4. CASE ~Applies(old, "cancelled", c)
    <2>1. x = old
      BY <1>2, <1>4, EndFacts
    <2>2. notice' = Rewritten(notice, Stale(r, x), {})
      BY <1>3, <1>4 DEF RunCancelled
    <2>3. Projects(r, old, Stale(r, old), {})
      BY <1>1, <1>2, <2>1, <2>2, IngestFacts DEF Projects, Store
    <2> QED
      BY <1>1, <1>2, <2>3, NotApplied
  <1>5. CASE Applies(old, "cancelled", c)
    <2> DEFINE V == IF CanReopenInferred(old) THEN CompletedKeys(r) ELSE {}
               W == (Stale(r, x) \cup V) \cup StartKeys(r)
               told == IF CanReopenInferred(old) THEN CancelCompleted(kept, r) ELSE kept
    <2>1. told = Rewritten(notice, Stale(r, x) \cup V, {})
      <3>1. Stale(r, x) \cup {} = Stale(r, x)
        OBVIOUS
      <3> QED
        BY <1>3, <3>1, CancelAgain DEF CancelCompleted, CompletedKeys
    <2>2. notice' = CancelStart(told, r)
      BY <1>5 DEF RunCancelled
    <2>3. notice' = Rewritten(notice, W, {})
      BY <1>3, <2>1, <2>2, CancelAgain DEF CancelStart, StartKeys
    <2>4. Projects(r, x, W, {})
      BY <1>1, <1>2, <2>3, IngestFacts DEF Projects, Store
    <2>5. "cancelled" \notin Ends /\ "cancelled" # "completed"
      BY DEF Ends
    <2>6. Tells(r, "cancelled", c, V, StartKeys(r), {})
      BY <2>5 DEF Tells
    <2> HIDE DEF V
    <2> QED
      BY <1>1, <1>2, <1>5, <2>4, <2>6, Applied
  <1> QED
    BY <1>4, <1>5

-----------------------------------------------------------------------------
(* Attention, the finalizer, the worker and the clock.                     *)

(* An attention request keeps the invariant.                               *)
LEMMA AttentionStep ==
    ASSUME Inv, NEW r \in Runs, AttentionRequired(r)
    PROVE  Inv'
  <1> DEFINE known == run[r] # None
             k == Key(r, IF known THEN "attention" ELSE "loose", events + 1)
             shut == [status |-> "closed", attempts |-> FALSE, claimed |-> FALSE]
  <1>1. \E origin \in {"user", "unknown"} : Ingest(r, origin)
    BY DEF AttentionRequired
  <1>2. events < MaxEvents /\ events' = events + 1 /\ UNCHANGED <<now, notify>> /\ events \in Nat
    BY <1>1, IngestFacts
  <1>3. k \in Keys /\ k.run = r /\ k.kind = IF known THEN "attention" ELSE "loose"
    <2>1. events + 1 \in 0..MaxEvents
      BY <1>2, RunsAssumption
    <2>2. (IF known THEN "attention" ELSE "loose") \in Kinds
      BY DEF Kinds
    <2> QED
      BY <2>1, <2>2, KeyType
  <1>4. UNCHANGED <<run, unasked>> /\ notice \in RowMaps
    BY NoticeType DEF AttentionRequired
  <1>5. noticed' \in [Runs -> Times \cup {None}]
    BY DEF AttentionRequired, Inv, TypeInv, RunsTypeOK
  <1>6. \/ notice' = notice
        \/ (known => run[r].status = "running") /\ notice' = Rewritten(notice, {}, {k})
        \/ notice' = [notice EXCEPT ![k] = shut]
    <2>1. InsertOutbox(notice, k) = Rewritten(notice, {}, {k})
      BY <1>3, <1>4, CancelIs, InsertInto
    <2> QED
      BY <2>1 DEF AttentionRequired
  <1>7. ASSUME notice' \in RowMaps PROVE TypeInv'
    <2>1. events' \in 0..MaxEvents
      BY <1>2, RunsAssumption
    <2>2. \A q \in Runs : run'[q] # None => run'[q].generation <= events'
      <3> SUFFICES ASSUME NEW q \in Runs, run[q] # None PROVE run[q].generation <= events'
        BY <1>4
      <3>1. run[q].generation \in Nat /\ run[q].generation <= events
        BY DEF Inv, TypeInv, RunsTypeOK, RunRecords
      <3> QED
        BY <1>2, <3>1
    <2> QED
      BY <1>2, <1>4, <1>5, <1>7, <2>1, <2>2 DEF Inv, TypeInv, RunsTypeOK, RowMaps
  <1> HIDE DEF k, shut
  <1>8. CASE notice' = notice
    <2>1. TypeInv' /\ RowInv'
      BY <1>4, <1>7, <1>8 DEF Inv, RowInv
    <2>2. \A q \in Runs : RunInv(q)'
      BY <1>4, <1>8, RunCarried DEF Carried, Untouched, Reported
    <2> QED
      BY <2>1, <2>2 DEF Inv
  <1>9. CASE (known => run[r].status = "running") /\ notice' = Rewritten(notice, {}, {k})
    <2>1. TypeInv' /\ RowInv'
      BY <1>4, <1>7, <1>9, RewrittenType, RowsKept
    <2>2. ASSUME NEW q \in Runs PROVE RunInv(q)'
      <3>1. CASE q = r /\ known
        <4>1. \A j \in Keys \ {k} : notice'[j] = notice[j]
          BY <1>9, RewrittenRow DEF Inv
        <4>2. FollowInv(q)'
          BY <1>3, <1>4, <1>9, <3>1, <4>1 DEF Inv, RunInv, FollowInv, Untouched, Ends
        <4>3. VerdictInv(q)'
          BY <1>4 DEF Inv, RunInv, VerdictInv
        <4>4. ReportInv(q)'
          BY <1>4, <1>9, <3>1 DEF ReportInv, Ends
        <4> QED
          BY <4>2, <4>3, <4>4 DEF RunInv
      <3>2. CASE q # r \/ ~known
        <4>1. \A j \in Keys : j.run = q /\ j.kind # "loose" => notice'[j] = notice[j]
          BY <1>3, <1>9, <3>2, RewrittenRow DEF Inv
        <4> QED
          BY <1>4, <4>1, RunCarried DEF Carried, Untouched, Reported
      <3> QED
        BY <3>1, <3>2
    <2> QED
      BY <2>1, <2>2 DEF Inv
  <1>10. CASE notice' = [notice EXCEPT ![k] = shut]
    <2>1. shut \in Rows /\ shut.status = "closed" /\ ~shut.attempts /\ shut # None
      <3>1. shut \in Rows
        BY DEF shut, Rows
      <3>2. shut.status = "closed" /\ ~shut.attempts
        BY DEF shut
      <3> QED
        BY <3>1, <3>2, NoneAssumption
    <2>2. notice' \in RowMaps /\ notice'[k] = shut
          /\ \A j \in Keys \ {k} : notice'[j] = notice[j]
      BY <1>3, <1>4, <1>10, <2>1 DEF RowMaps
    <2>3. RowInv'
      BY <2>1, <2>2 DEF Inv, RowInv
    <2>4. ASSUME NEW q \in Runs PROVE RunInv(q)'
      <3>1. FollowInv(q)'
        BY <1>3, <1>4, <2>1, <2>2 DEF Inv, RunInv, FollowInv, Untouched, Ends
      <3>2. VerdictInv(q)'
        BY <1>4 DEF Inv, RunInv, VerdictInv
      <3>3. ReportInv(q)'
        <4>1. \A j \in Keys : Reported(j) => Reported(j)'
          BY <2>1, <2>2 DEF Reported
        <4>2. run[q] # None /\ run[q].status \in Ends =>
                 Key(q, "settled", run[q].generation) \in Keys /\ Key(q, run[q].status, 0) \in Keys
          <5> SUFFICES ASSUME run[q] # None, run[q].status \in Ends
                       PROVE  Key(q, "settled", run[q].generation) \in Keys
                              /\ Key(q, run[q].status, 0) \in Keys
            OBVIOUS
          <5>1. run[q].generation \in 0..MaxEvents /\ 0 \in 0..MaxEvents
            BY RunsAssumption DEF Inv, TypeInv, RunsTypeOK, RunRecords
          <5>2. "settled" \in Kinds /\ run[q].status \in Kinds
            BY DEF Kinds
          <5> QED
            BY <5>1, <5>2, KeyType
        <4> QED
          BY <1>4, <4>1, <4>2 DEF Inv, RunInv, ReportInv
      <3> QED
        BY <3>1, <3>2, <3>3 DEF RunInv
    <2> QED
      BY <1>7, <2>2, <2>3, <2>4 DEF Inv
  <1> QED
    BY <1>6, <1>8, <1>9, <1>10

(* The finalizer keeps the invariant, for all the runs of its batch: the   *)
(* key of each one's generation is still free.                             *)
LEMMA FinalizeStep ==
    ASSUME Inv, FinalizeBatch
    PROVE  Inv'
  <1> DEFINE W == {k \in Keys : /\ Due(k.run)
                                /\ \/ k.kind = "started"
                                   \/ k.kind = "attention" /\ k \in Unattempted(notice)}
             I == {k \in Keys : /\ "ended" \in notify /\ Due(k.run) /\ k.kind = "settled"
                                /\ k.n = run[k.run].generation}
             quiet == Cancel(notice, W)
  <1>1. /\ run' = [r \in Runs |-> IF Due(r) THEN FinalizeDueRun(run[r]) ELSE run[r]]
        /\ UNCHANGED <<now, noticed, events, notify>>
        /\ notice' = [k \in Keys |-> IF k \in I THEN InsertOutbox(quiet, k)[k] ELSE quiet[k]]
        /\ unasked' \subseteq Runs
        /\ \A q \in Runs : ~Due(q) => (q \in unasked' <=> q \in unasked)
        /\ \A q \in Runs : Due(q) /\ "ended" \notin notify => q \in unasked'
    BY DEF FinalizeBatch, Tell, Inv, TypeInv, RunsTypeOK
  <1>2. notice' = Rewritten(notice, W, I)
    <2>1. notice \in RowMaps /\ quiet = Rewritten(notice, W, {})
      BY NoticeType, CancelIs
    <2>2. \A k \in Keys : InsertOutbox(quiet, k)[k] = Rewritten(notice, W, {k})[k]
      BY <2>1, InsertInto
    <2> HIDE DEF W, I, quiet
    <2> QED
      BY <1>1, <2>1, <2>2 DEF Rewritten
  <1>3. ASSUME NEW r \in Runs, Due(r)
        PROVE  /\ run[r] \in RunRecords /\ run[r] # None /\ run[r].status = "settling"
               /\ FinalizeDueRun(run[r]) \in RunRecords
               /\ FinalizeDueRun(run[r]).status = "completed"
               /\ FinalizeDueRun(run[r]).confidence = "inferred"
               /\ FinalizeDueRun(run[r]).generation = run[r].generation
               /\ run[r].generation \in Nat
    <2>1. run[r] \in RunRecords /\ run[r] # None /\ run[r].status = "settling"
      BY <1>3 DEF Due, Settling, Inv, TypeInv, RunsTypeOK
    <2>2. \A x \in RunRecords :
             /\ FinalizeDueRun(x) \in RunRecords
             /\ FinalizeDueRun(x).status = "completed"
             /\ FinalizeDueRun(x).confidence = "inferred"
             /\ FinalizeDueRun(x).generation = x.generation
      BY DEF FinalizeDueRun, RunRecords, Confidence, Terminal, Ends
    <2>3. run[r].generation \in Nat
      BY <2>1 DEF RunRecords
    <2> QED
      BY <2>1, <2>2, <2>3
  <1> HIDE DEF W, I, quiet
  <1>4. TypeInv'
    <2>1. notice' \in [Keys -> Rows \cup {None}]
      BY <1>2, NoticeType, RewrittenType DEF RowMaps
    <2>2. run' \in [Runs -> RunRecords \cup {None}]
      BY <1>1, <1>3 DEF Inv, TypeInv, RunsTypeOK
    <2>3. \A q \in Runs : run'[q] # None => run'[q].generation <= events'
      BY <1>1, <1>3 DEF Inv, TypeInv
    <2> QED
      BY <1>1, <2>1, <2>2, <2>3 DEF Inv, TypeInv, RunsTypeOK
  <1>5. RowInv'
    BY <1>2, RowsKept
  <1>6. ASSUME NEW q \in Runs, Due(q) PROVE RunInv(q)'
    <2> DEFINE x == FinalizeDueRun(run[q])
               kg == Key(q, "settled", x.generation)
    <2>1. /\ x \in RunRecords /\ run'[q] = x /\ run[q] # None
          /\ x.status = "completed" /\ x.confidence = "inferred"
          /\ run[q].status = "settling" /\ x.generation = run[q].generation
          /\ x.generation \in Nat
      BY <1>1, <1>3, <1>6
    <2>2. Truthful(q, x, W, I)
      <3>1. ASSUME NEW k \in Keys, k.run = q, Untouched(k), k \notin W
            PROVE  k.kind \notin {"started", "attention"}
        <4>1. SUFFICES ASSUME k.kind \in {"started", "attention"} PROVE FALSE
          OBVIOUS
        <4>2. run[q].status = "running"
          BY <3>1, <4>1 DEF Inv, RunInv, FollowInv, Untouched
        <4> QED
          BY <2>1, <4>2
      <3>2. \A k \in I : k.run = q => k.kind = "settled" /\ k.n = x.generation
        BY <2>1 DEF I
      <3> HIDE DEF x
      <3> QED
        BY <2>1, <3>1, <3>2 DEF Truthful, Terminal, Ends
    <2>3. kg \in Keys /\ kg.run = q /\ kg.kind = "settled" /\ kg.n = x.generation
      <3>1. x.generation \in 0..MaxEvents /\ "settled" \in Kinds
        BY <2>1 DEF RunRecords, Kinds
      <3> QED
        BY <3>1, KeyType
    <2>4. q \notin unasked' => kg \in I /\ notice[kg] = None
      <3>1. q \notin unasked' => kg \in I
        BY <1>1, <1>6, <2>1, <2>3 DEF I
      <3>2. notice[kg] = None
        BY <2>1, <2>3 DEF Inv, RunInv, FollowInv
      <3> QED
        BY <3>1, <3>2
    <2> HIDE DEF x, kg
    <2>5. Heard(q, x, W, I)
      BY <2>1, <2>4 DEF Heard, kg
    <2>6. I \in SUBSET Keys
      BY DEF I
    <2> QED
      BY <1>2, <2>1, <2>2, <2>5, <2>6, RunProjected
  <1>7. ASSUME NEW q \in Runs, ~Due(q) PROVE RunInv(q)'
    <2>1. run'[q] = run[q] /\ (q \in unasked' <=> q \in unasked)
      BY <1>1, <1>7
    <2>2. \A k \in Keys : k.run = q => notice'[k] = notice[k]
      <3>1. \A k \in Keys : k.run = q => k \notin W \cup I
        BY <1>7 DEF W, I
      <3> QED
        BY <1>2, <3>1, RewrittenRow DEF Inv
    <2> QED
      BY <2>1, <2>2, RunCarried DEF Carried, Untouched, Reported
  <1> QED
    BY <1>4, <1>5, <1>6, <1>7 DEF Inv

(* The delivery worker keeps the invariant: what it moves was claimed.     *)
LEMMA WorkerStep ==
    ASSUME Inv, NEW k \in Keys, Claim(k) \/ Conclude(k) \/ Release(k) \/ Expire(k)
    PROVE  Inv'
  <1>1. /\ UNCHANGED <<now, run, noticed, events, notify, unasked>>
        /\ notice[k] # None /\ notice \in RowMaps
    BY NoticeType DEF Claim, Conclude, Release, Expire
  <1>2. notice[k] \in Rows
    BY <1>1 DEF RowMaps
  <1>3. ~notice[k].claimed => ~notice[k].attempts /\ notice[k].status # "sending"
    BY <1>1 DEF Inv, RowInv
  <1>4. /\ notice' \in RowMaps
        /\ \A j \in Keys \ {k} : notice'[j] = notice[j]
        /\ notice'[k] \in Rows
        /\ ~notice'[k].claimed => ~notice'[k].attempts /\ notice'[k].status # "sending"
        /\ notice'[k].status = "waiting" => notice'[k].claimed
        /\ notice'[k].status # "cancelled"
    <2>1. CASE Claim(k)
      BY <1>1, <1>2, <1>3, <2>1 DEF Claim, RowMaps, Rows
    <2>2. CASE Conclude(k)
      BY <1>1, <1>2, <1>3, <2>2 DEF Conclude, RowMaps, Rows
    <2>3. CASE Release(k)
      BY <1>1, <1>2, <1>3, <2>3 DEF Release, RowMaps, Rows
    <2>4. CASE Expire(k)
      BY <1>1, <1>2, <1>3, <2>4 DEF Expire, RowMaps, Rows
    <2> QED
      BY <2>1, <2>2, <2>3, <2>4
  <1>5. TypeInv'
    BY <1>1, <1>4 DEF Inv, TypeInv, RunsTypeOK, RowMaps
  <1>6. RowInv'
    BY <1>4 DEF Inv, RowInv
  <1>7. \A j \in Keys : Carried(j)
    BY <1>1, <1>4, NoneAssumption DEF Carried, Untouched, Reported
  <1>8. \A q \in Runs : RunInv(q)'
    BY <1>1, <1>7, RunCarried
  <1> QED
    BY <1>5, <1>6, <1>8 DEF Inv

(* A saved policy keeps the invariant: what it revokes stays reported.     *)
LEMMA PolicyStep ==
    ASSUME Inv, ApplyProjection
    PROVE  Inv'
  <1>1. UNCHANGED <<now, run, noticed, events, unasked>> /\ notify' \in Policies
    BY DEF ApplyProjection
  <1>2. \A k \in Keys :
           \/ notice'[k] = notice[k]
           \/ notice[k] # None /\ notice'[k] = [notice[k] EXCEPT !.status = "revoked"]
    BY DEF ApplyProjection
  <1>3. notice \in RowMaps /\ DOMAIN notice' = Keys /\ notice' = [k \in Keys |-> notice'[k]]
    BY NoticeType DEF ApplyProjection
  <1>4. ASSUME NEW k \in Keys, notice'[k] # notice[k]
        PROVE  /\ notice[k] # None /\ notice'[k] # None /\ notice'[k] \in Rows
               /\ notice'[k].status = "revoked"
               /\ notice'[k].claimed <=> notice[k].claimed
               /\ notice'[k].attempts <=> notice[k].attempts
    <2>1. notice[k] # None /\ notice'[k] = [notice[k] EXCEPT !.status = "revoked"]
      BY <1>2, <1>4
    <2>2. notice[k] \in Rows
      BY <1>3, <2>1 DEF RowMaps
    <2>3. notice'[k] \in Rows
      BY <2>1, <2>2 DEF Rows
    <2>4. /\ notice'[k].status = "revoked"
          /\ notice'[k].claimed <=> notice[k].claimed
          /\ notice'[k].attempts <=> notice[k].attempts
      BY <2>1, <2>2 DEF Rows
    <2> QED
      BY <2>1, <2>3, <2>4, NoneAssumption
  <1>5. notice' \in RowMaps
    BY <1>3, <1>4 DEF RowMaps
  <1>6. TypeInv'
    BY <1>1, <1>5 DEF Inv, TypeInv, RunsTypeOK, RowMaps
  <1>7. RowInv'
    <2> SUFFICES ASSUME NEW k \in Keys, notice'[k] # None, ~notice'[k].claimed
                 PROVE  ~notice'[k].attempts /\ notice'[k].status # "sending"
      BY DEF RowInv
    <2>1. notice[k] # None /\ ~notice[k].claimed =>
             ~notice[k].attempts /\ notice[k].status # "sending"
      BY DEF Inv, RowInv
    <2>2. CASE notice'[k] = notice[k]
      BY <2>1, <2>2
    <2>3. CASE notice'[k] # notice[k]
      BY <1>4, <2>1, <2>3
    <2> QED
      BY <2>2, <2>3
  <1>8. ASSUME NEW k \in Keys PROVE Carried(k)
    <2>1. CASE notice'[k] = notice[k]
      BY <2>1 DEF Carried, Untouched, Reported
    <2>2. CASE notice'[k] # notice[k]
      BY <1>4, <2>2 DEF Carried, Untouched, Reported
    <2> QED
      BY <2>1, <2>2
  <1>9. \A q \in Runs : RunInv(q)'
    BY <1>1, <1>8, RunCarried
  <1> QED
    BY <1>6, <1>7, <1>9 DEF Inv

(* Time passing keeps the invariant.                                       *)
LEMMA TickStep ==
    ASSUME Inv, Tick \/ UNCHANGED vars
    PROVE  Inv'
  <1>1. UNCHANGED <<run, notice, noticed, events, notify, unasked>> /\ now' \in Times
    BY RunsAssumption DEF Tick, vars, Times, Inv, TypeInv, RunsTypeOK
  <1> QED
    BY <1>1 DEF Inv, TypeInv, RunsTypeOK, RowInv, RunInv, FollowInv, VerdictInv, ReportInv,
       Untouched, Reported

-----------------------------------------------------------------------------
(* The theorems.                                                           *)

(* The inductive invariant holds initially ...                             *)
LEMMA InvInit == Init => Inv
  <1> SUFFICES ASSUME Init PROVE Inv
    OBVIOUS
  <1>1. TypeInv
    BY RunsAssumption DEF Init, TypeInv, RunsTypeOK, Times
  <1>2. \A k \in Keys : notice[k] = None
    BY DEF Init
  <1>3. \A r \in Runs : run[r] = None
    BY DEF Init
  <1> QED
    BY <1>1, <1>2, <1>3 DEF Inv, RowInv, RunInv, FollowInv, VerdictInv, ReportInv

(* ... and every step keeps it.                                            *)
LEMMA InvStep == Inv /\ [Next]_vars => Inv'
  BY StartedStep, SettlingStep, AttentionStep, CancelledStep, EndedStep, WorkerStep,
     FinalizeStep, PolicyStep, TickStep DEF Next

(* The inductive invariant of the runs: the types, what an unclaimed row   *)
(* looks like (RowInv) and, run by run, what its notices say (FollowInv),  *)
(* how a completion is known (VerdictInv) and that its end was told        *)
(* (ReportInv).                                                            *)
THEOREM Invariance == Spec => []Inv
  BY InvInit, InvStep, PTL DEF Spec

(* The run records, the outbox rows and the counters are what they are     *)
(* declared to be, whatever is ingested.                                   *)
THEOREM RunsTypeCorrect == Spec => []RunsTypeOK
  <1>1. Inv => RunsTypeOK
    BY DEF Inv, TypeInv
  <1> QED
    BY <1>1, Invariance, PTL

(* Every projection withdraws what it makes false, so what a notice that   *)
(* no worker has claimed is about to say is true of its run.               *)
THEOREM NoticesAreTrue == Spec => []NoticesFollowRun
  <1>1. Inv => NoticesFollowRun
    <2> SUFFICES ASSUME Inv, NEW k \in Keys, Untouched(k), k.kind # "loose"
                 PROVE  /\ run[k.run] # None
                        /\ k.kind \in {"started", "attention"} => run[k.run].status = "running"
                        /\ k.kind \in Ends => run[k.run].status = k.kind
                        /\ k.kind = "settled" /\ k.n = run[k.run].generation =>
                               run[k.run].status = "completed"
      BY DEF NoticesFollowRun
    <2>1. k.run \in Runs
      BY DEF Keys
    <2> QED
      BY <2>1 DEF Inv, RunInv, FollowInv, Untouched
  <1> QED
    BY <1>1, Invariance, PTL

(* A run completed by its quiet period, or ended by an authoritative       *)
(* event, while the policy asks for ends, has a notice of that end that    *)
(* only a later policy, or settings that cannot be read, takes back,       *)
(* however often the run resumed and settled before.                       *)
THEOREM EndsAreReported == Spec => []EndIsReported
  <1>1. Inv => EndIsReported
    BY DEF Inv, RunInv, ReportInv, EndIsReported
  <1> QED
    BY <1>1, Invariance, PTL

(* No event, however late, replaces a verdict by one that is not more      *)
(* certain, or takes it back.                                              *)
THEOREM VerdictsStand == Spec => VerdictStands
  <1> DEFINE Stands(r) ==
         run[r] # None /\ IsAbsorbingTerminal(run[r]) /\ run'[r] # run[r] =>
             /\ run'[r].status \in Terminal
             /\ Rank(run'[r].confidence) > Rank(run[r].confidence)
  <1>1. ASSUME Inv, Next, NEW r \in Runs PROVE Stands(r)
    <2> SUFFICES ASSUME run[r] # None, IsAbsorbingTerminal(run[r]), run'[r] # run[r]
                 PROVE  /\ run'[r].status \in Terminal
                        /\ Rank(run'[r].confidence) > Rank(run[r].confidence)
      OBVIOUS
    <2>1. /\ Known(r) = run[r] /\ run[r] \in RunRecords
          /\ run \in [Runs -> RunRecords \cup {None}]
      BY <1>1, KnownType DEF Inv, TypeInv, RunsTypeOK
    <2>2. ASSUME NEW q \in Runs, NEW x, Store(q, x) PROVE q = r /\ run'[r] = x
      BY <2>1, <2>2 DEF Store
    <2>3. ASSUME NEW q \in Runs,
                 RunStarted(q) \/ OutputProduced(q) \/ RunSettling(q) \/ AttentionRequired(q)
          PROVE  FALSE
      <3>1. ~AttentionRequired(q)
        BY DEF AttentionRequired
      <3>2. CASE RunStarted(q) \/ OutputProduced(q)
        <4>1. q = r /\ run'[r] = Reopen(run[r])
          BY <2>1, <2>2, <3>2 DEF RunStarted, OutputProduced
        <4> QED
          BY <4>1 DEF Reopen
      <3>3. CASE RunSettling(q)
        <4>1. PICK observed \in 0..now : Store(q, Settle(Known(q), observed))
          BY <3>3 DEF RunSettling
        <4>2. run'[r] = Settle(run[r], observed)
          BY <2>1, <2>2, <4>1
        <4> QED
          BY <4>2 DEF Settle
      <3> QED
        BY <2>3, <3>1, <3>2, <3>3
    <2>4. ASSUME NEW q \in Runs, NEW c \in Confidence, NEW s \in Terminal,
                 Store(q, End(Known(q), s, c))
          PROVE  /\ run'[r].status \in Terminal
                 /\ Rank(run'[r].confidence) > Rank(run[r].confidence)
      <3>1. run'[r] = End(run[r], s, c)
        BY <2>1, <2>2, <2>4
      <3>2. Applies(run[r], s, c)
        BY <3>1 DEF End
      <3>3. run'[r].status = s /\ run'[r].confidence = c
        BY <2>1, <3>1, <3>2, EndFacts
      <3> QED
        BY <3>2, <3>3 DEF Applies, IsAbsorbingTerminal
    <2>5. CASE FinalizeBatch
      BY <2>5 DEF FinalizeBatch, Due, Settling, IsAbsorbingTerminal, Terminal, Ends
    <2>6. CASE \/ Tick \/ ApplyProjection
               \/ \E k \in Keys : Claim(k) \/ Conclude(k) \/ Release(k) \/ Expire(k)
      BY <2>6 DEF Tick, ApplyProjection, Claim, Conclude, Release, Expire
    <2>7. ASSUME NEW q \in Runs, NEW c \in Confidence, NEW s \in Ends,
                 RunCancelled(q, c) \/ RunEnded(q, s, c)
          PROVE  \E t \in Terminal : Store(q, End(Known(q), t, c))
      BY <2>7 DEF RunCancelled, RunEnded, Terminal
    <2>8. ASSUME NEW q \in Runs, NEW c \in Confidence, RunCancelled(q, c)
          PROVE  \E t \in Terminal : Store(q, End(Known(q), t, c))
      BY <2>8 DEF RunCancelled, Terminal
    <2> QED
      BY <1>1, <2>3, <2>4, <2>5, <2>6, <2>7, <2>8 DEF Next
  <1>2. Inv /\ [Next]_vars => [\A r \in Runs : Stands(r)]_vars
    BY <1>1
  <1> QED
    BY <1>2, Invariance, PTL DEF Spec, VerdictStands
=============================================================================
