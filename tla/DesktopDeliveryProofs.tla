------------------------- MODULE DesktopDeliveryProofs -------------------------
(***************************************************************************)
(* Proofs about the desktop's outbox, for every set of rows and policies   *)
(* and every bound: the worker owns the claim it completes, no request is  *)
(* started under a hold, and a notice a saved policy has withdrawn is      *)
(* never sent.                                                             *)
(*                                                                         *)
(* The argument for the last one: the file and the database differ only    *)
(* from a commit to the projection that follows it, in this process or the *)
(* next; all that time the runtime is paused and has no worker, or the     *)
(* process is down; no second commit happens before that projection; and a *)
(* row the commit has withdrawn is one the projection cancels.             *)
(***************************************************************************)
EXTENDS DesktopDelivery, TLAPS

-----------------------------------------------------------------------------
(* The invariant.                                                          *)

Open     == Waiting \cup {"sending"}
Claiming == {"claimed", "deliver", "permitted", "inflight", "done"}
Busy     == {"join", "begin", "commit", "apply", "replace", "resume"}
Before   == {"pause", "join", "begin", "commit"}

GoodRows == {None} \cup {r \in Rows : r.status = "sending" => r.attempts >= 1}

GoodWorkers ==
    {w \in [pc: {"none", "start", "loop"} \cup Claiming, row: Ids \cup {None},
            permit: BOOLEAN, cancelled: BOOLEAN, result: Outcomes \cup {None}] :
       /\ w.row \in Ids <=> w.pc \in Claiming
       /\ w.pc = "done" => w.result \in Outcomes}

Saves == [pc: {"idle", "pause"} \cup Busy, target: Policies \cup {None},
          recovering: BOOLEAN]

GoodIngests ==
    {i \in [pc: {"idle", "read", "snapshot"}, revision: 0..MaxRevision,
            snapshot: PolicyStates \cup {None}] :
       i.pc = "snapshot" => i.snapshot \in PolicyStates}

Settings == [pending: BOOLEAN, state: PolicyStates]
Controls == [paused: BOOLEAN, lock: {"free", "reconcile", "policy"}]

TypeInv ==
    /\ row \in [Ids -> GoodRows] /\ requests \in [Ids -> Nat]
    /\ revoked \in [Ids -> BOOLEAN]
    /\ hold \in {"none", "uncertain", "active", "elapsed"} /\ gate \in BOOLEAN
    /\ file \in PolicyStates /\ applied \in PolicyStates
    /\ settings \in Settings /\ control \in Controls
    /\ worker \in GoodWorkers /\ save \in Saves /\ ingest \in GoodIngests
    /\ up \in BOOLEAN /\ faults \in 0..MaxFaults

\* Whose turn it is: a paused runtime whose pause has returned has no worker.
PauseInv ==
    /\ control.lock = "policy" <=> save.pc = "join"
    /\ save.pc \in Busy => control.paused
    /\ control.lock = "reconcile" => ~control.paused
    /\ control.paused /\ save.pc # "join" => worker.pc = "none"
    /\ ~up => /\ control.lock = "free" /\ worker.pc = "none"
              /\ save.pc = "idle" /\ ingest.pc = "idle"

\* A copy of the policy is the database's, or an older one.
Behind(s) == /\ s.revision <= applied.revision
             /\ s.revision = applied.revision => s = applied

Narrowed(old, new) == IF new.content < old.content THEN 1 ELSE 0

\* The file is at most one commit ahead of the database, and then everything
\* waits for the projection.
AheadInv ==
    applied # file =>
      /\ file.revision = applied.revision + 1
      /\ file.generation = applied.generation + Narrowed(applied.policy, file.policy)
      /\ settings.pending
      /\ up => control.paused /\ save.pc # "join"

SaveInv ==
    /\ save.pc \in Before /\ ~save.recovering => applied = file /\ save.target \in Policies
    /\ \/ save.pc \in Before /\ ~save.recovering
       \/ save.recovering /\ save.target # None
       => file.revision < MaxRevision
    /\ save.pc = "commit" => ~save.recovering
    /\ save.pc \in {"replace", "resume"} => applied = file
    /\ save.pc \in {"commit", "apply", "replace"} => settings.pending

PolicyInv ==
    /\ file.generation <= file.revision
    /\ Behind(settings.state)
    /\ ingest.pc = "snapshot" => Behind(ingest.snapshot)
    /\ ~up => settings.pending
    /\ AheadInv /\ SaveInv

\* The rows of this class are cancelled by the projection of the file.
Withdrawn(class) ==
    \/ class # "test" /\ class \notin file.policy.allowed
    \/ class = "ended" /\ applied.generation < file.generation
    \/ class = "started" /\ applied.policy.task_input /\ ~file.policy.task_input

RevokedInv ==
    \A n \in Ids : revoked[n] =>
        /\ Live(n)
        /\ row[n].status \in Open => applied # file /\ Withdrawn(row[n].class)

Inv == TypeInv /\ PauseInv /\ PolicyInv /\ RevokedInv /\ WorkerOwnsClaim

\* TypeInv is at least the type invariant of the module.
LEMMA TypeInvIsTypeOK == TypeInv => DesktopTypeOK
BY DEF TypeInv, DesktopTypeOK, GoodRows, GoodWorkers, Saves, GoodIngests, Settings,
       Controls, Busy, Claiming

-----------------------------------------------------------------------------
(* Steps that touch neither the policy nor a lock.                         *)

RowsKept ==
    \A n \in Ids : \/ row'[n] = row[n]
                   \/ /\ In(n, Open)
                      /\ row'[n] # None
                      /\ row'[n].class = row[n].class

\* What a step of the worker, of the hold or of the rows amounts to.
KeptStep ==
    /\ row' \in [Ids -> GoodRows] /\ requests' \in [Ids -> Nat]
    /\ RowsKept
    /\ hold' \in {"none", "uncertain", "active", "elapsed"} /\ gate' \in BOOLEAN
    /\ worker' \in GoodWorkers /\ faults' \in 0..MaxFaults
    /\ worker.pc = "none" => worker'.pc = "none"
    /\ WorkerOwnsClaim'
    /\ UNCHANGED <<revoked, policy, control, save, ingest, up>>

\* Such a step keeps the invariant.
LEMMA KeptStepKeepsInv == ASSUME Inv, KeptStep PROVE Inv'
<1>1. TypeInv'
  BY DEF Inv, TypeInv, KeptStep, policy
<1>2. PauseInv'
  BY DEF Inv, PauseInv, KeptStep, policy
<1>3. PolicyInv'
  BY DEF Inv, PolicyInv, KeptStep, policy, AheadInv, SaveInv, Behind
<1>4. RevokedInv'
  <2> SUFFICES ASSUME NEW n \in Ids, revoked[n]
               PROVE /\ row'[n] # None
                     /\ row'[n].status \in Open => applied # file /\ Withdrawn(row'[n].class)
    BY DEF RevokedInv, KeptStep, policy, Live, Withdrawn
  <2>1. /\ row[n] # None
        /\ row[n].status \in Open => applied # file /\ Withdrawn(row[n].class)
    BY DEF Inv, RevokedInv, Live
  <2>2. \/ row'[n] = row[n]
        \/ /\ row[n].status \in Open
           /\ row'[n] # None
           /\ row'[n].class = row[n].class
    BY DEF KeptStep, RowsKept, In
  <2> QED BY <2>1, <2>2
<1> QED BY <1>1, <1>2, <1>3, <1>4 DEF Inv, KeptStep

\* The fields of a worker.
LEMMA WorkerFields ==
    ASSUME worker \in GoodWorkers
    PROVE /\ worker.pc \in {"none", "start", "loop"} \cup Claiming
          /\ worker.row \in Ids \cup {None}
          /\ worker.row \in Ids <=> worker.pc \in Claiming
          /\ worker.permit \in BOOLEAN /\ worker.cancelled \in BOOLEAN
          /\ worker.result \in Outcomes \cup {None}
          /\ worker.pc = "done" => worker.result \in Outcomes
BY DEF GoodWorkers

\* A worker that only loses its permit, or is told to stop, is as good as it was.
LEMMA WorkerFlags ==
    ASSUME worker \in GoodWorkers
    PROVE /\ \A b \in BOOLEAN :
               LET w == [worker EXCEPT !.cancelled = b]
               IN  w \in GoodWorkers /\ w.pc = worker.pc /\ w.row = worker.row
          /\ LET w == [worker EXCEPT !.permit = FALSE]
             IN  w \in GoodWorkers /\ w.pc = worker.pc /\ w.row = worker.row
BY DEF GoodWorkers

\* A worker with a claim goes on to another stage of it, or concludes.
LEMMA WorkerStages ==
    ASSUME worker \in GoodWorkers, worker.pc \in Claiming
    PROVE /\ \A pc \in {"deliver", "inflight"} :
               LET w == [worker EXCEPT !.pc = pc]
               IN  w \in GoodWorkers /\ w.row = worker.row
          /\ LET w == [worker EXCEPT !.pc = "permitted", !.permit = TRUE]
             IN  w \in GoodWorkers /\ w.row = worker.row
          /\ \A o \in Outcomes : Concluded(o) \in GoodWorkers /\ Concluded(o).row = worker.row
BY DEF GoodWorkers, Claiming, Concluded

\* A worker that ends, or goes back to its loop.
LEMMA WorkerIdles ==
    ASSUME worker \in GoodWorkers
    PROVE /\ NoWorker \in GoodWorkers /\ NoWorker.pc = "none" /\ NoWorker.row = None
          /\ LET w == [worker EXCEPT !.pc = "loop", !.row = None, !.result = None]
             IN  w \in GoodWorkers /\ w.row = None
          /\ LET w == [worker EXCEPT !.pc = "loop", !.row = None]
             IN  w \in GoodWorkers /\ w.row = None
          /\ [NoWorker EXCEPT !.pc = "start"] \in GoodWorkers
          /\ [NoWorker EXCEPT !.pc = "start"].row = None
BY DesktopAssumption DEF GoodWorkers, Claiming, NoWorker

\* A step that leaves the rows, and the claim with the worker or nobody.
LEMMA QuietStep ==
    ASSUME Inv,
           worker' \in GoodWorkers, worker'.row \in {worker.row, None},
           worker.pc = "none" => worker'.pc = "none",
           requests' \in [Ids -> Nat], gate' \in BOOLEAN,
           hold' \in {"none", "uncertain", "active", "elapsed"},
           faults' \in 0..MaxFaults,
           UNCHANGED <<row, revoked, policy, control, save, ingest, up>>
    PROVE Inv'
<1>1. RowsKept
  BY DEF RowsKept
<1>2. WorkerOwnsClaim'
  BY DEF Inv, WorkerOwnsClaim, In, Live
<1> QED BY <1>1, <1>2, KeptStepKeepsInv DEF KeptStep, Inv, TypeInv

\* The hold: the document, the gate and the permits.
LEMMA HoldStepInv ==
    ASSUME Inv, Hold \/ ResumeHold \/ ClockMoves
    PROVE Inv'
<1>1. worker \in GoodWorkers /\ TypeInv
  BY DEF Inv, TypeInv
<1>2. worker' = worker \/ worker' = [worker EXCEPT !.permit = FALSE]
  BY DEF Hold, ResumeHold, ClockMoves, SyncGate
<1>3. /\ worker' \in GoodWorkers /\ worker'.row \in {worker.row, None}
      /\ worker.pc = "none" => worker'.pc = "none"
  BY <1>1, <1>2, WorkerFlags
<1>4. /\ UNCHANGED <<row, revoked, policy, control, save, ingest, up, requests, faults>>
      /\ gate' \in BOOLEAN
      /\ hold' \in {"none", "uncertain", "active", "elapsed"}
  BY <1>1 DEF Hold, ResumeHold, ClockMoves, SyncGate, Others, policy, TypeInv
<1> QED BY <1>1, <1>3, <1>4, QuietStep DEF TypeInv

\* The steps of the worker that leave the rows.
LEMMA WorkerQuietInv ==
    ASSUME Inv,
           Exit \/ CheckPolicy \/ AcquirePermit \/ StartHttp \/ Respond \/ CompletionFails
    PROVE Inv'
<1>1. worker \in GoodWorkers /\ TypeInv
  BY DEF Inv, TypeInv
<1>2. CASE Exit
  <2>1. worker' = NoWorker
    BY <1>2 DEF Exit
  <2>2. UNCHANGED <<row, revoked, policy, control, save, ingest, up, requests, faults, gate, hold>>
    BY <1>2 DEF Exit, WorkerOnly, Others, policy
  <2> QED BY <1>1, <2>1, <2>2, WorkerIdles, QuietStep DEF TypeInv
<1>3. CASE CheckPolicy \/ AcquirePermit \/ Respond
  <2>1. worker.pc \in Claiming
    BY <1>3 DEF CheckPolicy, AcquirePermit, Respond, Claiming
  <2>2. \/ \E o \in Outcomes : worker' = Concluded(o)
        \/ worker' = [worker EXCEPT !.pc = "deliver"]
        \/ worker' = [worker EXCEPT !.pc = "permitted", !.permit = TRUE]
    BY <1>3 DEF CheckPolicy, AcquirePermit, Respond, Outcomes
  <2>3. worker' \in GoodWorkers /\ worker'.row = worker.row
    BY <1>1, <2>1, <2>2, WorkerStages
  <2>4. /\ UNCHANGED <<row, revoked, policy, control, save, ingest, up, requests, faults, hold>>
        /\ gate' \in BOOLEAN
    BY <1>1, <1>3 DEF CheckPolicy, AcquirePermit, Respond, WorkerOnly, Others, policy, TypeInv
  <2>5. worker.pc # "none"
    BY <2>1 DEF Claiming
  <2> QED BY <1>1, <2>3, <2>4, <2>5, QuietStep DEF TypeInv
<1>4. CASE StartHttp
  <2>1. worker.pc \in Claiming /\ worker.pc # "none"
    BY <1>4 DEF StartHttp, Claiming
  <2>2. \/ \E o \in Outcomes : worker' = Concluded(o)
        \/ worker' = [worker EXCEPT !.pc = "inflight"]
    BY <1>4 DEF StartHttp, Start, Outcomes
  <2>3. worker' \in GoodWorkers /\ worker'.row = worker.row
    BY <1>1, <2>1, <2>2, WorkerStages
  <2>4. requests' \in [Ids -> Nat]
    BY <1>1, <1>4 DEF StartHttp, TypeInv
  <2>5. /\ UNCHANGED <<row, revoked, policy, control, save, ingest, up, faults, hold>>
        /\ gate' \in BOOLEAN
    BY <1>1, <1>4 DEF StartHttp, Others, policy, TypeInv
  <2> QED BY <1>1, <2>1, <2>3, <2>4, <2>5, QuietStep DEF TypeInv
<1>5. CASE CompletionFails
  <2>1. worker.pc # "none" /\ worker' = [worker EXCEPT !.pc = "loop", !.row = None, !.result = None]
    BY <1>5 DEF CompletionFails
  <2>2. faults' \in 0..MaxFaults
    BY <1>1, <1>5, DesktopAssumption DEF CompletionFails, Fault, TypeInv
  <2>3. UNCHANGED <<row, revoked, policy, control, save, ingest, up, requests, gate, hold>>
    BY <1>5 DEF CompletionFails, policy
  <2> QED BY <1>1, <2>1, <2>2, <2>3, WorkerIdles, QuietStep DEF TypeInv
<1> QED BY <1>2, <1>3, <1>4, <1>5

-----------------------------------------------------------------------------
(* Steps of the rows.                                                      *)

\* The fields of a row, and what a change of its status leaves.
LEMMA RowStatus ==
    ASSUME NEW r \in GoodRows, r # None,
           NEW s \in Waiting \cup Terminal \cup {"sending"}, s # "sending"
    PROVE LET q == [r EXCEPT !.status = s]
          IN  q \in GoodRows /\ q # None /\ q.class = r.class /\ q.status = s
BY NoneAssumption DEF GoodRows, Rows

\* The rows are kept when one open row changes its status.
LEMMA SettleKeeps ==
    ASSUME row \in [Ids -> GoodRows], NEW n \in Ids, In(n, Open),
           NEW s \in Waiting \cup Terminal, Settle(n, s)
    PROVE row' \in [Ids -> GoodRows] /\ RowsKept /\ \A m \in Ids \ {n} : row'[m] = row[m]
<1> DEFINE q == [row[n] EXCEPT !.status = s]
<1>1. row[n] \in GoodRows /\ row[n] # None
  BY DEF In, Live
<1>2. s # "sending"
  BY DEF Waiting, Terminal
<1>3. q \in GoodRows /\ q # None /\ q.class = row[n].class
  BY <1>1, <1>2, RowStatus
<1>4. row' = [row EXCEPT ![n] = q]
  BY DEF Settle
<1> HIDE DEF q
<1> QED BY <1>3, <1>4 DEF RowsKept

\* Every step of a row that is waiting.
LEMMA WaitingStepInv ==
    ASSUME Inv, NEW n \in Ids, ExpireDue(n) \/ Unblock(n) \/ Withdraw(n)
    PROVE Inv'
<1>1. TypeInv /\ row \in [Ids -> GoodRows]
  BY DEF Inv, TypeInv
<1>2. In(n, Waiting)
  BY DEF ExpireDue, Unblock, Withdraw, In, Waiting
<1>3. PICK s \in Waiting \cup Terminal : Settle(n, s)
  BY DEF ExpireDue, Unblock, Withdraw, Waiting, Terminal
<1>4. In(n, Open)
  BY <1>2 DEF In, Open
<1>5. row' \in [Ids -> GoodRows] /\ RowsKept /\ \A m \in Ids \ {n} : row'[m] = row[m]
  BY <1>1, <1>3, <1>4, SettleKeeps
<1>6. UNCHANGED <<revoked, policy, control, save, ingest, up, requests, gate, hold, worker, faults>>
  BY DEF ExpireDue, Unblock, Withdraw, WorkerOnly, RowsOnly, Others, policy
<1>7. worker.row # n
  BY <1>2, DesktopAssumption DEF Inv, WorkerOwnsClaim, In, Waiting
<1>8. WorkerOwnsClaim'
  <2>1. worker.row \in Ids \cup {None}
    BY <1>1, WorkerFields DEF TypeInv
  <2> QED BY <1>5, <1>6, <1>7, <2>1 DEF Inv, WorkerOwnsClaim, In, Live
<1> QED BY <1>1, <1>5, <1>6, <1>8, KeptStepKeepsInv DEF KeptStep, TypeInv

\* A claim: the row is the worker's.
LEMMA ClaimInv == ASSUME Inv, NEW n \in Ids, Claim(n) PROVE Inv'
<1>1. TypeInv /\ row \in [Ids -> GoodRows] /\ worker \in GoodWorkers
  BY DEF Inv, TypeInv
<1> DEFINE q == [row[n] EXCEPT !.status = "sending", !.attempts = @ + 1]
<1>2. row[n] \in GoodRows /\ row[n] # None /\ row[n].attempts < MaxAttempts
  BY <1>1 DEF Claim, In, Live
<1>3. q \in GoodRows /\ q # None /\ q.class = row[n].class /\ q.status = "sending"
  <2>1. row[n].attempts + 1 \in 0..MaxAttempts /\ row[n].attempts + 1 >= 1
    BY <1>2, DesktopAssumption DEF GoodRows, Rows
  <2>2. q = [row[n] EXCEPT !.status = "sending", !.attempts = row[n].attempts + 1]
    OBVIOUS
  <2> DEFINE a == row[n].attempts + 1
  <2> HIDE DEF a, q
  <2>3. a \in 0..MaxAttempts /\ a >= 1 /\ q = [row[n] EXCEPT !.status = "sending", !.attempts = a]
    BY <2>1, <2>2 DEF a
  <2>4. row[n] \in Rows
    BY <1>2 DEF GoodRows
  <2>5. q \in Rows /\ q.class = row[n].class /\ q.status = "sending" /\ q.attempts = a
    BY <2>3, <2>4 DEF Rows
  <2> QED BY <2>3, <2>5, NoneAssumption DEF GoodRows
<1>4. row' = [row EXCEPT ![n] = q]
  BY DEF Claim
<1>5. In(n, Open)
  BY DEF Claim, In, Open, Waiting
<1> HIDE DEF q
<1>6. row' \in [Ids -> GoodRows] /\ RowsKept /\ row'[n] = q
  BY <1>1, <1>3, <1>4, <1>5 DEF RowsKept
<1>7. worker' \in GoodWorkers /\ worker'.row = n /\ worker.pc # "none"
  BY <1>1 DEF Claim, GoodWorkers, Claiming
<1>8. WorkerOwnsClaim'
  BY <1>3, <1>6, <1>7 DEF WorkerOwnsClaim, In, Live
<1>9. UNCHANGED <<revoked, policy, control, save, ingest, up, requests, gate, hold, faults>>
  BY DEF Claim, WorkerOnly, Others, policy
<1> QED BY <1>1, <1>6, <1>7, <1>8, <1>9, KeptStepKeepsInv DEF KeptStep, TypeInv

\* The claims an earlier worker left behind: this one has none of its own yet.
LEMMA RecoverInv == ASSUME Inv, RecoverStaleClaims PROVE Inv'
<1>1. TypeInv /\ row \in [Ids -> GoodRows] /\ worker \in GoodWorkers
  BY DEF Inv, TypeInv
<1>2. PICK stale \in SUBSET {n \in Ids : In(n, {"sending"})}, late \in SUBSET Ids :
         row' = [n \in Ids |->
                   IF n \notin stale THEN row[n]
                   ELSE [row[n] EXCEPT !.status = IF n \in late THEN "expired"
                                                  ELSE "retry_wait"]]
  BY DEF RecoverStaleClaims
<1>3. ASSUME NEW n \in Ids
      PROVE /\ row'[n] \in GoodRows
            /\ \/ row'[n] = row[n]
               \/ In(n, Open) /\ row'[n] # None /\ row'[n].class = row[n].class
  <2>1. CASE n \notin stale
    BY <1>1, <1>2, <2>1
  <2>2. CASE n \in stale
    <3> DEFINE s == IF n \in late THEN "expired" ELSE "retry_wait"
    <3>1. row'[n] = [row[n] EXCEPT !.status = s]
      BY <1>2, <2>2
    <3>2. row[n] \in GoodRows /\ row[n] # None /\ In(n, Open)
      BY <1>1, <2>2 DEF In, Live, Open
    <3>3. s \in Waiting \cup Terminal \cup {"sending"} /\ s # "sending"
      BY DEF Waiting, Terminal
    <3> QED BY <3>1, <3>2, <3>3, RowStatus
  <2> QED BY <2>1, <2>2
<1>4. row' \in [Ids -> GoodRows] /\ RowsKept
  BY <1>2, <1>3 DEF RowsKept
<1>5. worker' \in GoodWorkers /\ worker'.row = None /\ worker.pc # "none"
  BY <1>1, DesktopAssumption DEF RecoverStaleClaims, GoodWorkers, Claiming
<1>6. UNCHANGED <<revoked, policy, control, save, ingest, up, requests, gate, hold, faults>>
  BY DEF RecoverStaleClaims, WorkerOnly, Others, policy
<1>7. WorkerOwnsClaim'
  BY <1>5 DEF WorkerOwnsClaim
<1> QED BY <1>1, <1>4, <1>5, <1>6, <1>7, KeptStepKeepsInv DEF KeptStep, TypeInv

\* A row whose payload cannot be read.
LEMMA UndecodableInv == ASSUME Inv, Undecodable PROVE Inv'
<1>1. TypeInv /\ row \in [Ids -> GoodRows] /\ worker \in GoodWorkers
  BY DEF Inv, TypeInv
<1>2. worker.row \in Ids /\ worker.pc # "none"
  BY <1>1, WorkerFields DEF Undecodable, Claiming
<1>3. In(worker.row, Open)
  BY <1>2, DesktopAssumption DEF Inv, WorkerOwnsClaim, In, Open
<1>4. PICK s \in Waiting \cup Terminal : Settle(worker.row, s)
  BY DEF Undecodable, Waiting, Terminal
<1>5. row' \in [Ids -> GoodRows] /\ RowsKept
  BY <1>1, <1>2, <1>3, <1>4, SettleKeeps
<1>6. worker' \in GoodWorkers /\ worker'.row = None
  BY <1>1, WorkerIdles DEF Undecodable
<1>7. UNCHANGED <<revoked, policy, control, save, ingest, up, requests, gate, hold, faults>>
  BY DEF Undecodable, WorkerOnly, Others, policy
<1>8. WorkerOwnsClaim'
  BY <1>6 DEF WorkerOwnsClaim
<1> QED BY <1>1, <1>2, <1>5, <1>6, <1>7, <1>8, KeptStepKeepsInv DEF KeptStep, TypeInv

\* What complete_delivery makes of a claimed row.
LEMMA CompletedRow ==
    ASSUME NEW r \in GoodRows, r # None, r.status = "sending",
           worker.result \in Outcomes, NEW late \in BOOLEAN
    PROVE /\ Completed(r, late) \in GoodRows /\ Completed(r, late) # None
          /\ Completed(r, late).class = r.class
<1>1. Result \in Outcomes
  BY DEF Result, Outcomes
<1>2. ASSUME NEW s \in Waiting \cup Terminal
      PROVE LET q == [r EXCEPT !.status = s]
            IN  q \in GoodRows /\ q # None /\ q.class = r.class
  BY <1>2, RowStatus DEF Waiting, Terminal
<1>3. ASSUME NEW s \in {"expired", "pending"}
      PROVE LET q == [[r EXCEPT !.status = s] EXCEPT !.attempts = @ - 1]
            IN  q \in GoodRows /\ q # None /\ q.class = r.class
  <2>1. r.attempts - 1 \in 0..MaxAttempts
    BY DesktopAssumption DEF GoodRows, Rows
  <2> DEFINE a == r.attempts - 1
             q == [[r EXCEPT !.status = s] EXCEPT !.attempts = @ - 1]
  <2>2. q = [r EXCEPT !.status = s, !.attempts = a]
    BY DEF GoodRows, Rows
  <2>3. s \in Waiting \cup Terminal \cup {"sending"} /\ s # "sending" /\ a \in 0..MaxAttempts
    BY <2>1 DEF Waiting, Terminal
  <2> HIDE DEF a, q
  <2>4. q \in GoodRows /\ q # None /\ q.class = r.class
    <3>1. r \in Rows
      BY DEF GoodRows
    <3>2. q \in Rows /\ q.class = r.class /\ q.status # "sending"
      BY <2>2, <2>3, <3>1 DEF Rows
    <3> QED BY <3>2, NoneAssumption DEF GoodRows
  <2> QED BY <2>4 DEF q
<1>4. CASE Result = "held"
  <2>1. Completed(r, late) = [[r EXCEPT !.status = IF late THEN "expired" ELSE "pending"]
                                EXCEPT !.attempts = @ - 1]
    BY <1>4 DEF Completed
  <2> QED BY <1>3, <2>1
<1>5. CASE Result # "held"
  <2>1. \E s \in Waiting \cup Terminal : Completed(r, late) = [r EXCEPT !.status = s]
    BY <1>1, <1>5 DEF Completed, Outcomes, Waiting, Terminal
  <2> QED BY <1>2, <2>1
<1> QED BY <1>4, <1>5

\* A completion.
LEMMA CompleteInv == ASSUME Inv, CompleteDelivery PROVE Inv'
<1>1. TypeInv /\ row \in [Ids -> GoodRows] /\ worker \in GoodWorkers
  BY DEF Inv, TypeInv
<1>2. worker.row \in Ids /\ worker.pc # "none" /\ worker.result \in Outcomes
  BY <1>1, WorkerFields DEF CompleteDelivery, Claiming
<1>3. In(worker.row, {"sending"})
  BY <1>2, DesktopAssumption DEF Inv, WorkerOwnsClaim
<1> DEFINE n == worker.row
<1>4. row[n] \in GoodRows /\ row[n] # None /\ row[n].status = "sending" /\ In(n, Open)
  BY <1>1, <1>2, <1>3 DEF In, Live, Open
<1>5. PICK late \in BOOLEAN : row' = [row EXCEPT ![n] = Completed(row[n], late)]
  BY <1>3 DEF CompleteDelivery
<1> DEFINE q == Completed(row[n], late)
<1>6. q \in GoodRows /\ q # None /\ q.class = row[n].class
  BY <1>2, <1>4, CompletedRow
<1> HIDE DEF q
<1>7. row' \in [Ids -> GoodRows] /\ RowsKept
  BY <1>1, <1>2, <1>4, <1>5, <1>6 DEF RowsKept, q
<1>8. worker' \in GoodWorkers /\ worker'.row = None
  BY <1>1, WorkerIdles DEF CompleteDelivery
<1>9. UNCHANGED <<revoked, policy, control, save, ingest, up, requests, gate, hold, faults>>
  BY DEF CompleteDelivery, WorkerOnly, Others, policy
<1>10. WorkerOwnsClaim'
  BY <1>8 DEF WorkerOwnsClaim
<1> QED BY <1>1, <1>2, <1>7, <1>8, <1>9, <1>10, KeptStepKeepsInv DEF KeptStep, TypeInv

\* A retained row goes, with its history: it is nobody's claim.
LEMMA PruneInv == ASSUME Inv, NEW n \in Ids, PruneRetained(n) PROVE Inv'
<1>1. TypeInv /\ worker.row \in Ids \cup {None}
  BY WorkerFields DEF Inv, TypeInv
<1>2. UNCHANGED <<policy, control, save, ingest, up, gate, hold, worker, faults>>
  BY DEF PruneRetained, RowsOnly, Others, policy
<1>3. /\ row' = [row EXCEPT ![n] = None] /\ requests' = [requests EXCEPT ![n] = 0]
      /\ revoked' = [revoked EXCEPT ![n] = FALSE]
  BY DEF PruneRetained
<1>4. TypeInv'
  BY <1>1, <1>2, <1>3 DEF TypeInv, policy, GoodRows
<1>5. PauseInv' /\ PolicyInv'
  BY <1>2 DEF Inv, PauseInv, PolicyInv, policy, AheadInv, SaveInv, Behind
<1>6. RevokedInv'
  BY <1>1, <1>2, <1>3 DEF Inv, RevokedInv, Live, Withdrawn, policy, TypeInv
<1>7. worker.row # n
  BY DesktopAssumption DEF PruneRetained, Inv, WorkerOwnsClaim, In, Terminal
<1>8. WorkerOwnsClaim'
  BY <1>1, <1>2, <1>3, <1>7 DEF Inv, WorkerOwnsClaim, In, Live, TypeInv
<1> QED BY <1>4, <1>5, <1>6, <1>8 DEF Inv

\* A row that is new is good, and pending.
LEMMA NewRowIsGood ==
    ASSUME NEW class \in Classes, NEW generation \in 0..MaxRevision
    PROVE /\ NewRow(class, generation) \in GoodRows
          /\ NewRow(class, generation) # None
          /\ NewRow(class, generation).class = class
          /\ NewRow(class, generation).status = "pending"
<1>1. /\ NewRow(class, generation) \in Rows /\ NewRow(class, generation).class = class
      /\ NewRow(class, generation).status = "pending"
  BY DesktopAssumption DEF NewRow, Rows, Waiting
<1> QED BY <1>1, NoneAssumption DEF GoodRows

\* A test message.
LEMMA EnqueueInv == ASSUME Inv, NEW n \in Ids, EnqueueControl(n) PROVE Inv'
<1> DEFINE q == NewRow("test", 0)
<1>1. TypeInv /\ worker.row \in Ids \cup {None}
  BY WorkerFields DEF Inv, TypeInv
<1>2. UNCHANGED <<policy, control, save, ingest, up, gate, hold, worker, faults, requests, revoked>>
  BY DEF EnqueueControl, RowsOnly, Others, policy
<1>3. row' = [row EXCEPT ![n] = q] /\ row[n] = None
  BY DEF EnqueueControl, Live
<1>4. q \in GoodRows /\ q # None
  BY NewRowIsGood, DesktopAssumption DEF Classes
<1> HIDE DEF q
<1>5. TypeInv'
  BY <1>1, <1>2, <1>3, <1>4 DEF TypeInv, policy
<1>6. PauseInv' /\ PolicyInv'
  BY <1>2 DEF Inv, PauseInv, PolicyInv, policy, AheadInv, SaveInv, Behind
<1>7. ~revoked[n]
  BY <1>3 DEF Inv, RevokedInv, Live
<1>8. RevokedInv'
  BY <1>1, <1>2, <1>3, <1>7 DEF Inv, RevokedInv, Live, Withdrawn, policy, TypeInv
<1>9. WorkerOwnsClaim'
  BY <1>1, <1>2, <1>3 DEF Inv, WorkerOwnsClaim, In, Live, TypeInv
<1> QED BY <1>5, <1>6, <1>8, <1>9 DEF Inv

\* The policies of a state.
LEMMA PolicyFields ==
    ASSUME NEW s \in PolicyStates
    PROVE /\ s.revision \in Nat /\ s.generation \in Nat
          /\ s.revision \in 0..MaxRevision /\ s.generation \in 0..MaxRevision
          /\ s.policy \in Policies
          /\ s.policy.allowed \subseteq Classes \ {"test"}
          /\ s.policy.content \in Nat /\ s.policy.task_input \in BOOLEAN
<1>1. s.policy \in Policies /\ s.revision \in 0..MaxRevision /\ s.generation \in 0..MaxRevision
  BY DEF PolicyStates
<1>2. s.policy \in [allowed: SUBSET (Classes \ {"test"}), content: Nat, task_input: BOOLEAN]
  BY <1>1, DesktopAssumption
<1> QED BY <1>1, <1>2, DesktopAssumption

\* The heart of it: what the file withdraws from a row made under the applied
\* policy, the projection of the file cancels.
LEMMA RevokedIsWithdrawn ==
    ASSUME TypeInv, AheadInv,
           NEW class \in applied.policy.allowed,
           RevokedBy(class, applied.policy, file.policy)
    PROVE applied # file /\ Withdrawn(class)
<1>1. applied \in PolicyStates /\ file \in PolicyStates
  BY DEF TypeInv
<1>2. /\ applied.policy.content \in Nat /\ file.policy.content \in Nat
      /\ applied.generation \in Nat /\ file.generation \in Nat
  BY <1>1, PolicyFields
<1>3. applied # file
  BY <1>2 DEF RevokedBy
<1>4. file.policy.content < applied.policy.content => applied.generation < file.generation
  BY <1>2, <1>3 DEF AheadInv, Narrowed
<1> QED BY <1>3, <1>4 DEF RevokedBy, Withdrawn

\* The ingestor's transaction.
LEMMA InsertInv == ASSUME Inv, NEW n \in Ids, Insert(n) PROVE Inv'
<1>1. TypeInv /\ worker.row \in Ids \cup {None}
  BY WorkerFields DEF Inv, TypeInv
<1>2. ingest.snapshot = applied
  BY DEF Insert, Inv, PolicyInv, Behind
<1>3. PICK class \in applied.policy.allowed :
        /\ row' = [row EXCEPT ![n] = NewRow(class, applied.generation)]
        /\ revoked' = [revoked EXCEPT ![n] = RevokedBy(class, applied.policy, file.policy)]
  BY <1>2 DEF Insert
<1>4. applied \in PolicyStates /\ class \in Classes /\ applied.generation \in 0..MaxRevision
  BY <1>1, PolicyFields DEF TypeInv
<1> DEFINE q == NewRow(class, applied.generation)
<1>5. q \in GoodRows /\ q # None /\ q.class = class /\ q.status = "pending"
  BY <1>4, NewRowIsGood
<1>6. /\ UNCHANGED <<policy, control, save, up, gate, hold, worker, faults, requests>>
      /\ ingest' = NoIngest /\ row[n] = None /\ ingest.pc = "snapshot"
  BY DEF Insert, IngestOnly, policy, Live
<1>7. RevokedBy(class, applied.policy, file.policy) \in BOOLEAN
  BY DEF RevokedBy
<1>8. NoIngest \in GoodIngests /\ NoIngest.pc = "idle"
  BY DesktopAssumption DEF NoIngest, GoodIngests
<1> DEFINE w == RevokedBy(class, applied.policy, file.policy)
<1>9. w => applied # file /\ Withdrawn(class)
  BY <1>1, RevokedIsWithdrawn DEF Inv, PolicyInv
<1>10. row' = [row EXCEPT ![n] = q] /\ revoked' = [revoked EXCEPT ![n] = w] /\ w \in BOOLEAN
  BY <1>3, <1>7
<1> HIDE DEF q, w
<1>11. TypeInv'
  BY <1>1, <1>5, <1>6, <1>8, <1>10 DEF TypeInv, policy
<1>12. PauseInv' /\ PolicyInv'
  BY <1>6, <1>8 DEF Inv, PauseInv, PolicyInv, policy, AheadInv, SaveInv, Behind
<1>13. RevokedInv'
  <2> SUFFICES ASSUME NEW m \in Ids, revoked'[m]
               PROVE /\ row'[m] # None
                     /\ row'[m].status \in Open => applied # file /\ Withdrawn(row'[m].class)
    BY <1>6 DEF RevokedInv, policy, Live, Withdrawn
  <2>1. CASE m = n
    BY <1>1, <1>5, <1>9, <1>10, <2>1 DEF TypeInv
  <2>2. CASE m # n
    <3>1. row'[m] = row[m] /\ revoked'[m] = revoked[m]
      BY <1>1, <1>10, <2>2 DEF TypeInv
    <3> QED BY <3>1 DEF Inv, RevokedInv, Live
  <2> QED BY <2>1, <2>2
<1>14. WorkerOwnsClaim'
  BY <1>1, <1>6, <1>10 DEF Inv, WorkerOwnsClaim, In, Live, TypeInv
<1> QED BY <1>11, <1>12, <1>13, <1>14 DEF Inv

-----------------------------------------------------------------------------
(* The ingestor before its transaction.                                    *)

\* A fault is counted within its bound.
LEMMA FaultType == ASSUME TypeInv, Fault \/ UNCHANGED faults PROVE faults' \in 0..MaxFaults
BY DesktopAssumption DEF TypeInv, Fault

\* A step of the ingestor: the settings may be found stale, the snapshot is of
\* the settings.
LEMMA IngestInv ==
    ASSUME Inv, ReadAuthority \/ CompareProjection \/ Snapshot \/ InsertNothing
    PROVE Inv'
<1>1. TypeInv
  BY DEF Inv
<1>2. UNCHANGED <<row, requests, revoked, hold, gate, file, applied, control, worker, save, up>>
  BY DEF ReadAuthority, CompareProjection, Snapshot, InsertNothing, IngestOnly
<1>3. settings' = settings \/ settings' = [settings EXCEPT !.pending = TRUE]
  BY DEF ReadAuthority, CompareProjection, Snapshot, InsertNothing
<1>4. /\ settings' \in Settings /\ settings'.state = settings.state
      /\ settings.pending => settings'.pending
  BY <1>1, <1>3 DEF TypeInv, Settings
<1>5. Fault \/ UNCHANGED faults
  BY DEF ReadAuthority, CompareProjection, Snapshot, InsertNothing
<1>6. up
  BY DEF ReadAuthority, CompareProjection, Snapshot, InsertNothing, Inv, PauseInv, TypeInv
<1>7. /\ ingest' \in GoodIngests
      /\ ingest'.pc = "snapshot" => ingest'.snapshot = settings.state
  <2>1. \/ ingest' = ingest /\ ingest.pc = "idle"
        \/ ingest' = NoIngest
        \/ ingest' = [ingest EXCEPT !.pc = "read", !.revision = file.revision]
        \/ ingest' = [NoIngest EXCEPT !.pc = "snapshot", !.snapshot = settings.state]
    BY DEF ReadAuthority, CompareProjection, Snapshot, InsertNothing
  <2>2. ingest \in GoodIngests /\ settings.state \in PolicyStates /\ file.revision \in 0..MaxRevision
    BY <1>1, PolicyFields DEF TypeInv, Settings
  <2>3. 0 \in 0..MaxRevision
    BY DesktopAssumption
  <2>4. CASE ingest' = ingest /\ ingest.pc = "idle"
    BY <2>2, <2>4
  <2>5. CASE ingest' = NoIngest
    BY <2>3, <2>5 DEF GoodIngests, NoIngest
  <2>6. CASE ingest' = [ingest EXCEPT !.pc = "read", !.revision = file.revision]
    BY <2>2, <2>6 DEF GoodIngests
  <2>7. CASE ingest' = [NoIngest EXCEPT !.pc = "snapshot", !.snapshot = settings.state]
    <3>1. ingest' = [pc |-> "snapshot", revision |-> 0, snapshot |-> settings.state]
      BY <2>7 DEF NoIngest
    <3> QED BY <2>2, <2>3, <3>1 DEF GoodIngests
  <2> QED BY <2>1, <2>4, <2>5, <2>6, <2>7
<1>8. TypeInv'
  BY <1>1, <1>2, <1>4, <1>5, <1>7, FaultType DEF TypeInv
<1>9. PauseInv'
  BY <1>2, <1>6 DEF Inv, PauseInv
<1>10. PolicyInv'
  <2>1. AheadInv' /\ SaveInv'
    BY <1>2, <1>4 DEF Inv, PolicyInv, AheadInv, SaveInv
  <2>2. Behind(settings.state)' /\ (ingest'.pc = "snapshot" => Behind(ingest.snapshot)')
    BY <1>2, <1>4, <1>7 DEF Inv, PolicyInv, Behind
  <2> QED BY <1>2, <1>6, <2>1, <2>2 DEF Inv, PolicyInv
<1>11. RevokedInv' /\ WorkerOwnsClaim'
  BY <1>2 DEF Inv, RevokedInv, Live, Withdrawn, WorkerOwnsClaim, In
<1> QED BY <1>8, <1>9, <1>10, <1>11 DEF Inv

-----------------------------------------------------------------------------
(* The worker's life.                                                      *)

\* Workers are started and told to stop; none of it touches a claim.
LEMMA ReconcileInv == ASSUME Inv, Reconcile \/ Reconciled PROVE Inv'
<1>1. TypeInv /\ worker \in GoodWorkers /\ control \in Controls
  BY DEF Inv, TypeInv
<1>2. UNCHANGED <<row, requests, revoked, hold, gate, file, applied, settings, save, ingest, up, faults>>
  BY DEF Reconcile, Reconciled, storage, policy
<1>3. worker' \in GoodWorkers /\ worker'.row = worker.row
  <2>1. \/ worker' = worker
        \/ worker' = [worker EXCEPT !.cancelled = worker.pc # "none"]
        \/ worker' = [NoWorker EXCEPT !.pc = "start"] /\ worker.pc = "none"
    BY DEF Reconcile, Reconciled, StopWorker, StartWorker
  <2>2. worker.pc = "none" => worker.row = None
    BY <1>1, WorkerFields DEF Claiming
  <2> QED BY <1>1, <2>1, <2>2, WorkerFlags, WorkerIdles
<1>4. control' \in Controls /\ control'.paused = control.paused
  BY <1>1 DEF Reconcile, Reconciled, Controls
<1>5. TypeInv'
  BY <1>1, <1>2, <1>3, <1>4 DEF TypeInv
<1>6. PauseInv'
  <2>1. CASE Reconcile
    <3>1. ~control.paused /\ control.lock = "free" /\ up /\ control'.lock # "policy"
      BY <1>1, <2>1 DEF Reconcile, Controls
    <3> QED BY <1>2, <1>4, <3>1 DEF Inv, PauseInv
  <2>2. CASE Reconciled
    BY <1>1, <1>2, <1>4, <2>2 DEF Inv, PauseInv, Reconciled, Controls
  <2> QED BY <2>1, <2>2
<1>7. PolicyInv'
  BY <1>2, <1>4 DEF Inv, PolicyInv, AheadInv, SaveInv, Behind
<1>8. RevokedInv' /\ WorkerOwnsClaim'
  BY <1>2, <1>3 DEF Inv, RevokedInv, Live, Withdrawn, WorkerOwnsClaim, In
<1> QED BY <1>5, <1>6, <1>7, <1>8 DEF Inv

-----------------------------------------------------------------------------
(* Saving and recovering the policy.                                       *)

\* What the rows' part of the invariant needs of a step that leaves the rows.
LEMMA RowsStay ==
    ASSUME Inv, UNCHANGED <<row, revoked, file, applied>>, worker'.row = worker.row
    PROVE RevokedInv' /\ WorkerOwnsClaim'
BY DEF Inv, RevokedInv, Live, Withdrawn, WorkerOwnsClaim, In

\* What a move of a save leaves.
LEMMA SaveMoves ==
    ASSUME save \in Saves, NEW pc \in {"idle", "pause"} \cup Busy, Goto(pc)
    PROVE /\ save' \in Saves /\ save'.pc = pc
          /\ save'.target = save.target /\ save'.recovering = save.recovering
BY DEF Saves, Goto

\* No operation.
LEMMA NoSaveIsGood ==
    NoSave \in Saves /\ NoSave.pc = "idle" /\ NoSave.target = None /\ ~NoSave.recovering
BY DEF NoSave, Saves

\* A save or a recovery begins.
LEMMA BeginInv ==
    ASSUME Inv, BeginRecover \/ \E p \in Policies : BeginSave(p)
    PROVE Inv'
<1>1. TypeInv /\ up /\ save.pc = "idle"
  BY DEF Inv, BeginRecover, BeginSave
<1>2. UNCHANGED <<row, requests, revoked, hold, gate, file, applied, settings, control, worker,
                  ingest, up, faults>>
  BY DEF BeginRecover, BeginSave, storage, policy, SaveOnly
<1>3. /\ save' \in Saves /\ save'.pc = "pause"
      /\ save'.recovering = settings.pending
      /\ save'.target # None \/ ~save'.recovering
            => save'.target \in Policies /\ file.revision < MaxRevision
  <2>1. settings.pending \in BOOLEAN
    BY <1>1 DEF TypeInv, Settings
  <2>2. CASE BeginRecover
    <3>1. settings.pending /\ save' = [pc |-> "pause", target |-> None, recovering |-> TRUE]
      BY <2>2 DEF BeginRecover
    <3> QED BY <3>1, <2>1 DEF Saves
  <2>3. CASE \E p \in Policies : BeginSave(p)
    <3>1. PICK p \in Policies : BeginSave(p)
      BY <2>3
    <3>2. /\ file.revision < MaxRevision
          /\ save' = [pc |-> "pause", target |-> p, recovering |-> settings.pending]
      BY <3>1 DEF BeginSave
    <3> QED BY <2>1, <3>2 DEF Saves
  <2> QED BY <2>2, <2>3
<1>4. TypeInv'
  BY <1>1, <1>2, <1>3 DEF TypeInv
<1>5. PauseInv'
  BY <1>1, <1>2, <1>3 DEF Inv, PauseInv, Busy
<1>6. PolicyInv'
  <2>1. AheadInv'
    BY <1>2, <1>3 DEF Inv, PolicyInv, AheadInv
  <2>2. ~settings.pending => applied = file
    BY DEF Inv, PolicyInv, AheadInv
  <2>3. SaveInv'
    BY <1>2, <1>3, <2>2 DEF SaveInv
  <2> QED BY <1>2, <2>1, <2>3 DEF Inv, PolicyInv, Behind
<1> QED BY <1>2, <1>4, <1>5, <1>6, RowsStay DEF Inv

\* The runtime is paused and its worker joined.
LEMMA PauseStepInv == ASSUME Inv, PauseForPolicy \/ Joined PROVE Inv'
<1>1. TypeInv /\ worker \in GoodWorkers /\ save \in Saves /\ control \in Controls
  BY DEF Inv, TypeInv
<1>2. UNCHANGED <<row, requests, revoked, hold, gate, file, applied, settings, ingest, up, faults>>
  BY DEF PauseForPolicy, Joined, storage, policy, SaveOnly
<1>3. worker' \in GoodWorkers /\ worker'.row = worker.row /\ worker'.pc = worker.pc
  <2>1. worker' = worker \/ worker' = [worker EXCEPT !.cancelled = worker.pc # "none"]
    BY DEF PauseForPolicy, Joined, StopWorker
  <2> QED BY <1>1, <2>1, WorkerFlags
<1>4. /\ save' \in Saves /\ save'.pc \in {"join", "begin"}
      /\ save'.target = save.target /\ save'.recovering = save.recovering
  <2>1. Goto("join") \/ Goto("begin")
    BY DEF PauseForPolicy, Joined
  <2> QED BY <1>1, <2>1, SaveMoves DEF Busy
<1>5. save.pc \in {"pause", "join"} /\ up
  BY DEF PauseForPolicy, Joined, Inv, PauseInv, TypeInv
<1>6. control' \in Controls /\ control'.paused
  <2>1. CASE PauseForPolicy
    <3>1. \/ control' = control /\ control.paused
          \/ control' = [paused |-> TRUE, lock |-> "policy"]
      BY <2>1 DEF PauseForPolicy
    <3>2. CASE control' = control /\ control.paused
      BY <1>1, <3>2
    <3>3. CASE control' = [paused |-> TRUE, lock |-> "policy"]
      BY <3>3 DEF Controls
    <3> QED BY <3>1, <3>2, <3>3
  <2>2. CASE Joined
    <3>1. control.paused /\ control' = [control EXCEPT !.lock = "free"]
      BY <2>2 DEF Joined, Inv, PauseInv, Busy
    <3> QED BY <1>1, <3>1 DEF Controls
  <2> QED BY <2>1, <2>2
<1>7. TypeInv'
  BY <1>1, <1>2, <1>3, <1>4, <1>6 DEF TypeInv
<1>8. /\ control'.lock = "policy" <=> save'.pc = "join"
      /\ control'.lock # "reconcile"
      /\ save'.pc # "join" => worker.pc = "none"
  <2>1. CASE PauseForPolicy /\ control.paused
    BY <1>1, <2>1, SaveMoves DEF PauseForPolicy, Inv, PauseInv, Controls, Busy
  <2>2. CASE PauseForPolicy /\ ~control.paused
    BY <1>1, <2>2, SaveMoves DEF PauseForPolicy, Controls, Busy
  <2>3. CASE Joined
    BY <1>1, <2>3, SaveMoves DEF Joined, Controls, Busy
  <2> QED BY <2>1, <2>2, <2>3
<1>9. PauseInv'
  BY <1>2, <1>3, <1>5, <1>6, <1>8 DEF PauseInv
<1>10. PolicyInv'
  <2>1. SaveInv'
    BY <1>2, <1>4, <1>5 DEF Inv, PolicyInv, SaveInv, Before
  <2>2. applied # file => save'.pc # "join"
    BY <1>1, <1>5, SaveMoves DEF Inv, PolicyInv, AheadInv, PauseForPolicy, Joined, Busy
  <2>3. AheadInv'
    BY <1>2, <1>6, <2>2 DEF Inv, PolicyInv, AheadInv
  <2> QED BY <1>2, <2>1, <2>3 DEF Inv, PolicyInv, Behind
<1> QED BY <1>2, <1>3, <1>7, <1>9, <1>10, RowsStay DEF Inv

\* The settings are marked before anything is changed.
LEMMA BeginApplyInv == ASSUME Inv, BeginApply PROVE Inv'
<1>1. TypeInv /\ save \in Saves /\ settings \in Settings
  BY DEF Inv, TypeInv
<1>2. UNCHANGED <<row, requests, revoked, hold, gate, file, applied, control, worker, ingest, up, faults>>
  BY DEF BeginApply, storage, SaveOnly
<1>3. settings' \in Settings /\ settings'.pending /\ settings'.state = settings.state
  BY <1>1 DEF BeginApply, Settings
<1>4. /\ save.pc = "begin" /\ save' \in Saves
      /\ save'.target = save.target /\ save'.recovering = save.recovering
      /\ save'.pc = IF save.recovering THEN "apply" ELSE "commit"
  BY <1>1, SaveMoves DEF BeginApply, Busy
<1>5. TypeInv'
  BY <1>1, <1>2, <1>3, <1>4 DEF TypeInv
<1>6. PauseInv'
  BY <1>2, <1>4 DEF Inv, PauseInv, Busy
<1>7. PolicyInv'
  <2>1. AheadInv'
    BY <1>2, <1>3, <1>4 DEF Inv, PolicyInv, AheadInv
  <2>2. SaveInv'
    BY <1>2, <1>3, <1>4 DEF Inv, PolicyInv, SaveInv, Before
  <2> QED BY <1>2, <1>3, <2>1, <2>2 DEF Inv, PolicyInv, Behind
<1> QED BY <1>2, <1>5, <1>6, <1>7, RowsStay DEF Inv

\* The commit.  The file was the database's: what it withdraws now is what the
\* next projection cancels.
LEMMA CommitInv == ASSUME Inv, Commit PROVE Inv'
<1>1. TypeInv /\ save \in Saves /\ file \in PolicyStates
  BY DEF Inv, TypeInv
<1>2. UNCHANGED <<row, requests, hold, gate, applied, settings, control, worker, ingest, up>>
  BY DEF Commit, SaveOnly
<1>3. /\ save.pc = "commit" /\ ~save.recovering /\ applied = file
      /\ save.target \in Policies /\ file.revision < MaxRevision
      /\ settings.pending /\ control.paused /\ control.lock # "policy"
      /\ file.generation <= file.revision
  BY DEF Commit, Inv, PauseInv, PolicyInv, SaveInv, Before, Busy
<1>4. /\ save' \in Saves /\ save'.pc \in {"idle", "apply"} /\ ~save'.recovering
  <2>1. Goto("apply") \/ save' = NoSave
    BY DEF Commit
  <2> QED BY <1>1, <1>3, <2>1, SaveMoves, NoSaveIsGood DEF Busy
<1>5. faults' \in 0..MaxFaults
  BY <1>1, FaultType DEF Commit
<1>6. PauseInv'
  BY <1>2, <1>3, <1>4 DEF Inv, PauseInv
<1>7. SaveInv'
  BY <1>2, <1>3, <1>4 DEF SaveInv, Before
<1>8. CASE UNCHANGED <<file, revoked>>
  <2>1. TypeInv'
    BY <1>1, <1>2, <1>4, <1>5, <1>8 DEF TypeInv
  <2>2. PolicyInv'
    BY <1>2, <1>3, <1>7, <1>8 DEF Inv, PolicyInv, AheadInv, Behind
  <2> QED BY <1>2, <1>6, <1>8, <2>1, <2>2, RowsStay DEF Inv
<1>9. CASE ~UNCHANGED <<file, revoked>>
  <2> DEFINE target == save.target
             old    == file.policy
             step   == Narrowed(old, target)
             hit(n) == Live(n) /\ RevokedBy(row[n].class, old, target)
  <2>1. /\ file' = [revision |-> file.revision + 1, policy |-> target,
                    generation |-> file.generation + step]
        /\ revoked' = [n \in Ids |-> revoked[n] \/ hit(n)]
    BY <1>9 DEF Commit, Narrowed
  <2>2. /\ file.revision \in Nat /\ file.generation \in Nat /\ old.content \in Nat
        /\ step \in {0, 1}
    BY <1>1, PolicyFields DEF Narrowed
  <2>3. target.content < old.content => step = 1
    BY DEF Narrowed
  <2>4. /\ file'.revision = file.revision + 1 /\ file'.policy = target
        /\ file'.generation = file.generation + step
        /\ file' \in PolicyStates /\ file'.generation <= file'.revision
        /\ file' # file
    <3> HIDE DEF step, target, hit
    <3>1. /\ file.revision + 1 \in 0..MaxRevision
          /\ file.generation + step \in 0..MaxRevision
          /\ file.generation + step <= file.revision + 1
          /\ file.revision + 1 # file.revision
      BY <1>3, <2>2, DesktopAssumption
    <3>2. target \in Policies
      BY <1>3 DEF target
    <3> QED BY <2>1, <3>1, <3>2 DEF PolicyStates
  <2>5. \A n \in Ids : hit(n) \in BOOLEAN
    BY DEF RevokedBy
  <2>6. TypeInv'
    <3> HIDE DEF hit
    <3>1. revoked' \in [Ids -> BOOLEAN]
      BY <1>1, <2>1, <2>5 DEF TypeInv
    <3> QED BY <1>1, <1>2, <1>4, <1>5, <2>4, <3>1 DEF TypeInv
  <2>7. PolicyInv'
    <3>1. AheadInv'
      BY <1>2, <1>3, <1>4, <2>4 DEF AheadInv
    <3> QED BY <1>2, <1>3, <1>7, <2>4, <3>1 DEF Inv, PolicyInv, Behind
  <2>8. RevokedInv'
    <3> SUFFICES ASSUME NEW n \in Ids, revoked'[n]
                 PROVE Live(n) /\ (row[n].status \in Open => Withdrawn(row[n].class)')
      BY <1>2, <1>3, <2>4 DEF RevokedInv, Live, Withdrawn
    <3>1. CASE revoked[n]
      BY <1>3, <3>1 DEF Inv, RevokedInv
    <3>2. CASE ~revoked[n]
      <4>1. Live(n) /\ RevokedBy(row[n].class, old, target)
        BY <2>1, <3>2
      <4>2. target.content < old.content => applied.generation < file'.generation
        BY <1>3, <2>2, <2>3, <2>4
      <4> QED BY <1>2, <1>3, <2>4, <4>1, <4>2 DEF RevokedBy, Withdrawn
    <3> QED BY <3>1, <3>2
  <2>9. WorkerOwnsClaim'
    BY <1>2 DEF Inv, WorkerOwnsClaim, In, Live
  <2> QED BY <1>6, <2>6, <2>7, <2>8, <2>9 DEF Inv
<1> QED BY <1>8, <1>9

\* The projection: the rows it withdraws are cancelled and the database is at
\* the file; no row that is still open was revoked.
LEMMA ProjectRows ==
    ASSUME Inv, Project, UNCHANGED <<file, revoked>>, UNCHANGED worker, worker.pc = "none"
    PROVE /\ row' \in [Ids -> GoodRows] /\ applied' = file
          /\ RevokedInv' /\ WorkerOwnsClaim'
          /\ applied.revision <= file.revision
          /\ applied.revision = file.revision => applied = file
<1>1. TypeInv /\ row \in [Ids -> GoodRows] /\ applied' = file
      /\ applied \in PolicyStates /\ file \in PolicyStates
  BY DEF Inv, TypeInv, Project
<1>2. ASSUME NEW n \in Ids
      PROVE /\ row'[n] \in GoodRows
            /\ ~Cancelled(n) => row'[n] = row[n]
            /\ Cancelled(n) => row'[n] # None /\ row'[n].status = "cancelled"
  <2>1. CASE ~Cancelled(n)
    BY <1>1, <2>1 DEF Project
  <2>2. CASE Cancelled(n)
    <3>1. row[n] \in GoodRows /\ row[n] # None
      BY <1>1, <2>2 DEF Cancelled, In, Live
    <3>2. row'[n] = [row[n] EXCEPT !.status = "cancelled"]
      BY <2>2 DEF Project
    <3>3. "cancelled" \in Waiting \cup Terminal \cup {"sending"} /\ "cancelled" # "sending"
      BY DEF Terminal
    <3> QED BY <2>2, <3>1, <3>2, <3>3, RowStatus
  <2> QED BY <2>1, <2>2
<1>3. row' \in [Ids -> GoodRows]
  BY <1>2 DEF Project
<1>4. RevokedInv'
  <2> SUFFICES ASSUME NEW n \in Ids, revoked[n]
               PROVE row'[n] # None /\ row'[n].status \notin Open
    BY DEF RevokedInv, Live
  <2>1. row[n] # None /\ (row[n].status \in Open => Withdrawn(row[n].class))
    BY DEF Inv, RevokedInv, Live
  <2>2. row[n].status \in Open => Cancelled(n)
    BY <2>1 DEF Cancelled, Withdrawn, In, Live, Open
  <2>3. "cancelled" \notin Open
    BY DEF Open, Waiting
  <2> QED BY <1>2, <2>1, <2>2, <2>3
<1>5. worker.row = None
  BY <1>1, WorkerFields DEF TypeInv, Claiming
<1>6. WorkerOwnsClaim'
  BY <1>5 DEF WorkerOwnsClaim
<1>7. applied.revision <= file.revision /\ (applied.revision = file.revision => applied = file)
  <2>1. applied.revision \in Nat /\ file.revision \in Nat
    BY <1>1, PolicyFields
  <2> QED BY <2>1 DEF Project, Inv, PolicyInv, AheadInv
<1> QED BY <1>1, <1>3, <1>4, <1>6, <1>7

\* A copy that is not newer than the database is not newer than the next.
LEMMA BehindStays ==
    ASSUME NEW s \in PolicyStates, Behind(s), applied \in PolicyStates, file \in PolicyStates,
           applied' = file, applied.revision <= file.revision,
           applied.revision = file.revision => applied = file
    PROVE /\ s.revision <= applied'.revision
          /\ s.revision = applied'.revision => s = applied'
<1>1. s.revision \in Nat /\ applied.revision \in Nat /\ file.revision \in Nat
  BY PolicyFields
<1> QED BY <1>1 DEF Behind

\* The projection of a save, or its failure.
LEMMA ApplyInv == ASSUME Inv, Apply PROVE Inv'
<1>1. TypeInv /\ save \in Saves /\ applied \in PolicyStates /\ file \in PolicyStates
      /\ settings \in Settings /\ ingest \in GoodIngests
  BY DEF Inv, TypeInv
<1>2. UNCHANGED <<requests, revoked, hold, gate, file, settings, control, worker, ingest, up>>
  BY DEF Apply, SaveOnly
<1>3. save.pc = "apply" /\ control.paused /\ control.lock # "policy" /\ worker.pc = "none"
      /\ settings.pending
  BY DEF Apply, Inv, PauseInv, PolicyInv, SaveInv, Busy
<1>4. faults' \in 0..MaxFaults
  BY <1>1, FaultType DEF Apply
<1>5. CASE Project /\ Goto("replace")
  <2>1. /\ save' \in Saves /\ save'.pc = "replace" /\ save'.target = save.target
        /\ save'.recovering = save.recovering
    BY <1>1, <1>5, SaveMoves DEF Busy
  <2>2. /\ row' \in [Ids -> GoodRows] /\ applied' = file
        /\ RevokedInv' /\ WorkerOwnsClaim'
        /\ applied.revision <= file.revision
        /\ applied.revision = file.revision => applied = file
    BY <1>2, <1>3, <1>5, ProjectRows
  <2>3. TypeInv'
    BY <1>1, <1>2, <1>4, <2>1, <2>2 DEF TypeInv
  <2>4. PauseInv'
    BY <1>2, <1>3, <2>1 DEF Inv, PauseInv
  <2>5. AheadInv'
    BY <1>2, <2>2 DEF AheadInv
  <2>6. SaveInv'
    BY <1>2, <1>3, <2>1, <2>2 DEF Inv, PolicyInv, SaveInv, Before
  <2>7. Behind(settings.state)'
    <3>1. settings.state \in PolicyStates /\ Behind(settings.state)
      BY <1>1 DEF Settings, Inv, PolicyInv
    <3> QED BY <1>1, <1>2, <2>2, <3>1, BehindStays DEF Behind
  <2>8. ingest'.pc = "snapshot" => Behind(ingest.snapshot)'
    <3>1. ingest.pc = "snapshot" => ingest.snapshot \in PolicyStates /\ Behind(ingest.snapshot)
      BY <1>1 DEF GoodIngests, Inv, PolicyInv
    <3> QED BY <1>1, <1>2, <2>2, <3>1, BehindStays DEF Behind
  <2>9. PolicyInv'
    BY <1>2, <2>5, <2>6, <2>7, <2>8 DEF Inv, PolicyInv
  <2> QED BY <2>2, <2>3, <2>4, <2>9 DEF Inv
<1>6. CASE save' = NoSave /\ UNCHANGED <<row, applied>>
  <2>1. TypeInv'
    BY <1>1, <1>2, <1>4, <1>6, NoSaveIsGood DEF TypeInv
  <2>2. PauseInv'
    BY <1>2, <1>3, <1>6, NoSaveIsGood DEF Inv, PauseInv, Busy
  <2>3. PolicyInv'
    BY <1>2, <1>6, NoSaveIsGood DEF Inv, PolicyInv, AheadInv, SaveInv, Behind, Before
  <2> QED BY <1>2, <1>6, <2>1, <2>2, <2>3, RowsStay DEF Inv
<1> QED BY <1>5, <1>6 DEF Apply

\* The settings follow the database.
LEMMA ReplaceInv == ASSUME Inv, Replace PROVE Inv'
<1>1. TypeInv /\ save \in Saves /\ applied \in PolicyStates
  BY DEF Inv, TypeInv
<1>2. UNCHANGED <<row, requests, revoked, hold, gate, file, applied, control, worker, ingest, up, faults>>
  BY DEF Replace, storage, SaveOnly
<1>3. settings' \in Settings /\ settings'.state = applied
  BY <1>1 DEF Replace, Settings
<1>4. save.pc = "replace" /\ applied = file /\ up
  BY DEF Replace, Inv, PauseInv, PolicyInv, SaveInv, TypeInv
<1>5. /\ save' \in Saves /\ save'.pc = "resume" /\ save'.target = save.target
      /\ save'.recovering = save.recovering
  BY <1>1, SaveMoves DEF Replace, Busy
<1>6. TypeInv'
  BY <1>1, <1>2, <1>3, <1>5 DEF TypeInv
<1>7. PauseInv'
  BY <1>2, <1>4, <1>5 DEF Inv, PauseInv, Busy
<1>8. SaveInv'
  BY <1>2, <1>4, <1>5 DEF Inv, PolicyInv, SaveInv, Before
<1>9. Behind(settings.state)'
  BY <1>1, <1>2, <1>3, PolicyFields DEF Behind
<1>10. PolicyInv'
  BY <1>2, <1>4, <1>8, <1>9 DEF Inv, PolicyInv, AheadInv, Behind
<1> QED BY <1>2, <1>6, <1>7, <1>10, RowsStay DEF Inv

\* The runtime is resumed; a save that recovered first goes on to its own.
LEMMA ResumeInv == ASSUME Inv, Resume PROVE Inv'
<1>1. TypeInv /\ save \in Saves /\ settings \in Settings /\ worker \in GoodWorkers
      /\ control \in Controls
  BY DEF Inv, TypeInv
<1>2. UNCHANGED <<row, requests, revoked, hold, gate, file, applied, ingest, up>>
  BY DEF Resume, storage, SaveOnly
<1>3. save.pc = "resume" /\ applied = file /\ up /\ worker.pc = "none" /\ control.lock = "free"
  BY DEF Resume, Inv, PauseInv, PolicyInv, SaveInv, TypeInv, Busy
<1>4. control' \in Controls /\ ~control'.paused /\ control'.lock = "free"
  BY <1>1, <1>3 DEF Resume, Controls
<1>5. worker' \in GoodWorkers /\ worker'.row = worker.row
  <2>1. worker' = worker \/ worker' = [NoWorker EXCEPT !.pc = "start"]
    BY <1>3 DEF Resume, StartWorker
  <2>2. worker.row = None
    BY <1>1, <1>3, WorkerFields DEF Claiming
  <2> QED BY <1>1, <2>1, <2>2, WorkerIdles
<1>6. settings' \in Settings /\ settings'.state = settings.state
  <2>1. settings' = settings \/ settings' = [settings EXCEPT !.pending = TRUE]
    BY DEF Resume
  <2> QED BY <1>1, <2>1 DEF Settings
<1>7. /\ save' \in Saves /\ save'.pc \in {"idle", "pause"} /\ ~save'.recovering
      /\ save'.pc = "pause" =>
            save.recovering /\ save.target # None /\ save'.target = save.target
  <2>1. \/ save' = NoSave
        \/ /\ save.recovering /\ save.target # None
           /\ save' = [save EXCEPT !.pc = "pause", !.recovering = FALSE]
    BY DEF Resume
  <2>2. CASE save' = NoSave
    BY <2>2, NoSaveIsGood
  <2>3. CASE /\ save.recovering /\ save.target # None
             /\ save' = [save EXCEPT !.pc = "pause", !.recovering = FALSE]
    BY <1>1, <2>3 DEF Saves
  <2> QED BY <2>1, <2>2, <2>3
<1>8. faults' \in 0..MaxFaults
  BY <1>1, FaultType DEF Resume
<1>9. TypeInv'
  BY <1>1, <1>2, <1>4, <1>5, <1>6, <1>7, <1>8 DEF TypeInv
<1>10. PauseInv'
  BY <1>2, <1>3, <1>4, <1>7 DEF PauseInv, Busy
<1>11. SaveInv'
  <2>1. save.target # None => save.target \in Policies
    BY <1>1 DEF Saves
  <2> QED BY <1>2, <1>3, <1>7, <2>1 DEF Inv, PolicyInv, SaveInv, Before
<1>12. PolicyInv'
  BY <1>2, <1>3, <1>6, <1>11 DEF Inv, PolicyInv, AheadInv, Behind
<1> QED BY <1>2, <1>5, <1>9, <1>10, <1>12, RowsStay DEF Inv

-----------------------------------------------------------------------------
(* The process.                                                            *)

\* A crash leaves the file, the database and the claim with nobody.
LEMMA CrashInv == ASSUME Inv, Crash PROVE Inv'
<1>1. TypeInv
  BY DEF Inv
<1>2. UNCHANGED <<row, requests, revoked, hold, file, applied>> /\ ~up' /\ gate' = FALSE
  BY DEF Crash
<1>3. /\ worker' = NoWorker /\ save' = NoSave /\ ingest' = NoIngest
      /\ control' = [paused |-> FALSE, lock |-> "free"]
      /\ settings' = [pending |-> TRUE, state |-> applied]
  BY DEF Crash
<1>4. worker' \in GoodWorkers /\ worker'.pc = "none" /\ worker'.row = None
  BY <1>1, <1>3, WorkerIdles DEF TypeInv
<1>5. save' \in Saves /\ save'.pc = "idle" /\ ~save'.recovering
  BY <1>3, NoSaveIsGood
<1>6. ingest' \in GoodIngests /\ ingest'.pc = "idle"
  BY <1>3, DesktopAssumption DEF NoIngest, GoodIngests
<1>7. control' \in Controls /\ control'.lock = "free" /\ ~control'.paused
  BY <1>3 DEF Controls
<1>8. settings' \in Settings /\ settings'.pending /\ settings'.state = applied
  BY <1>1, <1>3 DEF Settings, TypeInv
<1>9. faults' \in 0..MaxFaults
  BY <1>1, FaultType DEF Crash
<1>10. TypeInv'
  BY <1>1, <1>2, <1>4, <1>5, <1>6, <1>7, <1>8, <1>9 DEF TypeInv, Crash
<1>11. PauseInv'
  BY <1>2, <1>4, <1>5, <1>6, <1>7 DEF PauseInv, Busy
<1>12. Behind(settings.state)'
  BY <1>1, <1>2, <1>8, PolicyFields DEF Behind, TypeInv
<1>13. PolicyInv'
  BY <1>2, <1>5, <1>6, <1>8, <1>12 DEF Inv, PolicyInv, AheadInv, SaveInv, Before
<1>14. RevokedInv' /\ WorkerOwnsClaim'
  BY <1>2, <1>4 DEF Inv, RevokedInv, Live, Withdrawn, WorkerOwnsClaim
<1> QED BY <1>10, <1>11, <1>13, <1>14 DEF Inv

\* The next process projects the file before it does anything else.
LEMMA InitializeInv == ASSUME Inv, Initialize PROVE Inv'
<1>1. TypeInv /\ file \in PolicyStates
  BY DEF Inv, TypeInv
<1>2. UNCHANGED <<requests, revoked, hold, gate, file, control, worker, save, ingest, faults>>
      /\ up' = TRUE
  BY DEF Initialize
<1>3. /\ control.lock = "free" /\ worker.pc = "none" /\ save.pc = "idle" /\ ingest.pc = "idle"
  BY DEF Initialize, Inv, PauseInv
<1>4. /\ row' \in [Ids -> GoodRows] /\ applied' = file
      /\ RevokedInv' /\ WorkerOwnsClaim'
  BY <1>2, <1>3, ProjectRows DEF Initialize
<1>5. settings' \in Settings /\ settings'.state = file
  BY <1>1 DEF Initialize, Settings
<1>6. TypeInv'
  BY <1>1, <1>2, <1>4, <1>5 DEF TypeInv
<1>7. PauseInv'
  BY <1>2, <1>3 DEF Inv, PauseInv
<1>8. Behind(settings.state)'
  BY <1>1, <1>2, <1>4, <1>5, PolicyFields DEF Behind
<1>9. SaveInv'
  BY <1>2, <1>3 DEF Inv, PolicyInv, SaveInv, Before
<1>10. PolicyInv'
  BY <1>2, <1>3, <1>4, <1>8, <1>9 DEF Inv, PolicyInv, AheadInv
<1> QED BY <1>4, <1>6, <1>7, <1>10 DEF Inv

-----------------------------------------------------------------------------
(* The theorems.                                                           *)

\* The initial state satisfies the invariant.
LEMMA InitInv == Init => Inv
<1> SUFFICES ASSUME Init PROVE Inv
  OBVIOUS
<1>1. file \in PolicyStates /\ applied = file /\ settings.state = file /\ settings \in Settings
      /\ file.generation = 0 /\ file.revision = 0
  BY DesktopAssumption DEF Init, PolicyStates, Settings
<1>2. worker \in GoodWorkers /\ worker.row = None /\ worker.pc = "none"
  BY DesktopAssumption DEF Init, NoWorker, GoodWorkers, Claiming
<1>3. save \in Saves /\ save.pc = "idle" /\ ~save.recovering
  BY NoSaveIsGood DEF Init
<1>4. ingest \in GoodIngests /\ ingest.pc = "idle"
  BY DesktopAssumption DEF Init, NoIngest, GoodIngests
<1>5. control \in Controls /\ control.lock = "free" /\ ~control.paused
  BY DEF Init, Controls
<1>6. TypeInv
  <2>1. row \in [Ids -> GoodRows] /\ requests \in [Ids -> Nat] /\ revoked \in [Ids -> BOOLEAN]
    BY DEF Init, GoodRows
  <2>2. hold = "none" /\ gate = FALSE /\ up = TRUE /\ faults = 0
    BY DEF Init
  <2>3. 0 \in 0..MaxFaults
    BY DesktopAssumption
  <2> QED BY <1>1, <1>2, <1>3, <1>4, <1>5, <2>1, <2>2, <2>3 DEF TypeInv
<1>7. PauseInv
  BY <1>2, <1>3, <1>4, <1>5 DEF PauseInv, Busy
<1>8. PolicyInv
  BY <1>1, <1>3, <1>4 DEF Init, PolicyInv, AheadInv, SaveInv, Behind, Before
<1>9. RevokedInv /\ WorkerOwnsClaim
  BY <1>2 DEF Init, RevokedInv, WorkerOwnsClaim
<1> QED BY <1>6, <1>7, <1>8, <1>9 DEF Inv

\* Every step of the outbox, the hold, the policy and the process keeps it.
LEMMA NextInv == Inv /\ [Next]_vars => Inv'
<1> SUFFICES ASSUME Inv, [Next]_vars PROVE Inv'
  OBVIOUS
<1>1. CASE WorkerStep \/ CompletionFails
  BY <1>1, WorkerQuietInv, RecoverInv, UndecodableInv, CompleteInv, ClaimInv, WaitingStepInv
     DEF WorkerStep
<1>2. CASE SaveStep
  BY <1>2, PauseStepInv, BeginApplyInv, CommitInv, ApplyInv, ReplaceInv, ResumeInv DEF SaveStep
<1>3. CASE BeginRecover \/ \E p \in Policies : BeginSave(p)
  BY <1>3, BeginInv
<1>4. CASE Hold \/ ResumeHold \/ ClockMoves
  BY <1>4, HoldStepInv
<1>5. ASSUME NEW n \in Ids,
             \/ Unblock(n) \/ Withdraw(n)
             \/ PruneRetained(n) \/ EnqueueControl(n) \/ Insert(n)
      PROVE Inv'
  BY <1>5, WaitingStepInv, PruneInv, EnqueueInv, InsertInv
<1>6. CASE ReadAuthority \/ CompareProjection \/ Snapshot \/ InsertNothing
  BY <1>6, IngestInv
<1>7. CASE Reconcile \/ Reconciled
  BY <1>7, ReconcileInv
<1>8. CASE Crash
  BY <1>8, CrashInv
<1>9. CASE Initialize
  BY <1>9, InitializeInv
<1>10. CASE UNCHANGED vars
  BY <1>10, QuietStep DEF vars, Inv, TypeInv, policy
<1> QED BY <1>1, <1>2, <1>3, <1>4, <1>5, <1>6, <1>7, <1>8, <1>9, <1>10 DEF Next

\* The invariant holds in every state: the worker, the pause, the policy and the
\* rows stay in step.
THEOREM Invariance == Spec => []Inv
BY InitInv, NextInv, PTL DEF Spec

\* The state has its types: in particular a save never passes the bound, and a
\* held completion never takes back an attempt that was not made.
THEOREM DesktopTypeCorrect == Spec => []DesktopTypeOK
BY Invariance, TypeInvIsTypeOK, PTL DEF Inv

\* Nobody settles, cancels or recovers a row while the worker has it, so the
\* completions that name only the id and the status settle the worker's claim.
THEOREM WorkerOwnsItsClaim == Spec => []WorkerOwnsClaim
<1>1. Inv => WorkerOwnsClaim
  BY DEF Inv
<1> QED BY <1>1, Invariance, PTL

\* Requests are started by start_http alone.
LEMMA OnlyStartSends ==
    ASSUME Inv, [Next]_vars, NEW n \in Ids, requests'[n] > requests[n]
    PROVE StartHttp /\ Permits /\ worker.row = n
<1>1. requests[n] \in Nat /\ requests \in [Ids -> Nat]
  BY DEF Inv, TypeInv
<1>2. requests'[n] # requests[n]
  BY <1>1
<1>3. requests' # requests
  BY <1>2
<1>4. StartHttp \/ \E m \in Ids : PruneRetained(m)
  <2>1. CASE WorkerStep \/ CompletionFails
    BY <1>3, <2>1 DEF WorkerStep, RecoverStaleClaims, Exit, Undecodable, CheckPolicy,
       AcquirePermit, Respond, CompleteDelivery, Claim, ExpireDue, CompletionFails, WorkerOnly
  <2>2. CASE SaveStep
    BY <1>3, <2>2 DEF SaveStep, PauseForPolicy, Joined, BeginApply, Commit, Apply, Replace,
       Resume, storage
  <2>3. CASE BeginRecover \/ \E p \in Policies : BeginSave(p)
    BY <1>3, <2>3 DEF BeginRecover, BeginSave, storage
  <2>4. CASE Hold \/ ResumeHold \/ ClockMoves
    BY <1>3, <2>4 DEF Hold, ResumeHold, ClockMoves
  <2>5. CASE \E m \in Ids : Unblock(m) \/ Withdraw(m) \/ EnqueueControl(m) \/ Insert(m)
    BY <1>3, <2>5 DEF Unblock, Withdraw, EnqueueControl, Insert
  <2>6. CASE ReadAuthority \/ CompareProjection \/ Snapshot \/ InsertNothing
    BY <1>3, <2>6 DEF ReadAuthority, CompareProjection, Snapshot, InsertNothing
  <2>7. CASE Reconcile \/ Reconciled \/ Crash \/ Initialize
    BY <1>3, <2>7 DEF Reconcile, Reconciled, Crash, Initialize, storage
  <2>8. CASE UNCHANGED vars
    BY <1>3, <2>8 DEF vars
  <2> QED BY <2>1, <2>2, <2>3, <2>4, <2>5, <2>6, <2>7, <2>8 DEF Next
<1>5. ~ \E m \in Ids : PruneRetained(m)
  <2> SUFFICES ASSUME NEW m \in Ids, PruneRetained(m) PROVE FALSE
    OBVIOUS
  <2>1. requests' = [requests EXCEPT ![m] = 0]
    BY DEF PruneRetained
  <2> QED BY <1>1, <2>1
<1>6. StartHttp
  BY <1>4, <1>5
<1>7. /\ Permits
      /\ requests' = [requests EXCEPT ![worker.row] = @ + (IF worker.cancelled THEN 0 ELSE 1)]
  BY <1>3, <1>6 DEF StartHttp
<1> QED BY <1>1, <1>2, <1>6, <1>7

\* No request starts under a hold, nor while the clock leaves it open.
THEOREM NoRequestUnderHold == Spec => NoSendUnderHold
<1>1. Inv /\ [Next]_vars => [\A n \in Ids : requests'[n] > requests[n] => Permits]_vars
  BY OnlyStartSends
<1> QED BY <1>1, Invariance, PTL DEF Spec, NoSendUnderHold

\* A notice that any saved policy has withdrawn is never sent: while it is open
\* the file is ahead of the database, and then there is no worker.
THEOREM WithdrawnIsNeverSent == Spec => RevokedNeverSent
<1>1. Inv /\ [Next]_vars => [\A n \in Ids : requests'[n] > requests[n] => ~revoked[n]]_vars
  <2> SUFFICES ASSUME Inv, [Next]_vars, NEW n \in Ids, requests'[n] > requests[n], revoked[n]
               PROVE FALSE
    OBVIOUS
  <2>1. worker.row = n /\ worker.pc # "none"
    BY OnlyStartSends DEF StartHttp
  <2>2. In(n, {"sending"})
    BY <2>1, DesktopAssumption DEF Inv, WorkerOwnsClaim
  <2>3. applied # file
    BY <2>2 DEF In, Open, Inv, RevokedInv
  <2>4. up => control.paused /\ save.pc # "join"
    BY <2>3 DEF Inv, PolicyInv, AheadInv
  <2> QED BY <2>1, <2>4 DEF Inv, PauseInv, TypeInv
<1> QED BY <1>1, Invariance, PTL DEF Spec, RevokedNeverSent
=============================================================================
