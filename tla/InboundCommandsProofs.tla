------------------------- MODULE InboundCommandsProofs -------------------------
(***************************************************************************)
(* Proofs about the commands the owner sends to the bot: an intent reaches *)
(* a device only for one message with the right code in time, the owner is *)
(* told the truth about it, and a settled command stays settled -- for any *)
(* messages, processes, lost cursors, stops and crashes, and for every     *)
(* value of the time limits and of max_attempts.                           *)
(*                                                                         *)
(* The argument: a confirmation is bound to one message, once (key), by a  *)
(* worker that owns that message's row and has not lost it, so whatever is *)
(* sent is sent for the message in the key.  A binding lives (Live) from   *)
(* prepare_control_dispatch until the confirmation is deleted as due;      *)
(* while it lives no row is marked interrupted and no answer that says     *)
(* nothing was done can be queued, because every answer of that kind was   *)
(* found without a binding and only the owner of the row could have made   *)
(* one since.                                                              *)
(***************************************************************************)
EXTENDS InboundCommands, FiniteSetTheorems, TLAPS

-----------------------------------------------------------------------------
(* The invariant.                                                          *)

\* Where a worker is in its pass.
Pcs == {"down", "idle", "claimed", "query", "control", "reply"}
\* inbound_commands.status, or no row.
Statuses == {"absent", "received"} \cup Claimed \cup Final
\* The states of a confirmation, or no row yet, or the row deleted.
States == {"none", "deleted"} \cup Bound \cup Unconsumed
\* The answers that say nothing was done.
NothingDone == {"missing", "expired", "wrong_scope", "interrupted"}

\* Table inbound_commands.
CommandRows ==
    [status : Statuses, owner : Workers \cup {NoWorker}, claimed_at : Nat,
     next_attempt_at : Nat, interrupted : BOOLEAN, conf : Starts \cup {0},
     created_at : Nat]

\* Table control_confirmations.
ConfirmationRows ==
    [state : States, expires_at : Nat, attempts : 0..MaxAttempts,
     key : Msgs \cup {0}]

\* A worker.
WorkerStates ==
    [pc : Pcs, msg : Msgs \cup {0}, at : Nat, answer : Answers, expires : Nat,
     stopping : BOOLEAN]

\* Types of all variables.
Typed ==
    /\ plan \in Plans
    /\ now \in 0..MaxNow
    /\ faults \in 0..plan.faults
    /\ pos \in 0..Len(plan.msgs)
    /\ typed \in [Msgs -> Starts \cup {0, Unsent}]
    /\ cmds \in [Msgs -> CommandRows]
    /\ confs \in [Starts -> ConfirmationRows]
    /\ wk \in [Workers -> WorkerStates]
    /\ sent \in [Starts -> SUBSET Msgs]
    /\ told \in [Msgs -> Answers]

\* Message m's confirmation is bound to m and still has its row.
Live(m) == /\ cmds[m].conf # 0
           /\ confs[cmds[m].conf].key = m
           /\ confs[cmds[m].conf].state \in Bound

\* A command's row, its reply, and the confirmation it refers to.
RowOK(m) ==
    /\ cmds[m].status = "absent" => cmds[m].conf = 0
    /\ cmds[m].status \in Claimed => cmds[m].owner \in Workers
    /\ cmds[m].status \notin Claimed => cmds[m].owner = NoWorker
    /\ cmds[m].conf # 0 =>
         /\ told[cmds[m].conf] = "prompt"
         /\ typed[m] = cmds[m].conf
         /\ Sender(m) = Sender(cmds[m].conf)
         /\ cmds[m].created_at < confs[cmds[m].conf].expires_at
    /\ told[m] # "none" <=> cmds[m].status = "reply_queued"
    /\ told[m] = "outcome" /\ cmds[m].conf # 0 => m \in sent[cmds[m].conf]
    /\ told[m] \in NothingDone \/ cmds[m].interrupted => ~Live(m)

\* A confirmation: it exists once its prompt is queued, it is bound exactly
\* when it is consumed, a locked one was never bound, and whatever was sent was
\* sent for the message it is bound to.
ConfOK(c) ==
    /\ told[c] # "prompt" => confs[c] = NoConf
    /\ told[c] = "prompt" => confs[c].state # "none"
    /\ confs[c].state \in Unconsumed => confs[c].key = 0
    /\ confs[c].state \in Bound => confs[c].key # 0
    /\ confs[c].attempts = MaxAttempts =>
         confs[c].key = 0 /\ confs[c].state \in {"locked", "deleted"}
    /\ confs[c].state = "locked" => confs[c].attempts = MaxAttempts
    /\ \A m \in sent[c] : confs[c].key = m /\ cmds[m].conf = c
    /\ confs[c].state = "outcome" => confs[c].key \in sent[c]

\* A sender has at most one live credential.
OneCredential ==
    \A c, d \in Starts :
      /\ c # d /\ confs[c].state = "awaiting_confirmation"
      /\ confs[d].state = "awaiting_confirmation"
      => Sender(c) # Sender(d)

\* What a worker holds is right as long as it owns its row.
WorkerOK(w) ==
    /\ wk[w].pc = "reply" => wk[w].answer # "none"
    /\ wk[w].pc \notin {"down", "idle"} =>
         wk[w].msg # 0 /\ cmds[wk[w].msg].status # "absent"
    /\ wk[w].pc = "control" =>
         /\ cmds[wk[w].msg].conf # 0
         /\ confs[cmds[wk[w].msg].conf].key = wk[w].msg
    /\ wk[w].pc = "claimed" /\ Owns(w) =>
         /\ cmds[wk[w].msg].status = "dispatching"
         /\ wk[w].answer = "interrupted" <=> cmds[wk[w].msg].interrupted
    /\ wk[w].pc = "reply" /\ wk[w].answer = "outcome"
         /\ cmds[wk[w].msg].conf # 0 => wk[w].msg \in sent[cmds[wk[w].msg].conf]
    /\ wk[w].pc = "reply" /\ wk[w].answer \in NothingDone
         /\ Owns(w) /\ now < ExpiresAt(wk[w].msg) => ~Live(wk[w].msg)

\* The inductive invariant.
Inv == /\ Typed
       /\ \A m \in Msgs : RowOK(m)
       /\ \A c \in Starts : ConfOK(c)
       /\ OneCredential
       /\ \A w \in Workers : WorkerOK(w)

-----------------------------------------------------------------------------
(* What one step does to a row of each table.                              *)

\* An open command changes hands; interrupted is set only without a binding.
RowMoves(m) ==
    /\ cmds[m].status \in {"received"} \cup Claimed
    /\ cmds'[m].status \in {"received", "expired"} \cup Claimed
    /\ cmds'[m].conf = cmds[m].conf
    /\ cmds'[m].created_at = cmds[m].created_at
    /\ cmds'[m].interrupted => cmds[m].interrupted \/ ~Live(m)
    /\ IF cmds'[m].status \in Claimed THEN cmds'[m].owner \in Workers
                                      ELSE cmds'[m].owner = NoWorker

\* A message gets its row.
RowStored(m) ==
    /\ cmds[m].status = "absent"
    /\ cmds'[m].status \in {"received", "expired"}
    /\ cmds'[m].owner = NoWorker
    /\ ~cmds'[m].interrupted
    /\ cmds'[m].conf # 0 =>
         /\ told[cmds'[m].conf] = "prompt"
         /\ typed'[m] = cmds'[m].conf
         /\ Sender(m) = Sender(cmds'[m].conf)
         /\ cmds'[m].created_at < confs[cmds'[m].conf].expires_at

\* What may happen to a row without a reply being queued.
RowStep(m) == cmds'[m] = cmds[m] \/ RowMoves(m) \/ RowStored(m)

\* What may happen to a confirmation without it being made or bound.
ConfStep(c) ==
    \/ confs'[c] = confs[c]
    \/ /\ confs'[c].key = confs[c].key
       /\ confs'[c].expires_at = confs[c].expires_at
       /\ \/ /\ confs[c].state # "none"
             /\ confs'[c].state = "deleted"
             /\ confs'[c].attempts = confs[c].attempts
          \/ /\ confs[c].state = "awaiting_confirmation"
             /\ confs'[c].state \in Unconsumed
             /\ confs'[c].attempts = MaxAttempts <=> confs'[c].state = "locked"
          \/ /\ confs[c].state = "pending"
             /\ confs'[c].state \in {"outcome", "failed"}
             /\ confs'[c].attempts = confs[c].attempts
             /\ confs'[c].state = "outcome" => confs[c].key \in sent[c]

(* A worker keeps its pass, and its row, unless it has lost the row.       *)
KeepsPass(w) ==
    /\ wk'[w].pc = wk[w].pc /\ wk'[w].msg = wk[w].msg
    /\ wk'[w].answer = wk[w].answer
    /\ wk[w].pc \notin {"down", "idle"} /\ Owns(w)' =>
         /\ cmds'[wk[w].msg] = cmds[wk[w].msg]
         /\ Live(wk[w].msg)' => Live(wk[w].msg)

\* SettledForever's step.
Stays == \A m \in Msgs : cmds[m].status \in Final =>
            cmds'[m] = cmds[m] /\ told'[m] = told[m]

-----------------------------------------------------------------------------

\* What depends on the plan alone does not change.
LEMMA PlanFixed ==
    ASSUME plan' = plan
    PROVE  /\ Msgs' = Msgs /\ Starts' = Starts /\ Workers' = Workers
           /\ CommandRows' = CommandRows
           /\ ConfirmationRows' = ConfirmationRows
           /\ WorkerStates' = WorkerStates
           /\ \A m : Sender(m)' = Sender(m) /\ Kind(m)' = Kind(m)
BY DEF Msgs, Starts, Kind, Sender, Workers, CommandRows, ConfirmationRows,
       WorkerStates

\* The assumptions, for the plan of this behaviour.
LEMMA PlanFacts ==
    ASSUME Typed
    PROVE  /\ plan \in Plans /\ Len(plan.msgs) \in Nat /\ Msgs \subseteq Nat
           /\ 0 \notin Msgs /\ Starts \subseteq Msgs /\ NoWorker \notin Workers
           /\ plan.faults \in Nat /\ Unsent \notin Nat /\ now \in Nat
<1>1. plan \in Plans
  BY DEF Typed
<1>2. Len(plan.msgs) \in Nat /\ NoWorker \notin plan.procs /\ plan.faults \in Nat
  BY <1>1, InboundAssumption
<1>3. MaxNow \in Nat
  BY InboundAssumption
<1> QED BY <1>1, <1>2, <1>3 DEF Msgs, Starts, Workers, Unsent, Typed

\* The fields of a command's row.
LEMMA RowFields ==
    ASSUME Typed, NEW m \in Msgs
    PROVE  /\ cmds[m] \in CommandRows /\ cmds[m].status \in Statuses
           /\ cmds[m].owner \in Workers \cup {NoWorker}
           /\ cmds[m].interrupted \in BOOLEAN
           /\ cmds[m].conf \in Starts \cup {0} /\ cmds[m].created_at \in Nat
           /\ told[m] \in Answers
BY DEF Typed, CommandRows

\* The fields of a confirmation.
LEMMA ConfFields ==
    ASSUME Typed, NEW c \in Starts
    PROVE  /\ confs[c] \in ConfirmationRows /\ confs[c].state \in States
           /\ confs[c].expires_at \in Nat /\ confs[c].key \in Msgs \cup {0}
           /\ confs[c].attempts \in 0..MaxAttempts /\ confs[c].attempts \in Nat
           /\ sent[c] \in SUBSET Msgs
BY InboundAssumption DEF Typed, ConfirmationRows

\* The fields of a worker.
LEMMA WorkerFields ==
    ASSUME Typed, NEW w \in Workers
    PROVE  /\ wk[w] \in WorkerStates /\ wk[w].pc \in Pcs
           /\ wk[w].msg \in Msgs \cup {0} /\ wk[w].at \in Nat
           /\ wk[w].answer \in Answers /\ wk[w].expires \in Nat
           /\ wk[w].stopping \in BOOLEAN
BY DEF Typed, WorkerStates

\* Steps of these kinds keep every row right.
LEMMA RowsKept ==
    ASSUME Inv, Typed', plan' = plan, sent' = sent, told' = told,
           \A m \in Msgs : RowStep(m),
           \A c \in Starts : ConfStep(c),
           \A m \in Msgs : cmds[m].conf # 0 => typed'[m] = typed[m]
    PROVE  (\A m \in Msgs : RowOK(m))'
<1> SUFFICES ASSUME NEW m \in Msgs PROVE RowOK(m)'
  BY PlanFixed
<1> DEFINE c == cmds[m].conf
<1>1. RowOK(m) /\ (c # 0 => c \in Starts)
  BY RowFields DEF Inv
<1>2. Sender(m)' = Sender(m) /\ \A d : Sender(d)' = Sender(d)
  BY PlanFixed
<1>3. \A d \in Starts : confs[d].state # "none" =>
         confs'[d].expires_at = confs[d].expires_at
  BY DEF ConfStep
<1>4. \A d \in Starts : told[d] = "prompt" => confs[d].state # "none"
  BY DEF Inv, ConfOK
<1>5. ASSUME cmds'[m].conf = cmds[m].conf
      PROVE  Live(m)' => Live(m)
  <2>1. c # 0 => ConfStep(c)
    BY <1>1
  <2> QED BY <1>1, <1>5, <2>1 DEF Live, ConfStep, Bound, Unconsumed
<1>6. CASE cmds'[m] = cmds[m]
  <2>1. cmds'[m].conf = cmds[m].conf /\ cmds'[m].status = cmds[m].status
        /\ cmds'[m].owner = cmds[m].owner
        /\ cmds'[m].interrupted = cmds[m].interrupted
        /\ cmds'[m].created_at = cmds[m].created_at
    BY <1>6
  <2>2. c # 0 => typed'[m] = typed[m]
                 /\ confs'[c].expires_at = confs[c].expires_at
    BY <1>1, <1>3, <1>4 DEF RowOK
  <2> QED BY <1>1, <1>2, <1>5, <2>1, <2>2, PlanFixed DEF RowOK
<1>7. CASE RowMoves(m)
  <2>1. c # 0 => typed'[m] = typed[m]
                 /\ confs'[c].expires_at = confs[c].expires_at
    BY <1>1, <1>3, <1>4 DEF RowOK
  <2>2. told[m] = "none"
    BY <1>1, <1>7 DEF RowOK, RowMoves, Claimed
  <2>3. cmds'[m].status \notin {"absent", "reply_queued"}
    BY <1>7 DEF RowMoves, Claimed
  <2>4. cmds'[m].interrupted => ~Live(m)'
    BY <1>1, <1>5, <1>7 DEF RowMoves, RowOK
  <2>5. cmds'[m].conf = c /\ cmds'[m].created_at = cmds[m].created_at
        /\ (cmds'[m].status \in Claimed => cmds'[m].owner \in Workers)
        /\ (cmds'[m].status \notin Claimed => cmds'[m].owner = NoWorker)
    BY <1>7 DEF RowMoves
  <2> HIDE DEF c
  <2>6. told'[m] = "none"
    BY <2>2
  <2> QED BY <1>1, <1>2, <2>1, <2>3, <2>4, <2>5, <2>6, PlanFixed
          DEF RowOK, NothingDone, c
<1>8. CASE RowStored(m)
  <2>1. told[m] = "none"
    BY <1>1, <1>8 DEF RowOK, RowStored
  <2>2. cmds'[m].status \notin {"absent", "reply_queued"} \cup Claimed
    BY <1>8 DEF RowStored, Claimed
  <2>3. cmds'[m].conf \in Starts \cup {0}
    BY PlanFixed DEF Typed, CommandRows
  <2>4. cmds'[m].conf # 0 =>
          /\ told[cmds'[m].conf] = "prompt"
          /\ typed'[m] = cmds'[m].conf
          /\ Sender(m) = Sender(cmds'[m].conf)
          /\ cmds'[m].created_at < confs'[cmds'[m].conf].expires_at
    BY <1>3, <1>4, <1>8, <2>3 DEF RowStored
  <2>5. cmds'[m].owner = NoWorker /\ ~cmds'[m].interrupted
    BY <1>8 DEF RowStored
  <2> QED BY <1>2, <2>1, <2>2, <2>4, <2>5 DEF RowOK, NothingDone
<1> QED BY <1>6, <1>7, <1>8 DEF RowStep

\* Steps of these kinds keep every confirmation right.
LEMMA ConfsKept ==
    ASSUME Inv, Typed', plan' = plan, sent' = sent, told' = told,
           \A m \in Msgs : RowStep(m),
           \A c \in Starts : ConfStep(c)
    PROVE  (\A c \in Starts : ConfOK(c))' /\ OneCredential'
<1>1. ASSUME NEW c \in Starts PROVE ConfOK(c)'
  <2>1. ConfOK(c) /\ ConfStep(c)
    BY DEF Inv
  <2>2. \A m \in sent[c] : cmds'[m].conf = c
    <3> SUFFICES ASSUME NEW m \in sent[c] PROVE cmds'[m].conf = c
      OBVIOUS
    <3>1. m \in Msgs /\ cmds[m].conf = c /\ c # 0
      BY <2>1, ConfFields, PlanFacts DEF ConfOK, Inv
    <3>2. RowOK(m) /\ RowStep(m)
      BY <3>1 DEF Inv
    <3> QED BY <3>1, <3>2 DEF RowOK, RowStep, RowMoves, RowStored
  <2>3. CASE confs'[c] = confs[c]
    BY <2>1, <2>2, <2>3 DEF ConfOK
  <2>4. CASE confs'[c] # confs[c]
    <3>1. confs[c].state # "none"
      BY <2>1, <2>4 DEF ConfStep
    <3>2. told[c] = "prompt"
      BY <2>1, <3>1 DEF ConfOK, NoConf
    <3> QED BY <2>1, <2>2, <2>4, <3>1, <3>2
            DEF ConfOK, ConfStep, Unconsumed, Bound
  <2> QED BY <2>3, <2>4
<1>2. \A c \in Starts : confs'[c].state = "awaiting_confirmation" =>
         confs[c].state = "awaiting_confirmation"
  BY DEF ConfStep
<1>3. Starts' = Starts /\ \A c : Sender(c)' = Sender(c)
  BY PlanFixed
<1>4. OneCredential'
  BY <1>2, <1>3 DEF OneCredential, Inv
<1> QED BY <1>1, <1>3, <1>4

\* A worker that is left alone stays right.
LEMMA WorkerKept ==
    ASSUME Inv, plan' = plan, now \in Nat, now' \in Nat, now <= now',
           \A m \in Msgs : cmds[m].status # "absent" =>
             cmds'[m].status # "absent" /\ cmds'[m].conf = cmds[m].conf,
           \A c \in Starts : confs[c].key # 0 => confs'[c].key = confs[c].key,
           \A c \in Starts : sent[c] \subseteq sent'[c],
           NEW w \in Workers, wk'[w].pc \in {"down", "idle"} \/ KeepsPass(w)
    PROVE  WorkerOK(w)'
<1>1. CASE wk'[w].pc \in {"down", "idle"}
  BY <1>1 DEF WorkerOK
<1>2. CASE KeepsPass(w) /\ wk[w].pc \notin {"down", "idle"}
  <2> DEFINE m == wk[w].msg
             c == cmds[m].conf
  <2>1. WorkerOK(w) /\ m \in Msgs /\ cmds[m].status # "absent"
        /\ (c # 0 => c \in Starts) /\ cmds[m].created_at \in Nat
        /\ CommandTTL \in Nat
    BY <1>2, WorkerFields, RowFields, InboundAssumption DEF Inv, WorkerOK
  <2>2. /\ wk'[w].pc = wk[w].pc /\ wk'[w].msg = m
        /\ wk'[w].answer = wk[w].answer
        /\ Owns(w)' => cmds'[m] = cmds[m] /\ (Live(m)' => Live(m))
    BY <1>2 DEF KeepsPass
  <2>3. cmds'[m].status # "absent" /\ cmds'[m].conf = c
    BY <2>1
  <2>4. Owns(w)' => Owns(w)
    BY <2>2 DEF Owns
  <2>5. wk[w].pc = "control" => confs'[c].key = m
    BY <2>1 DEF WorkerOK
  <2>6. wk[w].pc = "reply" /\ wk[w].answer = "outcome" /\ c # 0 =>
          m \in sent'[c]
    BY <2>1 DEF WorkerOK
  <2>7. Owns(w)' /\ now' < ExpiresAt(m)' => now < ExpiresAt(m)
    BY <2>1, <2>2 DEF ExpiresAt
  <2> HIDE DEF m, c
  <2>8. /\ wk'[w].pc \notin {"down", "idle"} =>
             wk'[w].msg # 0 /\ cmds'[wk'[w].msg].status # "absent"
        /\ wk'[w].pc = "control" =>
             /\ cmds'[wk'[w].msg].conf # 0
             /\ confs'[cmds'[wk'[w].msg].conf].key = wk'[w].msg
        /\ wk'[w].pc = "reply" => wk'[w].answer # "none"
    BY <2>1, <2>2, <2>3, <2>5, <1>2 DEF WorkerOK, m, c
  <2>9. wk'[w].pc = "reply" /\ wk'[w].answer = "outcome"
          /\ cmds'[wk'[w].msg].conf # 0 =>
             wk'[w].msg \in sent'[cmds'[wk'[w].msg].conf]
    BY <2>2, <2>3, <2>6
  <2>10. wk'[w].pc = "claimed" /\ Owns(w)' =>
          /\ cmds'[wk'[w].msg].status = "dispatching"
          /\ wk'[w].answer = "interrupted" <=> cmds'[wk'[w].msg].interrupted
    BY <2>1, <2>2, <2>4 DEF WorkerOK, m
  <2>11. wk'[w].pc = "reply" /\ wk'[w].answer \in NothingDone
           /\ Owns(w)' /\ now' < (ExpiresAt(wk[w].msg))' => ~Live(wk[w].msg)'
    BY <2>1, <2>2, <2>4, <2>7 DEF WorkerOK, m
  <2> QED BY <2>8, <2>9, <2>10, <2>11 DEF WorkerOK
<1>3. CASE KeepsPass(w) /\ wk[w].pc \in {"down", "idle"}
  BY <1>1, <1>3 DEF KeepsPass
<1> QED BY <1>1, <1>2, <1>3

\* A step that neither binds, sends nor replies keeps the invariant once its
\* worker is right.
LEMMA QuietStep ==
    ASSUME Inv, Typed', plan' = plan, sent' = sent, told' = told, now <= now',
           \A m \in Msgs : RowStep(m),
           \A c \in Starts : ConfStep(c),
           \A m \in Msgs : cmds[m].conf # 0 => typed'[m] = typed[m],
           \A w \in Workers :
             WorkerOK(w)' \/ wk'[w].pc \in {"down", "idle"} \/ KeepsPass(w)
    PROVE  Inv' /\ Stays
<1>1. now \in Nat /\ now' \in Nat
  <2>1. MaxNow \in Nat
    BY InboundAssumption
  <2> QED BY <2>1 DEF Inv, Typed
<1>2. \A m \in Msgs : cmds[m].status # "absent" =>
         cmds'[m].status # "absent" /\ cmds'[m].conf = cmds[m].conf
  BY DEF RowStep, RowMoves, RowStored, Claimed
<1>3. \A c \in Starts : confs[c].key # 0 => confs'[c].key = confs[c].key
  BY DEF ConfStep
<1>4. \A w \in Workers : WorkerOK(w)'
  <2> SUFFICES ASSUME NEW w \in Workers PROVE WorkerOK(w)'
    OBVIOUS
  <2>1. CASE wk'[w].pc \in {"down", "idle"} \/ KeepsPass(w)
    BY <2>1, <1>1, <1>2, <1>3, WorkerKept
  <2> QED BY <2>1
<1>5. (\A m \in Msgs : RowOK(m))'
  BY RowsKept
<1>6. (\A c \in Starts : ConfOK(c))' /\ OneCredential'
  BY ConfsKept
<1>7. Stays
  BY DEF Stays, RowStep, RowMoves, RowStored, Final, Claimed
<1> QED BY <1>4, <1>5, <1>6, <1>7, PlanFixed DEF Inv

\* Such a step makes no binding.
LEMMA LiveBack ==
    ASSUME Inv, \A c \in Starts : ConfStep(c), NEW m \in Msgs,
           cmds'[m].conf = cmds[m].conf
    PROVE  Live(m)' => Live(m)
<1>1. cmds[m].conf # 0 => cmds[m].conf \in Starts
  BY RowFields DEF Inv
<1> QED BY <1>1 DEF Live, ConfStep, Bound, Unconsumed

\* A worker keeps its pass when no row of its own is touched.
LEMMA OthersKeep ==
    ASSUME Inv, \A c \in Starts : ConfStep(c), NEW v \in Workers,
           wk'[v].pc = wk[v].pc, wk'[v].msg = wk[v].msg,
           wk'[v].answer = wk[v].answer,
           \A m \in Msgs : \/ cmds'[m] = cmds[m]
                           \/ cmds'[m].status \notin Claimed
                           \/ cmds'[m].owner # v
    PROVE  KeepsPass(v)
<1> SUFFICES ASSUME wk[v].pc \notin {"down", "idle"}, Owns(v)'
             PROVE  /\ cmds'[wk[v].msg] = cmds[wk[v].msg]
                    /\ Live(wk[v].msg)' => Live(wk[v].msg)
  BY DEF KeepsPass
<1> DEFINE m == wk[v].msg
<1>1. m \in Msgs
  BY WorkerFields DEF Inv, WorkerOK
<1>2. cmds'[m] = cmds[m]
  BY <1>1 DEF Owns
<1>3. Live(m)' => Live(m)
  <2>1. \A k \in Msgs : cmds'[k].conf = cmds[k].conf => (Live(k)' => Live(k))
    BY LiveBack
  <2> QED BY <1>1, <1>2, <2>1 DEF Live
<1> QED BY <1>2, <1>3

\* Rows are taken back and passes end, nothing else.
LEMMA GivenUp ==
    ASSUME Inv, UNCHANGED <<now, plan, pos, typed, confs, sent, told>>,
           faults' \in 0..plan.faults,
           wk' \in [Workers -> WorkerStates], cmds' \in [Msgs -> CommandRows],
           \A m \in Msgs : \/ cmds'[m] = cmds[m]
                           \/ RowMoves(m) /\ cmds'[m].status \notin Claimed,
           \A v \in Workers :
             \/ wk'[v].pc \in {"down", "idle"}
             \/ /\ wk'[v].pc = wk[v].pc /\ wk'[v].msg = wk[v].msg
                /\ wk'[v].answer = wk[v].answer
    PROVE  Inv' /\ Stays
<1>1. Typed'
  BY PlanFixed DEF Inv, Typed
<1>2. \A c \in Starts : ConfStep(c)
  BY DEF ConfStep
<1>3. \A m \in Msgs : RowStep(m)
  BY DEF RowStep
<1>4. \A v \in Workers : wk'[v].pc \in {"down", "idle"} \/ KeepsPass(v)
  <2> SUFFICES ASSUME NEW v \in Workers, wk'[v].pc \notin {"down", "idle"}
               PROVE  KeepsPass(v)
    OBVIOUS
  <2>1. \A m \in Msgs : \/ cmds'[m] = cmds[m]
                        \/ cmds'[m].status \notin Claimed
                        \/ cmds'[m].owner # v
    OBVIOUS
  <2> QED BY <1>2, <2>1, OthersKeep
<1>5. now <= now'
  BY PlanFacts DEF Inv
<1> QED BY <1>1, <1>2, <1>3, <1>4, <1>5, QuietStep

-----------------------------------------------------------------------------
(* The values of the tables.                                               *)

\* The row after its claim is removed.
LEMMA UnclaimedFields ==
    ASSUME NEW row \in CommandRows, NEW s \in Statuses
    PROVE  /\ Unclaimed(row, s) \in CommandRows
           /\ Unclaimed(row, s).status = s
           /\ Unclaimed(row, s).owner = NoWorker
           /\ Unclaimed(row, s).conf = row.conf
           /\ Unclaimed(row, s).created_at = row.created_at
           /\ Unclaimed(row, s).interrupted = row.interrupted
BY DEF Unclaimed, CommandRows

\* The worker after its pass.
LEMMA EndedFields ==
    ASSUME Typed, NEW w \in Workers, EndPass(w)
    PROVE  /\ wk' \in [Workers -> WorkerStates]
           /\ wk'[w].pc = "idle"
           /\ \A v \in Workers : v # w => wk'[v] = wk[v]
<1>1. [Down EXCEPT !.pc = "idle", !.stopping = wk[w].stopping] \in WorkerStates
      /\ [Down EXCEPT !.pc = "idle", !.stopping = wk[w].stopping].pc = "idle"
  BY WorkerFields DEF Down, WorkerStates, Pcs, Answers
<1> QED BY <1>1 DEF EndPass, Typed

\* The worker after its process has ended.
LEMMA DownFields ==
    ASSUME Typed, NEW w \in Workers, wk' = [wk EXCEPT ![w] = Down]
    PROVE  /\ wk' \in [Workers -> WorkerStates]
           /\ wk'[w].pc = "down"
           /\ \A v \in Workers : v # w => wk'[v] = wk[v]
<1>1. Down \in WorkerStates /\ Down.pc = "down"
  BY DEF Down, WorkerStates, Pcs, Answers
<1> QED BY <1>1 DEF Typed

(* Taking rows back.                                                       *)
LEMMA RecoveredRows ==
    ASSUME Inv
    PROVE  /\ RecoverStaleClaims \in [Msgs -> CommandRows]
           /\ cmds' = RecoverStaleClaims =>
                \A m \in Msgs : \/ cmds'[m] = cmds[m]
                                \/ RowMoves(m) /\ cmds'[m].status \notin Claimed
<1> DEFINE new(m) ==
      IF cmds[m].status \in {"received"} \cup Claimed /\ ExpiresAt(m) <= now
        THEN Unclaimed(cmds[m], "expired")
      ELSE IF cmds[m].status = "waiting_gateway"
        THEN [Unclaimed(cmds[m], "received") EXCEPT
                !.interrupted = ~HasBinding(m)]
      ELSE IF /\ cmds[m].status = "dispatching"
              /\ cmds[m].claimed_at < now - StaleClaim
        THEN [Unclaimed(cmds[m], "received") EXCEPT
                !.interrupted = cmds[m].interrupted /\ ~HasBinding(m)]
      ELSE cmds[m]
<1>1. RecoverStaleClaims = [m \in Msgs |-> new(m)]
  BY DEF RecoverStaleClaims, Unclaimed
<1>2. ASSUME NEW m \in Msgs
      PROVE  /\ new(m) \in CommandRows
             /\ \/ new(m) = cmds[m]
                \/ /\ cmds[m].status \in {"received"} \cup Claimed
                   /\ new(m).status \in {"received", "expired"}
                   /\ new(m).conf = cmds[m].conf
                   /\ new(m).created_at = cmds[m].created_at
                   /\ new(m).interrupted => cmds[m].interrupted \/ ~HasBinding(m)
                   /\ new(m).owner = NoWorker
  <2>1. cmds[m] \in CommandRows /\ cmds[m].interrupted \in BOOLEAN
    BY RowFields DEF Inv
  <2>2. /\ "received" \in Statuses /\ "expired" \in Statuses
    BY DEF Statuses, Final
  <2>3. ASSUME NEW b \in BOOLEAN
        PROVE  LET r == [Unclaimed(cmds[m], "received") EXCEPT !.interrupted = b]
               IN  /\ r \in CommandRows /\ r.status = "received"
                   /\ r.owner = NoWorker /\ r.conf = cmds[m].conf
                   /\ r.created_at = cmds[m].created_at /\ r.interrupted = b
    BY <2>1, <2>2 DEF Unclaimed, CommandRows
  <2>4. CASE cmds[m].status \in {"received"} \cup Claimed /\ ExpiresAt(m) <= now
    BY <2>1, <2>2, <2>4, UnclaimedFields
  <2>5. CASE /\ ~(cmds[m].status \in {"received"} \cup Claimed
                  /\ ExpiresAt(m) <= now)
             /\ cmds[m].status = "waiting_gateway"
    <3>1. new(m) = [Unclaimed(cmds[m], "received") EXCEPT
                      !.interrupted = ~HasBinding(m)]
      BY <2>5
    <3>2. (~HasBinding(m)) \in BOOLEAN
      OBVIOUS
    <3> HIDE DEF new
    <3> QED BY <2>3, <2>5, <3>1, <3>2 DEF Claimed
  <2>6. CASE /\ ~(cmds[m].status \in {"received"} \cup Claimed
                  /\ ExpiresAt(m) <= now)
             /\ cmds[m].status # "waiting_gateway"
             /\ cmds[m].status = "dispatching"
             /\ cmds[m].claimed_at < now - StaleClaim
    <3>1. new(m) = [Unclaimed(cmds[m], "received") EXCEPT
                      !.interrupted = cmds[m].interrupted /\ ~HasBinding(m)]
      BY <2>6
    <3>2. (cmds[m].interrupted /\ ~HasBinding(m)) \in BOOLEAN
      BY <2>1 DEF HasBinding
    <3> HIDE DEF new
    <3> QED BY <2>3, <2>6, <3>1, <3>2 DEF Claimed
  <2> QED BY <2>1, <2>4, <2>5, <2>6
<1> HIDE DEF new
<1>3. RecoverStaleClaims \in [Msgs -> CommandRows]
  BY <1>1, <1>2
<1>4. \A m \in Msgs : Live(m) => HasBinding(m)
  BY RowFields DEF Live, HasBinding, Inv
<1>5. ASSUME cmds' = RecoverStaleClaims, NEW m \in Msgs
      PROVE  \/ cmds'[m] = cmds[m]
             \/ RowMoves(m) /\ cmds'[m].status \notin Claimed
  <2>1. cmds'[m] = new(m)
    BY <1>1, <1>5
  <2> QED BY <1>2, <1>4, <2>1 DEF RowMoves, Claimed
<1> QED BY <1>3, <1>5

\* release_claim_at touches the worker's own row only.
LEMMA ReleasedRow ==
    ASSUME Inv, NEW w \in Workers, wk[w].pc \notin {"down", "idle"}
    PROVE  /\ Release(w) \in [Msgs -> CommandRows]
           /\ cmds' = Release(w) =>
                \A m \in Msgs : \/ cmds'[m] = cmds[m]
                                \/ RowMoves(m) /\ cmds'[m].status \notin Claimed
<1> DEFINE m == wk[w].msg
           s == IF ExpiresAt(m) <= now THEN "expired" ELSE "received"
<1>1. m \in Msgs /\ cmds[m] \in CommandRows /\ cmds \in [Msgs -> CommandRows]
  BY WorkerFields, RowFields DEF Inv, WorkerOK, Typed
<1>2. s \in {"received", "expired"} /\ s \in Statuses
  BY DEF Statuses, Final
<1>3. Release(w) = IF Owns(w) THEN [cmds EXCEPT ![m] = Unclaimed(cmds[m], s)]
                   ELSE cmds
  BY DEF Release
<1>4. Owns(w) => cmds[m].status \in Claimed
  BY DEF Owns
<1> HIDE DEF m, s
<1>5. Release(w) \in [Msgs -> CommandRows]
  BY <1>1, <1>2, <1>3, UnclaimedFields
<1>6. ASSUME cmds' = Release(w), NEW k \in Msgs
      PROVE  \/ cmds'[k] = cmds[k]
             \/ RowMoves(k) /\ cmds'[k].status \notin Claimed
  <2>1. cmds'[k] = cmds[k] \/ (k = m /\ Owns(w) /\ cmds'[k] = Unclaimed(cmds[k], s))
    BY <1>1, <1>3, <1>6
  <2> QED BY <1>1, <1>2, <1>4, <2>1, UnclaimedFields DEF RowMoves, Claimed
<1> QED BY <1>5, <1>6

\* interrupt_claim_at marks a row only without a binding.
LEMMA InterruptedRow ==
    ASSUME Inv, NEW w \in Workers, wk[w].pc \notin {"down", "idle"}
    PROVE  /\ Interrupted(w) \in [Msgs -> CommandRows]
           /\ cmds' = Interrupted(w) =>
                \A m \in Msgs : \/ cmds'[m] = cmds[m]
                                \/ RowMoves(m) /\ cmds'[m].status \notin Claimed
<1> DEFINE m == wk[w].msg
           b == \/ cmds[m].interrupted
                \/ cmds[m].status = "waiting_gateway" /\ ~HasBinding(m)
           r == [Unclaimed(cmds[m], "received") EXCEPT !.interrupted = b]
<1>1. m \in Msgs /\ cmds[m] \in CommandRows /\ cmds \in [Msgs -> CommandRows]
      /\ cmds[m].interrupted \in BOOLEAN
  BY WorkerFields, RowFields DEF Inv, WorkerOK, Typed
<1>2. b \in BOOLEAN /\ "received" \in Statuses
  BY <1>1 DEF Statuses
<1>3. Interrupted(w) = IF Owns(w) THEN [cmds EXCEPT ![m] = r] ELSE cmds
  <2>1. Unclaimed(cmds[m], "received").interrupted = cmds[m].interrupted
    BY <1>1, <1>2, UnclaimedFields
  <2> QED BY <2>1 DEF Interrupted
<1>4. Owns(w) => cmds[m].status \in Claimed
  BY DEF Owns
<1>5. b => cmds[m].interrupted \/ ~Live(m)
  <2>1. Live(m) => HasBinding(m)
    BY <1>1, RowFields DEF Live, HasBinding, Inv
  <2> QED BY <2>1
<1> HIDE DEF b
<1>6. /\ r \in CommandRows /\ r.status = "received" /\ r.owner = NoWorker
      /\ r.conf = cmds[m].conf /\ r.created_at = cmds[m].created_at
      /\ r.interrupted = b
  BY <1>1, <1>2 DEF Unclaimed, CommandRows
<1> HIDE DEF m, r
<1>7. Interrupted(w) \in [Msgs -> CommandRows]
  BY <1>1, <1>3, <1>6
<1>8. ASSUME cmds' = Interrupted(w), NEW k \in Msgs
      PROVE  \/ cmds'[k] = cmds[k]
             \/ RowMoves(k) /\ cmds'[k].status \notin Claimed
  <2>1. cmds'[k] = cmds[k] \/ (k = m /\ Owns(w) /\ cmds'[k] = r)
    BY <1>1, <1>3, <1>8
  <2> QED BY <1>4, <1>5, <1>6, <2>1 DEF RowMoves, Claimed
<1> QED BY <1>7, <1>8

-----------------------------------------------------------------------------
(* Steps that end a pass, or take rows back.                               *)

\* A pass ends, with or without its row being given back.
LEMMA PassEnds ==
    ASSUME Inv, NEW w \in Workers,
           UNCHANGED <<now, plan, pos, typed, confs, faults, sent, told>>,
           EndPass(w) \/ wk' = [wk EXCEPT ![w] = Down],
           cmds' \in [Msgs -> CommandRows],
           \A m \in Msgs : \/ cmds'[m] = cmds[m]
                           \/ RowMoves(m) /\ cmds'[m].status \notin Claimed
    PROVE  Inv' /\ Stays
<1>1. Typed /\ faults' \in 0..plan.faults
  BY DEF Inv, Typed
<1>2. /\ wk' \in [Workers -> WorkerStates]
      /\ wk'[w].pc \in {"down", "idle"}
      /\ \A v \in Workers : v # w => wk'[v] = wk[v]
  BY <1>1, EndedFields, DownFields
<1> QED BY <1>1, <1>2, GivenUp

\* Start recovers.
LEMMA StartKeeps ==
    ASSUME Inv, NEW w \in Workers, Start(w)
    PROVE  Inv' /\ Stays
<1>1. RecoverStaleClaims \in [Msgs -> CommandRows]
  BY RecoveredRows
<1>2. cmds' = RecoverStaleClaims /\ EndPass(w)
      /\ UNCHANGED <<now, plan, pos, typed, confs, faults, sent, told>>
  BY DEF Start, feedVars
<1>3. \A m \in Msgs : \/ cmds'[m] = cmds[m]
                      \/ RowMoves(m) /\ cmds'[m].status \notin Claimed
  BY <1>2, RecoveredRows
<1> QED BY <1>1, <1>2, <1>3, PassEnds

\* RecoveryScan recovers.
LEMMA RecoveryScanKeeps ==
    ASSUME Inv, NEW w \in Workers, RecoveryScan(w)
    PROVE  Inv' /\ Stays
<1>1. RecoverStaleClaims \in [Msgs -> CommandRows]
  BY RecoveredRows
<1>2. cmds' = RecoverStaleClaims
      /\ UNCHANGED <<now, plan, pos, typed, confs, wk, faults, sent, told>>
  BY DEF RecoveryScan, feedVars
<1>3. \A m \in Msgs : \/ cmds'[m] = cmds[m]
                      \/ RowMoves(m) /\ cmds'[m].status \notin Claimed
  BY <1>2, RecoveredRows
<1>4. faults' \in 0..plan.faults /\ wk' \in [Workers -> WorkerStates]
  BY <1>2 DEF Inv, Typed
<1> QED BY <1>1, <1>2, <1>3, <1>4, GivenUp

\* ReleaseOnStop and ReplyTooLate release.
LEMMA ReleaseKeeps ==
    ASSUME Inv, NEW w \in Workers, ReleaseOnStop(w) \/ ReplyTooLate(w)
    PROVE  Inv' /\ Stays
<1>1. /\ cmds' = Release(w) /\ EndPass(w) /\ wk[w].pc \notin {"down", "idle"}
      /\ UNCHANGED <<now, plan, pos, typed, confs, faults, sent, told>>
  BY DEF ReleaseOnStop, ReplyTooLate, feedVars
<1>2. Release(w) \in [Msgs -> CommandRows]
  BY <1>1, ReleasedRow
<1>3. \A m \in Msgs : \/ cmds'[m] = cmds[m]
                      \/ RowMoves(m) /\ cmds'[m].status \notin Claimed
  BY <1>1, ReleasedRow
<1> QED BY <1>1, <1>2, <1>3, PassEnds

\* InterruptReply interrupts.
LEMMA InterruptReplyKeeps ==
    ASSUME Inv, NEW w \in Workers, InterruptReply(w)
    PROVE  Inv' /\ Stays
<1>1. /\ cmds' = Interrupted(w) /\ EndPass(w) /\ wk[w].pc \notin {"down", "idle"}
      /\ UNCHANGED <<now, plan, pos, typed, confs, faults, sent, told>>
  BY DEF InterruptReply, feedVars
<1>2. Interrupted(w) \in [Msgs -> CommandRows]
  BY <1>1, InterruptedRow
<1>3. \A m \in Msgs : \/ cmds'[m] = cmds[m]
                      \/ RowMoves(m) /\ cmds'[m].status \notin Claimed
  BY <1>1, InterruptedRow
<1> QED BY <1>1, <1>2, <1>3, PassEnds

\* A pass that ends and leaves its row as it is.
LEMMA LeavingKeeps ==
    ASSUME Inv, NEW w \in Workers,
           UNCHANGED <<now, plan, pos, typed, cmds, confs, faults, sent, told>>,
           EndPass(w) \/ wk' = [wk EXCEPT ![w] = Down]
    PROVE  Inv' /\ Stays
<1>1. cmds' \in [Msgs -> CommandRows]
  BY DEF Inv, Typed
<1> QED BY <1>1, PassEnds

\* WorkerEnds, GatewayAbandoned and ReplyRefused leave the row to the recovery.
LEMMA LeavesKeep ==
    ASSUME Inv, NEW w \in Workers,
           WorkerEnds(w) \/ GatewayAbandoned(w) \/ ReplyRefused(w)
    PROVE  Inv' /\ Stays
<1>1. /\ UNCHANGED <<now, plan, pos, typed, cmds, confs, faults, sent, told>>
      /\ EndPass(w) \/ wk' = [wk EXCEPT ![w] = Down]
  BY DEF WorkerEnds, GatewayAbandoned, ReplyRefused, feedVars
<1> QED BY <1>1, LeavingKeeps

\* A request to stop, or a crash.
LEMMA StopKeeps ==
    ASSUME Inv, NEW w \in Workers, RequestStop(w) \/ Crash(w)
    PROVE  Inv' /\ Stays
<1>1. /\ UNCHANGED <<now, plan, pos, typed, cmds, confs, sent, told>>
      /\ faults < plan.faults /\ faults' = faults + 1
      /\ \/ wk' = [wk EXCEPT ![w] = Down]
         \/ wk' = [wk EXCEPT ![w].stopping = TRUE]
  BY DEF RequestStop, Crash, Fault, feedVars
<1>2. Typed /\ wk \in [Workers -> WorkerStates] /\ faults \in 0..plan.faults
      /\ cmds' \in [Msgs -> CommandRows]
  BY <1>1 DEF Inv, Typed
<1>3. faults' \in 0..plan.faults
  <2>1. plan.faults \in Nat
    BY <1>2, PlanFacts
  <2> QED BY <1>1, <1>2, <2>1
<1>4. CASE wk' = [wk EXCEPT ![w] = Down]
  <2>1. /\ wk' \in [Workers -> WorkerStates] /\ wk'[w].pc = "down"
        /\ \A v \in Workers : v # w => wk'[v] = wk[v]
    BY <1>2, <1>4, DownFields
  <2> QED BY <1>1, <1>2, <1>3, <2>1, GivenUp
<1>5. CASE wk' = [wk EXCEPT ![w].stopping = TRUE]
  <2>1. /\ wk' \in [Workers -> WorkerStates]
        /\ \A v \in Workers : wk'[v].pc = wk[v].pc /\ wk'[v].msg = wk[v].msg
                              /\ wk'[v].answer = wk[v].answer
    BY <1>2, <1>5 DEF WorkerStates
  <2> QED BY <1>1, <1>2, <1>3, <2>1, GivenUp
<1> QED BY <1>1, <1>4, <1>5

\* ControlRetries puts the row back; its binding stays.
LEMMA ControlRetriesKeeps ==
    ASSUME Inv, NEW w \in Workers, ControlRetries(w)
    PROVE  Inv' /\ Stays
<1> DEFINE m == wk[w].msg
           r == [Unclaimed(cmds[m], "received") EXCEPT
                   !.next_attempt_at = wk[w].at + RetryDelay,
                   !.interrupted = FALSE]
<1>1. /\ EndPass(w)
      /\ UNCHANGED <<now, plan, pos, typed, confs, faults, sent, told>>
      /\ wk[w].pc = "control"
      /\ \/ cmds' = cmds
         \/ StillWaiting(w) /\ cmds' = [cmds EXCEPT ![m] = r]
  BY DEF ControlRetries, feedVars
<1>2. m \in Msgs /\ cmds[m] \in CommandRows /\ cmds \in [Msgs -> CommandRows]
  BY <1>1, WorkerFields, RowFields DEF Inv, WorkerOK, Typed
<1>3. wk[w].at + RetryDelay \in Nat
  BY WorkerFields, InboundAssumption DEF Inv
<1>4. /\ r \in CommandRows /\ r.status = "received" /\ r.owner = NoWorker
      /\ r.conf = cmds[m].conf /\ r.created_at = cmds[m].created_at
      /\ ~r.interrupted
  BY <1>2, <1>3 DEF Unclaimed, CommandRows, Statuses
<1>5. StillWaiting(w) => cmds[m].status \in Claimed
  BY DEF StillWaiting, Owns
<1> HIDE DEF m, r
<1>6. cmds' \in [Msgs -> CommandRows]
  BY <1>1, <1>2, <1>4
<1>7. ASSUME NEW k \in Msgs
      PROVE  \/ cmds'[k] = cmds[k]
             \/ RowMoves(k) /\ cmds'[k].status \notin Claimed
  <2>1. cmds'[k] = cmds[k] \/ (k = m /\ StillWaiting(w) /\ cmds'[k] = r)
    BY <1>1, <1>2
  <2> QED BY <1>4, <1>5, <2>1 DEF RowMoves, Claimed
<1> QED BY <1>1, <1>6, <1>7, PassEnds

-----------------------------------------------------------------------------
(* Steps that put an answer in a worker's hands.                           *)

\* A worker gets an answer: it must be right when it is taken.
LEMMA Answered ==
    ASSUME Inv, NEW w \in Workers, wk[w].pc \notin {"down", "idle"},
           UNCHANGED <<now, plan, pos, typed, cmds, faults, sent, told>>,
           confs' \in [Starts -> ConfirmationRows],
           \A c \in Starts : ConfStep(c),
           wk' \in [Workers -> WorkerStates],
           \A v \in Workers : v # w => wk'[v] = wk[v],
           wk'[w].pc = "reply", wk'[w].msg = wk[w].msg,
           wk'[w].answer # "none",
           wk'[w].answer = "outcome" /\ cmds[wk[w].msg].conf # 0 =>
             wk[w].msg \in sent[cmds[wk[w].msg].conf],
           wk'[w].answer \in NothingDone /\ Owns(w)
             /\ now < ExpiresAt(wk[w].msg) => ~Live(wk[w].msg)
    PROVE  Inv' /\ Stays
<1> DEFINE m == wk[w].msg
<1>1. Typed'
  BY PlanFixed DEF Inv, Typed
<1>2. \A k \in Msgs : RowStep(k)
  BY DEF RowStep
<1>3. m \in Msgs /\ m # 0 /\ cmds[m].status # "absent"
  BY WorkerFields, PlanFacts DEF Inv, WorkerOK
<1>4. Live(m)' => Live(m)
  <2>1. \A k \in Msgs : cmds'[k].conf = cmds[k].conf => (Live(k)' => Live(k))
    BY LiveBack
  <2> QED BY <1>3, <2>1 DEF Live
<1>5. Owns(w)' => Owns(w)
  BY DEF Owns
<1>6. ExpiresAt(m)' = ExpiresAt(m)
  BY DEF ExpiresAt
<1>7. WorkerOK(w)'
  <2>1. wk'[w].answer \in NothingDone /\ Owns(w)' /\ now' < (ExpiresAt(wk[w].msg))'
          => ~Live(wk[w].msg)'
    BY <1>4, <1>5, <1>6 DEF ExpiresAt
  <2> QED BY <1>3, <2>1 DEF WorkerOK, ExpiresAt, Live, Owns
<1>8. \A v \in Workers : WorkerOK(v)' \/ KeepsPass(v)
  <2> SUFFICES ASSUME NEW v \in Workers, v # w PROVE KeepsPass(v)
    BY <1>7
  <2>1. \A k \in Msgs : cmds'[k] = cmds[k]
    OBVIOUS
  <2> QED BY <2>1, OthersKeep
<1>9. now <= now'
  BY PlanFacts DEF Inv
<1> QED BY <1>1, <1>2, <1>8, <1>9, QuietStep

\* The worker with an answer in hand.
LEMMA AnswerFields ==
    ASSUME Typed, NEW w \in Workers, NEW a \in Answers, Answer(w, a)
    PROVE  /\ wk' \in [Workers -> WorkerStates]
           /\ \A v \in Workers : v # w => wk'[v] = wk[v]
           /\ wk'[w].pc = "reply" /\ wk'[w].msg = wk[w].msg
           /\ wk'[w].answer = a
<1> DEFINE r == [wk[w] EXCEPT !.pc = "reply", !.answer = a]
<1>1. wk \in [Workers -> WorkerStates] /\ wk[w] \in WorkerStates
  BY DEF Typed
<1>2. r \in WorkerStates /\ r.pc = "reply" /\ r.msg = wk[w].msg /\ r.answer = a
  BY <1>1 DEF WorkerStates, Pcs
<1>3. wk' = [wk EXCEPT ![w] = r]
  BY <1>1 DEF Answer
<1> HIDE DEF r
<1> QED BY <1>1, <1>2, <1>3

\* No confirmation changes.
LEMMA ConfsStill ==
    ASSUME Inv, confs' = confs
    PROVE  confs' \in [Starts -> ConfirmationRows] /\ \A c \in Starts : ConfStep(c)
BY DEF ConfStep, Inv, Typed

\* Answers that say nothing about a control command.
LEMMA PlainKeeps ==
    ASSUME Inv, NEW w \in Workers, AnswerLocally(w) \/ GatewayAnswers(w)
    PROVE  Inv' /\ Stays
<1>1. /\ wk[w].pc \notin {"down", "idle"} /\ Answer(w, "plain")
      /\ UNCHANGED <<now, plan, pos, typed, cmds, confs, faults, sent, told>>
  BY DEF AnswerLocally, GatewayAnswers, Executes, feedVars
<1>2. Typed /\ "plain" \in Answers /\ "plain" \notin NothingDone
  BY DEF Inv, Answers, NothingDone
<1>3. /\ wk' \in [Workers -> WorkerStates]
      /\ \A v \in Workers : v # w => wk'[v] = wk[v]
      /\ wk'[w].pc = "reply" /\ wk'[w].msg = wk[w].msg
      /\ wk'[w].answer = "plain"
  BY <1>1, <1>2, AnswerFields
<1>4. confs' \in [Starts -> ConfirmationRows] /\ \A c \in Starts : ConfStep(c)
  BY <1>1, ConfsStill
<1> QED BY <1>1, <1>2, <1>3, <1>4, Answered

\* An interrupted row that is still owned has no binding.
LEMMA AnswerInterruptedKeeps ==
    ASSUME Inv, NEW w \in Workers, AnswerInterrupted(w)
    PROVE  Inv' /\ Stays
<1>1. /\ wk[w].pc = "claimed" /\ wk[w].answer = "interrupted"
      /\ Answer(w, "interrupted")
      /\ UNCHANGED <<now, plan, pos, typed, cmds, confs, faults, sent, told>>
  BY DEF AnswerInterrupted, feedVars
<1>2. Typed /\ "interrupted" \in Answers
  BY DEF Inv, Answers
<1>3. /\ wk' \in [Workers -> WorkerStates]
      /\ \A v \in Workers : v # w => wk'[v] = wk[v]
      /\ wk'[w].pc = "reply" /\ wk'[w].msg = wk[w].msg
      /\ wk'[w].answer = "interrupted"
  BY <1>1, <1>2, AnswerFields
<1>4. confs' \in [Starts -> ConfirmationRows] /\ \A c \in Starts : ConfStep(c)
  BY <1>1, ConfsStill
<1>5. WorkerOK(w) /\ wk[w].msg \in Msgs
  BY <1>1, <1>2, WorkerFields DEF Inv, WorkerOK
<1>6. Owns(w) => ~Live(wk[w].msg)
  <2>1. Owns(w) => cmds[wk[w].msg].interrupted
    BY <1>1, <1>5 DEF WorkerOK
  <2>2. RowOK(wk[w].msg)
    BY <1>5 DEF Inv
  <2> QED BY <2>1, <2>2 DEF RowOK
<1>7. wk[w].pc \notin {"down", "idle"} /\ wk'[w].answer \notin {"none", "outcome"}
  BY <1>1, <1>3
<1> QED BY <1>1, <1>3, <1>4, <1>6, <1>7, Answered

\* The prompt is in hand; the confirmation is not stored yet.
LEMMA PrepareConfirmationKeeps ==
    ASSUME Inv, NEW w \in Workers, PrepareConfirmation(w)
    PROVE  Inv' /\ Stays
<1>1. /\ wk[w].pc \notin {"down", "idle"}
      /\ wk' = [wk EXCEPT ![w].pc = "reply", ![w].answer = "prompt",
                          ![w].expires = now + ConfirmTTL]
      /\ UNCHANGED <<now, plan, pos, typed, cmds, confs, faults, sent, told>>
  BY DEF PrepareConfirmation, Executes, feedVars
<1>2. now + ConfirmTTL \in Nat
  BY PlanFacts, InboundAssumption DEF Inv
<1>3. /\ wk' \in [Workers -> WorkerStates]
      /\ \A v \in Workers : v # w => wk'[v] = wk[v]
      /\ wk'[w].pc = "reply" /\ wk'[w].msg = wk[w].msg
      /\ wk'[w].answer = "prompt"
  <2> DEFINE e == now + ConfirmTTL
             r == [wk[w] EXCEPT !.pc = "reply", !.answer = "prompt",
                                !.expires = e]
  <2>1. /\ e \in Nat /\ wk \in [Workers -> WorkerStates]
        /\ wk[w] \in WorkerStates
    BY <1>2 DEF Inv, Typed
  <2>2. wk' = [wk EXCEPT ![w] = r]
    BY <1>1, <2>1
  <2> HIDE DEF e
  <2>3. /\ r \in WorkerStates /\ r.pc = "reply" /\ r.msg = wk[w].msg
        /\ r.answer = "prompt"
    BY <2>1 DEF WorkerStates, Pcs, Answers
  <2> HIDE DEF r
  <2> QED BY <2>1, <2>2, <2>3
<1>4. confs' \in [Starts -> ConfirmationRows] /\ \A c \in Starts : ConfStep(c)
  BY <1>1, ConfsStill
<1>5. wk'[w].answer \notin {"none", "outcome"} \cup NothingDone
  BY <1>3 DEF NothingDone
<1> QED BY <1>1, <1>3, <1>4, <1>5, Answered

\* A deleted confirmation keeps what it was bound to.
LEMMA DeletedFields ==
    ASSUME Typed, NEW c \in Starts
    PROVE  LET r == [confs[c] EXCEPT !.state = "deleted"]
           IN  /\ r \in ConfirmationRows /\ r.state = "deleted"
               /\ r.key = confs[c].key /\ r.expires_at = confs[c].expires_at
               /\ r.attempts = confs[c].attempts
BY ConfFields DEF ConfirmationRows, States

\* cancel_confirmations_at deletes, and never a pending dispatch.
LEMMA CancelConfirmationsKeeps ==
    ASSUME Inv, NEW w \in Workers, CancelConfirmations(w)
    PROVE  Inv' /\ Stays
<1> DEFINE P(c) == /\ Sender(c) = Sender(wk[w].msg)
                   /\ Due(c) \/ confs[c].state \in Unconsumed
<1>1. /\ wk[w].pc \notin {"down", "idle"} /\ Answer(w, "plain")
      /\ confs' = [c \in Starts |->
                     IF P(c) THEN [confs[c] EXCEPT !.state = "deleted"]
                     ELSE confs[c]]
      /\ UNCHANGED <<now, plan, pos, typed, cmds, faults, sent, told>>
  BY DEF CancelConfirmations, Executes, feedVars
<1>2. Typed /\ "plain" \in Answers /\ "plain" \notin NothingDone
  BY DEF Inv, Answers, NothingDone
<1>3. /\ wk' \in [Workers -> WorkerStates]
      /\ \A v \in Workers : v # w => wk'[v] = wk[v]
      /\ wk'[w].pc = "reply" /\ wk'[w].msg = wk[w].msg
      /\ wk'[w].answer = "plain"
  BY <1>1, <1>2, AnswerFields
<1>4. \A c \in Starts : P(c) => confs[c].state # "none"
  BY DEF Due, Unconsumed
<1> HIDE DEF P
<1>5. confs' \in [Starts -> ConfirmationRows]
  BY <1>1, <1>2, ConfFields, DeletedFields
<1>6. \A c \in Starts : ConfStep(c)
  <2> SUFFICES ASSUME NEW c \in Starts PROVE ConfStep(c)
    OBVIOUS
  <2>1. confs'[c] = IF P(c) THEN [confs[c] EXCEPT !.state = "deleted"]
                    ELSE confs[c]
    BY <1>1
  <2> QED BY <1>2, <1>4, <2>1, DeletedFields DEF ConfStep
<1> QED BY <1>1, <1>2, <1>3, <1>5, <1>6, Answered

-----------------------------------------------------------------------------
(* The control of a device.                                                *)

\* persist_control_outcome_at and fail_control_dispatch_at.
LEMMA RecordKeeps ==
    ASSUME Inv, NEW w \in Workers, wk[w].pc = "control",
           NEW s \in {"outcome", "failed"}, Record(w, s, s),
           s = "outcome" => wk[w].msg \in sent[cmds[wk[w].msg].conf],
           UNCHANGED <<now, plan, pos, typed, cmds, faults, sent, told>>
    PROVE  Inv' /\ Stays
<1> DEFINE m == wk[w].msg
           c == cmds[m].conf
<1>1. CASE EndPass(w) /\ UNCHANGED confs
  BY <1>1, LeavingKeeps
<1>2. CASE /\ StillWaiting(w) /\ confs[c].key = m /\ confs[c].state = "pending"
           /\ confs' = [confs EXCEPT ![c].state = s] /\ Answer(w, s)
  <2>1. Typed /\ s \in Answers /\ s \notin NothingDone /\ s # "none"
    BY DEF Inv, Answers, NothingDone
  <2>2. m \in Msgs /\ c \in Starts
    BY <2>1, WorkerFields, RowFields DEF Inv, WorkerOK
  <2>3. /\ wk' \in [Workers -> WorkerStates]
        /\ \A v \in Workers : v # w => wk'[v] = wk[v]
        /\ wk'[w].pc = "reply" /\ wk'[w].msg = m /\ wk'[w].answer = s
    BY <1>2, <2>1, AnswerFields
  <2>4. confs' \in [Starts -> ConfirmationRows]
    <3>1. confs \in [Starts -> ConfirmationRows]
      BY <2>1 DEF Typed
    <3> QED BY <1>2, <2>2, <3>1 DEF ConfirmationRows, States, Bound
  <2>5. \A d \in Starts : ConfStep(d)
    <3> SUFFICES ASSUME NEW d \in Starts PROVE ConfStep(d)
      OBVIOUS
    <3>1. CASE d # c
      BY <1>2, <2>1, <2>2, <3>1 DEF ConfStep, Typed
    <3>2. CASE d = c
      <4>1. /\ confs'[c].state = s /\ confs'[c].key = confs[c].key
            /\ confs'[c].expires_at = confs[c].expires_at
            /\ confs'[c].attempts = confs[c].attempts
        BY <1>2, <2>1, <2>2 DEF Typed, ConfirmationRows
      <4> QED BY <1>2, <3>2, <4>1 DEF ConfStep
    <3> QED BY <3>1, <3>2
  <2> QED BY <2>1, <2>3, <2>4, <2>5, Answered
<1> QED BY <1>1, <1>2 DEF Record

\* ControlAnswered and ControlFailed record, or find the claim lost.
LEMMA ControlEndsKeeps ==
    ASSUME Inv, NEW w \in Workers, ControlAnswered(w) \/ ControlFailed(w)
    PROVE  Inv' /\ Stays
<1>1. /\ UNCHANGED <<now, plan, pos, typed, cmds, faults, sent, told>>
      /\ wk[w].pc = "control"
      /\ \/ Record(w, "outcome", "outcome")
            /\ wk[w].msg \in sent[cmds[wk[w].msg].conf]
         \/ Record(w, "failed", "failed")
  BY DEF ControlAnswered, ControlFailed, feedVars
<1> QED BY <1>1, RecordKeeps

\* mark_waiting_gateway_at.
LEMMA WaitingRow ==
    ASSUME Inv, NEW w \in Workers, wk[w].pc = "claimed", CanWait(w),
           cmds' = Waiting(w)
    PROVE  LET m == wk[w].msg
           IN  /\ m \in Msgs
               /\ cmds' \in [Msgs -> CommandRows]
               /\ cmds'[m].status = "waiting_gateway" /\ cmds'[m].owner = w
               /\ cmds'[m].conf = cmds[m].conf
               /\ cmds'[m].created_at = cmds[m].created_at
               /\ cmds'[m].interrupted = cmds[m].interrupted
               /\ \A k \in Msgs : k # m => cmds'[k] = cmds[k]
               /\ RowMoves(m)
<1> DEFINE m == wk[w].msg
<1>1. m \in Msgs /\ cmds[m] \in CommandRows /\ cmds \in [Msgs -> CommandRows]
  BY WorkerFields, RowFields DEF Inv, WorkerOK, Typed
<1>2. cmds[m].status = "dispatching" /\ cmds[m].owner = w
  BY DEF CanWait, Owns
<1>3. cmds' = [cmds EXCEPT ![m].status = "waiting_gateway",
                           ![m].next_attempt_at = 0]
  BY DEF Waiting
<1>4. /\ cmds' \in [Msgs -> CommandRows]
      /\ cmds'[m].status = "waiting_gateway" /\ cmds'[m].owner = cmds[m].owner
      /\ cmds'[m].conf = cmds[m].conf
      /\ cmds'[m].created_at = cmds[m].created_at
      /\ cmds'[m].interrupted = cmds[m].interrupted
      /\ \A k \in Msgs : k # m => cmds'[k] = cmds[k]
  BY <1>1, <1>3 DEF CommandRows, Statuses, Claimed
<1>5. RowMoves(m)
  BY <1>2, <1>4 DEF RowMoves, Claimed
<1> QED BY <1>1, <1>2, <1>4, <1>5

\* AskGateway waits, or leaves a lost claim.
LEMMA AskGatewayKeeps ==
    ASSUME Inv, NEW w \in Workers, AskGateway(w)
    PROVE  Inv' /\ Stays
<1> DEFINE m == wk[w].msg
<1>1. /\ wk[w].pc = "claimed"
      /\ UNCHANGED <<now, plan, pos, typed, confs, faults, sent, told>>
  BY DEF AskGateway, Executes, feedVars
<1>2. CASE EndPass(w) /\ UNCHANGED cmds
  BY <1>1, <1>2, LeavingKeeps
<1>3. CASE /\ CanWait(w) /\ cmds' = Waiting(w)
           /\ wk' = [wk EXCEPT ![w].pc = "query"]
  <2>1. /\ m \in Msgs
        /\ cmds' \in [Msgs -> CommandRows]
        /\ cmds'[m].status = "waiting_gateway" /\ cmds'[m].owner = w
        /\ cmds'[m].conf = cmds[m].conf
        /\ \A k \in Msgs : k # m => cmds'[k] = cmds[k]
        /\ RowMoves(m)
    BY <1>1, <1>3, WaitingRow
  <2>2. /\ wk' \in [Workers -> WorkerStates]
        /\ \A v \in Workers : v # w => wk'[v] = wk[v]
        /\ wk'[w].pc = "query" /\ wk'[w].msg = m
    BY <1>3 DEF Inv, Typed, WorkerStates, Pcs
  <2>3. Typed'
    BY <1>1, <2>1, <2>2, PlanFixed DEF Inv, Typed
  <2>4. \A k \in Msgs : RowStep(k)
    BY <2>1 DEF RowStep
  <2>5. \A c \in Starts : ConfStep(c)
    BY <1>1, ConfsStill
  <2>6. WorkerOK(w)'
    <3>1. m # 0
      BY <2>1, PlanFacts DEF Inv
    <3> QED BY <2>1, <2>2, <3>1 DEF WorkerOK
  <2>7. \A v \in Workers : WorkerOK(v)' \/ KeepsPass(v)
    <3> SUFFICES ASSUME NEW v \in Workers, v # w PROVE KeepsPass(v)
      BY <2>6
    <3>1. \A k \in Msgs : cmds'[k] = cmds[k] \/ cmds'[k].owner # v
      BY <2>1
    <3> QED BY <2>2, <2>5, <3>1, OthersKeep
  <2>8. now <= now'
    BY <1>1, PlanFacts DEF Inv
  <2> QED BY <1>1, <2>3, <2>4, <2>5, <2>7, <2>8, QuietStep
<1> QED BY <1>2, <1>3 DEF AskGateway

\* ClaimNext remembers whether the row was interrupted.
LEMMA ClaimNextKeeps ==
    ASSUME Inv, NEW w \in Workers, ClaimNext(w)
    PROVE  Inv' /\ Stays
<1>1. UNCHANGED <<now, plan, pos, typed, confs, faults, sent, told>>
  BY DEF ClaimNext, feedVars
<1>2. PICK m \in Ready :
         /\ cmds' = [cmds EXCEPT ![m].status = "dispatching", ![m].owner = w,
                                 ![m].claimed_at = now,
                                 ![m].next_attempt_at = 0]
         /\ wk' = [wk EXCEPT ![w].pc = "claimed", ![w].msg = m,
                             ![w].answer = IF cmds[m].interrupted
                                             THEN "interrupted" ELSE "none"]
  BY DEF ClaimNext
<1> DEFINE a == IF cmds[m].interrupted THEN "interrupted" ELSE "none"
<1>3. m \in Msgs /\ cmds[m].status = "received" /\ now \in Nat /\ m # 0
  BY PlanFacts DEF Ready, Inv
<1>4. /\ cmds' \in [Msgs -> CommandRows]
      /\ cmds'[m].status = "dispatching" /\ cmds'[m].owner = w
      /\ cmds'[m].conf = cmds[m].conf
      /\ cmds'[m].created_at = cmds[m].created_at
      /\ cmds'[m].interrupted = cmds[m].interrupted
      /\ \A k \in Msgs : k # m => cmds'[k] = cmds[k]
  <2>1. cmds \in [Msgs -> CommandRows] /\ w \in Workers /\ now \in Nat
        /\ "dispatching" \in Statuses
    BY <1>3 DEF Inv, Typed, Statuses, Claimed
  <2> DEFINE r == [cmds[m] EXCEPT !.status = "dispatching", !.owner = w,
                                  !.claimed_at = now, !.next_attempt_at = 0]
  <2>2. cmds[m] \in CommandRows
    BY <1>3, <2>1
  <2>3. /\ r \in CommandRows /\ r.status = "dispatching" /\ r.owner = w
        /\ r.conf = cmds[m].conf /\ r.created_at = cmds[m].created_at
        /\ r.interrupted = cmds[m].interrupted
    BY <2>1, <2>2 DEF CommandRows
  <2>4. cmds' = [cmds EXCEPT ![m] = r]
    BY <1>2, <1>3, <2>1
  <2> HIDE DEF r
  <2> QED BY <1>3, <2>1, <2>3, <2>4
<1>5. a \in Answers /\ (a = "interrupted" <=> cmds[m].interrupted)
  BY DEF Answers
<1>6. wk' = [wk EXCEPT ![w].pc = "claimed", ![w].msg = m, ![w].answer = a]
  BY <1>2
<1> HIDE DEF a
<1>7. /\ wk' \in [Workers -> WorkerStates]
      /\ \A v \in Workers : v # w => wk'[v] = wk[v]
      /\ wk'[w].pc = "claimed" /\ wk'[w].msg = m /\ wk'[w].answer = a
  <2> DEFINE r == [wk[w] EXCEPT !.pc = "claimed", !.msg = m, !.answer = a]
  <2>1. wk \in [Workers -> WorkerStates] /\ wk[w] \in WorkerStates
    BY DEF Inv, Typed
  <2>2. r \in WorkerStates /\ r.pc = "claimed" /\ r.msg = m /\ r.answer = a
    BY <1>3, <1>5, <2>1 DEF WorkerStates, Pcs
  <2>3. wk' = [wk EXCEPT ![w] = r]
    BY <1>6, <2>1
  <2> HIDE DEF r
  <2> QED BY <2>1, <2>2, <2>3
<1>8. Typed'
  BY <1>1, <1>4, <1>7, PlanFixed DEF Inv, Typed
<1>9. \A k \in Msgs : RowStep(k)
  <2>1. RowMoves(m)
    BY <1>3, <1>4 DEF RowMoves, Claimed
  <2> QED BY <1>4, <2>1 DEF RowStep
<1>10. \A c \in Starts : ConfStep(c)
  BY <1>1, ConfsStill
<1>11. WorkerOK(w)'
  BY <1>3, <1>4, <1>5, <1>7 DEF WorkerOK
<1>12. \A v \in Workers : WorkerOK(v)' \/ KeepsPass(v)
  <2> SUFFICES ASSUME NEW v \in Workers, v # w PROVE KeepsPass(v)
    BY <1>11
  <2>1. \A k \in Msgs : cmds'[k] = cmds[k] \/ cmds'[k].owner # v
    BY <1>4
  <2> QED BY <1>7, <1>10, <2>1, OthersKeep
<1>13. now <= now'
  BY <1>1, <1>3
<1> QED BY <1>1, <1>8, <1>9, <1>10, <1>12, <1>13, QuietStep

\* The confirmation once it is bound.
LEMMA BoundRow ==
    ASSUME Typed, NEW c \in Starts, NEW m \in Msgs,
           confs' = [confs EXCEPT ![c].state = "pending", ![c].key = m]
    PROVE  /\ confs' \in [Starts -> ConfirmationRows]
           /\ confs'[c].state = "pending" /\ confs'[c].key = m
           /\ confs'[c].expires_at = confs[c].expires_at
           /\ confs'[c].attempts = confs[c].attempts
           /\ \A d \in Starts : d # c => confs'[d] = confs[d]
<1> DEFINE r == [confs[c] EXCEPT !.state = "pending", !.key = m]
<1>1. confs \in [Starts -> ConfirmationRows] /\ confs[c] \in ConfirmationRows
  BY DEF Typed
<1>2. /\ r \in ConfirmationRows /\ r.state = "pending" /\ r.key = m
      /\ r.expires_at = confs[c].expires_at /\ r.attempts = confs[c].attempts
  BY <1>1 DEF ConfirmationRows, States, Bound
<1>3. confs' = [confs EXCEPT ![c] = r]
  BY <1>1
<1> HIDE DEF r
<1> QED BY <1>1, <1>2, <1>3

\* The worker once it dispatches.
LEMMA ControlFields ==
    ASSUME Typed, NEW w \in Workers,
           wk' = [wk EXCEPT ![w].pc = "control", ![w].at = now]
    PROVE  /\ wk' \in [Workers -> WorkerStates]
           /\ \A v \in Workers : v # w => wk'[v] = wk[v]
           /\ wk'[w].pc = "control" /\ wk'[w].msg = wk[w].msg
<1> DEFINE r == [wk[w] EXCEPT !.pc = "control", !.at = now]
<1>1. /\ wk \in [Workers -> WorkerStates] /\ wk[w] \in WorkerStates
      /\ now \in Nat
  BY PlanFacts DEF Typed
<1>2. r \in WorkerStates /\ r.pc = "control" /\ r.msg = wk[w].msg
  BY <1>1 DEF WorkerStates, Pcs
<1>3. wk' = [wk EXCEPT ![w] = r]
  BY <1>1
<1> HIDE DEF r
<1> QED BY <1>1, <1>2, <1>3

\* The binding: the row is not interrupted, has no reply, and no other worker
\* owns it; a confirmation that is locked or bound elsewhere does not get here.
LEMMA BindingKeeps ==
    ASSUME Inv, NEW w \in Workers, NEW m \in Msgs, NEW c \in Starts,
           wk[w].msg = m, cmds[m].conf = c,
           wk[w].pc = "claimed", wk[w].answer = "none", CanWait(w),
           confs[c].key \in {0, m},
           confs[c].state \in {"awaiting_confirmation", "cancelled", "pending"},
           cmds' \in [Msgs -> CommandRows],
           cmds'[m].status = "waiting_gateway", cmds'[m].owner = w,
           cmds'[m].conf = c, cmds'[m].created_at = cmds[m].created_at,
           cmds'[m].interrupted = cmds[m].interrupted,
           \A k \in Msgs : k # m => cmds'[k] = cmds[k],
           confs' \in [Starts -> ConfirmationRows],
           confs'[c].state = "pending", confs'[c].key = m,
           confs'[c].expires_at = confs[c].expires_at,
           confs'[c].attempts = confs[c].attempts,
           \A d \in Starts : d # c => confs'[d] = confs[d],
           wk' \in [Workers -> WorkerStates],
           \A v \in Workers : v # w => wk'[v] = wk[v],
           wk'[w].pc = "control", wk'[w].msg = m,
           UNCHANGED <<now, plan, pos, typed, faults, sent, told>>
    PROVE  Inv' /\ Stays
<1>1. Typed /\ m # 0 /\ c # 0 /\ now \in Nat
  BY PlanFacts DEF Inv
<1>2. Typed'
  BY PlanFixed DEF Inv, Typed
<1>3. /\ RowOK(m) /\ ConfOK(c) /\ WorkerOK(w) /\ Owns(w)
      /\ cmds[m].status = "dispatching"
  BY DEF Inv, CanWait
<1>4. ~cmds[m].interrupted /\ told[m] = "none" /\ told[c] = "prompt"
  <2>1. ~cmds[m].interrupted
    BY <1>3 DEF WorkerOK
  <2>2. told[m] = "none" /\ told[c] = "prompt"
    BY <1>1, <1>3 DEF RowOK
  <2> QED BY <2>1, <2>2
<1>5. /\ Msgs' = Msgs /\ Starts' = Starts /\ Workers' = Workers
       /\ \A k : Sender(k)' = Sender(k)
  BY PlanFixed
<1>6. ASSUME NEW k \in Msgs, k # m PROVE Live(k)' => Live(k)
  <2>1. cmds'[k] = cmds[k] /\ (cmds[k].conf # 0 => cmds[k].conf \in Starts)
    BY <1>1, <1>6, RowFields
  <2> QED BY <1>6, <2>1 DEF Live
<1>7. ASSUME NEW k \in Msgs PROVE RowOK(k)'
  <2>1. CASE k = m
    <3>1. cmds'[k].conf = c /\ c # 0 /\ cmds[m].conf = c
      BY <1>1, <2>1
    <3>2. typed[m] = c /\ Sender(m) = Sender(c)
          /\ cmds[m].created_at < confs[c].expires_at
      BY <1>3, <3>1 DEF RowOK
    <3>3. typed'[k] = c /\ Sender(k) = Sender(c)
          /\ cmds'[k].created_at < confs'[c].expires_at
      BY <2>1, <3>2
    <3>4. told'[k] = "none" /\ ~cmds'[k].interrupted /\ told'[c] = "prompt"
      BY <1>4, <2>1
    <3>5. cmds'[k].status = "waiting_gateway" /\ cmds'[k].owner \in Workers
      BY <2>1
    <3>6. /\ cmds'[k].conf # 0 =>
             /\ told'[cmds'[k].conf] = "prompt"
             /\ typed'[k] = cmds'[k].conf
             /\ Sender(k) = Sender(cmds'[k].conf)
             /\ cmds'[k].created_at < confs'[cmds'[k].conf].expires_at
      BY <3>1, <3>3, <3>4
    <3> QED BY <1>5, <3>4, <3>5, <3>6 DEF RowOK, Claimed, NothingDone
  <2>2. CASE k # m
    <3>1. cmds'[k] = cmds[k] /\ (cmds[k].conf # 0 => cmds[k].conf \in Starts)
      BY <1>1, <2>2, RowFields
    <3>2. cmds[k].conf # 0 =>
            confs'[cmds[k].conf].expires_at = confs[cmds[k].conf].expires_at
      BY <3>1
    <3>3. RowOK(k) /\ (Live(k)' => Live(k))
      BY <1>6, <2>2 DEF Inv
    <3> QED BY <1>5, <3>1, <3>2, <3>3 DEF RowOK
  <2> QED BY <2>1, <2>2
<1>8. \A k \in Msgs : cmds'[k].conf = cmds[k].conf
  OBVIOUS
<1>9. ASSUME NEW d \in Starts PROVE ConfOK(d)'
  <2>1. ConfOK(d) /\ sent[d] \in SUBSET Msgs
    BY <1>1, ConfFields DEF Inv
  <2>2. CASE d = c
    <3>1. \A k \in sent[c] : k = m /\ cmds'[k].conf = c
      BY <1>1, <1>8, <2>1, <2>2, PlanFacts DEF ConfOK
    <3>2. confs[c].attempts # MaxAttempts
      BY <1>3 DEF ConfOK
    <3> QED BY <1>1, <1>4, <2>2, <3>1, <3>2
            DEF ConfOK, Unconsumed, Bound
  <2>3. CASE d # c
    <3>1. confs'[d] = confs[d]
      BY <2>3
    <3> QED BY <1>8, <2>1, <3>1 DEF ConfOK
  <2> QED BY <2>2, <2>3
<1>10. OneCredential'
  <2>1. \A d \in Starts : confs'[d].state = "awaiting_confirmation" =>
           confs[d].state = "awaiting_confirmation"
    OBVIOUS
  <2> QED BY <1>5, <2>1 DEF OneCredential, Inv
<1>11. WorkerOK(w)'
  <2>1. cmds'[m].conf = c /\ c # 0 /\ c \in Starts
    BY <1>1
  <2> QED BY <1>1, <2>1 DEF WorkerOK
<1>12. ASSUME NEW v \in Workers, v # w PROVE WorkerOK(v)'
  <2>1. KeepsPass(v)
    <3> SUFFICES ASSUME wk[v].pc \notin {"down", "idle"}, Owns(v)'
                 PROVE  /\ cmds'[wk[v].msg] = cmds[wk[v].msg]
                        /\ Live(wk[v].msg)' => Live(wk[v].msg)
      BY <1>12 DEF KeepsPass
    <3>1. wk[v].msg \in Msgs /\ wk'[v].msg = wk[v].msg
      BY <1>12, WorkerFields DEF Inv, WorkerOK
    <3>2. wk[v].msg # m
      BY <1>12, <3>1 DEF Owns
    <3> DEFINE n == wk[v].msg
    <3>3. n \in Msgs /\ n # m
      BY <3>1, <3>2
    <3>4. Live(n)' => Live(n)
      <4> HIDE DEF n
      <4>1. cmds'[n] = cmds[n] /\ (cmds[n].conf # 0 => cmds[n].conf \in Starts)
        BY <1>1, <3>3, RowFields
      <4>2. \A k \in Msgs :
              /\ k # m /\ cmds'[k].conf # 0 /\ confs'[cmds'[k].conf].key = k
              /\ confs'[cmds'[k].conf].state \in Bound
              => Live(k)
        BY <1>6 DEF Live
      <4>3. wk'[v].msg = n
        BY <3>1 DEF n
      <4> QED BY <4>2, <4>3, <3>3 DEF Live, n
    <3> QED BY <3>3, <3>4
  <2>2. now \in Nat /\ now' \in Nat /\ now <= now'
    BY <1>1
  <2>3. \A d \in Starts : confs[d].key # 0 => confs'[d].key = confs[d].key
    OBVIOUS
  <2>4. \A k \in Msgs : cmds[k].status # "absent" =>
          cmds'[k].status # "absent" /\ cmds'[k].conf = cmds[k].conf
    OBVIOUS
  <2> QED BY <2>1, <2>2, <2>3, <2>4, WorkerKept
<1>13. Stays
  <2>1. cmds[m].status \notin Final
    BY <1>3 DEF Final
  <2> QED BY <2>1 DEF Stays
<1> QED BY <1>2, <1>5, <1>7, <1>9, <1>10, <1>11, <1>12, <1>13 DEF Inv

\* prepare_control_dispatch_at binds, or answers; it answers that nothing was
\* done only when there is no live binding, or the claim is lost or due.
LEMMA ExecuteConfirmationKeeps ==
    ASSUME Inv, NEW w \in Workers, ExecuteConfirmation(w)
    PROVE  Inv' /\ Stays
<1> DEFINE m == wk[w].msg
           c == cmds[m].conf
           found == Prepare(w, c)
<1>1. /\ Executes(w, {"confirm"}) /\ c # 0
      /\ UNCHANGED <<now, plan, pos, typed, faults, sent, told>>
  BY DEF ExecuteConfirmation, feedVars
<1>2. CASE found = "dispatch"
  <2>1. /\ confs' = [confs EXCEPT ![c].state = "pending", ![c].key = m]
        /\ cmds' = Waiting(w)
        /\ wk' = [wk EXCEPT ![w].pc = "control", ![w].at = now]
    BY <1>2 DEF ExecuteConfirmation
  <2>2. wk[w].pc = "claimed" /\ wk[w].answer = "none"
    BY <1>1 DEF Executes
  <2>3. Typed /\ m \in Msgs /\ c \in Starts
    BY <1>1, <2>2, WorkerFields, RowFields DEF Inv, WorkerOK
  <2>4. /\ CanWait(w) /\ confs[c].key \in {0, m}
        /\ confs[c].state \in {"awaiting_confirmation", "cancelled", "pending"}
    <3>1. confs[c].state \in States
      BY <2>3, ConfFields
    <3> QED BY <1>2, <3>1 DEF Prepare, States, Bound, Unconsumed
  <2>5. wk[w].msg = m /\ cmds[m].conf = c
    OBVIOUS
  <2> HIDE DEF found, m, c
  <2>6. /\ cmds' \in [Msgs -> CommandRows]
        /\ cmds'[m].status = "waiting_gateway" /\ cmds'[m].owner = w
        /\ cmds'[m].conf = c /\ cmds'[m].created_at = cmds[m].created_at
        /\ cmds'[m].interrupted = cmds[m].interrupted
        /\ \A k \in Msgs : k # m => cmds'[k] = cmds[k]
    <3>1. wk[w].pc = "claimed" /\ CanWait(w) /\ cmds' = Waiting(w)
      BY <2>1, <2>2, <2>4
    <3> QED BY <2>5, <3>1, WaitingRow
  <2>7. /\ confs' \in [Starts -> ConfirmationRows]
        /\ confs'[c].state = "pending" /\ confs'[c].key = m
        /\ confs'[c].expires_at = confs[c].expires_at
        /\ confs'[c].attempts = confs[c].attempts
        /\ \A d \in Starts : d # c => confs'[d] = confs[d]
    <3>1. confs' = [confs EXCEPT ![c].state = "pending", ![c].key = m]
      BY <2>1
    <3> QED BY <2>3, <3>1, BoundRow
  <2>8. /\ wk' \in [Workers -> WorkerStates]
        /\ \A v \in Workers : v # w => wk'[v] = wk[v]
        /\ wk'[w].pc = "control" /\ wk'[w].msg = m
    <3>1. wk' = [wk EXCEPT ![w].pc = "control", ![w].at = now]
      BY <2>1
    <3> QED BY <2>3, <2>5, <3>1, ControlFields
  <2> QED BY <1>1, <2>2, <2>3, <2>4, <2>5, <2>6, <2>7, <2>8, BindingKeeps
<1>3. CASE found # "dispatch"
  <2>1. Answer(w, found) /\ UNCHANGED <<cmds, confs>>
    BY <1>3 DEF ExecuteConfirmation
  <2>2. wk[w].pc = "claimed"
    BY <1>1 DEF Executes
  <2>3. Typed /\ m \in Msgs /\ c \in Starts /\ WorkerOK(w)
    BY <1>1, <2>2, WorkerFields, RowFields DEF Inv, WorkerOK
  <2>4. found \in Answers /\ found # "none"
    BY <1>3 DEF Prepare, Answers
  <2>5. found = "outcome" => m \in sent[c]
    <3>1. ConfOK(c)
      BY <2>3 DEF Inv
    <3>2. confs[c].state = "outcome" => confs[c].key # 0 /\ confs[c].key \in sent[c]
      BY <3>1 DEF ConfOK, Bound
    <3>3. found = "outcome" =>
            confs[c].state = "outcome" /\ ~(confs[c].key # 0 /\ confs[c].key # m)
      BY DEF Prepare
    <3> QED BY <3>2, <3>3
  <2>6. ASSUME found \in NothingDone, Owns(w), now < ExpiresAt(m)
        PROVE  ~Live(m)
    <3> SUFFICES ASSUME Live(m) PROVE FALSE
      OBVIOUS
    <3>1. confs[c].key = m /\ confs[c].state \in Bound
      BY DEF Live
    <3>2. cmds[m].status = "dispatching"
      BY <2>2, <2>3, <2>6 DEF WorkerOK
    <3>3. ExpiresAt(m) > now
      <4>1. now \in Nat /\ ExpiresAt(m) \in Nat
        <5>1. now \in Nat /\ cmds[m].created_at \in Nat
          BY <2>3, RowFields, PlanFacts
        <5>2. CommandTTL \in Nat
          BY InboundAssumption
        <5> QED BY <5>1, <5>2 DEF ExpiresAt
      <4> QED BY <2>6, <4>1
    <3>4. CanWait(w)
      BY <2>6, <3>2, <3>3 DEF CanWait
    <3>5. m # 0
      BY <2>3, PlanFacts
    <3> QED BY <2>6, <3>1, <3>4, <3>5 DEF Prepare, Bound, NothingDone
  <2> HIDE DEF found
  <2>7. /\ wk' \in [Workers -> WorkerStates]
        /\ \A v \in Workers : v # w => wk'[v] = wk[v]
        /\ wk'[w].pc = "reply" /\ wk'[w].msg = m
        /\ wk'[w].answer = found
    BY <2>1, <2>3, <2>4, AnswerFields
  <2>8. confs' \in [Starts -> ConfirmationRows] /\ \A d \in Starts : ConfStep(d)
    BY <2>1, ConfsStill
  <2> QED BY <1>1, <2>1, <2>2, <2>4, <2>5, <2>6, <2>7, <2>8, Answered
<1> QED BY <1>2, <1>3

\* The intent is sent for the message in the key.
LEMMA DeviceActsKeeps ==
    ASSUME Inv, NEW w \in Workers, DeviceActs(w)
    PROVE  Inv' /\ Stays
<1> DEFINE m == wk[w].msg
           c == cmds[m].conf
<1>1. /\ wk[w].pc = "control" /\ sent' = [sent EXCEPT ![c] = @ \cup {m}]
      /\ UNCHANGED <<now, plan, pos, typed, cmds, confs, wk, faults, told>>
  BY DEF DeviceActs, feedVars
<1>2. /\ Typed /\ m \in Msgs /\ c # 0 /\ c \in Starts /\ confs[c].key = m
      /\ now \in Nat /\ sent \in [Starts -> SUBSET Msgs]
  BY <1>1, WorkerFields, RowFields, PlanFacts DEF Inv, WorkerOK, Typed
<1>3. cmds[m].conf = c
  OBVIOUS
<1> HIDE DEF m, c
<1>4. /\ sent' \in [Starts -> SUBSET Msgs]
      /\ sent'[c] = sent[c] \cup {m}
      /\ \A d \in Starts : d # c => sent'[d] = sent[d]
      /\ \A d \in Starts : sent[d] \subseteq sent'[d]
  BY <1>1, <1>2
<1>5. Typed'
  BY <1>1, <1>4, PlanFixed DEF Inv, Typed
<1>6. /\ Msgs' = Msgs /\ Starts' = Starts /\ Workers' = Workers
      /\ \A k : Sender(k)' = Sender(k)
  BY <1>1, PlanFixed
<1>7. ASSUME NEW k \in Msgs PROVE RowOK(k)'
  <2>1. RowOK(k) /\ (cmds[k].conf # 0 => cmds[k].conf \in Starts)
    BY <1>2, RowFields DEF Inv
  <2>2. Live(k)' => Live(k)
    BY <1>1 DEF Live
  <2> QED BY <1>1, <1>4, <1>6, <2>1, <2>2 DEF RowOK
<1>8. ASSUME NEW d \in Starts PROVE ConfOK(d)'
  <2>1. ConfOK(d)
    BY DEF Inv
  <2> QED BY <1>1, <1>2, <1>3, <1>4, <2>1 DEF ConfOK
<1>9. OneCredential'
  BY <1>1, <1>6 DEF OneCredential, Inv
<1>10. ASSUME NEW v \in Workers PROVE WorkerOK(v)'
  <2>1. KeepsPass(v)
    BY <1>1 DEF KeepsPass, Live
  <2>2. now' \in Nat /\ now <= now'
    BY <1>1, <1>2
  <2> QED BY <1>1, <1>2, <1>4, <2>1, <2>2, WorkerKept
<1>11. Stays
  BY <1>1 DEF Stays
<1> QED BY <1>5, <1>6, <1>7, <1>8, <1>9, <1>10, <1>11 DEF Inv

-----------------------------------------------------------------------------
(* The sink.                                                               *)

\* resolve_confirmation_code charges, locks or cancels.
LEMMA ResolvedRows ==
    ASSUME Inv, NEW s, NEW code, confs' = Resolve(s, code)
    PROVE  confs' \in [Starts -> ConfirmationRows] /\ \A c \in Starts : ConfStep(c)
<1> DEFINE r(c) == [confs[c] EXCEPT !.state = "cancelled"]
           n(c) == confs[c].attempts + 1
           q(c) == IF n(c) >= MaxAttempts THEN "locked" ELSE confs[c].state
           t(c) == [confs[c] EXCEPT !.attempts = n(c), !.state = q(c)]
<1>1. DOMAIN confs' = Starts /\ confs' = [c \in Starts |-> confs'[c]]
  BY DEF Resolve
<1>2. ASSUME NEW c \in Starts
      PROVE  \/ confs'[c] = confs[c]
             \/ /\ confs[c].state = "awaiting_confirmation"
                /\ confs'[c] = r(c) \/ confs'[c] = t(c)
  BY DEF Resolve
<1>3. ASSUME NEW c \in Starts, confs[c].state = "awaiting_confirmation"
      PROVE  /\ r(c) \in ConfirmationRows /\ t(c) \in ConfirmationRows
             /\ r(c).state = "cancelled" /\ r(c).attempts # MaxAttempts
             /\ t(c).state \in {"locked", "awaiting_confirmation"}
             /\ t(c).attempts = MaxAttempts <=> t(c).state = "locked"
             /\ r(c).key = confs[c].key /\ r(c).expires_at = confs[c].expires_at
             /\ t(c).key = confs[c].key /\ t(c).expires_at = confs[c].expires_at
  <2>1. /\ confs[c] \in ConfirmationRows /\ confs[c].attempts \in 0..MaxAttempts
        /\ MaxAttempts \in Nat
    BY ConfFields, InboundAssumption DEF Inv
  <2>2. confs[c].attempts # MaxAttempts
    BY <1>3 DEF Inv, ConfOK
  <2>3. n(c) \in 0..MaxAttempts /\ (n(c) = MaxAttempts <=> n(c) >= MaxAttempts)
    BY <2>1, <2>2
  <2>4. q(c) \in States /\ q(c) \in {"locked", "awaiting_confirmation"}
        /\ (n(c) = MaxAttempts <=> q(c) = "locked")
    BY <1>3, <2>3 DEF States, Unconsumed
  <2> HIDE DEF n, q
  <2> QED BY <2>1, <2>2, <2>3, <2>4 DEF ConfirmationRows, States, Unconsumed
<1> HIDE DEF r, t
<1>4. ASSUME NEW c \in Starts PROVE confs'[c] \in ConfirmationRows
  BY <1>2, <1>3, ConfFields DEF Inv
<1>5. ASSUME NEW c \in Starts PROVE ConfStep(c)
  BY <1>2, <1>3 DEF ConfStep, Unconsumed
<1>6. confs' \in [Starts -> ConfirmationRows]
  BY <1>1, <1>4
<1> QED BY <1>5, <1>6

\* accept_with_status stores a row once, with a confirmation that was live.
LEMMA StoredRows ==
    ASSUME Inv, NEW m \in Msgs, NEW s \in {"received", "expired"},
           NEW conf \in Starts \cup {0}, cmds' = Store(m, s, conf),
           conf # 0 => /\ told[conf] = "prompt" /\ typed'[m] = conf
                       /\ Sender(m) = Sender(conf)
                       /\ now < confs[conf].expires_at
    PROVE  /\ cmds' \in [Msgs -> CommandRows]
           /\ \A k \in Msgs : cmds'[k] = cmds[k] \/ RowStored(k)
<1> DEFINE r == [NoCommand EXCEPT !.status = s, !.conf = conf,
                                  !.created_at = now]
<1>1. cmds \in [Msgs -> CommandRows] /\ now \in Nat
  BY PlanFacts DEF Inv, Typed
<1>2. /\ r \in CommandRows /\ r.status = s /\ r.conf = conf
      /\ r.created_at = now /\ r.owner = NoWorker /\ ~r.interrupted
  <2>1. s \in Statuses
    BY DEF Statuses, Final
  <2> QED BY <1>1, <2>1 DEF NoCommand, CommandRows
<1>3. \/ cmds' = cmds
      \/ cmds[m].status = "absent" /\ cmds' = [cmds EXCEPT ![m] = r]
  BY DEF Store
<1> HIDE DEF r
<1>4. cmds' \in [Msgs -> CommandRows]
  BY <1>1, <1>2, <1>3
<1>5. ASSUME NEW k \in Msgs PROVE cmds'[k] = cmds[k] \/ RowStored(k)
  <2>1. \/ cmds'[k] = cmds[k]
        \/ k = m /\ cmds[k].status = "absent" /\ cmds'[k] = r
    BY <1>1, <1>3
  <2> QED BY <1>2, <2>1 DEF RowStored
<1> QED BY <1>4, <1>5

(* A delivery whose rows are of the kinds above.                           *)
LEMMA Delivered ==
    ASSUME Inv, NEW m \in Msgs, NEW code \in Starts \cup {0}, Arrives(m, code),
           UNCHANGED <<now, plan, wk, faults, sent, told>>,
           pos' \in 0..Len(plan.msgs),
           confs' \in [Starts -> ConfirmationRows],
           \A c \in Starts : ConfStep(c),
           cmds' \in [Msgs -> CommandRows],
           \A k \in Msgs : cmds'[k] = cmds[k] \/ RowStored(k)
    PROVE  Inv' /\ Stays
<1>1. /\ typed' = [typed EXCEPT ![m] = code]
      /\ typed[m] # Unsent => code = typed[m]
      /\ typed \in [Msgs -> Starts \cup {0, Unsent}]
  BY DEF Arrives, Inv, Typed
<1>2. typed' \in [Msgs -> Starts \cup {0, Unsent}]
  BY <1>1
<1>3. Typed'
  BY <1>2, PlanFixed DEF Inv, Typed
<1>4. \A k \in Msgs : cmds[k].conf # 0 => typed'[k] = typed[k]
  <2> SUFFICES ASSUME cmds[m].conf # 0 PROVE code = typed[m]
    BY <1>1
  <2>1. typed[m] = cmds[m].conf /\ cmds[m].conf \in Starts
    BY RowFields DEF Inv, RowOK
  <2>2. cmds[m].conf # Unsent
    BY <2>1, PlanFacts DEF Inv
  <2> QED BY <1>1, <2>1, <2>2
<1>5. \A k \in Msgs : RowStep(k)
  BY DEF RowStep
<1>6. \A v \in Workers : KeepsPass(v)
  <2> SUFFICES ASSUME NEW v \in Workers PROVE KeepsPass(v)
    OBVIOUS
  <2>1. \A k \in Msgs : \/ cmds'[k] = cmds[k]
                        \/ cmds'[k].status \notin Claimed
    BY DEF RowStored, Claimed
  <2> QED BY <2>1, OthersKeep
<1>7. now <= now'
  BY PlanFacts DEF Inv
<1> QED BY <1>3, <1>4, <1>5, <1>6, <1>7, QuietStep

\* Accept.
LEMMA AcceptKeeps ==
    ASSUME Inv, NEW m \in Msgs, NEW code \in Starts \cup {0}, Accept(m, code)
    PROVE  Inv' /\ Stays
<1> DEFINE conf == Resolved(Sender(m), code)
<1>1. /\ Arrives(m, code) /\ cmds' = Store(m, "received", conf) /\ pos' = m
      /\ UNCHANGED <<now, plan, wk, faults, sent, told>>
      /\ confs' = Resolve(Sender(m), code) \/ confs' = confs
  BY DEF Accept
<1>2. confs' \in [Starts -> ConfirmationRows] /\ \A c \in Starts : ConfStep(c)
  BY <1>1, ResolvedRows, ConfsStill
<1>3. conf \in Starts \cup {0} /\ (conf # 0 => conf = code /\ code \in Starts)
  BY DEF Resolved
<1>4. conf # 0 => /\ told[conf] = "prompt" /\ typed'[m] = conf
                  /\ Sender(m) = Sender(conf)
                  /\ now < confs[conf].expires_at
  <2> SUFFICES ASSUME conf # 0
               PROVE  /\ told[code] = "prompt" /\ typed'[m] = code
                      /\ Sender(m) = Sender(code)
                      /\ now < confs[code].expires_at
    BY <1>3
  <2>1. /\ Sender(code) = Sender(m) /\ confs[code].expires_at > now
        /\ confs[code].state = "awaiting_confirmation"
    BY DEF Resolved
  <2>2. code \in Starts /\ now \in Nat /\ confs[code].expires_at \in Nat
    BY <1>3, ConfFields, PlanFacts DEF Inv
  <2>3. told[code] = "prompt"
    BY <2>1, <2>2 DEF Inv, ConfOK, NoConf
  <2>4. typed'[m] = code
    BY <1>1 DEF Arrives, Inv, Typed
  <2>5. now < confs[code].expires_at
    BY <2>1, <2>2
  <2> QED BY <2>1, <2>3, <2>4, <2>5
<1> HIDE DEF conf
<1>5. /\ cmds' \in [Msgs -> CommandRows]
      /\ \A k \in Msgs : cmds'[k] = cmds[k] \/ RowStored(k)
  BY <1>1, <1>3, <1>4, StoredRows
<1>6. pos' \in 0..Len(plan.msgs)
  <2>1. Len(plan.msgs) \in Nat
    BY PlanFacts DEF Inv
  <2> QED BY <1>1, <2>1 DEF Msgs
<1> QED BY <1>1, <1>2, <1>5, <1>6, Delivered

\* AcceptCancelled charges the attempt and stores nothing.
LEMMA AcceptCancelledKeeps ==
    ASSUME Inv, NEW m \in Msgs, NEW code \in Starts \cup {0},
           AcceptCancelled(m, code)
    PROVE  Inv' /\ Stays
<1>1. /\ Arrives(m, code) /\ confs' = Resolve(Sender(m), code)
      /\ UNCHANGED <<now, plan, pos, cmds, wk, faults, sent, told>>
  BY DEF AcceptCancelled
<1>2. confs' \in [Starts -> ConfirmationRows] /\ \A c \in Starts : ConfStep(c)
  BY <1>1, ResolvedRows
<1>3. cmds' \in [Msgs -> CommandRows] /\ pos' \in 0..Len(plan.msgs)
  BY <1>1 DEF Inv, Typed
<1> QED BY <1>1, <1>2, <1>3, Delivered

\* Discard stores a tombstone.
LEMMA DiscardKeeps ==
    ASSUME Inv, NEW m \in Msgs, NEW code \in Starts \cup {0}, Discard(m, code)
    PROVE  Inv' /\ Stays
<1>1. /\ Arrives(m, code) /\ cmds' = Store(m, "expired", 0) /\ pos' = m
      /\ UNCHANGED <<now, plan, confs, wk, faults, sent, told>>
  BY DEF Discard
<1>2. confs' \in [Starts -> ConfirmationRows] /\ \A c \in Starts : ConfStep(c)
  BY <1>1, ConfsStill
<1>3. /\ cmds' \in [Msgs -> CommandRows]
      /\ \A k \in Msgs : cmds'[k] = cmds[k] \/ RowStored(k)
  BY <1>1, StoredRows
<1>4. pos' \in 0..Len(plan.msgs)
  <2>1. Len(plan.msgs) \in Nat
    BY PlanFacts DEF Inv
  <2> QED BY <1>1, <2>1 DEF Msgs
<1> QED BY <1>1, <1>2, <1>3, <1>4, Delivered

-----------------------------------------------------------------------------
(* The clock, the cursor and the retention.                                *)

\* Time, cursor and confirmations move; commands and workers do not.
LEMMA AroundKeeps ==
    ASSUME Inv, UNCHANGED <<plan, typed, cmds, wk, sent, told>>,
           now' \in 0..MaxNow, now <= now', faults' \in 0..plan.faults,
           pos' \in 0..Len(plan.msgs),
           confs' \in [Starts -> ConfirmationRows],
           \A c \in Starts : ConfStep(c)
    PROVE  Inv' /\ Stays
<1>1. Typed'
  BY PlanFixed DEF Inv, Typed
<1>2. \A k \in Msgs : RowStep(k)
  BY DEF RowStep
<1>3. \A v \in Workers : KeepsPass(v)
  <2> SUFFICES ASSUME NEW v \in Workers PROVE KeepsPass(v)
    OBVIOUS
  <2>1. \A k \in Msgs : cmds'[k] = cmds[k]
    OBVIOUS
  <2> QED BY <2>1, OthersKeep
<1> QED BY <1>1, <1>2, <1>3, QuietStep

\* LoseCursor.
LEMMA LoseCursorKeeps ==
    ASSUME Inv, LoseCursor
    PROVE  Inv' /\ Stays
<1>1. /\ faults < plan.faults /\ faults' = faults + 1 /\ pos' \in 0..pos - 1
      /\ UNCHANGED <<now, plan, typed, cmds, confs, wk, sent, told>>
  BY DEF LoseCursor, Fault
<1>2. /\ now \in 0..MaxNow /\ MaxNow \in Nat /\ plan.faults \in Nat
      /\ Len(plan.msgs) \in Nat /\ pos \in 0..Len(plan.msgs)
      /\ faults \in 0..plan.faults
  BY PlanFacts, InboundAssumption DEF Inv, Typed
<1>3. /\ now' \in 0..MaxNow /\ now <= now' /\ faults' \in 0..plan.faults
      /\ pos' \in 0..Len(plan.msgs)
  BY <1>1, <1>2
<1>4. confs' \in [Starts -> ConfirmationRows] /\ \A c \in Starts : ConfStep(c)
  BY <1>1, ConfsStill
<1> QED BY <1>1, <1>3, <1>4, AroundKeeps

\* Tick.
LEMMA TickKeeps ==
    ASSUME Inv, Tick
    PROVE  Inv' /\ Stays
<1>1. /\ now < MaxNow /\ now' = now + 1
      /\ UNCHANGED <<plan, pos, typed, cmds, confs, wk, faults, sent, told>>
  BY DEF Tick, feedVars
<1>2. now \in 0..MaxNow /\ MaxNow \in Nat
  BY InboundAssumption DEF Inv, Typed
<1>3. now' \in 0..MaxNow /\ now <= now'
  BY <1>1, <1>2
<1>4. faults' \in 0..plan.faults /\ pos' \in 0..Len(plan.msgs)
  BY <1>1 DEF Inv, Typed
<1>5. confs' \in [Starts -> ConfirmationRows] /\ \A c \in Starts : ConfStep(c)
  BY <1>1, ConfsStill
<1> QED BY <1>1, <1>3, <1>4, <1>5, AroundKeeps

\* SweepConfirmations never deletes a pending dispatch.
LEMMA SweepConfirmationsKeeps ==
    ASSUME Inv, SweepConfirmations
    PROVE  Inv' /\ Stays
<1>1. /\ UNCHANGED <<now, plan, pos, typed, cmds, wk, faults, sent, told>>
      /\ confs' = [c \in Starts |-> IF Due(c)
                                      THEN [confs[c] EXCEPT !.state = "deleted"]
                                      ELSE confs[c]]
  BY DEF SweepConfirmations, feedVars
<1>2. Typed /\ now' \in 0..MaxNow /\ faults' \in 0..plan.faults
      /\ pos' \in 0..Len(plan.msgs)
  BY <1>1 DEF Inv, Typed
<1>3. now <= now'
  BY <1>1, PlanFacts DEF Inv
<1>4. \A c \in Starts : Due(c) => confs[c].state # "none"
  BY DEF Due
<1>5. confs' \in [Starts -> ConfirmationRows]
  BY <1>1, <1>2, ConfFields, DeletedFields
<1>6. \A c \in Starts : ConfStep(c)
  <2> SUFFICES ASSUME NEW c \in Starts PROVE ConfStep(c)
    OBVIOUS
  <2>1. confs'[c] = IF Due(c) THEN [confs[c] EXCEPT !.state = "deleted"]
                    ELSE confs[c]
    BY <1>1
  <2> QED BY <1>2, <1>4, <2>1, DeletedFields DEF ConfStep
<1> QED BY <1>1, <1>2, <1>3, <1>5, <1>6, AroundKeeps

-----------------------------------------------------------------------------
(* The reply.                                                              *)

(* The row of the new credential.                                          *)
Fresh(expires) == [NoConf EXCEPT !.state = "awaiting_confirmation",
                                    !.expires_at = expires]

\* queue_reply_with_confirmation_at replaces the sender's live credential.
LEMMA ReplacedRows ==
    ASSUME Inv, NEW m \in Msgs, NEW expires \in Nat,
           confs' = Replaced(m, expires)
    PROVE  /\ confs' \in [Starts -> ConfirmationRows]
           /\ \A c \in Starts : c # m => ConfStep(c)
           /\ m \in Starts => confs'[m] = Fresh(expires)
           /\ \A c \in Starts :
                c # m /\ confs'[c].state = "awaiting_confirmation"
                => Sender(c) # Sender(m)
<1> DEFINE x(c) == [confs[c] EXCEPT !.state = "cancelled"]
<1>1. Fresh(expires) \in ConfirmationRows
  <2>1. 0 \in 0..MaxAttempts
    BY InboundAssumption
  <2> QED BY <2>1 DEF Fresh, NoConf, ConfirmationRows, States, Unconsumed
<1>2. ASSUME NEW c \in Starts
      PROVE  /\ c = m => confs'[c] = Fresh(expires)
             /\ c # m => \/ confs'[c] = confs[c]
                            /\ (confs[c].state = "awaiting_confirmation" =>
                                  Sender(c) # Sender(m))
                         \/ Due(c)
                            /\ confs'[c] = [confs[c] EXCEPT !.state = "deleted"]
                         \/ confs[c].state = "awaiting_confirmation"
                            /\ confs'[c] = x(c)
  BY DEF Replaced, Fresh
<1>3. ASSUME NEW c \in Starts
      PROVE  /\ x(c) \in ConfirmationRows /\ x(c).state = "cancelled"
             /\ x(c).key = confs[c].key /\ x(c).attempts = confs[c].attempts
             /\ x(c).expires_at = confs[c].expires_at
  BY ConfFields DEF Inv, ConfirmationRows, States, Unconsumed
<1> HIDE DEF x
<1>4. ASSUME NEW c \in Starts
      PROVE  /\ confs'[c] \in ConfirmationRows
             /\ c # m => ConfStep(c)
             /\ c # m /\ confs'[c].state = "awaiting_confirmation" =>
                  Sender(c) # Sender(m)
  <2>1. CASE c = m
    BY <1>1, <1>2, <2>1
  <2>2. CASE c # m /\ confs'[c] = confs[c]
             /\ (confs[c].state = "awaiting_confirmation" =>
                   Sender(c) # Sender(m))
    BY <2>2, ConfFields DEF Inv, ConfStep
  <2>3. CASE Due(c) /\ confs'[c] = [confs[c] EXCEPT !.state = "deleted"]
    BY <2>3, DeletedFields DEF Inv, ConfStep, Due
  <2>4. CASE confs[c].state = "awaiting_confirmation" /\ confs'[c] = x(c)
    <3>1. confs[c].attempts # MaxAttempts
      BY <2>4 DEF Inv, ConfOK
    <3> QED BY <1>3, <2>4, <3>1 DEF ConfStep, Unconsumed
  <2> QED BY <1>2, <2>1, <2>2, <2>3, <2>4
<1>5. confs' = [c \in Starts |-> confs'[c]]
  BY DEF Replaced
<1> QED BY <1>2, <1>4, <1>5

\* The row and the outbox once the reply is queued.
LEMMA RepliedRow ==
    ASSUME Typed, NEW m \in Msgs, NEW a \in Answers,
           cmds' = [cmds EXCEPT ![m] = Unclaimed(@, "reply_queued")],
           told' = [told EXCEPT ![m] = a]
    PROVE  /\ cmds' \in [Msgs -> CommandRows] /\ told' \in [Msgs -> Answers]
           /\ cmds'[m].status = "reply_queued" /\ cmds'[m].owner = NoWorker
           /\ cmds'[m].conf = cmds[m].conf
           /\ cmds'[m].created_at = cmds[m].created_at
           /\ cmds'[m].interrupted = cmds[m].interrupted
           /\ told'[m] = a
           /\ \A k \in Msgs : k # m => cmds'[k] = cmds[k] /\ told'[k] = told[k]
<1> DEFINE r == Unclaimed(cmds[m], "reply_queued")
<1>1. /\ cmds \in [Msgs -> CommandRows] /\ told \in [Msgs -> Answers]
      /\ cmds[m] \in CommandRows /\ "reply_queued" \in Statuses
  BY DEF Typed, Statuses, Final
<1>2. /\ r \in CommandRows /\ r.status = "reply_queued"
      /\ r.owner = NoWorker /\ r.conf = cmds[m].conf
      /\ r.created_at = cmds[m].created_at
      /\ r.interrupted = cmds[m].interrupted
  BY <1>1, UnclaimedFields
<1>3. cmds' = [cmds EXCEPT ![m] = r]
  OBVIOUS
<1> HIDE DEF r
<1>4. /\ cmds' \in [Msgs -> CommandRows] /\ cmds'[m] = r
      /\ \A k \in Msgs : k # m => cmds'[k] = cmds[k]
  BY <1>1, <1>2, <1>3
<1>5. /\ told' \in [Msgs -> Answers] /\ told'[m] = a
      /\ \A k \in Msgs : k # m => told'[k] = told[k]
  BY <1>1
<1> QED BY <1>2, <1>4, <1>5

\* Only a prompt changes the confirmations.
LEMMA RepliedConfs ==
    ASSUME Inv, NEW w \in Workers, NEW m \in Msgs, wk[w].msg = m,
           confs' = IF IsPrompt(w) THEN Replaced(m, wk[w].expires) ELSE confs
    PROVE  /\ confs' \in [Starts -> ConfirmationRows]
           /\ \A c \in Starts : c # m \/ wk[w].answer # "prompt" => ConfStep(c)
           /\ wk[w].answer = "prompt" /\ m \in Starts =>
                confs'[m] = Fresh(wk[w].expires)
           /\ wk[w].answer = "prompt" => \A c \in Starts :
                c # m /\ confs'[c].state = "awaiting_confirmation"
                => Sender(c) # Sender(m)
<1>1. CASE IsPrompt(w)
  <2>1. wk[w].answer = "prompt" /\ confs' = Replaced(m, wk[w].expires)
        /\ wk[w].expires \in Nat
    BY <1>1, WorkerFields DEF IsPrompt, Inv
  <2> QED BY <2>1, ReplacedRows
<1>2. CASE ~IsPrompt(w)
  <2>1. wk[w].answer # "prompt" /\ confs' = confs
    BY <1>2 DEF IsPrompt
  <2> QED BY <2>1, ConfsStill
<1> QED BY <1>1, <1>2

\* The reply, the confirmation and the end of the claim: a message whose reply
\* was not queued before has no confirmation yet, and none refers to it.
LEMMA RepliedKeeps ==
    ASSUME Inv, NEW w \in Workers, NEW m \in Msgs, NEW a \in Answers,
           NEW e \in Nat, wk[w].msg = m, wk[w].answer = a,
           wk[w].pc = "reply", Owns(w), now < ExpiresAt(m),
           cmds' \in [Msgs -> CommandRows], told' \in [Msgs -> Answers],
           cmds'[m].status = "reply_queued", cmds'[m].owner = NoWorker,
           cmds'[m].conf = cmds[m].conf,
           cmds'[m].created_at = cmds[m].created_at,
           cmds'[m].interrupted = cmds[m].interrupted, told'[m] = a,
           \A k \in Msgs : k # m => cmds'[k] = cmds[k] /\ told'[k] = told[k],
           confs' \in [Starts -> ConfirmationRows],
           \A c \in Starts : c # m \/ a # "prompt" => ConfStep(c),
           a = "prompt" /\ m \in Starts => confs'[m] = Fresh(e),
           a = "prompt" => \A c \in Starts :
             c # m /\ confs'[c].state = "awaiting_confirmation"
             => Sender(c) # Sender(m),
           wk' \in [Workers -> WorkerStates], wk'[w].pc = "idle",
           \A v \in Workers : v # w => wk'[v] = wk[v],
           UNCHANGED <<now, plan, pos, typed, faults, sent>>
    PROVE  Inv' /\ Stays
<1>1. Typed /\ m # 0 /\ now \in Nat /\ WorkerOK(w) /\ RowOK(m)
  BY PlanFacts DEF Inv
<1>2. a # "none" /\ cmds[m].status \in Claimed
  BY <1>1 DEF WorkerOK, Owns
<1>3. told[m] = "none"
  BY <1>1, <1>2 DEF RowOK, Claimed
<1>4. /\ a = "outcome" /\ cmds[m].conf # 0 => m \in sent[cmds[m].conf]
      /\ a \in NothingDone => ~Live(m)
  BY <1>1 DEF WorkerOK
<1>5. Typed'
  BY PlanFixed DEF Inv, Typed
<1>6. /\ Msgs' = Msgs /\ Starts' = Starts /\ Workers' = Workers
       /\ \A k : Sender(k)' = Sender(k)
  BY PlanFixed
<1>7. ASSUME NEW k \in Msgs, cmds[k].conf # 0
       PROVE  /\ cmds[k].conf \in Starts /\ cmds[k].conf # m
              /\ told[cmds[k].conf] = "prompt"
              /\ ConfStep(cmds[k].conf)
              /\ confs[cmds[k].conf].state # "none"
  <2>1. cmds[k].conf \in Starts /\ told[cmds[k].conf] = "prompt"
    BY <1>1, <1>7, RowFields DEF Inv, RowOK
  <2>2. cmds[k].conf # m
    BY <1>3, <2>1
  <2> QED BY <2>1, <2>2 DEF Inv, ConfOK
<1>8. \A k \in Msgs : cmds'[k].conf = cmds[k].conf
  OBVIOUS
<1>9. ASSUME NEW k \in Msgs PROVE Live(k)' => Live(k)
  <2>1. CASE cmds[k].conf = 0
    BY <1>8, <2>1 DEF Live
  <2>2. CASE cmds[k].conf # 0
    BY <1>7, <1>8, <2>2 DEF Live, ConfStep, Bound, Unconsumed
  <2> QED BY <2>1, <2>2
<1>10. ASSUME NEW k \in Msgs PROVE RowOK(k)'
  <2>1. cmds'[k].conf # 0 =>
          /\ told'[cmds'[k].conf] = "prompt"
          /\ typed'[k] = cmds'[k].conf
          /\ Sender(k) = Sender(cmds'[k].conf)
          /\ cmds'[k].created_at < confs'[cmds'[k].conf].expires_at
    <3> SUFFICES ASSUME cmds[k].conf # 0
                 PROVE  /\ told'[cmds[k].conf] = "prompt"
                        /\ typed[k] = cmds[k].conf
                        /\ Sender(k) = Sender(cmds[k].conf)
                        /\ cmds'[k].created_at < confs'[cmds[k].conf].expires_at
      BY <1>8
    <3>1. RowOK(k)
      BY DEF Inv
    <3>2. confs'[cmds[k].conf].expires_at = confs[cmds[k].conf].expires_at
      BY <1>7 DEF ConfStep
    <3>3. told'[cmds[k].conf] = "prompt"
      <4>1. Starts \subseteq Msgs
        BY <1>1, PlanFacts
      <4> QED BY <1>7, <4>1
    <3>4. cmds'[k].created_at = cmds[k].created_at
      OBVIOUS
    <3> QED BY <3>1, <3>2, <3>3, <3>4 DEF RowOK
  <2>2. CASE k = m
    <3>1. told'[k] = a /\ cmds'[k].status = "reply_queued"
          /\ cmds'[k].owner = NoWorker
          /\ cmds'[k].interrupted = cmds[m].interrupted
      BY <2>2
    <3>2. a = "outcome" /\ cmds'[k].conf # 0 => k \in sent[cmds'[k].conf]
      BY <1>4, <1>8, <2>2
    <3>3. a \in NothingDone \/ cmds'[k].interrupted => ~Live(k)'
      BY <1>1, <1>4, <1>9, <2>2, <3>1 DEF RowOK
    <3> QED BY <1>2, <1>6, <2>1, <3>1, <3>2, <3>3 DEF RowOK, Claimed
  <2>3. CASE k # m
    <3>1. cmds'[k] = cmds[k] /\ told'[k] = told[k] /\ RowOK(k)
      BY <2>3 DEF Inv
    <3> QED BY <1>6, <1>9, <2>1, <3>1 DEF RowOK
  <2> QED BY <2>2, <2>3
<1>11. ASSUME NEW c \in Starts PROVE ConfOK(c)'
  <2>1. /\ ConfOK(c) /\ sent[c] \in SUBSET Msgs /\ c \in Msgs
        /\ MaxAttempts \in Nat /\ MaxAttempts # 0 /\ 0 \notin Msgs
    BY <1>1, ConfFields, PlanFacts, InboundAssumption DEF Inv
  <2>2. CASE c = m /\ a = "prompt"
    <3>1. confs'[c] = Fresh(e) /\ told'[c] = "prompt"
      BY <2>2
    <3>2. /\ confs'[c].state = "awaiting_confirmation" /\ confs'[c].key = 0
          /\ confs'[c].attempts = 0
      BY <3>1 DEF Fresh, NoConf
    <3>3. sent[c] = {}
      <4>1. confs[c].key = 0
        BY <1>3, <2>1, <2>2 DEF ConfOK, NoConf
      <4> QED BY <2>1, <4>1 DEF ConfOK
    <3> QED BY <2>1, <3>1, <3>2, <3>3 DEF ConfOK, Unconsumed, Bound
  <2>3. CASE c = m /\ a # "prompt"
    <3>1. told'[c] # "prompt" /\ confs[c] = NoConf
      BY <1>3, <2>1, <2>3 DEF ConfOK
    <3>2. confs'[c] = confs[c]
      BY <2>3, <3>1 DEF ConfStep, NoConf
    <3> QED BY <1>8, <2>1, <3>1, <3>2 DEF ConfOK
  <2>4. CASE c # m
    <3>1. ConfStep(c) /\ told'[c] = told[c]
      BY <2>1, <2>4
    <3>2. confs'[c] # confs[c] => told[c] = "prompt" /\ confs[c].state # "none"
      BY <2>1, <3>1 DEF ConfStep, ConfOK, NoConf
    <3>3. \A k \in sent[c] : cmds'[k].conf = cmds[k].conf
      BY <1>8, <2>1
    <3> QED BY <2>1, <3>1, <3>2, <3>3 DEF ConfOK, ConfStep, Unconsumed, Bound
  <2> QED BY <2>2, <2>3, <2>4
<1>12. OneCredential'
  <2> SUFFICES ASSUME NEW c \in Starts, NEW d \in Starts, c # d,
                      confs'[c].state = "awaiting_confirmation",
                      confs'[d].state = "awaiting_confirmation"
               PROVE  Sender(c) # Sender(d)
    BY <1>6 DEF OneCredential
  <2>1. CASE a = "prompt" /\ (c = m \/ d = m)
    BY <2>1
  <2>2. CASE a # "prompt" \/ (c # m /\ d # m)
    <3>1. ConfStep(c) /\ ConfStep(d)
      BY <2>2
    <3>2. confs[c].state = "awaiting_confirmation"
          /\ confs[d].state = "awaiting_confirmation"
      BY <3>1 DEF ConfStep
    <3> QED BY <3>2 DEF Inv, OneCredential
  <2> QED BY <2>1, <2>2
<1>13. ASSUME NEW v \in Workers PROVE WorkerOK(v)'
  <2>1. CASE v = w
    BY <2>1 DEF WorkerOK
  <2>2. CASE v # w
    <3>1. wk'[v] = wk[v]
      BY <2>2
    <3>2. KeepsPass(v)
      <4> SUFFICES ASSUME wk[v].pc \notin {"down", "idle"}, Owns(v)'
                   PROVE  /\ cmds'[wk[v].msg] = cmds[wk[v].msg]
                          /\ Live(wk[v].msg)' => Live(wk[v].msg)
        BY <3>1 DEF KeepsPass
      <4>1. wk[v].msg \in Msgs /\ wk'[v].msg = wk[v].msg
        BY <3>1, WorkerFields DEF Inv, WorkerOK
      <4>2. wk[v].msg # m
        BY <4>1 DEF Owns, Claimed
      <4>3. \A k \in Msgs :
              (/\ cmds'[k].conf # 0 /\ confs'[cmds'[k].conf].key = k
               /\ confs'[cmds'[k].conf].state \in Bound) => Live(k)
        BY <1>9 DEF Live
      <4>4. Live(wk[v].msg)' => Live(wk[v].msg)
        BY <4>1, <4>3 DEF Live
      <4> QED BY <4>1, <4>2, <4>4
    <3>3. now' \in Nat /\ now <= now'
      BY <1>1
    <3>4. \A c \in Starts : confs[c].key # 0 => confs'[c].key = confs[c].key
      <4> SUFFICES ASSUME NEW c \in Starts, confs[c].key # 0
                   PROVE  confs'[c].key = confs[c].key
        OBVIOUS
      <4>1. c # m
        BY <1>3 DEF Inv, ConfOK, NoConf
      <4> QED BY <4>1 DEF ConfStep
    <3>5. \A k \in Msgs : cmds[k].status # "absent" =>
            cmds'[k].status # "absent" /\ cmds'[k].conf = cmds[k].conf
      OBVIOUS
    <3> QED BY <1>1, <3>2, <3>3, <3>4, <3>5, WorkerKept
  <2> QED BY <2>1, <2>2
<1>14. Stays
  <2>1. cmds[m].status \notin Final
    BY <1>2 DEF Claimed, Final
  <2> QED BY <2>1 DEF Stays
<1> QED BY <1>5, <1>6, <1>10, <1>11, <1>12, <1>13, <1>14 DEF Inv

\* QueueReply commits for the owner of the row only.
LEMMA QueueReplyKeeps ==
    ASSUME Inv, NEW w \in Workers, QueueReply(w)
    PROVE  Inv' /\ Stays
<1>1. /\ wk[w].pc = "reply" /\ ~TooLate(w) /\ EndPass(w)
      /\ UNCHANGED <<now, plan, pos, typed, faults, sent>>
  BY DEF QueueReply, feedVars
<1>2. CASE Owns(w)
  <2> DEFINE m == wk[w].msg
  <2>1. /\ cmds' = [cmds EXCEPT ![m] = Unclaimed(@, "reply_queued")]
        /\ told' = [told EXCEPT ![m] = wk[w].answer]
        /\ confs' = IF IsPrompt(w) THEN Replaced(m, wk[w].expires) ELSE confs
    BY <1>2 DEF QueueReply
  <2>2. /\ Typed /\ m \in Msgs /\ wk[w].answer \in Answers /\ now \in Nat
        /\ wk[w].expires \in Nat
    BY <1>1, WorkerFields, PlanFacts DEF Inv, WorkerOK
  <2> HIDE DEF m
  <2>3. wk[w].msg = m
    BY DEF m
  <2>4. now < ExpiresAt(m)
    <3>1. ExpiresAt(m) \in Nat
      BY <2>2, RowFields, InboundAssumption DEF ExpiresAt
    <3>2. ~(now >= ExpiresAt(m))
      BY <1>1, <2>3 DEF TooLate
    <3> QED BY <2>2, <3>1, <3>2
  <2>5. /\ cmds' \in [Msgs -> CommandRows] /\ told' \in [Msgs -> Answers]
        /\ cmds'[m].status = "reply_queued" /\ cmds'[m].owner = NoWorker
        /\ cmds'[m].conf = cmds[m].conf
        /\ cmds'[m].created_at = cmds[m].created_at
        /\ cmds'[m].interrupted = cmds[m].interrupted
        /\ told'[m] = wk[w].answer
        /\ \A k \in Msgs : k # m => cmds'[k] = cmds[k] /\ told'[k] = told[k]
    BY <2>1, <2>2, RepliedRow
  <2>6. /\ confs' \in [Starts -> ConfirmationRows]
        /\ \A c \in Starts : c # m \/ wk[w].answer # "prompt" => ConfStep(c)
        /\ wk[w].answer = "prompt" /\ m \in Starts =>
             confs'[m] = Fresh(wk[w].expires)
        /\ wk[w].answer = "prompt" => \A c \in Starts :
             c # m /\ confs'[c].state = "awaiting_confirmation"
             => Sender(c) # Sender(m)
    BY <2>1, <2>2, <2>3, RepliedConfs
  <2>7. /\ wk' \in [Workers -> WorkerStates] /\ wk'[w].pc = "idle"
        /\ \A v \in Workers : v # w => wk'[v] = wk[v]
    BY <1>1, <2>2, EndedFields
  <2> QED BY <1>1, <1>2, <2>2, <2>3, <2>4, <2>5, <2>6, <2>7, RepliedKeeps
<1>3. CASE ~Owns(w)
  <2>1. UNCHANGED <<cmds, told, confs>>
    BY <1>3 DEF QueueReply
  <2> QED BY <1>1, <2>1, LeavingKeeps
<1> QED BY <1>2, <1>3

-----------------------------------------------------------------------------
(* The theorems.                                                           *)

\* The initial states satisfy the invariant.
LEMMA InitHolds == Init => Inv
<1> SUFFICES ASSUME Init PROVE Inv
  OBVIOUS
<1>1. plan \in Plans /\ Len(plan.msgs) \in Nat /\ plan.faults \in Nat
      /\ MaxNow \in Nat /\ MaxAttempts \in Nat /\ MaxAttempts # 0
  BY InboundAssumption DEF Init
<1>2. NoCommand \in CommandRows /\ NoConf \in ConfirmationRows
      /\ Down \in WorkerStates
  <2>1. 0 \in 0..MaxAttempts
    BY <1>1
  <2> QED BY <2>1 DEF NoCommand, NoConf, Down, CommandRows, ConfirmationRows,
                      WorkerStates, Statuses, States, Pcs, Answers
<1>3. 0 \in 0..MaxNow /\ 0 \in 0..plan.faults /\ 0 \in 0..Len(plan.msgs)
  BY <1>1
<1>4. Typed
  BY <1>1, <1>2, <1>3 DEF Init, Typed, Answers
<1>5. \A m \in Msgs : RowOK(m)
  <2>1. \A m \in Msgs : cmds[m] = NoCommand /\ told[m] = "none"
    BY DEF Init
  <2> QED BY <2>1 DEF RowOK, NoCommand, Claimed, NothingDone
<1>6. \A c \in Starts : ConfOK(c)
  <2>1. \A c \in Starts : confs[c] = NoConf /\ sent[c] = {} /\ told[c] = "none"
    BY DEF Init, Starts
  <2> QED BY <1>1, <2>1 DEF ConfOK, NoConf, Unconsumed, Bound
<1>7. OneCredential
  BY DEF OneCredential, Init, NoConf
<1>8. \A w \in Workers : WorkerOK(w)
  BY DEF Init, Down, WorkerOK
<1> QED BY <1>4, <1>5, <1>6, <1>7, <1>8 DEF Inv

\* Every step keeps it, and touches no settled command.
LEMMA StepKeeps == Inv /\ [Next]_vars => Inv' /\ (Stays \/ UNCHANGED vars)
<1> SUFFICES ASSUME Inv, [Next]_vars PROVE Inv' /\ (Stays \/ UNCHANGED vars)
  OBVIOUS
<1>1. CASE Feed
  <2>1. ASSUME NEW m \in Msgs, NEW code \in Starts \cup {0},
               Accept(m, code) \/ AcceptCancelled(m, code) \/ Discard(m, code)
        PROVE  Inv' /\ Stays
    BY <2>1, AcceptKeeps, AcceptCancelledKeeps, DiscardKeeps
  <2> QED BY <1>1, <2>1, LoseCursorKeeps DEF Feed
<1>2. ASSUME NEW w \in Workers, Loop(w) PROVE Inv' /\ Stays
  BY <1>2, StartKeeps, RecoveryScanKeeps, LeavesKeep, ClaimNextKeeps,
     ReleaseKeeps DEF Loop
<1>3. ASSUME NEW w \in Workers, Execute(w) PROVE Inv' /\ Stays
  BY <1>3, AnswerInterruptedKeeps, PlainKeeps, AskGatewayKeeps, LeavesKeep,
     PrepareConfirmationKeeps, CancelConfirmationsKeeps,
     ExecuteConfirmationKeeps, ControlEndsKeeps, ControlRetriesKeeps
     DEF Execute
<1>4. ASSUME NEW w \in Workers, Reply(w) PROVE Inv' /\ Stays
  BY <1>4, InterruptReplyKeeps, ReleaseKeeps, LeavesKeep, QueueReplyKeeps
     DEF Reply
<1>5. ASSUME NEW w \in Workers, DeviceActs(w) \/ RequestStop(w) \/ Crash(w)
      PROVE  Inv' /\ Stays
  BY <1>5, DeviceActsKeeps, StopKeeps
<1>6. CASE UNCHANGED vars
  <2>1. /\ UNCHANGED <<plan, typed, cmds, wk, sent, told>>
        /\ now' = now /\ faults' = faults /\ pos' = pos /\ confs' = confs
    BY <1>6 DEF vars
  <2>2. /\ now' \in 0..MaxNow /\ faults' \in 0..plan.faults
        /\ pos' \in 0..Len(plan.msgs)
    BY <2>1 DEF Inv, Typed
  <2>3. now <= now'
    BY <2>1, PlanFacts DEF Inv
  <2>4. confs' \in [Starts -> ConfirmationRows] /\ \A c \in Starts : ConfStep(c)
    BY <2>1, ConfsStill
  <2> QED BY <2>1, <2>2, <2>3, <2>4, AroundKeeps
<1> QED BY <1>1, <1>2, <1>3, <1>4, <1>5, <1>6, SweepConfirmationsKeeps,
           TickKeeps DEF Next

\* The invariant holds throughout, for every plan of messages, processes and
\* faults.
THEOREM Invariance == Spec => []Inv
BY InitHolds, StepKeeps, PTL DEF Spec

\* The two tables satisfy the CHECK constraints of 001_init.sql after every
\* transaction, and a sender has one awaiting confirmation at most (the partial
\* unique index).
THEOREM InboundTypeCorrect == Spec => []InboundTypeOK
<1>1. Inv => InboundTypeOK
  <2> SUFFICES ASSUME Inv PROVE InboundTypeOK
    OBVIOUS
  <2>1. Typed /\ NoWorker \notin Workers /\ MaxAttempts \in Nat
    BY PlanFacts, InboundAssumption DEF Inv
  <2>2. ASSUME NEW m \in Msgs
        PROVE  /\ cmds[m].status \in {"absent", "received"} \cup Claimed \cup Final
               /\ cmds[m].status \in Claimed <=> cmds[m].owner \in Workers
               /\ cmds[m].status \notin Claimed => cmds[m].owner = NoWorker
               /\ cmds[m].conf \in Starts \cup {0}
               /\ told[m] \in Answers
               /\ told[m] # "none" <=> cmds[m].status = "reply_queued"
    <3>1. RowOK(m)
      BY DEF Inv
    <3> QED BY <2>1, <3>1, RowFields DEF RowOK, Statuses
  <2>3. ASSUME NEW c \in Starts
        PROVE  /\ confs[c].state \in {"none", "deleted"} \cup Bound \cup Unconsumed
               /\ confs[c].state \in Bound => confs[c].key \in Msgs
               /\ confs[c].state \in Unconsumed => confs[c].key = 0
               /\ confs[c].attempts \in 0..MaxAttempts
               /\ confs[c].state = "locked" => confs[c].attempts = MaxAttempts
               /\ confs[c].state \in {"awaiting_confirmation", "cancelled"}
                    => confs[c].attempts < MaxAttempts
    <3>1. ConfOK(c) /\ confs[c].attempts \in 0..MaxAttempts
          /\ confs[c].state \in States /\ confs[c].key \in Msgs \cup {0}
      BY <2>1, ConfFields DEF Inv
    <3>2. confs[c].state \in {"awaiting_confirmation", "cancelled"} =>
            confs[c].attempts # MaxAttempts
      BY <3>1 DEF ConfOK
    <3>3. confs[c].attempts # MaxAttempts => confs[c].attempts < MaxAttempts
      BY <2>1, <3>1
    <3> QED BY <3>1, <3>2, <3>3 DEF ConfOK, States
  <2>4. OneCredential
    BY DEF Inv
  <2>5. now \in 0..MaxNow /\ faults \in 0..plan.faults
        /\ pos \in 0..Len(plan.msgs)
    BY <2>1 DEF Typed
  <2> QED BY <2>2, <2>3, <2>4, <2>5 DEF InboundTypeOK, OneCredential
<1> QED BY <1>1, Invariance, PTL

\* An intent reaches the device for at most one message, sent by the owner who
\* asked for it, with that confirmation's code, before it was due; and never once
\* wrong codes have locked it (resolve_confirmation_code,
\* prepare_control_dispatch_at).
THEOREM IntentsAreAuthorised == Spec => []IntentAuthorised
<1>1. Inv => IntentAuthorised
  <2> SUFFICES ASSUME Inv, NEW c \in Starts
               PROVE  /\ Cardinality(sent[c]) <= 1
                      /\ confs[c].attempts = MaxAttempts => sent[c] = {}
                      /\ \A m \in sent[c] :
                           /\ typed[m] = c
                           /\ Sender(m) = Sender(c)
                           /\ cmds[m].created_at < confs[c].expires_at
    BY DEF IntentAuthorised
  <2>1. /\ ConfOK(c) /\ sent[c] \in SUBSET Msgs /\ 0 \notin Msgs /\ c # 0
        /\ Starts \subseteq Msgs
    BY ConfFields, PlanFacts DEF Inv
  <2>2. Cardinality(sent[c]) <= 1
    <3>1. sent[c] \subseteq {confs[c].key}
      BY <2>1 DEF ConfOK
    <3>2. /\ IsFiniteSet({confs[c].key}) /\ Cardinality({confs[c].key}) = 1
      BY FS_Singleton
    <3>3. Cardinality(sent[c]) <= Cardinality({confs[c].key})
      BY <3>1, <3>2, FS_Subset
    <3> QED BY <3>2, <3>3
  <2>3. confs[c].attempts = MaxAttempts => sent[c] = {}
    BY <2>1 DEF ConfOK
  <2>4. ASSUME NEW m \in sent[c]
        PROVE  /\ typed[m] = c
               /\ Sender(m) = Sender(c)
               /\ cmds[m].created_at < confs[c].expires_at
    <3>1. m \in Msgs /\ cmds[m].conf = c
      BY <2>1 DEF ConfOK
    <3>2. RowOK(m)
      BY <3>1 DEF Inv
    <3> QED BY <2>1, <3>1, <3>2 DEF RowOK
  <2> QED BY <2>2, <2>3, <2>4
<1> QED BY <1>1, Invariance, PTL

\* The owner is told an outcome only if the device gave it, and that nothing was
\* done only if nothing was, unless the recorded outcome had been deleted as due
\* (queue_reply, recover_stale_claims_at, interrupt_claim_at).
THEOREM RepliesAreTrue == Spec => []ReplyIsTrue
<1>1. Inv => ReplyIsTrue
  <2> SUFFICES ASSUME Inv, NEW m \in Msgs, cmds[m].conf # 0
               PROVE  /\ told[m] = "outcome" => m \in sent[cmds[m].conf]
                      /\ /\ told[m] \in {"missing", "expired", "wrong_scope",
                                          "interrupted"}
                         /\ m \in sent[cmds[m].conf]
                         => confs[cmds[m].conf].state = "deleted"
    BY DEF ReplyIsTrue
  <2> DEFINE c == cmds[m].conf
  <2>1. /\ RowOK(m) /\ c \in Starts /\ ConfOK(c) /\ confs[c].state \in States
        /\ m # 0
    BY RowFields, ConfFields, PlanFacts DEF Inv
  <2>2. told[m] = "outcome" => m \in sent[c]
    BY <2>1 DEF RowOK
  <2>3. ASSUME told[m] \in NothingDone, m \in sent[c]
        PROVE  confs[c].state = "deleted"
    <3>1. confs[c].key = m /\ ~Live(m)
      BY <2>1, <2>3 DEF RowOK, ConfOK
    <3>2. confs[c].state \notin Bound /\ confs[c].state \notin Unconsumed
      BY <2>1, <3>1 DEF Live, ConfOK
    <3>3. confs[c].state # "none"
      BY <2>1 DEF RowOK, ConfOK
    <3> QED BY <2>1, <3>2, <3>3 DEF States
  <2> QED BY <2>2, <2>3 DEF NothingDone
<1> QED BY <1>1, Invariance, PTL

\* A command with a reply, or expired, never changes again: not through repeated
\* delivery, recovery, or a worker that lost its claim.
THEOREM SettledCommandsStay == Spec => SettledForever
<1>1. Inv /\ [Next]_vars =>
        [\A m \in Msgs : cmds[m].status \in Final =>
           cmds'[m] = cmds[m] /\ told'[m] = told[m]]_vars
  BY StepKeeps DEF Stays
<1> QED BY <1>1, Invariance, PTL DEF Spec, SettledForever

=============================================================================
