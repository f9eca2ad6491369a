----------------------------- MODULE WechatProofs -----------------------------
(***************************************************************************)
(* Proofs about the WeChat connection of the relay server.                 *)
(*                                                                         *)
(* WechatCutover, for any set of logins and any number of disconnects.     *)
(* Where a task stands in its code tells which of the three mutexes it has *)
(* asked for and which it holds (LocksInv).  So whoever waits waits for a  *)
(* party that can move, unless a disconnect, a stage writer and a staged   *)
(* login wait for each other.  The file, the runtime and the monitor       *)
(* disagree only where a task that holds the cutover mutex is between two  *)
(* of its writes, where a write that nobody waits for lands late, or after *)
(* a disconnect that the route's timeout cut off (ConnectionInv).          *)
(*                                                                         *)
(* WechatDelivery, for any log of messages and any number of logins,       *)
(* disconnects and crashes.  The argument for the messages follows the     *)
(* cursor: wherever a cursor is held (on disk, in SharedState, in the      *)
(* monitor's own copy, in a response being applied), everything before it  *)
(* has been captured, and captures are never undone.  The argument for the *)
(* context follows the token: while the published bundle holds a token     *)
(* that was refused, the connection is deactivated and asks for a new one, *)
(* and only a session with another token lifts that; so a sender that saw  *)
(* the connection activated may still take the bundle later, because only  *)
(* the sender itself can cause a refusal.                                  *)
(***************************************************************************)
EXTENDS WechatCutover, WechatDelivery, FiniteSetTheorems,
        WellFoundedInduction, TLAPS

-----------------------------------------------------------------------------
(* Part one: the cutover (WechatCutover).                                  *)

-----------------------------------------------------------------------------
(* The mutexes: what asking for one and leaving one does to its holder.    *)

(* One party asks: it comes last, and whoever held the mutex still does.   *)
LEMMA AskMutex ==
    ASSUME NEW q, IsMutex(q), NEW p \in Parties, p \notin DOMAIN q
    PROVE  /\ IsMutex(Ask(q, p))
           /\ DOMAIN Ask(q, p) = DOMAIN q \cup {p}
           /\ \A x \in DOMAIN q : Holds(Ask(q, p), x) <=> Holds(q, x)
<1> DEFINE r == Ask(q, p)
<1>1. /\ DOMAIN r = DOMAIN q \cup {p}
      /\ r[p] = DOMAIN q
      /\ \A x \in DOMAIN q : r[x] = q[x] /\ r[x] \subseteq DOMAIN q
  BY DEF Ask, IsMutex
<1>2. IsFiniteSet(DOMAIN r)
  BY <1>1, FS_AddElement DEF IsMutex
<1>3. r \in [DOMAIN r -> SUBSET (DOMAIN r)] /\ DOMAIN r \subseteq Parties
  BY <1>1 DEF Ask, IsMutex
<1>4. \A x, y \in DOMAIN r : x \in r[y] <=> x # y /\ y \notin r[x]
  BY <1>1 DEF IsMutex
<1>5. \A x \in DOMAIN r : \A y \in r[x] : r[y] \subseteq r[x]
  BY <1>1 DEF IsMutex
<1>6. \A x \in DOMAIN q : Holds(r, x) <=> Holds(q, x)
  BY <1>1 DEF Holds
<1> QED BY <1>1, <1>2, <1>3, <1>4, <1>5, <1>6 DEF IsMutex

(* Some parties leave: whoever held the mutex and stays still does.        *)
LEMMA LeaveMutex ==
    ASSUME NEW q, IsMutex(q), NEW P
    PROVE  /\ IsMutex(Without(q, P))
           /\ DOMAIN Without(q, P) = DOMAIN q \ P
           /\ \A x \in DOMAIN q \ P : Holds(q, x) => Holds(Without(q, P), x)
<1> DEFINE r == Without(q, P)
<1>1. /\ DOMAIN r = DOMAIN q \ P
      /\ \A x \in DOMAIN r : r[x] = q[x] \ P /\ r[x] \subseteq DOMAIN r
  BY DEF Without, IsMutex
<1>2. IsFiniteSet(DOMAIN r)
  BY <1>1, FS_Subset DEF IsMutex
<1>3. r \in [DOMAIN r -> SUBSET (DOMAIN r)] /\ DOMAIN r \subseteq Parties
  BY <1>1 DEF Without, IsMutex
<1>4. \A x, y \in DOMAIN r : x \in r[y] <=> x # y /\ y \notin r[x]
  BY <1>1 DEF IsMutex
<1>5. \A x \in DOMAIN r : \A y \in r[x] : r[y] \subseteq r[x]
  BY <1>1 DEF IsMutex
<1>6. \A x \in DOMAIN q \ P : Holds(q, x) => Holds(r, x)
  BY <1>1 DEF Holds
<1> QED BY <1>1, <1>2, <1>3, <1>4, <1>5, <1>6 DEF IsMutex

(* A mutex has at most one holder.                                         *)
LEMMA OneHolder ==
    ASSUME NEW q, IsMutex(q), NEW x, NEW y, Holds(q, x), Holds(q, y)
    PROVE  x = y
BY DEF IsMutex, Holds

(* A mutex that somebody asked for has a holder: the one with the fewest   *)
(* before it, because the parties before one of those are fewer still.     *)
LEMMA SomeHolder ==
    ASSUME NEW q, IsMutex(q), NEW p \in DOMAIN q
    PROVE  \E x \in DOMAIN q : Holds(q, x)
<1> DEFINE S == DOMAIN q
           T == {q[x] : x \in S}
           R == StrictSubsetOrdering(S)
<1>1. IsFiniteSet(S) /\ q[p] \in T /\ T \subseteq FiniteSubsetsOf(S)
  <2>1. IsFiniteSet(S) /\ \A x \in S : q[x] \subseteq S
    BY DEF IsMutex
  <2>2. \A x \in S : IsFiniteSet(q[x])
    BY <2>1, FS_Subset
  <2> QED BY <2>1, <2>2 DEF FiniteSubsetsOf
<1>2. PICK t \in T : \A u \in T : ~(<<u, t>> \in R)
  <2> HIDE DEF S, T, R
  <2>1. IsWellFoundedOn(R, FiniteSubsetsOf(S))
    BY FS_StrictSubsetOrderingWellFounded DEF R
  <2> QED BY <1>1, <2>1, WFMin
<1>3. PICK x \in S : t = q[x]
  OBVIOUS
<1>4. q[x] = {}
  <2> SUFFICES ASSUME NEW y \in q[x] PROVE FALSE
    OBVIOUS
  <2>1. y \in S /\ q[y] \subseteq q[x] /\ y \notin q[y]
    BY DEF IsMutex
  <2>2. q[y] \subseteq S /\ q[x] \subseteq S /\ q[y] # q[x]
    BY <2>1 DEF IsMutex
  <2>3. <<q[y], q[x]>> \in R
    BY <2>1, <2>2 DEF StrictSubsetOrdering
  <2> QED BY <1>2, <1>3, <2>1, <2>3
<1> QED BY <1>4 DEF Holds

-----------------------------------------------------------------------------
(* The locks: where each party stands tells which mutexes it has asked for *)
(* and which it holds.                                                     *)

\* Between begin_cutover and the release of the cutover mutex.
Critical == {"join", "promote", "start", "resume"}

\* The session of the candidate.
Alive == {"open", "awaiting", "committing"}

\* The worker of a login, its session and its staged secret.
LoginInv(l) ==
    /\ session[l] = "none" => task[l] = "none"
    /\ l \in DOMAIN gate <=> task[l] \in {"gate", "write"}
    /\ task[l] = "write" => Holds(gate, l)
    /\ l \in DOMAIN cutover <=> task[l] \in Critical \cup {"cutover"}
    /\ task[l] \in Critical => Holds(cutover, l)
    /\ l \in DOMAIN lock <=> task[l] = "write" \/ l \in staged
    /\ l \in staged => Holds(lock, l) /\ task[l] \in {"cutover", "join", "promote"}
    /\ task[l] \in {"join", "promote"} => l \in staged
    /\ task[l] = "cutover" /\ session[l] = "awaiting" => l \in staged
    /\ session[l] \in Alive <=> candidate = l
    /\ task[l] \in Critical => session[l] = "committing"
    /\ task[l] \in {"promote", "start", "resume"} => monitor.worker = "off"

\* The disconnect has emptied the monitor and is about to clear the store.
Clearing == {"clear", "removing", "removed"}

\* The disconnect.
DiscInv ==
    /\ D \in DOMAIN cutover <=> disc # "idle"
    /\ disc \notin {"idle", "cutover"} => Holds(cutover, D)
    /\ D \in DOMAIN gate <=> disc \notin {"idle", "cutover"}
    /\ disc \notin {"idle", "cutover", "gate"} =>
           Holds(gate, D) /\ staged = {}
    /\ D \in DOMAIN lock <=> disc \in Clearing
    /\ disc \in {"removing", "removed"} => Holds(lock, D)
    /\ disc \in Clearing => monitor.worker = "off"

\* The monitor.
MonitorInv ==
    /\ M \notin DOMAIN cutover /\ M \notin DOMAIN gate
    /\ M \in DOMAIN lock <=> monitor.worker \in {"saving", "renaming"}
    /\ monitor.worker = "renaming" => Holds(lock, M)

LocksInv == /\ CutoverTypeOK
            /\ \A l \in Logins : LoginInv(l)
            /\ DiscInv
            /\ MonitorInv

\* What is on disk, in the runtime and in the monitor.  As long as no
\* disconnect was cut off after it had emptied the monitor they disagree only
\* where a task that holds the cutover mutex is between two of its writes;
\* and whatever was cut off, nothing older than what was last promoted is in
\* use.
ConnectionInv ==
    /\ stray \/ torn \/ file = truth
    /\ truth # NoCred => runtime.cred \in {truth, NoCred}
    /\ ~torn /\ disc # "removed" =>
           /\ runtime.cred \in {truth, NoCred}
           /\ runtime.status = "connected" => runtime.cred = truth
    /\ truth # NoCred /\ (\A l \in Logins : task[l] # "start") =>
           monitor.cred \in {truth, NoCred}
    /\ monitor.worker # "off" =>
           /\ monitor.cred # NoCred
           /\ monitor.cred = truth \/ (torn /\ truth = NoCred)
    /\ ~torn /\ (\A l \in Logins : task[l] # "start") /\ disc \notin Clearing =>
           monitor.cred = runtime.cred
    /\ \A l \in Logins :
           task[l] = "start" => runtime.cred = truth /\ truth # NoCred
    /\ disc \in Clearing => monitor.cred = NoCred
    /\ disc = "removed" => ~torn /\ truth = NoCred
    /\ monitor.cancelled /\ monitor.worker # "off" =>
           disc = "join" \/ \E l \in Logins : task[l] = "join"
    /\ disconnects = 0 => /\ late = [c \in Creds |-> 0]
                          /\ ~stray /\ ~torn /\ disc = "idle"

(* The disconnect, the monitor and no credential are not logins.           *)
LEMMA Apart ==
    D \notin Logins /\ M \notin Logins /\ NoCred \notin Logins /\ D # M
BY CutoverAssumption DEF D, M

(* A new candidate has asked for nothing yet.                              *)
LEMMA StartLoginLocks ==
    ASSUME LocksInv, NEW l \in Logins, StartLogin(l)
    PROVE  LocksInv'
<1> USE DEF LocksInv, history
<1>1. CutoverTypeOK'
  BY Apart DEF StartLogin, At, loginVars, mutexes, CutoverTypeOK,
     LoginStates, TaskStates, Ended, Creds
<1>2. ASSUME NEW k \in Logins PROVE LoginInv(k)'
  BY Apart, OneHolder DEF StartLogin, At, loginVars, mutexes, LoginInv,
     DiscInv, Clearing, MonitorInv, CutoverTypeOK, Critical, Alive, Ended
<1>3. DiscInv'
  BY Apart, OneHolder DEF StartLogin, At, loginVars, mutexes, LoginInv,
     DiscInv, Clearing, MonitorInv, CutoverTypeOK, Critical
<1>4. MonitorInv'
  BY Apart, OneHolder DEF StartLogin, At, loginVars, mutexes, LoginInv,
     DiscInv, Clearing, MonitorInv, CutoverTypeOK, Critical
<1> QED BY <1>1, <1>2, <1>3, <1>4

(* The worker joins the queue of the staging gate.                         *)
LEMMA ConfirmLocks ==
    ASSUME LocksInv, NEW l \in Logins, Confirm(l)
    PROVE  LocksInv'
<1> USE DEF LocksInv, history
<1>1. /\ IsMutex(gate') /\ DOMAIN gate' = DOMAIN gate \cup {l}
      /\ \A x \in DOMAIN gate : Holds(gate', x) <=> Holds(gate, x)
  <2>1. IsMutex(gate) /\ gate' = Ask(gate, l)
    BY DEF Confirm, At, loginVars, mutexes, CutoverTypeOK
  <2>2. l \notin DOMAIN gate /\ l \in Parties
    BY DEF Confirm, LoginInv, Critical, Parties
  <2> QED BY <2>1, <2>2, AskMutex
<1>2. CutoverTypeOK'
  BY <1>1, Apart DEF Confirm, At, loginVars, mutexes, CutoverTypeOK,
     LoginStates, TaskStates, Ended, Creds
<1>3. ASSUME NEW k \in Logins PROVE LoginInv(k)'
  BY <1>1, Apart, OneHolder DEF Confirm, At, loginVars, mutexes, LoginInv,
     DiscInv, Clearing, MonitorInv, CutoverTypeOK, Critical, Alive, Ended
<1>4. DiscInv'
  BY <1>1, Apart, OneHolder DEF Confirm, At, loginVars, mutexes, LoginInv,
     DiscInv, Clearing, MonitorInv, CutoverTypeOK, Critical
<1>5. MonitorInv'
  BY <1>1, Apart, OneHolder DEF Confirm, At, loginVars, mutexes, LoginInv,
     DiscInv, Clearing, MonitorInv, CutoverTypeOK, Critical
<1> QED BY <1>2, <1>3, <1>4, <1>5

(* A login that ends before begin_cutover is not in the critical part.     *)
LEMMA EndLoginLocks ==
    ASSUME LocksInv, NEW l \in Logins,
           NEW s \in {"cancelled", "expired", "failed"}, EndLogin(l, s)
    PROVE  LocksInv'
<1> USE DEF LocksInv, history
<1>1. CutoverTypeOK'
  BY Apart DEF EndLogin, Endable, Release, loginVars, mutexes, CutoverTypeOK,
     LoginStates, TaskStates, Ended, Creds
<1>2. ASSUME NEW k \in Logins PROVE LoginInv(k)'
  BY Apart, OneHolder DEF EndLogin, Endable, Release, loginVars, mutexes,
     LoginInv, DiscInv, Clearing, MonitorInv, CutoverTypeOK, Critical,
     Alive, Ended
<1>3. DiscInv'
  BY Apart, OneHolder DEF EndLogin, Endable, Release, loginVars, mutexes,
     LoginInv, DiscInv, Clearing, MonitorInv, CutoverTypeOK, Critical
<1>4. MonitorInv'
  BY Apart, OneHolder DEF EndLogin, Endable, Release, loginVars, mutexes,
     LoginInv, DiscInv, Clearing, MonitorInv, CutoverTypeOK, Critical
<1> QED BY <1>1, <1>2, <1>3, <1>4

(* A worker that polls the provider has asked for no mutex.                *)
LEMMA LeaveLoginLocks ==
    ASSUME LocksInv, NEW l \in Logins, LeaveLogin(l)
    PROVE  LocksInv'
<1> USE DEF LocksInv, history
<1>1. CutoverTypeOK'
  BY Apart DEF LeaveLogin, At, loginVars, mutexes, CutoverTypeOK,
     LoginStates, TaskStates, Ended, Creds
<1>2. ASSUME NEW k \in Logins PROVE LoginInv(k)'
  BY Apart, OneHolder DEF LeaveLogin, At, loginVars, mutexes, LoginInv,
     DiscInv, Clearing, MonitorInv, CutoverTypeOK, Critical, Alive, Ended
<1>3. DiscInv'
  BY Apart, OneHolder DEF LeaveLogin, At, loginVars, mutexes, LoginInv,
     DiscInv, Clearing, MonitorInv, CutoverTypeOK, Critical
<1>4. MonitorInv'
  BY Apart, OneHolder DEF LeaveLogin, At, loginVars, mutexes, LoginInv,
     DiscInv, Clearing, MonitorInv, CutoverTypeOK, Critical
<1> QED BY <1>1, <1>2, <1>3, <1>4

(* The holder of the gate joins the queue of the write lock.               *)
LEMMA StageBeginsLocks ==
    ASSUME LocksInv, NEW l \in Logins, StageBegins(l)
    PROVE  LocksInv'
<1> USE DEF LocksInv, history
<1>1. /\ IsMutex(lock') /\ DOMAIN lock' = DOMAIN lock \cup {l}
      /\ \A x \in DOMAIN lock : Holds(lock', x) <=> Holds(lock, x)
  <2>1. IsMutex(lock) /\ lock' = Ask(lock, l)
    BY DEF StageBegins, At, loginVars, mutexes, CutoverTypeOK
  <2>2. l \notin DOMAIN lock /\ l \in Parties
    BY DEF StageBegins, LoginInv, Critical, Parties
  <2> QED BY <2>1, <2>2, AskMutex
<1>2. CutoverTypeOK'
  BY <1>1, Apart DEF StageBegins, At, loginVars, mutexes, CutoverTypeOK,
     LoginStates, TaskStates, Ended, Creds
<1>3. ASSUME NEW k \in Logins PROVE LoginInv(k)'
  BY <1>1, Apart, OneHolder DEF StageBegins, At, loginVars, mutexes,
     LoginInv, DiscInv, Clearing, MonitorInv, CutoverTypeOK, Critical,
     Alive, Ended
<1>4. DiscInv'
  BY <1>1, Apart, OneHolder DEF StageBegins, At, loginVars, mutexes,
     LoginInv, DiscInv, Clearing, MonitorInv, CutoverTypeOK, Critical
<1>5. MonitorInv'
  BY <1>1, Apart, OneHolder DEF StageBegins, At, loginVars, mutexes,
     LoginInv, DiscInv, Clearing, MonitorInv, CutoverTypeOK, Critical
<1> QED BY <1>2, <1>3, <1>4, <1>5

(* The staged secret keeps the write lock; the gate is released before the *)
(* cutover mutex is asked for.                                             *)
LEMMA StageDoneLocks ==
    ASSUME LocksInv, NEW l \in Logins, StageDone(l)
    PROVE  LocksInv'
<1> USE DEF LocksInv, history
<1>1. /\ IsMutex(gate') /\ DOMAIN gate' = DOMAIN gate \ {l}
      /\ \A x \in DOMAIN gate' : Holds(gate, x) => Holds(gate', x)
  <2>1. IsMutex(gate) /\ gate' = Without(gate, {l})
    BY DEF StageDone, AfterStage, At, loginVars, mutexes, CutoverTypeOK
  <2> QED BY <2>1, LeaveMutex
<1>2. /\ IsMutex(cutover') /\ DOMAIN cutover' = DOMAIN cutover \cup {l}
      /\ \A x \in DOMAIN cutover : Holds(cutover', x) <=> Holds(cutover, x)
  <2>1. IsMutex(cutover) /\ cutover' = Ask(cutover, l)
    BY DEF StageDone, AfterStage, At, loginVars, mutexes, CutoverTypeOK
  <2>2. l \notin DOMAIN cutover /\ l \in Parties
    BY DEF StageDone, LoginInv, Critical, Parties
  <2> QED BY <2>1, <2>2, AskMutex
<1>3. CutoverTypeOK'
  BY <1>1, <1>2, Apart DEF StageDone, AfterStage, At, loginVars, mutexes,
     CutoverTypeOK, LoginStates, TaskStates, Ended, Creds
<1>4. ASSUME NEW k \in Logins PROVE LoginInv(k)'
  <2>1. LoginInv(k) /\ LoginInv(l) /\ task \in [Logins -> TaskStates]
    BY DEF CutoverTypeOK
  <2>2. CASE k = l
    BY <1>1, <1>2, <2>1, <2>2 DEF StageDone, AfterStage, At, LoginInv, Critical
  <2>3. CASE k # l
    BY <1>1, <1>2, <2>1, <2>3 DEF StageDone, AfterStage, At, LoginInv
  <2> QED BY <2>2, <2>3
<1>5. DiscInv'
  BY <1>1, <1>2, Apart, OneHolder DEF StageDone, AfterStage, At, loginVars,
     mutexes, LoginInv, DiscInv, Clearing, MonitorInv, CutoverTypeOK, Critical
<1>6. MonitorInv'
  BY <1>1, <1>2, Apart, OneHolder DEF StageDone, AfterStage, At, loginVars,
     mutexes, LoginInv, DiscInv, Clearing, MonitorInv, CutoverTypeOK, Critical
<1> QED BY <1>3, <1>4, <1>5, <1>6

(* A failed stage leaves both mutexes.                                     *)
LEMMA StageFailsLocks ==
    ASSUME LocksInv, NEW l \in Logins, StageFails(l)
    PROVE  LocksInv'
<1> USE DEF LocksInv, history
<1>1. /\ IsMutex(gate') /\ DOMAIN gate' = DOMAIN gate \ {l}
      /\ \A x \in DOMAIN gate' : Holds(gate, x) => Holds(gate', x)
  <2>1. IsMutex(gate) /\ gate' = Without(gate, {l})
    BY DEF StageFails, At, loginVars, mutexes, CutoverTypeOK
  <2> QED BY <2>1, LeaveMutex
<1>2. /\ IsMutex(lock') /\ DOMAIN lock' = DOMAIN lock \ {l}
      /\ \A x \in DOMAIN lock' : Holds(lock, x) => Holds(lock', x)
  <2>1. IsMutex(lock) /\ lock' = Without(lock, {l})
    BY DEF StageFails, At, loginVars, mutexes, CutoverTypeOK
  <2> QED BY <2>1, LeaveMutex
<1>3. CutoverTypeOK'
  BY <1>1, <1>2, Apart DEF StageFails, At, loginVars, mutexes, CutoverTypeOK,
     LoginStates, TaskStates, Ended, Creds
<1>4. ASSUME NEW k \in Logins PROVE LoginInv(k)'
  BY <1>1, <1>2, Apart, OneHolder DEF StageFails, At, loginVars, mutexes,
     LoginInv, DiscInv, Clearing, MonitorInv, CutoverTypeOK, Critical,
     Alive, Ended
<1>5. DiscInv'
  BY <1>1, <1>2, Apart, OneHolder DEF StageFails, At, loginVars, mutexes,
     LoginInv, DiscInv, Clearing, MonitorInv, CutoverTypeOK, Critical
<1>6. MonitorInv'
  BY <1>1, <1>2, Apart, OneHolder DEF StageFails, At, loginVars, mutexes,
     LoginInv, DiscInv, Clearing, MonitorInv, CutoverTypeOK, Critical
<1> QED BY <1>3, <1>4, <1>5, <1>6

(* A login that is turned away leaves the cutover mutex and, unless a      *)
(* disconnect has drained it, the write lock.                              *)
LEMMA TurnedAwayLocks ==
    ASSUME LocksInv, NEW l \in Logins, TurnedAway(l)
    PROVE  LocksInv'
<1> USE DEF LocksInv, history
<1>1. /\ IsMutex(lock') /\ DOMAIN lock' = DOMAIN lock \ {l}
      /\ \A x \in DOMAIN lock' : Holds(lock, x) => Holds(lock', x)
  <2>1. IsMutex(lock) /\ lock' = Without(lock, {l})
    BY DEF TurnedAway, Discard, At, loginVars, mutexes, CutoverTypeOK
  <2> QED BY <2>1, LeaveMutex
<1>2. /\ IsMutex(cutover') /\ DOMAIN cutover' = DOMAIN cutover \ {l}
      /\ \A x \in DOMAIN cutover' : Holds(cutover, x) => Holds(cutover', x)
  <2>1. IsMutex(cutover) /\ cutover' = Without(cutover, {l})
    BY DEF TurnedAway, Discard, At, loginVars, mutexes, CutoverTypeOK
  <2> QED BY <2>1, LeaveMutex
<1>3. CutoverTypeOK'
  BY <1>1, <1>2, Apart DEF TurnedAway, Discard, At, loginVars, mutexes,
     CutoverTypeOK, LoginStates, TaskStates, Ended, Creds
<1>4. ASSUME NEW k \in Logins PROVE LoginInv(k)'
  <2>1. LoginInv(k) /\ LoginInv(l) /\ task \in [Logins -> TaskStates]
    BY DEF CutoverTypeOK
  <2>2. CASE k = l
    BY <1>1, <1>2, <2>1, <2>2 DEF TurnedAway, Discard, At, LoginInv, Critical, Alive
  <2>3. CASE k # l
    BY <1>1, <1>2, <2>1, <2>3 DEF TurnedAway, Discard, At, LoginInv
  <2> QED BY <2>2, <2>3
<1>5. DiscInv'
  BY <1>1, <1>2, Apart, OneHolder DEF TurnedAway, Discard, At, loginVars,
     mutexes, LoginInv, DiscInv, Clearing, MonitorInv, CutoverTypeOK, Critical
<1>6. MonitorInv'
  BY <1>1, <1>2, Apart, OneHolder DEF TurnedAway, Discard, At, loginVars,
     mutexes, LoginInv, DiscInv, Clearing, MonitorInv, CutoverTypeOK, Critical
<1> QED BY <1>3, <1>4, <1>5, <1>6

(* A candidate that still awaits its cutover is staged.                    *)
LEMMA BeginCutoverLocks ==
    ASSUME LocksInv, NEW l \in Logins, BeginCutover(l)
    PROVE  LocksInv'
<1> USE DEF LocksInv, history
<1>1. CutoverTypeOK'
  BY DEF BeginCutover, At, loginVars, mutexes, CutoverTypeOK, LoginStates,
     TaskStates
<1>2. ASSUME NEW k \in Logins PROVE LoginInv(k)'
  BY Apart, OneHolder DEF BeginCutover, At, loginVars, mutexes, LoginInv,
     DiscInv, Clearing, MonitorInv, CutoverTypeOK, Critical, Alive, Ended
<1>3. DiscInv'
  BY Apart, OneHolder DEF BeginCutover, At, loginVars, mutexes, LoginInv,
     DiscInv, Clearing, MonitorInv, CutoverTypeOK, Critical
<1>4. MonitorInv'
  BY Apart, OneHolder DEF BeginCutover, At, loginVars, mutexes, LoginInv,
     DiscInv, Clearing, MonitorInv, CutoverTypeOK, Critical
<1> QED BY <1>1, <1>2, <1>3, <1>4

(* The old monitor has ended.                                              *)
LEMMA JoinedLocks ==
    ASSUME LocksInv, NEW l \in Logins, Joined(l)
    PROVE  LocksInv'
<1> USE DEF LocksInv, history
<1>1. CutoverTypeOK'
  BY Apart DEF Joined, At, loginVars, mutexes, CutoverTypeOK, LoginStates,
     TaskStates, Ended, Creds
<1>2. ASSUME NEW k \in Logins PROVE LoginInv(k)'
  BY Apart, OneHolder DEF Joined, At, loginVars, mutexes, LoginInv, DiscInv,
     Clearing, MonitorInv, CutoverTypeOK, Critical, Alive, Ended
<1>3. DiscInv'
  BY Apart, OneHolder DEF Joined, At, loginVars, mutexes, LoginInv, DiscInv,
     Clearing, MonitorInv, CutoverTypeOK, Critical
<1>4. MonitorInv'
  BY Apart, OneHolder DEF Joined, At, loginVars, mutexes, LoginInv, DiscInv,
     Clearing, MonitorInv, CutoverTypeOK, Critical
<1> QED BY <1>1, <1>2, <1>3, <1>4

(* A failed cutover gives up its staged secret with its lock.              *)
LEMMA CutoverFailsLocks ==
    ASSUME LocksInv, NEW l \in Logins, CutoverFails(l)
    PROVE  LocksInv'
<1> USE DEF LocksInv, history
<1>1. /\ IsMutex(lock') /\ DOMAIN lock' = DOMAIN lock \ {l}
      /\ \A x \in DOMAIN lock' : Holds(lock, x) => Holds(lock', x)
  <2>1. IsMutex(lock) /\ lock' = Without(lock, {l})
    BY DEF CutoverFails, Discard, At, loginVars, mutexes, CutoverTypeOK
  <2> QED BY <2>1, LeaveMutex
<1>2. CutoverTypeOK'
  BY <1>1, Apart DEF CutoverFails, Discard, At, loginVars, mutexes,
     CutoverTypeOK, LoginStates, TaskStates, Ended, Creds
<1>3. ASSUME NEW k \in Logins PROVE LoginInv(k)'
  BY <1>1, Apart, OneHolder DEF CutoverFails, Discard, At, loginVars,
     mutexes, LoginInv, DiscInv, Clearing, MonitorInv, CutoverTypeOK,
     Critical, Alive, Ended
<1>4. DiscInv'
  BY <1>1, Apart, OneHolder DEF CutoverFails, Discard, At, loginVars,
     mutexes, LoginInv, DiscInv, Clearing, MonitorInv, CutoverTypeOK, Critical
<1>5. MonitorInv'
  BY <1>1, Apart, OneHolder DEF CutoverFails, Discard, At, loginVars,
     mutexes, LoginInv, DiscInv, Clearing, MonitorInv, CutoverTypeOK, Critical
<1> QED BY <1>2, <1>3, <1>4, <1>5

(* The promotion consumes the staged secret with its lock.                 *)
LEMMA PromoteLocks ==
    ASSUME LocksInv, NEW l \in Logins, Promote(l)
    PROVE  LocksInv'
<1> USE DEF LocksInv, history
<1>1. /\ IsMutex(lock') /\ DOMAIN lock' = DOMAIN lock \ {l}
      /\ \A x \in DOMAIN lock' : Holds(lock, x) => Holds(lock', x)
  <2>1. IsMutex(lock) /\ lock' = Without(lock, {l})
    BY DEF Promote, Discard, At, loginVars, mutexes, CutoverTypeOK
  <2> QED BY <2>1, LeaveMutex
<1>2. CutoverTypeOK'
  BY <1>1, Apart DEF Promote, Discard, At, loginVars, mutexes, CutoverTypeOK,
     LoginStates, TaskStates, Ended, Creds
<1>3. ASSUME NEW k \in Logins PROVE LoginInv(k)'
  <2>1. LoginInv(k) /\ LoginInv(l) /\ task \in [Logins -> TaskStates]
    BY DEF CutoverTypeOK
  <2>2. CASE k = l
    BY <1>1, <2>1, <2>2 DEF Promote, Discard, At, LoginInv, Critical, Alive
  <2>3. CASE k # l
    BY <1>1, <2>1, <2>3 DEF Promote, Discard, At, LoginInv
  <2> QED BY <2>2, <2>3
<1>4. DiscInv'
  BY <1>1, Apart, OneHolder DEF Promote, Discard, At, loginVars, mutexes,
     LoginInv, DiscInv, Clearing, MonitorInv, CutoverTypeOK, Critical
<1>5. MonitorInv'
  BY <1>1, Apart, OneHolder DEF Promote, Discard, At, loginVars, mutexes,
     LoginInv, DiscInv, Clearing, MonitorInv, CutoverTypeOK, Critical
<1> QED BY <1>2, <1>3, <1>4, <1>5

(* The new monitor has asked for nothing.                                  *)
LEMMA StartPromotedLocks ==
    ASSUME LocksInv, NEW l \in Logins, StartPromoted(l)
    PROVE  LocksInv'
<1> USE DEF LocksInv, history
<1>1. /\ IsMutex(cutover') /\ DOMAIN cutover' = DOMAIN cutover \ {l}
      /\ \A x \in DOMAIN cutover' : Holds(cutover, x) => Holds(cutover', x)
  <2>1. IsMutex(cutover) /\ cutover' = Without(cutover, {l})
    BY DEF StartPromoted, Running, At, loginVars, mutexes, CutoverTypeOK
  <2> QED BY <2>1, LeaveMutex
<1>2. CutoverTypeOK'
  BY <1>1, Apart DEF StartPromoted, Running, At, loginVars, mutexes,
     CutoverTypeOK, LoginStates, TaskStates, Ended, Creds
<1>3. ASSUME NEW k \in Logins PROVE LoginInv(k)'
  BY <1>1, Apart, OneHolder DEF StartPromoted, Running, At, loginVars,
     mutexes, LoginInv, DiscInv, Clearing, MonitorInv, CutoverTypeOK,
     Critical, Alive, Ended
<1>4. DiscInv'
  BY <1>1, Apart, OneHolder DEF StartPromoted, Running, At, loginVars,
     mutexes, LoginInv, DiscInv, Clearing, MonitorInv, CutoverTypeOK, Critical
<1>5. MonitorInv'
  BY <1>1, Apart, OneHolder DEF StartPromoted, Running, At, loginVars,
     mutexes, LoginInv, DiscInv, Clearing, MonitorInv, CutoverTypeOK, Critical
<1> QED BY <1>2, <1>3, <1>4, <1>5

(* So has the resumed one.                                                 *)
LEMMA ResumeLocks ==
    ASSUME LocksInv, NEW l \in Logins, Resume(l)
    PROVE  LocksInv'
<1> USE DEF LocksInv, history
<1>1. /\ IsMutex(cutover') /\ DOMAIN cutover' = DOMAIN cutover \ {l}
      /\ \A x \in DOMAIN cutover' : Holds(cutover, x) => Holds(cutover', x)
  <2>1. IsMutex(cutover) /\ cutover' = Without(cutover, {l})
    BY DEF Resume, Running, Resumable, At, loginVars, mutexes, CutoverTypeOK
  <2> QED BY <2>1, LeaveMutex
<1>2. CutoverTypeOK'
  BY <1>1, Apart DEF Resume, Running, Resumable, At, loginVars, mutexes,
     CutoverTypeOK, LoginStates, TaskStates, Ended, Creds
<1>3. ASSUME NEW k \in Logins PROVE LoginInv(k)'
  BY <1>1, Apart, OneHolder DEF Resume, Running, Resumable, At, loginVars,
     mutexes, LoginInv, DiscInv, Clearing, MonitorInv, CutoverTypeOK,
     Critical, Alive, Ended
<1>4. DiscInv'
  BY <1>1, Apart, OneHolder DEF Resume, Running, Resumable, At, loginVars,
     mutexes, LoginInv, DiscInv, Clearing, MonitorInv, CutoverTypeOK, Critical
<1>5. MonitorInv'
  BY <1>1, Apart, OneHolder DEF Resume, Running, Resumable, At, loginVars,
     mutexes, LoginInv, DiscInv, Clearing, MonitorInv, CutoverTypeOK, Critical
<1> QED BY <1>2, <1>3, <1>4, <1>5

(* The login is over, and with it the candidate.                           *)
LEMMA FinishCutoverLocks ==
    ASSUME LocksInv, NEW l \in Logins, FinishCutover(l)
    PROVE  LocksInv'
<1> USE DEF LocksInv, history
<1>1. CutoverTypeOK'
  BY Apart DEF FinishCutover, Release, At, loginVars, mutexes, CutoverTypeOK,
     LoginStates, TaskStates, Ended, Creds
<1>2. ASSUME NEW k \in Logins PROVE LoginInv(k)'
  BY Apart, OneHolder DEF FinishCutover, Release, At, loginVars, mutexes,
     LoginInv, DiscInv, Clearing, MonitorInv, CutoverTypeOK, Critical,
     Alive, Ended
<1>3. DiscInv'
  BY Apart, OneHolder DEF FinishCutover, Release, At, loginVars, mutexes,
     LoginInv, DiscInv, Clearing, MonitorInv, CutoverTypeOK, Critical
<1>4. MonitorInv'
  BY Apart, OneHolder DEF FinishCutover, Release, At, loginVars, mutexes,
     LoginInv, DiscInv, Clearing, MonitorInv, CutoverTypeOK, Critical
<1> QED BY <1>1, <1>2, <1>3, <1>4

(* The monitor joins the queue of the write lock.                          *)
LEMMA SaveBeginsLocks ==
    ASSUME LocksInv, SaveBegins
    PROVE  LocksInv'
<1> USE DEF LocksInv, history
<1>1. /\ IsMutex(lock') /\ DOMAIN lock' = DOMAIN lock \cup {M}
      /\ \A x \in DOMAIN lock : Holds(lock', x) <=> Holds(lock, x)
  <2>1. IsMutex(lock) /\ lock' = Ask(lock, M)
    BY DEF SaveBegins, loginVars, mutexes, CutoverTypeOK
  <2>2. M \notin DOMAIN lock /\ M \in Parties
    BY DEF SaveBegins, MonitorInv, Parties
  <2> QED BY <2>1, <2>2, AskMutex
<1>2. CutoverTypeOK'
  BY <1>1, Apart DEF SaveBegins, loginVars, mutexes, CutoverTypeOK,
     LoginStates, TaskStates, Ended, Creds
<1>3. ASSUME NEW k \in Logins PROVE LoginInv(k)'
  BY <1>1, Apart, OneHolder DEF SaveBegins, loginVars, mutexes, LoginInv,
     DiscInv, Clearing, MonitorInv, CutoverTypeOK, Critical, Alive, Ended
<1>4. DiscInv'
  BY <1>1, Apart, OneHolder DEF SaveBegins, loginVars, mutexes, LoginInv,
     DiscInv, Clearing, MonitorInv, CutoverTypeOK, Critical
<1>5. MonitorInv'
  BY <1>1, Apart, OneHolder DEF SaveBegins, loginVars, mutexes, LoginInv,
     DiscInv, Clearing, MonitorInv, CutoverTypeOK, Critical
<1> QED BY <1>2, <1>3, <1>4, <1>5

(* The monitor goes on with the lock it has.                               *)
LEMMA RenameBeginsLocks ==
    ASSUME LocksInv, RenameBegins
    PROVE  LocksInv'
<1> USE DEF LocksInv, history
<1>1. CutoverTypeOK'
  BY Apart DEF RenameBegins, loginVars, mutexes, CutoverTypeOK, LoginStates,
     TaskStates, Ended, Creds
<1>2. ASSUME NEW k \in Logins PROVE LoginInv(k)'
  BY Apart, OneHolder DEF RenameBegins, loginVars, mutexes, LoginInv,
     DiscInv, Clearing, MonitorInv, CutoverTypeOK, Critical, Alive, Ended
<1>3. DiscInv'
  BY Apart, OneHolder DEF RenameBegins, loginVars, mutexes, LoginInv,
     DiscInv, Clearing, MonitorInv, CutoverTypeOK, Critical
<1>4. MonitorInv'
  BY Apart, OneHolder DEF RenameBegins, loginVars, mutexes, LoginInv,
     DiscInv, Clearing, MonitorInv, CutoverTypeOK, Critical
<1> QED BY <1>1, <1>2, <1>3, <1>4

(* The monitor releases it.                                                *)
LEMMA RenameDoneLocks ==
    ASSUME LocksInv, RenameDone
    PROVE  LocksInv'
<1> USE DEF LocksInv, history
<1>1. /\ IsMutex(lock') /\ DOMAIN lock' = DOMAIN lock \ {M}
      /\ \A x \in DOMAIN lock' : Holds(lock, x) => Holds(lock', x)
  <2>1. IsMutex(lock) /\ lock' = Without(lock, {M})
    BY DEF RenameDone, loginVars, mutexes, CutoverTypeOK
  <2> QED BY <2>1, LeaveMutex
<1>2. CutoverTypeOK'
  BY <1>1, Apart DEF RenameDone, loginVars, mutexes, CutoverTypeOK,
     LoginStates, TaskStates, Ended, Creds
<1>3. ASSUME NEW k \in Logins PROVE LoginInv(k)'
  BY <1>1, Apart, OneHolder DEF RenameDone, loginVars, mutexes, LoginInv,
     DiscInv, Clearing, MonitorInv, CutoverTypeOK, Critical, Alive, Ended
<1>4. DiscInv'
  BY <1>1, Apart, OneHolder DEF RenameDone, loginVars, mutexes, LoginInv,
     DiscInv, Clearing, MonitorInv, CutoverTypeOK, Critical
<1>5. MonitorInv'
  BY <1>1, Apart, OneHolder DEF RenameDone, loginVars, mutexes, LoginInv,
     DiscInv, Clearing, MonitorInv, CutoverTypeOK, Critical
<1> QED BY <1>2, <1>3, <1>4, <1>5

(* The monitor gives up its place.                                         *)
LEMMA MonitorStopsLocks ==
    ASSUME LocksInv, MonitorStops
    PROVE  LocksInv'
<1> USE DEF LocksInv, history
<1>1. /\ IsMutex(lock') /\ DOMAIN lock' = DOMAIN lock \ {M}
      /\ \A x \in DOMAIN lock' : Holds(lock, x) => Holds(lock', x)
  <2>1. IsMutex(lock) /\ lock' = Without(lock, {M})
    BY DEF MonitorStops, AfterDrop, LeftBehind,
     Started, loginVars, mutexes, CutoverTypeOK
  <2> QED BY <2>1, LeaveMutex
<1>2. CutoverTypeOK'
  BY <1>1, Apart DEF MonitorStops, AfterDrop, LeftBehind,
     Started, loginVars, mutexes,
     CutoverTypeOK, LoginStates, TaskStates, Ended, Creds
<1>3. ASSUME NEW k \in Logins PROVE LoginInv(k)'
  BY <1>1, Apart, OneHolder DEF MonitorStops, AfterDrop, LeftBehind,
     Started, loginVars, mutexes,
     LoginInv, DiscInv, Clearing, MonitorInv, CutoverTypeOK, Critical,
     Alive, Ended
<1>4. DiscInv'
  BY <1>1, Apart, OneHolder DEF MonitorStops, AfterDrop, LeftBehind,
     Started, loginVars, mutexes,
     LoginInv, DiscInv, Clearing, MonitorInv, CutoverTypeOK, Critical
<1>5. MonitorInv'
  BY <1>1, Apart, OneHolder DEF MonitorStops, AfterDrop, LeftBehind,
     Started, loginVars, mutexes,
     LoginInv, DiscInv, Clearing, MonitorInv, CutoverTypeOK, Critical
<1> QED BY <1>2, <1>3, <1>4, <1>5

(* The disconnect joins the queue of the cutover mutex.                    *)
LEMMA RequestDisconnectLocks ==
    ASSUME LocksInv, RequestDisconnect
    PROVE  LocksInv'
<1> USE DEF LocksInv, history
<1>1. /\ IsMutex(cutover') /\ DOMAIN cutover' = DOMAIN cutover \cup {D}
      /\ \A x \in DOMAIN cutover : Holds(cutover', x) <=> Holds(cutover, x)
  <2>1. IsMutex(cutover) /\ cutover' = Ask(cutover, D)
    BY DEF RequestDisconnect, loginVars, mutexes, CutoverTypeOK
  <2>2. D \notin DOMAIN cutover /\ D \in Parties
    BY DEF RequestDisconnect, DiscInv, Parties
  <2> QED BY <2>1, <2>2, AskMutex
<1>2. CutoverTypeOK'
  BY <1>1, CutoverAssumption DEF RequestDisconnect, loginVars, mutexes,
     CutoverTypeOK, LoginStates, TaskStates, Ended, Creds
<1>3. ASSUME NEW k \in Logins PROVE LoginInv(k)'
  BY <1>1, Apart, OneHolder DEF RequestDisconnect, loginVars, mutexes,
     LoginInv, DiscInv, Clearing, MonitorInv, CutoverTypeOK, Critical,
     Alive, Ended
<1>4. DiscInv'
  BY <1>1, Apart, OneHolder DEF RequestDisconnect, loginVars, mutexes,
     LoginInv, DiscInv, Clearing, MonitorInv, CutoverTypeOK, Critical
<1>5. MonitorInv'
  BY <1>1, Apart, OneHolder DEF RequestDisconnect, loginVars, mutexes,
     LoginInv, DiscInv, Clearing, MonitorInv, CutoverTypeOK, Critical
<1> QED BY <1>2, <1>3, <1>4, <1>5

(* The disconnect joins the queue of the gate.                             *)
LEMMA AskGateLocks ==
    ASSUME LocksInv, AskGate
    PROVE  LocksInv'
<1> USE DEF LocksInv, history
<1>1. /\ IsMutex(gate') /\ DOMAIN gate' = DOMAIN gate \cup {D}
      /\ \A x \in DOMAIN gate : Holds(gate', x) <=> Holds(gate, x)
  <2>1. IsMutex(gate) /\ gate' = Ask(gate, D)
    BY DEF AskGate, loginVars, mutexes, CutoverTypeOK
  <2>2. D \notin DOMAIN gate /\ D \in Parties
    BY DEF AskGate, DiscInv, Parties
  <2> QED BY <2>1, <2>2, AskMutex
<1>2. CutoverTypeOK'
  BY <1>1, Apart DEF AskGate, loginVars, mutexes, CutoverTypeOK, LoginStates,
     TaskStates, Ended, Creds
<1>3. ASSUME NEW k \in Logins PROVE LoginInv(k)'
  BY <1>1, Apart, OneHolder DEF AskGate, loginVars, mutexes, LoginInv,
     DiscInv, Clearing, MonitorInv, CutoverTypeOK, Critical, Alive, Ended
<1>4. DiscInv'
  BY <1>1, Apart, OneHolder DEF AskGate, loginVars, mutexes, LoginInv,
     DiscInv, Clearing, MonitorInv, CutoverTypeOK, Critical
<1>5. MonitorInv'
  BY <1>1, Apart, OneHolder DEF AskGate, loginVars, mutexes, LoginInv,
     DiscInv, Clearing, MonitorInv, CutoverTypeOK, Critical
<1> QED BY <1>2, <1>3, <1>4, <1>5

(* Under both mutexes no secret is left staged and nobody is in the critical *)
(* part.                                                                   *)
LEMMA DrainLocks ==
    ASSUME LocksInv, Drain
    PROVE  LocksInv'
<1> USE DEF LocksInv, history
<1>1. /\ IsMutex(lock') /\ DOMAIN lock' = DOMAIN lock \ staged
      /\ \A x \in DOMAIN lock' : Holds(lock, x) => Holds(lock', x)
  <2>1. IsMutex(lock) /\ lock' = Without(lock, staged)
    BY DEF Drain, Drained, loginVars, mutexes, CutoverTypeOK
  <2> QED BY <2>1, LeaveMutex
<1>2. CutoverTypeOK'
  BY <1>1, Apart DEF Drain, Drained, loginVars, mutexes, CutoverTypeOK,
     LoginStates, TaskStates, Ended, Creds
<1>3. ASSUME NEW k \in Logins PROVE LoginInv(k)'
  BY <1>1, Apart, OneHolder DEF Drain, Drained, loginVars, mutexes, LoginInv,
     DiscInv, Clearing, MonitorInv, CutoverTypeOK, Critical, Alive, Ended
<1>4. DiscInv'
  BY <1>1, Apart, OneHolder DEF Drain, Drained, loginVars, mutexes, LoginInv,
     DiscInv, Clearing, MonitorInv, CutoverTypeOK, Critical
<1>5. MonitorInv'
  BY <1>1, Apart, OneHolder DEF Drain, Drained, loginVars, mutexes, LoginInv,
     DiscInv, Clearing, MonitorInv, CutoverTypeOK, Critical
<1> QED BY <1>2, <1>3, <1>4, <1>5

(* The disconnect goes on with the mutexes it has.                         *)
LEMMA GoesOnLocks ==
    ASSUME LocksInv, TellMonitor \/ RemoveBegins \/ Removed
    PROVE  LocksInv'
<1> USE DEF LocksInv, history, TellMonitor, RemoveBegins, Removed
<1>1. CutoverTypeOK'
  BY Apart DEF loginVars, mutexes, CutoverTypeOK, LoginStates, TaskStates,
     Ended, Creds
<1>2. ASSUME NEW k \in Logins PROVE LoginInv(k)'
  BY Apart DEF loginVars, mutexes, LoginInv, DiscInv, Clearing, CutoverTypeOK
<1>3. DiscInv'
  BY DEF loginVars, mutexes, DiscInv, Clearing, CutoverTypeOK
<1>4. MonitorInv'
  BY DEF loginVars, mutexes, MonitorInv, CutoverTypeOK
<1> QED BY <1>1, <1>2, <1>3, <1>4

(* The disconnect joins the queue of the write lock.                       *)
LEMMA AskClearLocks ==
    ASSUME LocksInv, AskClear
    PROVE  LocksInv'
<1> USE DEF LocksInv, history
<1>1. /\ IsMutex(lock') /\ DOMAIN lock' = DOMAIN lock \cup {D}
      /\ \A x \in DOMAIN lock : Holds(lock', x) <=> Holds(lock, x)
  <2>1. IsMutex(lock) /\ lock' = Ask(lock, D)
    BY DEF AskClear, loginVars, mutexes, CutoverTypeOK
  <2>2. D \notin DOMAIN lock /\ D \in Parties
    BY DEF AskClear, DiscInv, Clearing, Parties
  <2> QED BY <2>1, <2>2, AskMutex
<1>2. CutoverTypeOK'
  BY <1>1, Apart DEF AskClear, loginVars, mutexes, CutoverTypeOK,
     LoginStates, TaskStates, Ended, Creds
<1>3. ASSUME NEW k \in Logins PROVE LoginInv(k)'
  BY <1>1, Apart, OneHolder DEF AskClear, loginVars, mutexes, LoginInv,
     DiscInv, Clearing, MonitorInv, CutoverTypeOK, Critical, Alive, Ended
<1>4. DiscInv'
  BY <1>1, Apart, OneHolder DEF AskClear, loginVars, mutexes, LoginInv,
     DiscInv, Clearing, MonitorInv, CutoverTypeOK, Critical
<1>5. MonitorInv'
  BY <1>1, Apart, OneHolder DEF AskClear, loginVars, mutexes, LoginInv,
     DiscInv, Clearing, MonitorInv, CutoverTypeOK, Critical
<1> QED BY <1>2, <1>3, <1>4, <1>5

(* The disconnect leaves all three.                                        *)
LEMMA EndDisconnectLocks ==
    ASSUME LocksInv, NEW st \in {"disconnected", "unreadable"},
           disc \in {"removing", "removed"}, EndDisconnect(st)
    PROVE  LocksInv'
<1> USE DEF LocksInv, history
<1>1. /\ IsMutex(gate') /\ DOMAIN gate' = DOMAIN gate \ {D}
      /\ \A x \in DOMAIN gate' : Holds(gate, x) => Holds(gate', x)
  <2>1. IsMutex(gate) /\ gate' = Without(gate, {D})
    BY DEF EndDisconnect, loginVars, mutexes, CutoverTypeOK
  <2> QED BY <2>1, LeaveMutex
<1>2. /\ IsMutex(lock') /\ DOMAIN lock' = DOMAIN lock \ {D}
      /\ \A x \in DOMAIN lock' : Holds(lock, x) => Holds(lock', x)
  <2>1. IsMutex(lock) /\ lock' = Without(lock, {D})
    BY DEF EndDisconnect, loginVars, mutexes, CutoverTypeOK
  <2> QED BY <2>1, LeaveMutex
<1>3. /\ IsMutex(cutover') /\ DOMAIN cutover' = DOMAIN cutover \ {D}
      /\ \A x \in DOMAIN cutover' : Holds(cutover, x) => Holds(cutover', x)
  <2>1. IsMutex(cutover) /\ cutover' = Without(cutover, {D})
    BY DEF EndDisconnect, loginVars, mutexes, CutoverTypeOK
  <2> QED BY <2>1, LeaveMutex
<1>4. CutoverTypeOK'
  BY <1>1, <1>2, <1>3, Apart DEF EndDisconnect, loginVars, mutexes,
     CutoverTypeOK, LoginStates, TaskStates, Ended, Creds
<1>5. ASSUME NEW k \in Logins PROVE LoginInv(k)'
  BY <1>1, <1>2, <1>3, Apart, OneHolder DEF EndDisconnect, loginVars,
     mutexes, LoginInv, DiscInv, Clearing, MonitorInv, CutoverTypeOK,
     Critical, Alive, Ended
<1>6. DiscInv'
  BY <1>1, <1>2, <1>3, Apart, OneHolder DEF EndDisconnect, loginVars,
     mutexes, LoginInv, DiscInv, Clearing, MonitorInv, CutoverTypeOK, Critical
<1>7. MonitorInv'
  BY <1>1, <1>2, <1>3, Apart, OneHolder DEF EndDisconnect, loginVars,
     mutexes, LoginInv, DiscInv, Clearing, MonitorInv, CutoverTypeOK, Critical
<1> QED BY <1>4, <1>5, <1>6, <1>7

(* So does one that is cut off, wherever it stands; the worker it had told *)
(* to stop leaves the write lock.                                          *)
LEMMA RouteTimeoutLocks ==
    ASSUME LocksInv, RouteTimeout
    PROVE  LocksInv'
<1> USE DEF LocksInv, history
<1> DEFINE P == IF disc = "join" THEN {D, M} ELSE {D}
<1>1. /\ IsMutex(gate') /\ DOMAIN gate' = DOMAIN gate \ {D}
      /\ \A x \in DOMAIN gate' : Holds(gate, x) => Holds(gate', x)
  <2>1. IsMutex(gate) /\ gate' = Without(gate, {D})
    BY DEF RouteTimeout, CutoverTypeOK
  <2> QED BY <2>1, LeaveMutex
<1>2. /\ IsMutex(lock') /\ DOMAIN lock' = DOMAIN lock \ P
      /\ \A x \in DOMAIN lock' : Holds(lock, x) => Holds(lock', x)
  <2>1. IsMutex(lock) /\ lock' = Without(lock, P)
    BY DEF RouteTimeout, CutoverTypeOK
  <2> QED BY <2>1, LeaveMutex
<1>3. /\ IsMutex(cutover') /\ DOMAIN cutover' = DOMAIN cutover \ {D}
      /\ \A x \in DOMAIN cutover' : Holds(cutover, x) => Holds(cutover', x)
  <2>1. IsMutex(cutover) /\ cutover' = Without(cutover, {D})
    BY DEF RouteTimeout, CutoverTypeOK
  <2> QED BY <2>1, LeaveMutex
<1>4. CutoverTypeOK'
  BY <1>1, <1>2, <1>3, Apart DEF RouteTimeout, LeftBehind, Started, loginVars,
     CutoverTypeOK, LoginStates, TaskStates, Ended, Creds
<1>5. ASSUME NEW k \in Logins PROVE LoginInv(k)'
  <2>1. LoginInv(k) /\ k # D /\ k # M
    BY Apart
  <2>2. monitor'.worker = "off" \/ monitor'.worker = monitor.worker
    BY DEF RouteTimeout, CutoverTypeOK
  <2>3. UNCHANGED <<session, candidate, task, staged>>
    BY DEF RouteTimeout, loginVars
  <2> HIDE DEF LocksInv, P
  <2>4. k \in DOMAIN lock' <=> k \in DOMAIN lock
    BY <1>2, <2>1 DEF P
  <2>5. k \in DOMAIN gate' <=> k \in DOMAIN gate
    BY <1>1, <2>1
  <2>6. k \in DOMAIN cutover' <=> k \in DOMAIN cutover
    BY <1>3, <2>1
  <2>7. /\ Holds(lock, k) => Holds(lock', k)
        /\ Holds(gate, k) => Holds(gate', k)
        /\ Holds(cutover, k) => Holds(cutover', k)
    BY <1>1, <1>2, <1>3, <2>4, <2>5, <2>6 DEF Holds
  <2> QED BY <2>1, <2>2, <2>3, <2>4, <2>5, <2>6, <2>7 DEF LoginInv
<1>6. DiscInv'
  BY <1>1, <1>2, <1>3, Apart DEF RouteTimeout, DiscInv, Clearing
<1>7. MonitorInv'
  BY <1>1, <1>2, <1>3, Apart DEF RouteTimeout, MonitorInv, CutoverTypeOK
<1> QED BY <1>4, <1>5, <1>6, <1>7

(* Initially everybody is idle and every mutex unused.                     *)
LEMMA InitLocks == CutoverInit => LocksInv
<1> SUFFICES ASSUME CutoverInit PROVE LocksInv
  OBVIOUS
<1>1. IsMutex(Unused) /\ DOMAIN Unused = {}
  BY FS_EmptySet DEF Unused, IsMutex
<1>2. CutoverTypeOK
  <2>1. late \in [Creds -> Nat]
    BY DEF CutoverInit
  <2>2. /\ session \in [Logins -> LoginStates]
        /\ task \in [Logins -> TaskStates]
        /\ outcome \in [Logins -> {"none", "rejected", "cancelled",
                                   "activated"}]
    BY DEF CutoverInit, LoginStates, TaskStates
  <2>3. disconnects \in 0..MaxDisconnects
    BY CutoverAssumption DEF CutoverInit
  <2> QED BY <1>1, <2>1, <2>2, <2>3 DEF CutoverInit, CutoverTypeOK, Creds,
             Running
<1>3. ASSUME NEW l \in Logins PROVE LoginInv(l)
  BY <1>1, Apart DEF CutoverInit, LoginInv, Critical, Alive, Running
<1>4. DiscInv /\ MonitorInv
  BY <1>1 DEF CutoverInit, DiscInv, Clearing, MonitorInv, Running
<1> QED BY <1>2, <1>3, <1>4 DEF LocksInv

(* The locks are kept by every step.                                       *)
LEMMA StepLocks == LocksInv /\ [CutoverNext]_cutoverVars => LocksInv'
<1> SUFFICES ASSUME LocksInv, [CutoverNext]_cutoverVars PROVE LocksInv'
  OBVIOUS
<1>1. ASSUME NEW l \in Logins, TaskStep(l) PROVE LocksInv'
  BY <1>1, LeaveLoginLocks, StageBeginsLocks, StageDoneLocks, StageFailsLocks,
     TurnedAwayLocks, BeginCutoverLocks, JoinedLocks, CutoverFailsLocks,
     PromoteLocks, StartPromotedLocks, ResumeLocks, FinishCutoverLocks
     DEF TaskStep
<1>2. CASE SaveStep
  BY <1>2, SaveBeginsLocks, RenameBeginsLocks, RenameDoneLocks,
     MonitorStopsLocks DEF SaveStep
<1>3. ASSUME NEW c \in Creds, LateWrite(c) PROVE LocksInv'
  BY <1>3 DEF LateWrite, LocksInv, loginVars, mutexes, CutoverTypeOK,
     LoginInv, DiscInv, Clearing, MonitorInv
<1>4. CASE DisconnectStep
  BY <1>4, AskGateLocks, DrainLocks, GoesOnLocks, AskClearLocks,
     EndDisconnectLocks DEF DisconnectStep, ClearDone, ClearFails
<1>5. CASE UNCHANGED cutoverVars
  BY <1>5 DEF cutoverVars, loginVars, mutexes, history, LocksInv,
     CutoverTypeOK, LoginInv, DiscInv, Clearing, MonitorInv
<1> QED
  BY <1>1, <1>2, <1>3, <1>4, <1>5, StartLoginLocks, ConfirmLocks,
     EndLoginLocks, RequestDisconnectLocks, RouteTimeoutLocks DEF CutoverNext

(* Where each party stands tells what it has locked, also after a timeout  *)
(* has cut a disconnect off.                                               *)
THEOREM LocksAreKept == CutoverSpec => []LocksInv
BY InitLocks, StepLocks, PTL DEF CutoverSpec

(* The login, the mutexes and the connection are well typed, and every     *)
(* mutex is granted in the order it was asked for.                         *)
THEOREM CutoverTypeCorrect == CutoverSpec => []CutoverTypeOK
<1>1. LocksInv => CutoverTypeOK
  BY DEF LocksInv
<1> QED BY <1>1, LocksAreKept, PTL

-----------------------------------------------------------------------------
(* Who can wait for whom.                                                  *)

(* Whoever has the write lock and waits for something is a staged login    *)
(* that waits for the cutover mutex.                                       *)
LEMMA LockHolderWaits ==
    ASSUME LocksInv, NEW h \in Parties, Holds(lock, h),
           \E q \in {cutover, gate, lock} : h \in DOMAIN q /\ ~Holds(q, h)
    PROVE  h \in Logins /\ task[h] = "cutover" /\ h \notin DOMAIN gate
<1>1. CASE h \in Logins
  <2>1. LoginInv(h) /\ h \in DOMAIN lock
    BY <1>1 DEF LocksInv, Holds
  <2> QED BY <1>1, <2>1 DEF LoginInv, Critical
<1>2. CASE h = D
  BY <1>2 DEF LocksInv, DiscInv, Clearing, Holds
<1>3. CASE h = M
  BY <1>3 DEF LocksInv, MonitorInv, Holds
<1> QED BY <1>1, <1>2, <1>3 DEF Parties

(* Whoever has the gate and waits for something is a login whose secret is *)
(* to be written: a disconnect that has the gate finds the lock free.      *)
LEMMA GateHolderWaits ==
    ASSUME LocksInv, NEW h \in Parties, Holds(gate, h),
           \E q \in {cutover, gate, lock} : h \in DOMAIN q /\ ~Holds(q, h)
    PROVE  h \in Logins /\ task[h] = "write" /\ h \notin DOMAIN cutover
<1>1. CASE h \in Logins
  <2>1. LoginInv(h) /\ h \in DOMAIN gate
    BY <1>1 DEF LocksInv, Holds
  <2> QED BY <1>1, <2>1 DEF LoginInv, Critical
<1>2. CASE h = D
  <2>1. disc \notin {"idle", "cutover"} /\ Holds(cutover, D)
    BY <1>2 DEF LocksInv, DiscInv, Holds
  <2>2. disc = "clear" /\ D \in DOMAIN lock /\ ~Holds(lock, D)
    BY <1>2, <2>1 DEF LocksInv, DiscInv, Clearing, Holds
  <2>3. IsMutex(lock)
    BY DEF LocksInv, CutoverTypeOK
  <2>4. PICK x \in DOMAIN lock : Holds(lock, x)
    BY <2>2, <2>3, SomeHolder
  <2>5. x \notin Logins
    BY <1>2, <2>2, <2>4, OneHolder, Apart
       DEF LocksInv, LoginInv, DiscInv, CutoverTypeOK
  <2>6. x # M
    BY <2>2, <2>4 DEF LocksInv, DiscInv, Clearing, MonitorInv
  <2> QED BY <2>2, <2>3, <2>4, <2>5, <2>6 DEF IsMutex, Parties
<1>3. CASE h = M
  BY <1>3 DEF LocksInv, MonitorInv, Holds
<1> QED BY <1>1, <1>2, <1>3 DEF Parties

(* Whoever has the cutover mutex and waits for something is a disconnect   *)
(* that waits for the gate.                                                *)
LEMMA CutoverHolderWaits ==
    ASSUME LocksInv, NEW h \in Parties, Holds(cutover, h),
           \E q \in {cutover, gate, lock} : h \in DOMAIN q /\ ~Holds(q, h)
    PROVE  /\ h = D /\ disc = "gate"
           /\ D \notin DOMAIN lock
<1>1. CASE h \in Logins
  <2>1. LoginInv(h) /\ h \in DOMAIN cutover
    BY <1>1 DEF LocksInv, Holds
  <2> QED BY <1>1, <2>1 DEF LoginInv, Critical
<1>2. CASE h = D
  <2>1. disc # "idle" /\ ~Holds(gate, D)
    BY <1>2, GateHolderWaits, Apart DEF LocksInv, DiscInv, Holds
  <2> QED BY <1>2, <2>1 DEF LocksInv, DiscInv, Clearing, CutoverTypeOK, Holds
<1>3. CASE h = M
  BY <1>3 DEF LocksInv, MonitorInv, Holds
<1> QED BY <1>1, <1>2, <1>3 DEF Parties

(* Tasks wait for each other only when a disconnect, a stage writer and a  *)
(* staged login meet, each of them with the mutex the next one asks for.   *)
THEOREM OnlyTheCircleDeadlocks == CutoverSpec => []OnlyCircleBlocks
<1>1. LocksInv => OnlyCircleBlocks
  <2> SUFFICES ASSUME LocksInv, NEW S \in SUBSET Parties, S # {}, Stuck(S)
               PROVE  Circle
    BY DEF OnlyCircleBlocks
  <2> DEFINE Waits(p) ==
               \E q \in {cutover, gate, lock} : p \in DOMAIN q /\ ~Holds(q, p)
  <2>1. \A p \in S : Waits(p)
    BY DEF Stuck
  <2>2. ASSUME NEW q, IsMutex(q), NEW p \in DOMAIN q
        PROVE  \E h \in Parties : Holds(q, h)
    BY <2>2, SomeHolder DEF IsMutex
  <2>3. ASSUME NEW p \in S, NEW q \in {cutover, gate, lock},
               p \in DOMAIN q, ~Holds(q, p),
               \A h \in Parties : Holds(q, h) => h \in S
        PROVE  \E h \in S : Holds(q, h)
    BY <2>2, <2>3 DEF LocksInv, CutoverTypeOK
  <2>4. ASSUME NEW h \in S, Holds(gate, h)
        PROVE  h \in Logins /\ task[h] = "write" /\ \E k \in S : Holds(lock, k)
    <3>1. h \in Logins /\ task[h] = "write" /\ h \notin DOMAIN cutover
      BY <2>1, <2>4, GateHolderWaits
    <3> QED BY <2>3, <2>4, <3>1 DEF Stuck
  <2>5. ASSUME NEW h \in S, Holds(lock, h)
        PROVE  h \in Logins /\ task[h] = "cutover" /\ \E k \in S : Holds(cutover, k)
    <3>1. h \in Logins /\ task[h] = "cutover" /\ h \notin DOMAIN gate
      BY <2>1, <2>5, LockHolderWaits
    <3> QED BY <2>3, <2>5, <3>1 DEF Stuck
  <2>6. ASSUME NEW h \in S, Holds(cutover, h)
        PROVE  h = D /\ disc = "gate" /\ \E k \in S : Holds(gate, k)
    <3>1. h = D /\ disc = "gate" /\ D \notin DOMAIN lock
      BY <2>1, <2>6, CutoverHolderWaits
    <3> QED BY <2>3, <2>6, <3>1 DEF Stuck
  <2>7. \E q \in {cutover, gate, lock} : \E h \in S : Holds(q, h)
    BY <2>3 DEF Stuck
  <2> QED BY <2>4, <2>5, <2>6, <2>7 DEF Circle
<1> QED BY <1>1, LocksAreKept, PTL

-----------------------------------------------------------------------------
(* The connection.                                                         *)

(* A worker in the critical part is alone there, and the disconnect has    *)
(* not begun.                                                              *)
LEMMA CriticalAlone ==
    ASSUME LocksInv, NEW l \in Logins, task[l] \in Critical
    PROVE  /\ \A k \in Logins : task[k] \in Critical => k = l
           /\ disc \in {"idle", "cutover"}
BY OneHolder, Apart DEF LocksInv, CutoverTypeOK, LoginInv, DiscInv

(* While a secret is staged the monitor cannot rename.                     *)
LEMMA StagedExcludesRename ==
    ASSUME LocksInv, NEW l \in staged
    PROVE  monitor.worker # "renaming"
BY OneHolder, Apart DEF LocksInv, CutoverTypeOK, LoginInv, MonitorInv

(* Initially the server runs with the credential on disk.                  *)
LEMMA InitConnection == CutoverInit => ConnectionInv
BY CutoverAssumption DEF CutoverInit, ConnectionInv, Running, Clearing

(* What a login does before and after its critical part leaves the         *)
(* connection alone.                                                       *)
LEMMA LoginConnection ==
    ASSUME LocksInv, ConnectionInv, NEW l \in Logins,
           \/ StartLogin(l) \/ Confirm(l) \/ LeaveLogin(l) \/ StageBegins(l)
           \/ StageDone(l) \/ StageFails(l) \/ TurnedAway(l) \/ FinishCutover(l)
           \/ \E s \in {"cancelled", "expired", "failed"} : EndLogin(l, s)
    PROVE  ConnectionInv'
<1>1. UNCHANGED <<file, runtime, monitor, late, disc, disconnects, history>>
  BY DEF StartLogin, Confirm, LeaveLogin, StageBegins, StageDone, StageFails,
     TurnedAway, FinishCutover, EndLogin, history
<1>2. \A k \in Logins : /\ task'[k] = "start" <=> task[k] = "start"
                        /\ task'[k] = "join" <=> task[k] = "join"
  BY DEF LocksInv, CutoverTypeOK, LoginInv, StartLogin, Confirm, LeaveLogin,
     StageBegins, StageDone, StageFails, TurnedAway, FinishCutover, EndLogin,
     At
<1> QED BY <1>1, <1>2 DEF ConnectionInv, history

(* The critical part of a cutover.                                         *)
LEMMA CriticalConnection ==
    ASSUME LocksInv, ConnectionInv, NEW l \in Logins,
           \/ BeginCutover(l) \/ Joined(l) \/ CutoverFails(l) \/ Promote(l)
           \/ StartPromoted(l) \/ Resume(l)
    PROVE  ConnectionInv'
<1> USE DEF At, Critical, Discard, Clearing, history
<1>1. /\ task \in [Logins -> TaskStates]
      /\ runtime \in [cred: Creds,
                      status: {"connected", "disconnected", "unreadable"}]
      /\ monitor \in [cred: Creds, cancelled: BOOLEAN,
                      worker: {"off", "polling", "saving", "renaming"}]
  BY DEF LocksInv, CutoverTypeOK
<1>2. LoginInv(l)
  BY DEF LocksInv
<1>3. task[l] \in Critical =>
        /\ disc \in {"idle", "cutover"}
        /\ \A k \in Logins : k # l => task[k] \notin Critical
  BY CriticalAlone DEF ConnectionInv
<1>4. CASE BeginCutover(l)
  BY <1>1, <1>4 DEF BeginCutover, ConnectionInv, mutexes
<1>5. CASE Joined(l)
  BY <1>1, <1>3, <1>5 DEF Joined, ConnectionInv, mutexes
<1>6. CASE CutoverFails(l)
  BY <1>1, <1>2, <1>3, <1>6 DEF CutoverFails, ConnectionInv, LoginInv
<1>7. CASE Promote(l)
  BY <1>1, <1>2, <1>3, <1>7, Apart DEF Promote, ConnectionInv, LoginInv
<1>8. CASE StartPromoted(l)
  BY <1>1, <1>2, <1>3, <1>8 DEF StartPromoted, ConnectionInv, LoginInv, Running
<1>9. CASE Resume(l)
  BY <1>1, <1>2, <1>3, <1>9
     DEF Resume, ConnectionInv, LoginInv, Running, Resumable
<1> QED BY <1>4, <1>5, <1>6, <1>7, <1>8, <1>9

(* The monitor writes what is there already; only a disconnect can meet it *)
(* in the middle of a rename.                                              *)
LEMMA MonitorConnection ==
    ASSUME LocksInv, ConnectionInv, SaveStep \/ \E c \in Creds : LateWrite(c)
    PROVE  ConnectionInv'
<1> USE DEF loginVars, mutexes, history, Clearing
<1>1. monitor \in [cred: Creds, cancelled: BOOLEAN,
                  worker: {"off", "polling", "saving", "renaming"}]
  BY DEF LocksInv, CutoverTypeOK
<1>2. CASE SaveBegins \/ RenameBegins \/ RenameDone
  BY <1>1, <1>2 DEF SaveBegins, RenameBegins, RenameDone, ConnectionInv
<1>3. CASE MonitorStops
  <2>1. monitor.worker = "renaming" => disc = "join"
    BY <1>3, StagedExcludesRename
       DEF MonitorStops, ConnectionInv, LocksInv, LoginInv
  <2>2. disconnects = 0 => late' = late
    BY <1>3, <2>1 DEF MonitorStops, LeftBehind, ConnectionInv
  <2> QED BY <1>1, <1>3, <2>2 DEF MonitorStops, ConnectionInv
<1>4. ASSUME NEW c \in Creds, LateWrite(c) PROVE ConnectionInv'
  <2>1. disconnects # 0
    BY <1>4 DEF LateWrite, ConnectionInv
  <2> QED BY <1>4, <2>1 DEF LateWrite, ConnectionInv
<1> QED BY <1>2, <1>3, <1>4 DEF SaveStep

(* A disconnect finds no worker in the critical part.                      *)
LEMMA DisconnectConnection ==
    ASSUME LocksInv, ConnectionInv, RequestDisconnect \/ DisconnectStep
    PROVE  ConnectionInv'
<1> USE DEF loginVars, mutexes, history, Clearing
<1>1. /\ monitor \in [cred: Creds, cancelled: BOOLEAN,
                      worker: {"off", "polling", "saving", "renaming"}]
      /\ runtime \in [cred: Creds,
                      status: {"connected", "disconnected", "unreadable"}]
      /\ disconnects \in Nat
  BY CutoverAssumption DEF LocksInv, CutoverTypeOK
<1>2. disc \notin {"idle", "cutover"} =>
        \A l \in Logins : task[l] \notin Critical
  BY CriticalAlone
<1>3. disc \in Clearing => monitor.worker = "off"
  BY DEF LocksInv, DiscInv
<1>4. CASE RequestDisconnect
  BY <1>1, <1>4 DEF RequestDisconnect, ConnectionInv
<1>5. CASE AskGate
  BY <1>5 DEF AskGate, ConnectionInv
<1>6. CASE Drain
  BY <1>6 DEF Drain, ConnectionInv
<1>7. CASE TellMonitor
  BY <1>1, <1>7 DEF TellMonitor, ConnectionInv
<1>8. CASE AskClear
  BY <1>1, <1>2, <1>8 DEF AskClear, ConnectionInv, Critical
<1>9. CASE RemoveBegins
  BY <1>9 DEF RemoveBegins, ConnectionInv
<1>10. CASE Removed
  BY <1>2, <1>3, <1>10 DEF Removed, ConnectionInv, Critical
<1>11. CASE ClearDone \/ ClearFails
  BY <1>1, <1>2, <1>3, <1>11
     DEF ClearDone, ClearFails, EndDisconnect, ConnectionInv, Critical
<1> QED BY <1>4, <1>5, <1>6, <1>7, <1>8, <1>9, <1>10, <1>11
        DEF DisconnectStep

(* One that is cut off leaves a torn connection behind if it had emptied   *)
(* the monitor, and otherwise a monitor that is stopped at most.           *)
LEMMA TimeoutConnection ==
    ASSUME LocksInv, ConnectionInv, RouteTimeout
    PROVE  ConnectionInv'
<1>1. monitor \in [cred: Creds, cancelled: BOOLEAN,
                  worker: {"off", "polling", "saving", "renaming"}]
  BY DEF LocksInv, CutoverTypeOK
<1>2. disc \in Clearing => monitor.worker = "off"
  BY DEF LocksInv, DiscInv
<1>3. disconnects # 0 /\ UNCHANGED disconnects
  BY DEF RouteTimeout, ConnectionInv
<1>4. CASE disc = "join"
  BY <1>1, <1>3, <1>4 DEF RouteTimeout, ConnectionInv, loginVars, Clearing
<1>5. CASE disc # "join"
  BY <1>2, <1>3, <1>5 DEF RouteTimeout, ConnectionInv, loginVars, Clearing
<1> QED BY <1>4, <1>5

(* The connection is kept by every step.                                   *)
LEMMA StepConnection ==
    LocksInv /\ ConnectionInv /\ [CutoverNext]_cutoverVars => ConnectionInv'
<1> SUFFICES ASSUME LocksInv, ConnectionInv, [CutoverNext]_cutoverVars
             PROVE  ConnectionInv'
  OBVIOUS
<1>1. CASE UNCHANGED cutoverVars
  BY <1>1 DEF cutoverVars, loginVars, history, ConnectionInv
<1> QED
  BY <1>1, LoginConnection, CriticalConnection, MonitorConnection,
     DisconnectConnection, TimeoutConnection DEF CutoverNext, TaskStep

(* The locks and the connection together.                                  *)
THEOREM ConnectionIsKept == CutoverSpec => [](LocksInv /\ ConnectionInv)
BY InitLocks, InitConnection, StepLocks, StepConnection, PTL DEF CutoverSpec

(* Only a write that nobody waited for, or a disconnect that was cut off,  *)
(* puts the file at odds with the last promotion or removal, and logins    *)
(* alone never do.                                                         *)
THEOREM FileFollows == CutoverSpec => []DiskFollows
<1>1. ConnectionInv => DiskFollows
  BY DEF ConnectionInv, DiskFollows
<1> QED BY <1>1, ConnectionIsKept, PTL

(* The monitor runs with the connection last promoted, and between two     *)
(* operations runtime and monitor agree, unless a disconnect was cut off.  *)
THEOREM ConnectionIsOne == CutoverSpec => []OneConnection
<1>1. LocksInv /\ ConnectionInv => OneConnection
  <2> SUFFICES ASSUME LocksInv, ConnectionInv PROVE OneConnection
    OBVIOUS
  <2>1. DOMAIN cutover = {} =>
          disc = "idle" /\ \A l \in Logins : task[l] # "start"
    BY DEF LocksInv, DiscInv, LoginInv, Critical
  <2> QED BY <2>1 DEF ConnectionInv, OneConnection, Clearing
<1> QED BY <1>1, ConnectionIsKept, PTL

(* Only the current candidate, in a session nobody has cancelled, is       *)
(* promoted.                                                               *)
THEOREM OnlyLiveLoginsArePromoted == CutoverSpec => OnlyLivePromotes
<1>1. ASSUME LocksInv, [CutoverNext]_cutoverVars,
             NEW l \in Logins, truth' = l, truth # l
      PROVE  session[l] = "committing" /\ candidate = l
  <2> USE DEF history
  <2>1. ASSUME NEW k \in Logins, Promote(k)
        PROVE  session[l] = "committing" /\ candidate = l
    BY <1>1, <2>1 DEF Promote, LocksInv, LoginInv, Critical, Alive
  <2>2. ASSUME NEW k \in Logins, \/ TaskStep(k) /\ ~Promote(k)
                                 \/ StartLogin(k) \/ Confirm(k)
                                 \/ \E s \in Ended : EndLogin(k, s)
        PROVE  FALSE
    BY <1>1, <2>2 DEF TaskStep, LeaveLogin, StageBegins, StageDone, StageFails,
       TurnedAway, BeginCutover, Joined, CutoverFails, StartPromoted, Resume,
       FinishCutover, StartLogin, Confirm, EndLogin
  <2>3. ASSUME SaveStep \/ \E c \in Creds : LateWrite(c)
        PROVE  FALSE
    BY <1>1, <2>3 DEF SaveStep, SaveBegins, RenameBegins, RenameDone,
       MonitorStops, LateWrite
  <2>4. ASSUME RequestDisconnect \/ DisconnectStep \/ RouteTimeout
        PROVE  FALSE
    BY <1>1, <2>4, Apart DEF RequestDisconnect, DisconnectStep, AskGate, Drain,
       TellMonitor, AskClear, RemoveBegins, Removed, ClearDone, ClearFails,
       EndDisconnect, RouteTimeout
  <2>5. CASE UNCHANGED cutoverVars
    BY <1>1, <2>5 DEF cutoverVars
  <2> QED BY <1>1, <2>1, <2>2, <2>3, <2>4, <2>5 DEF CutoverNext, Ended
<1>2. LocksInv /\ [CutoverNext]_cutoverVars =>
        [\A l \in Logins : truth' = l /\ truth # l =>
            session[l] = "committing" /\ candidate = l]_cutoverVars
  BY <1>1
<1> QED BY <1>2, LocksAreKept, PTL DEF CutoverSpec, OnlyLivePromotes

-----------------------------------------------------------------------------
(* Part two: monitor and send channel (WechatDelivery).                    *)

-----------------------------------------------------------------------------
(* The invariant.                                                          *)

\* SharedState.
Shared == [bundle : Bundles \cup {NoBundle}, revision : Nat,
           monitor : MonitorStates, activated : BOOLEAN, required : BOOLEAN]

\* The monitor worker's own state.
Monitors == [pc : {"off", "start", "hook_started", "started",
                   "hook_reconnected", "reconnected", "backoff", "poll",
                   "apply", "saved", "hook_saved", "stop"},
             bundle : Bundles, failures : 0..DegradedAfter,
             reconnecting : BOOLEAN, upto : 0..Len(Messages), at : Nat]

\* Context tokens, and none.
Contexts == {Messages[i].ctx : i \in 1..Len(Messages)} \cup {NoContext}

\* The outbox worker inside send.
Senders == [pc : {"idle", "gate", "snapshot", "ask", "sending", "returned"},
            revision : Nat, ctx : Contexts,
            outcome : {"none", "Accepted", "Network", "PermanentFailure",
                       "BlockedActivation", "BlockedReconnect",
                       "ContextChanged", "ContextRejected"}]

\* Types of all variables the argument uses.
Typed ==
    /\ sh \in Shared
    /\ disk \in Bundles \cup {NoBundle}
    /\ mon \in Monitors
    /\ cancelled \in BOOLEAN
    /\ lifecycle \in {"idle", "boot", "replace", "clear"}
    /\ arrived \in 0..Len(Messages)
    /\ captured \in SUBSET (1..Len(Messages))
    /\ snd \in Senders

\* The text messages up to cursor c are among those captured.
CapturedTo(c, got) == \A i \in 1..c : Messages[i].text => i \in got

\* Every cursor anyone holds lies behind captured messages only.
Durable ==
    /\ disk # NoBundle => CapturedTo(disk.cursor, captured)
    /\ sh.bundle # NoBundle => CapturedTo(sh.bundle.cursor, captured)
    /\ CapturedTo(mon.bundle.cursor, captured)
    /\ mon.pc = "apply" => /\ mon.at \in 1..(mon.upto + 1)
                           /\ CapturedTo(mon.at - 1, captured)
    /\ mon.pc = "saved" => CapturedTo(mon.upto, captured)

\* The worker's copy is the published bundle.  A bundle with a refused token
\* is deactivated, and its token is not one a sender uses or is about to take.
Refused ==
    /\ mon.pc # "off" => mon.bundle = sh.bundle
    /\ (sh.bundle # NoBundle /\ sh.bundle.ctx \in refused)
         => sh.required /\ ~sh.activated
    /\ (snd.pc = "snapshot" /\ sh.bundle # NoBundle)
         => sh.bundle.ctx \notin refused
    /\ snd.pc = "sending" => snd.ctx \notin refused

\* The inductive invariant.
Inv == Typed /\ Durable /\ Refused
-----------------------------------------------------------------------------
(* Lemmas.                                                                 *)

\* The fields of the shared state.
LEMMA SharedFields ==
    ASSUME NEW s \in Shared
    PROVE  /\ s.bundle \in Bundles \cup {NoBundle} /\ s.revision \in Nat
           /\ s.monitor \in MonitorStates
           /\ s.activated \in BOOLEAN /\ s.required \in BOOLEAN
BY DEF Shared

\* Publishing a status leaves the bundle, the revision and the refusal alone.
LEMMA StatusFields ==
    ASSUME sh \in Shared, NEW m \in MonitorStates, NEW a \in BOOLEAN
    PROVE  /\ Status(m, a) \in Shared
           /\ Status(m, a).bundle = sh.bundle
           /\ Status(m, a).revision = sh.revision
           /\ Status(m, a).required = sh.required
           /\ Status(m, a).activated = a
           /\ Status(m, a).monitor = m
BY DEF Status, Shared

\* The fields of the monitor worker.
LEMMA MonitorFields ==
    ASSUME NEW m \in Monitors
    PROVE  /\ m.bundle \in Bundles /\ m.bundle.cursor \in 0..Len(Messages)
           /\ m.bundle.cursor \in Nat
           /\ m.failures \in 0..DegradedAfter /\ m.reconnecting \in BOOLEAN
           /\ m.upto \in 0..Len(Messages) /\ m.upto \in Nat /\ m.at \in Nat
BY DeliveryAssumption DEF Monitors, Bundles

\* The values a worker or a sender starts from.
LEMMA FreshIsTyped ==
    /\ FreshBundle \in Bundles /\ FreshBundle.cursor = 0
    /\ NoWorker \in Monitors /\ NoWorker.bundle = FreshBundle
    /\ NoWorker.pc = "off"
    /\ NoSend \in Senders /\ NoSend.pc = "idle"
<1>1. FreshBundle \in Bundles /\ FreshBundle.cursor = 0
  BY DeliveryAssumption DEF FreshBundle, Bundles
<1>2. NoWorker \in Monitors /\ NoWorker.bundle = FreshBundle
      /\ NoWorker.pc = "off"
  BY <1>1, DeliveryAssumption DEF NoWorker, Monitors
<1>3. NoSend \in Senders /\ NoSend.pc = "idle"
  BY DEF NoSend, Senders, Contexts
<1> QED BY <1>1, <1>2, <1>3

\* A nonempty set of messages has a last one: otherwise the intervals from its
\* members to the end of the messages would shrink for ever.
LEMMA LastMessage ==
    ASSUME NEW T, T \subseteq 1..Len(Messages), T # {}
    PROVE  \E i \in T : \A j \in T : j <= i
<1> DEFINE n == Len(Messages)
           S == 1..n
           V == {j..n : j \in T}
           R == StrictSubsetOrdering(S)
<1>1. n \in Nat
  BY DeliveryAssumption
<1>2. V \subseteq FiniteSubsetsOf(S) /\ V # {}
  <2>1. \A j \in T : j \in Int /\ j..n \subseteq S
    BY <1>1
  <2>2. \A j \in T : IsFiniteSet(j..n)
    BY <1>1, <2>1, FS_Interval
  <2> QED BY <2>1, <2>2 DEF FiniteSubsetsOf
<1>3. PICK v \in V : \A u \in V : ~(<<u, v>> \in R)
  <2> HIDE DEF S, V, R
  <2>1. IsWellFoundedOn(R, FiniteSubsetsOf(S))
    BY FS_StrictSubsetOrderingWellFounded DEF R
  <2> QED BY <1>2, <2>1, WFMin
<1>4. PICK i \in T : v = i..n
  OBVIOUS
<1>5. ASSUME NEW j \in T, ~(j <= i) PROVE FALSE
  <2>1. i \in Int /\ j \in Int /\ i \in 1..n /\ j \in 1..n /\ i < j
    BY <1>1, <1>5
  <2>2. /\ j..n \subseteq i..n /\ i \in i..n /\ i \notin j..n
        /\ i..n \subseteq S /\ j..n \subseteq S
    BY <1>1, <2>1
  <2>3. <<j..n, i..n>> \in R
    BY <2>2 DEF StrictSubsetOrdering
  <2> QED BY <1>3, <1>4, <2>3
<1> QED BY <1>5

\* A response applied to a session is a session with the response's cursor.
LEMMA NextBundleTyped ==
    ASSUME mon \in Monitors
    PROVE  NextBundle \in Bundles /\ NextBundle.cursor = mon.upto
<1> DEFINE tokens == {i \in (mon.bundle.cursor + 1)..mon.upto :
                        Messages[i].ctx # NoContext}
           last == CHOOSE i \in tokens : \A j \in tokens : j <= i
           ctx  == IF tokens = {} THEN mon.bundle.ctx ELSE Messages[last].ctx
<1>1. /\ mon.bundle.ctx \in Contexts /\ mon.upto \in 0..Len(Messages)
      /\ mon.bundle.cursor \in Nat /\ mon.upto \in Nat
  BY MonitorFields DEF Bundles, Contexts
<1>2. tokens \subseteq 1..Len(Messages)
  BY <1>1, DeliveryAssumption
<1>3. tokens # {} => last \in tokens
  <2> HIDE DEF tokens
  <2> QED BY <1>2, LastMessage
<1>4. ctx \in Contexts
  <2> HIDE DEF tokens, last
  <2> QED BY <1>1, <1>2, <1>3 DEF Contexts
<1>5. NextBundle = [cursor |-> mon.upto, ctx |-> ctx]
  BY DEF NextBundle
<1> HIDE DEF ctx
<1> QED BY <1>1, <1>4, <1>5 DEF Bundles, Contexts

\* A step that hands over no new cursor keeps Durable.
LEMMA MonitorSteps ==
    ASSUME Inv, sh'.bundle = sh.bundle, disk' = disk,
           captured \subseteq captured',
           \/ mon'.bundle = mon.bundle /\ mon'.pc \notin {"apply", "saved"}
           \/ mon' = NoWorker
           \/ mon' = mon
    PROVE  Durable'
<1>1. mon'.bundle = mon.bundle \/ mon'.bundle.cursor = 0
  BY FreshIsTyped
<1>2. mon'.pc \in {"apply", "saved"} => mon' = mon
  BY FreshIsTyped
<1>3. \A c : CapturedTo(c, captured) => CapturedTo(c, captured')
  BY DEF CapturedTo
<1>4. CapturedTo(0, captured')
  BY DEF CapturedTo
<1>5. CapturedTo(mon.bundle.cursor, captured')
  BY <1>3 DEF Inv, Durable
<1>6. CapturedTo(mon'.bundle.cursor, captured')
  BY <1>1, <1>4, <1>5
<1> QED BY <1>2, <1>3, <1>6 DEF Inv, Durable

\* A step that changes no bundle and does not lift a refusal keeps Refused.
LEMMA SharedSteps ==
    ASSUME Inv, sh'.bundle = sh.bundle, UNCHANGED <<snd, refused>>,
           \/ mon.pc # "off" /\ mon'.bundle = mon.bundle
           \/ mon' = NoWorker
           \/ mon' = mon,
           sh.required /\ ~sh.activated => sh'.required /\ ~sh'.activated
    PROVE  Refused'
BY FreshIsTyped DEF Inv, Refused

\* The monitor after a change of its counters.
LEMMA ChangedFields ==
    ASSUME mon \in Monitors,
           NEW p \in {"off", "start", "hook_started", "started",
                      "hook_reconnected", "reconnected", "backoff", "poll",
                      "apply", "saved", "hook_saved", "stop"},
           NEW f \in 0..DegradedAfter, NEW r \in BOOLEAN,
           mon' = [mon EXCEPT !.pc = p, !.failures = f, !.reconnecting = r]
    PROVE  /\ mon' \in Monitors /\ mon'.bundle = mon.bundle /\ mon'.pc = p
BY DEF Monitors

-----------------------------------------------------------------------------
(* The monitor.                                                            *)

\* The monitor after a jump.
LEMMA GotoFields ==
    ASSUME mon \in Monitors,
           NEW p \in {"off", "start", "hook_started", "started",
                      "hook_reconnected", "reconnected", "backoff", "poll",
                      "apply", "saved", "hook_saved", "stop"},
           Goto(p)
    PROVE  mon' \in Monitors /\ mon'.bundle = mon.bundle /\ mon'.pc = p
           /\ mon'.upto = mon.upto /\ mon'.at = mon.at
BY DEF Goto, Monitors

\* A retryable failure changes the status only, and never activates.
LEMMA FailFields ==
    ASSUME mon \in Monitors, sh \in Shared, FailAndWait
    PROVE  /\ mon' \in Monitors /\ mon'.bundle = mon.bundle
           /\ mon'.pc = "backoff"
           /\ sh' \in Shared /\ sh'.bundle = sh.bundle
           /\ sh'.revision = sh.revision /\ sh'.required = sh.required
           /\ sh'.activated => sh.activated
<1> DEFINE f == IF mon.failures < DegradedAfter THEN mon.failures + 1
                ELSE mon.failures
<1>1. f \in 0..DegradedAfter
  BY MonitorFields, DeliveryAssumption
<1>2. /\ sh' = RetryFailure(f)
      /\ mon' = [mon EXCEPT !.pc = "backoff", !.failures = f,
                            !.reconnecting = TRUE]
  BY DEF FailAndWait
<1> HIDE DEF f
<1>3. /\ mon' \in Monitors /\ mon'.bundle = mon.bundle
      /\ mon'.pc = "backoff"
  BY <1>1, <1>2, ChangedFields
<1>4. CASE sh.monitor = "reconnect_required"
  BY <1>2, <1>3, <1>4 DEF RetryFailure
<1>5. CASE sh.monitor # "reconnect_required"
  <2>1. PICK m \in MonitorStates : sh' = Status(m, FALSE)
    BY <1>2, <1>5 DEF RetryFailure, MonitorStates
  <2> QED BY <1>3, <2>1, StatusFields
<1> QED BY <1>4, <1>5

\* set_active does not activate a refused context.
LEMMA SetActiveFields ==
    ASSUME sh \in Shared, NEW b
    PROVE  /\ SetActive(b) \in Shared /\ SetActive(b).bundle = sh.bundle
           /\ SetActive(b).revision = sh.revision
           /\ SetActive(b).required = sh.required
           /\ SetActive(b).activated => ~sh.required
<1>1. CASE sh.monitor = "reconnect_required"
  BY <1>1 DEF SetActive, Shared
<1>2. CASE sh.monitor # "reconnect_required"
  <2> DEFINE a == b.ctx # NoContext /\ ~sh.required
  <2>1. a \in BOOLEAN /\ (a => ~sh.required)
    OBVIOUS
  <2>2. SetActive(b) = Status("active", a)
    BY <1>2 DEF SetActive
  <2> HIDE DEF a
  <2> QED BY <2>1, <2>2, StatusFields DEF MonitorStates
<1> QED BY <1>1, <1>2

\* The monitor's steps that move neither cursor nor revision.
LEMMA MonitorKeeps ==
    ASSUME Inv,
           \/ NotifyStartOk \/ CheckStarted \/ CheckReconnected
           \/ CallRefused \/ CallFailed \/ CallCancelled \/ RetryDue
           \/ Unchanged \/ HookRuns \/ HookFails \/ FinishMonitor
    PROVE  Inv'
<1>1. /\ UNCHANGED <<disk, cancelled, lifecycle, arrived, captured, snd,
                     refused>>
  BY DEF NotifyStartOk, CheckStarted, CheckReconnected, CallRefused,
     CallFailed,
         CallCancelled, RetryDue, Unchanged, HookRuns, HookFails,
         FinishMonitor,
         sendVars, refusals
<1>0. mon.pc # "off"
  BY DEF NotifyStartOk, CheckStarted, CheckReconnected, CallRefused,
         CallFailed, CallCancelled, RetryDue, Unchanged, HookRuns, HookFails,
         FinishMonitor
<1>2. mon \in Monitors /\ sh \in Shared
  BY DEF Inv, Typed
<1>3. /\ mon' \in Monitors /\ sh' \in Shared /\ sh'.bundle = sh.bundle
      /\ \/ mon'.bundle = mon.bundle /\ mon'.pc \notin {"apply", "saved"}
         \/ mon' = NoWorker
      /\ sh'.revision = sh.revision
      /\ sh.required /\ ~sh.activated => sh'.required /\ ~sh'.activated
  <2>1. CASE NotifyStartOk
    <3>1. sh' = SetActive(mon.bundle)
          /\ \E p \in {"stop", "hook_started", "started"} : Goto(p)
      BY <2>1 DEF NotifyStartOk
    <3> QED BY <3>1, <1>2, SetActiveFields, GotoFields
  <2>2. CASE CheckStarted
    <3>1. sh' = sh /\ \E p \in {"stop", "hook_reconnected", "poll"} :
            mon' = [mon EXCEPT !.pc = p, !.reconnecting = FALSE]
      BY <2>2 DEF CheckStarted
    <3> QED BY <3>1, <1>2 DEF Monitors
  <2>3. CASE CheckReconnected
    <3>1. sh' = sh /\ \E p \in {"stop", "poll"} : Goto(p)
      BY <2>3 DEF CheckReconnected
    <3> QED BY <3>1, <1>2, GotoFields
  <2>4. CASE CallRefused
    <3>1. sh' = Status("reconnect_required", FALSE) /\ Goto("stop")
      BY <2>4 DEF CallRefused, TerminalFailure
    <3> QED BY <3>1, <1>2, GotoFields, StatusFields DEF MonitorStates
  <2>5. CASE CallFailed
    BY <2>5, <1>2, FailFields DEF CallFailed
  <2>6. CASE CallCancelled \/ RetryDue
    <3>1. sh' = sh /\ \E p \in {"stop", "start"} : Goto(p)
      BY <2>6 DEF CallCancelled, RetryDue
    <3> QED BY <3>1, <1>2, GotoFields
  <2>7. CASE Unchanged
    <3>1. sh' = sh /\ mon' = [mon EXCEPT !.pc = "poll", !.failures = 0]
      BY <2>7 DEF Unchanged
    <3>2. 0 \in 0..DegradedAfter
      BY DeliveryAssumption
    <3> QED BY <3>1, <3>2, <1>2 DEF Monitors
  <2>8. CASE HookRuns \/ HookFails
    <3>1. sh' = sh /\ \E p \in {"started", "reconnected", "poll"} : Goto(p)
      BY <2>8 DEF HookRuns, HookFails, AfterHook
    <3> QED BY <3>1, <1>2, GotoFields
  <2>9. CASE FinishMonitor
    <3>1. mon' = NoWorker /\ \E m \in MonitorStates : sh' = Status(m, FALSE)
      BY <2>9 DEF FinishMonitor, MonitorStates
    <3>2. /\ sh' \in Shared /\ sh'.bundle = sh.bundle
          /\ sh'.revision = sh.revision
          /\ sh'.required = sh.required /\ ~sh'.activated
      BY <3>1, <1>2, StatusFields
    <3>3. mon' \in Monitors /\ mon' = NoWorker
      BY <3>1, FreshIsTyped
    <3> QED BY <3>2, <3>3
  <2> QED BY <2>1, <2>2, <2>3, <2>4, <2>5, <2>6, <2>7, <2>8, <2>9
<1>4. Typed'
  BY <1>1, <1>3 DEF Inv, Typed
<1>5. Durable'
  BY <1>1, <1>3, MonitorSteps
<1>6. Refused'
  BY <1>0, <1>1, <1>3, SharedSteps
<1> QED BY <1>4, <1>5, <1>6 DEF Inv

\* PollOk: the response begins behind the monitor's cursor.
LEMMA PollKeeps ==
    ASSUME Inv, NEW k \in 0..Len(Messages), PollOk(k)
    PROVE  Inv'
<1>1. /\ mon.pc = "poll" /\ k \in mon.bundle.cursor..arrived
      /\ sh' = SetLastPoll
      /\ mon' = [mon EXCEPT !.pc = "apply", !.upto = k,
                            !.at = mon.bundle.cursor + 1]
      /\ UNCHANGED <<disk, cancelled, lifecycle, arrived, captured, snd,
                     refused>>
  BY DEF PollOk, sendVars, refusals
<1>2. mon \in Monitors /\ sh \in Shared
  BY DEF Inv, Typed
<1>3. /\ mon' \in Monitors /\ mon'.bundle = mon.bundle /\ mon'.pc = "apply"
      /\ mon'.upto = k /\ mon'.at = mon.bundle.cursor + 1
  <2>1. mon.bundle.cursor + 1 \in Nat
    BY <1>2, MonitorFields
  <2> QED BY <1>1, <1>2, <2>1 DEF Monitors
<1>4. /\ sh' \in Shared /\ sh'.bundle = sh.bundle
      /\ sh'.revision = sh.revision /\ sh'.required = sh.required
      /\ sh'.activated = sh.activated
  BY <1>1, <1>2 DEF SetLastPoll, Shared, MonitorStates
<1>5. Typed'
  BY <1>1, <1>3, <1>4 DEF Inv, Typed
<1>6. Durable'
  <2>1. mon.bundle.cursor \in Nat /\ k \in Nat /\ mon.bundle.cursor <= k
    BY <1>1, <1>2, MonitorFields, DeliveryAssumption DEF Inv, Typed
  <2>2. mon'.at \in 1..(mon'.upto + 1) /\ mon'.at - 1 = mon.bundle.cursor
    BY <1>3, <2>1
  <2> QED BY <1>1, <1>3, <1>4, <2>2 DEF Inv, Durable
<1>7. Refused'
  BY <1>1, <1>4, SharedSteps
<1> QED BY <1>5, <1>6, <1>7 DEF Inv

\* Capture extends the captured part of the response by one message.
LEMMA CaptureKeeps ==
    ASSUME Inv, Capture
    PROVE  Inv'
<1>1. /\ mon.pc = "apply" /\ mon.at <= mon.upto
      /\ captured' = IF Messages[mon.at].text THEN captured \cup {mon.at}
                     ELSE captured
      /\ mon' = [mon EXCEPT !.at = mon.at + 1]
      /\ UNCHANGED <<sh, disk, cancelled, lifecycle, arrived, snd, refused>>
  BY DEF Capture, sendVars, refusals
<1>2. mon \in Monitors /\ sh \in Shared /\ mon.at \in Nat
      /\ mon.upto \in 0..Len(Messages) /\ mon.upto \in Nat
      /\ mon.at \in 1..(mon.upto + 1) /\ CapturedTo(mon.at - 1, captured)
  BY <1>1, MonitorFields DEF Inv, Typed, Durable
<1>3. /\ mon' \in Monitors /\ mon'.bundle = mon.bundle /\ mon'.pc = "apply"
      /\ mon'.upto = mon.upto /\ mon'.at = mon.at + 1
  BY <1>1, <1>2 DEF Monitors
<1>4. captured \subseteq captured' /\ captured' \in SUBSET (1..Len(Messages))
  <2>1. mon.at \in 1..Len(Messages)
    BY <1>1, <1>2, DeliveryAssumption
  <2> QED BY <1>1, <2>1 DEF Inv, Typed
<1>5. Typed'
  BY <1>1, <1>3, <1>4 DEF Inv, Typed
<1>6. Durable'
  <2>1. \A c : CapturedTo(c, captured) => CapturedTo(c, captured')
    BY <1>4 DEF CapturedTo
  <2>2. CapturedTo(mon.at, captured')
    <3> SUFFICES ASSUME NEW i \in 1..mon.at, Messages[i].text
                 PROVE  i \in captured'
      BY DEF CapturedTo
    <3>1. CASE i = mon.at
      BY <1>1, <3>1
    <3>2. CASE i # mon.at
      <4>1. i \in 1..(mon.at - 1)
        BY <1>2, <3>2
      <4> QED BY <1>2, <1>4, <4>1 DEF CapturedTo
    <3> QED BY <3>1, <3>2
  <2>3. mon'.at \in 1..(mon'.upto + 1) /\ mon'.at - 1 = mon.at
    BY <1>1, <1>2, <1>3
  <2> QED BY <1>1, <1>3, <2>1, <2>2, <2>3 DEF Inv, Durable
<1>7. Refused'
  BY <1>1 DEF Inv, Refused
<1> QED BY <1>5, <1>6, <1>7 DEF Inv

\* CaptureFails gives the response up; a capture that happened stays.
LEMMA CaptureFailsKeeps ==
    ASSUME Inv, CaptureFails
    PROVE  Inv'
<1>1. /\ mon.pc = "apply" /\ mon.at <= mon.upto
      /\ captured' \in {captured, captured \cup {mon.at}} /\ FailAndWait
      /\ UNCHANGED <<disk, cancelled, lifecycle, arrived, snd, refused>>
  BY DEF CaptureFails, sendVars, refusals
<1>2. mon \in Monitors /\ sh \in Shared
      /\ mon.upto \in 0..Len(Messages) /\ mon.upto \in Nat
      /\ mon.at \in 1..(mon.upto + 1)
  BY <1>1, MonitorFields DEF Inv, Typed, Durable
<1>3. /\ mon' \in Monitors /\ mon'.bundle = mon.bundle
      /\ mon'.pc = "backoff"
      /\ sh' \in Shared /\ sh'.bundle = sh.bundle
      /\ sh'.revision = sh.revision /\ sh'.required = sh.required
      /\ sh'.activated => sh.activated
  BY <1>1, <1>2, FailFields
<1>4. captured \subseteq captured' /\ captured' \in SUBSET (1..Len(Messages))
  <2>1. mon.at \in 1..Len(Messages)
    BY <1>1, <1>2, DeliveryAssumption
  <2> QED BY <1>1, <2>1 DEF Inv, Typed
<1>5. Typed'
  BY <1>1, <1>3, <1>4 DEF Inv, Typed
<1>6. Durable'
  BY <1>1, <1>3, <1>4, MonitorSteps
<1>7. Refused'
  BY <1>1, <1>3, SharedSteps
<1> QED BY <1>5, <1>6, <1>7 DEF Inv

\* When a response has been walked through, all of it is captured.
LEMMA AppliedIsCaptured ==
    ASSUME Inv, mon.pc = "apply", mon.at > mon.upto
    PROVE  CapturedTo(mon.upto, captured)
<1>1. mon.at \in Nat /\ mon.upto \in Nat /\ mon.at \in 1..(mon.upto + 1)
      /\ CapturedTo(mon.at - 1, captured)
  BY MonitorFields DEF Inv, Typed, Durable
<1>2. mon.at - 1 = mon.upto
  BY <1>1
<1> QED BY <1>1, <1>2

\* SaveBundle makes a cursor durable behind captured messages.
LEMMA SaveKeeps ==
    ASSUME Inv, SaveBundle
    PROVE  Inv'
<1>1. /\ mon.pc = "apply" /\ mon.at > mon.upto /\ disk' = NextBundle
      /\ Goto("saved")
      /\ UNCHANGED <<sh, cancelled, lifecycle, arrived, captured, snd, refused>>
  BY DEF SaveBundle, sendVars, refusals
<1>2. mon \in Monitors /\ CapturedTo(mon.upto, captured)
  BY <1>1, AppliedIsCaptured DEF Inv, Typed
<1>3. disk' \in Bundles /\ disk'.cursor = mon.upto
  BY <1>1, <1>2, NextBundleTyped
<1>4. mon' \in Monitors /\ mon'.bundle = mon.bundle /\ mon'.pc = "saved"
      /\ mon'.upto = mon.upto
  BY <1>1, <1>2, GotoFields
<1>5. Typed'
  BY <1>1, <1>3, <1>4 DEF Inv, Typed
<1>6. Durable'
  BY <1>1, <1>2, <1>3, <1>4 DEF Inv, Durable
<1>7. Refused'
  BY <1>1, <1>4 DEF Inv, Refused
<1> QED BY <1>5, <1>6, <1>7 DEF Inv

\* SaveFails may have made the same cursor durable.
LEMMA SaveFailsKeeps ==
    ASSUME Inv, SaveFails
    PROVE  Inv'
<1>1. /\ mon.pc = "apply" /\ mon.at > mon.upto /\ disk' \in {disk, NextBundle}
      /\ FailAndWait
      /\ UNCHANGED <<cancelled, lifecycle, arrived, captured, snd, refused>>
  BY DEF SaveFails, sendVars, refusals
<1>2. mon \in Monitors /\ sh \in Shared /\ CapturedTo(mon.upto, captured)
  BY <1>1, AppliedIsCaptured DEF Inv, Typed
<1>3. disk' = disk \/ (disk' \in Bundles /\ disk'.cursor = mon.upto)
  BY <1>1, <1>2, NextBundleTyped
<1>4. /\ mon' \in Monitors /\ mon'.bundle = mon.bundle
      /\ mon'.pc = "backoff"
      /\ sh' \in Shared /\ sh'.bundle = sh.bundle
      /\ sh'.revision = sh.revision /\ sh'.required = sh.required
      /\ sh'.activated => sh.activated
  BY <1>1, <1>2, FailFields
<1>5. Typed'
  BY <1>1, <1>3, <1>4 DEF Inv, Typed
<1>6. Durable'
  BY <1>1, <1>2, <1>3, <1>4 DEF Inv, Durable
<1>7. Refused'
  BY <1>1, <1>4, SharedSteps
<1> QED BY <1>5, <1>6, <1>7 DEF Inv

\* PublishSession lifts a refusal only with another token.
LEMMA PublishKeeps ==
    ASSUME Inv, PublishSession
    PROVE  Inv'
<1> DEFINE changed == NextBundle.ctx # mon.bundle.ctx
           required == sh.required /\ ~changed
           activated == /\ sh.monitor = "active"
                        /\ NextBundle.ctx # NoContext /\ ~required
           rev == IF changed THEN sh.revision + 1 ELSE sh.revision
           nb == NextBundle
<1>1. /\ mon.pc = "saved"
      /\ sh' = [sh EXCEPT !.bundle = nb, !.revision = rev,
                          !.required = required, !.activated = activated]
      /\ \E p \in {"hook_saved", "poll"} :
           mon' = [mon EXCEPT !.pc = p, !.bundle = nb, !.failures = 0]
      /\ UNCHANGED <<disk, cancelled, lifecycle, arrived, captured, snd,
                     row>>
  BY DEF PublishSession
<1>9. \/ nb.ctx # mon.bundle.ctx /\ refused' = refused \ {nb.ctx}
      \/ /\ nb.ctx = mon.bundle.ctx /\ refused' = refused
         /\ sh.required => required
  BY SharedFields DEF PublishSession, Inv, Typed
<1>2. mon \in Monitors /\ sh \in Shared /\ sh.revision \in Nat
      /\ nb \in Bundles /\ nb.cursor = mon.upto
      /\ CapturedTo(mon.upto, captured)
  BY <1>1, NextBundleTyped, SharedFields DEF Inv, Typed, Durable
<1>3. required \in BOOLEAN /\ activated \in BOOLEAN /\ rev \in Nat
      /\ (required => ~activated)
  BY <1>2, SharedFields
<1> HIDE DEF changed, required, activated, rev, nb
<1>4. /\ sh' \in Shared /\ sh'.bundle = nb /\ sh'.revision = rev
      /\ sh'.required = required /\ sh'.activated = activated
  BY <1>1, <1>2, <1>3 DEF Shared
<1>5. mon' \in Monitors /\ mon'.bundle = nb /\ mon'.pc \in {"hook_saved", "poll"}
  <2>1. 0 \in 0..DegradedAfter
    BY DeliveryAssumption
  <2> QED BY <1>1, <1>2, <2>1 DEF Monitors
<1>6. Typed'
  BY <1>1, <1>4, <1>5 DEF Inv, Typed
<1>7. Durable'
  BY <1>1, <1>2, <1>4, <1>5 DEF Inv, Durable
<1>8. Refused'
  <2>1. CASE refused' = refused \ {nb.ctx}
    BY <1>1, <1>4, <1>5, <2>1 DEF Inv, Refused
  <2>2. CASE /\ nb.ctx = mon.bundle.ctx /\ refused' = refused
             /\ sh.required => required
    <3>1. mon.bundle = sh.bundle
      BY <1>1 DEF Inv, Refused
    <3>2. sh'.bundle.ctx = sh.bundle.ctx /\ sh.bundle # NoBundle
      BY <1>2, <1>4, <2>2, <3>1, MonitorFields, NoneAssumption
    <3> QED BY <1>1, <1>3, <1>4, <1>5, <2>2, <3>2 DEF Inv, Refused
  <2> QED BY <1>9, <2>1, <2>2
<1> QED BY <1>6, <1>7, <1>8 DEF Inv

-----------------------------------------------------------------------------
(* The lifecycle.                                                          *)

\* A login, a resumed and a loaded connection start a new revision.
LEMMA InstallKeeps ==
    ASSUME Inv, InstallLogin \/ ResumeOld \/ InstallLoaded
    PROVE  Inv'
<1>1. PICK b \in Bundles :
        /\ Installed(b)
        /\ CapturedTo(b.cursor, captured)
        /\ disk' = disk \/ (disk' = b /\ b = FreshBundle)
        /\ UNCHANGED <<arrived, captured, snd>> /\ refused' = {}
  <2>1. CASE InstallLogin
    <3>1. CapturedTo(FreshBundle.cursor, captured)
      BY FreshIsTyped DEF CapturedTo
    <3> QED BY <2>1, <3>1, FreshIsTyped DEF InstallLogin, Installed
  <2>2. CASE ResumeOld \/ InstallLoaded
    BY <2>2, SharedFields DEF ResumeOld, InstallLoaded, Installed, Inv,
                              Typed, Durable
  <2> QED BY <2>1, <2>2
<1>2. sh \in Shared /\ sh.revision \in Nat
  BY SharedFields DEF Inv, Typed
<1>3. /\ sh' = [bundle |-> b, revision |-> sh.revision + 1,
                monitor |-> "starting", activated |-> FALSE,
                required |-> FALSE]
      /\ mon' = [NoWorker EXCEPT !.pc = "start", !.bundle = b]
      /\ cancelled' = FALSE /\ lifecycle' = "idle"
  BY <1>1 DEF Installed
<1>4. sh' \in Shared /\ sh'.bundle = b /\ sh'.revision = sh.revision + 1
  BY <1>2, <1>3 DEF Shared, MonitorStates
<1>5. mon' \in Monitors /\ mon'.bundle = b /\ mon'.pc = "start"
  BY <1>3, FreshIsTyped DEF Monitors
<1>6. Typed'
  BY <1>1, <1>3, <1>4, <1>5 DEF Inv, Typed
<1>7. Durable'
  BY <1>1, <1>4, <1>5 DEF Inv, Durable
<1>8. Refused'
  BY <1>1, <1>4, <1>5 DEF Inv, Refused
<1> QED BY <1>6, <1>7, <1>8 DEF Inv

\* Clear leaves no bundle behind.
LEMMA ClearKeeps ==
    ASSUME Inv, Clear
    PROVE  Inv'
<1>1. /\ disk' = NoBundle
      /\ sh' = [bundle |-> NoBundle, revision |-> sh.revision + 1,
                monitor |-> "stopped", activated |-> FALSE,
                required |-> FALSE]
      /\ lifecycle' = "idle" /\ cancelled' = FALSE
      /\ mon.pc = "off" /\ UNCHANGED <<mon, arrived, captured, snd, refused>>
  BY DEF Clear, sendVars, refusals
<1>2. sh \in Shared /\ sh.revision \in Nat
  BY SharedFields DEF Inv, Typed
<1>3. sh' \in Shared /\ sh'.bundle = NoBundle /\ sh'.revision = sh.revision + 1
  BY <1>1, <1>2 DEF Shared, MonitorStates
<1>4. Typed'
  BY <1>1, <1>3 DEF Inv, Typed
<1>5. Durable'
  BY <1>1, <1>3 DEF Inv, Durable
<1>6. Refused'
  BY <1>1, <1>3 DEF Inv, Refused
<1> QED BY <1>4, <1>5, <1>6 DEF Inv

\* Restart goes on from the durable cursor and forgets every send.
LEMMA RestartKeeps ==
    ASSUME Inv, Restart
    PROVE  Inv'
<1> DEFINE rev == IF disk = NoBundle THEN 0 ELSE 1
<1>1. /\ sh' = [bundle |-> disk, revision |-> rev,
                monitor |-> "stopped", activated |-> FALSE,
                required |-> FALSE]
      /\ mon' = NoWorker /\ cancelled' = FALSE
      /\ lifecycle' \in {"idle", "boot"}
      /\ snd' = NoSend /\ refused' = {}
      /\ UNCHANGED <<disk, arrived, captured>>
  BY DEF Restart
<1>2. rev \in Nat
  OBVIOUS
<1> HIDE DEF rev
<1>3. sh' \in Shared /\ sh'.bundle = disk
  BY <1>1, <1>2 DEF Shared, MonitorStates, Inv, Typed
<1>4. Typed'
  BY <1>1, <1>3, FreshIsTyped DEF Inv, Typed
<1>5. Durable'
  <2>1. CapturedTo(mon'.bundle.cursor, captured')
    BY <1>1, FreshIsTyped DEF CapturedTo
  <2> QED BY <1>1, <1>3, <2>1, FreshIsTyped DEF Inv, Durable
<1>6. Refused'
  BY <1>1, FreshIsTyped DEF Refused
<1> QED BY <1>4, <1>5, <1>6 DEF Inv

\* Taking the lifecycle lock changes neither session nor revision.
LEMMA BeginKeeps ==
    ASSUME Inv, BeginReplace \/ BeginClear
    PROVE  Inv'
<1>1. /\ lifecycle' \in {"replace", "clear"} /\ cancelled' = TRUE
      /\ UNCHANGED <<sh, disk, mon, arrived, captured, snd, refused>>
  BY DEF BeginReplace, BeginClear, sendVars, refusals
<1>2. Typed'
  BY <1>1 DEF Inv, Typed
<1>3. Durable' /\ Refused'
  BY <1>1 DEF Inv, Durable, Refused
<1> QED BY <1>2, <1>3 DEF Inv

-----------------------------------------------------------------------------
(* The outbox worker, the user, and steps that change nothing.             *)

\* The sender after send_message has returned.
LEMMA ReturnFields ==
    ASSUME snd \in Senders,
           NEW o \in {"none", "Accepted", "Network", "PermanentFailure",
                      "BlockedActivation", "BlockedReconnect",
                      "ContextChanged", "ContextRejected"},
           Return(o)
    PROVE  snd' \in Senders /\ snd'.pc = "returned"
BY DEF Return, Senders

\* The sender notes a refusal for the token it used and leaves the call.
LEMMA SenderKeeps ==
    ASSUME Inv, SenderStep
    PROVE  Inv'
<1>1. UNCHANGED <<disk, mon, cancelled, lifecycle, arrived, captured>>
  BY DEF SenderStep, Claim, ReadStatus, ReadSnapshot, AskConnection,
         SendSettles, SendUnauthorized, SendRejected, FinishClaim, monVars
<1>2. snd \in Senders /\ sh \in Shared /\ sh.revision \in Nat
      /\ (sh.bundle # NoBundle => sh.bundle.ctx \in Contexts)
  BY SharedFields DEF Inv, Typed, Bundles, Contexts
<1>3. /\ snd' \in Senders /\ sh' \in Shared /\ sh'.bundle = sh.bundle
      /\ Refused'
  <2>1. CASE Claim
    <3>1. snd' = [NoSend EXCEPT !.pc = "gate"] /\ UNCHANGED <<sh, refused>>
      BY <2>1 DEF Claim, refusals
    <3>2. snd' \in Senders /\ snd'.pc = "gate"
      BY <3>1, FreshIsTyped DEF Senders
    <3> QED BY <1>1, <1>2, <3>1, <3>2 DEF Inv, Refused
  <2>2. CASE ReadStatus
    <3>1. /\ UNCHANGED <<sh, refused>>
          /\ \/ sh.activated /\ snd' = [snd EXCEPT !.pc = "snapshot"]
             \/ snd' = [snd EXCEPT !.pc = "ask"]
      BY <2>2 DEF ReadStatus, refusals
    <3>2. /\ snd' \in Senders
          /\ snd'.pc = "ask" \/ (sh.activated /\ snd'.pc = "snapshot")
      BY <1>2, <3>1 DEF Senders
    <3> QED BY <1>1, <1>2, <3>1, <3>2 DEF Inv, Refused
  <2>3. CASE ReadSnapshot
    <3>1. /\ snd.pc = "snapshot" /\ UNCHANGED <<sh, refused>>
          /\ \/ snd' = [snd EXCEPT !.pc = "ask"]
             \/ Return("BlockedActivation")
             \/ /\ sh.bundle # NoBundle
                /\ snd' = [snd EXCEPT !.pc = "sending",
                                      !.revision = sh.revision,
                                      !.ctx = sh.bundle.ctx]
      BY <2>3 DEF ReadSnapshot, refusals
    <3>2. /\ snd' \in Senders
          /\ \/ snd'.pc \in {"ask", "returned"}
             \/ /\ sh.bundle # NoBundle
                /\ snd'.pc = "sending" /\ snd'.ctx = sh.bundle.ctx
      BY <1>2, <3>1, ReturnFields DEF Senders
    <3> QED BY <1>1, <1>2, <3>1, <3>2 DEF Inv, Refused
  <2>4. CASE AskConnection \/ \E o \in {"Accepted", "Network",
                                        "PermanentFailure"} : SendSettles(o)
    <3>1. /\ UNCHANGED <<sh, refused>>
          /\ \E o \in {"Accepted", "Network", "PermanentFailure",
                       "BlockedActivation", "BlockedReconnect"} : Return(o)
      BY <2>4 DEF AskConnection, SendSettles, refusals
    <3>2. snd' \in Senders /\ snd'.pc = "returned"
      BY <1>2, <3>1, ReturnFields
    <3> QED BY <1>1, <1>2, <3>1, <3>2 DEF Inv, Refused
  <2>5. CASE SendUnauthorized
    <3>1. /\ refused' = refused
          /\ sh' = Status("reconnect_required", FALSE) \/ sh' = sh
          /\ \E o \in {"BlockedReconnect", "ContextChanged"} : Return(o)
      BY <2>5 DEF SendUnauthorized, TerminalFailure, refusals
    <3>2. snd' \in Senders /\ snd'.pc = "returned"
      BY <1>2, <3>1, ReturnFields
    <3>3. /\ sh' \in Shared /\ sh'.bundle = sh.bundle
          /\ sh'.revision = sh.revision /\ sh'.required = sh.required
          /\ sh'.activated => sh.activated
      BY <1>2, <3>1, StatusFields DEF MonitorStates
    <3> QED BY <1>1, <1>2, <3>1, <3>2, <3>3 DEF Inv, Refused
  <2>6. CASE SendRejected
    <3>1. \/ /\ sh.revision = snd.revision
             /\ sh' = [sh EXCEPT !.required = TRUE, !.activated = FALSE]
             /\ refused' = refused \cup {snd.ctx}
             /\ Return("ContextRejected")
          \/ UNCHANGED <<sh, refused>> /\ Return("ContextChanged")
      BY <2>6 DEF SendRejected, refusals
    <3>2. snd' \in Senders /\ snd'.pc = "returned"
      BY <1>2, <3>1, ReturnFields
    <3>3. CASE /\ sh.revision = snd.revision
               /\ sh' = [sh EXCEPT !.required = TRUE, !.activated = FALSE]
               /\ refused' = refused \cup {snd.ctx}
      <4>1. /\ sh' \in Shared /\ sh'.bundle = sh.bundle
            /\ sh'.revision = sh.revision /\ sh'.required = TRUE
            /\ sh'.activated = FALSE
        BY <1>2, <3>3 DEF Shared
      <4> QED BY <1>1, <1>2, <3>2, <3>3, <4>1 DEF Inv, Refused
    <3>4. CASE UNCHANGED <<sh, refused>>
      BY <1>1, <1>2, <3>2, <3>4 DEF Inv, Refused
    <3> QED BY <3>1, <3>3, <3>4
  <2>7. CASE FinishClaim
    <3>1. snd' = NoSend /\ UNCHANGED <<sh, refused>>
      BY <2>7 DEF FinishClaim, refusals
    <3> QED BY <1>1, <1>2, <3>1, FreshIsTyped DEF Inv, Refused
  <2> QED BY <2>1, <2>2, <2>3, <2>4, <2>5, <2>6, <2>7 DEF SenderStep
<1>4. Typed'
  BY <1>1, <1>3 DEF Inv, Typed
<1>5. Durable'
  BY <1>1, <1>3, MonitorSteps
<1> QED BY <1>3, <1>4, <1>5 DEF Inv

\* A message that arrives, or a step that changes nothing.
LEMMA UserKeeps ==
    ASSUME Inv, UserSends \/ UNCHANGED vars
    PROVE  Inv'
<1>1. UNCHANGED <<sh, disk, mon, cancelled, lifecycle, captured, snd, refused>>
  BY DEF UserSends, vars, monVars, sendVars, refusals
<1>2. arrived' \in 0..Len(Messages)
  BY DeliveryAssumption DEF UserSends, vars, Inv, Typed
<1>3. Typed'
  BY <1>1, <1>2 DEF Inv, Typed
<1>4. Durable' /\ Refused'
  BY <1>1 DEF Inv, Durable, Refused
<1> QED BY <1>3, <1>4 DEF Inv

-----------------------------------------------------------------------------
(* The theorems.                                                           *)

\* The initial states satisfy the invariant.
LEMMA InitHolds ==
    ASSUME Init
    PROVE  Inv
<1>1. sh \in Shared /\ sh.bundle = NoBundle
  BY DEF Init, Shared, MonitorStates
<1>2. Typed
  <2>1. 0 \in 0..Len(Messages)
    BY DeliveryAssumption
  <2>2. cancelled \in BOOLEAN /\ captured \in SUBSET (1..Len(Messages))
    BY DEF Init
  <2> QED BY <1>1, <2>1, <2>2, FreshIsTyped DEF Init, Typed
<1>3. Durable
  <2>1. CapturedTo(mon.bundle.cursor, captured)
    BY FreshIsTyped DEF Init, CapturedTo
  <2> QED BY <1>1, <2>1, FreshIsTyped DEF Init, Durable
<1>4. Refused
  BY FreshIsTyped DEF Init, Refused
<1> QED BY <1>2, <1>3, <1>4 DEF Inv

\* The invariant holds throughout, through failures of the sink and the store,
\* logins, disconnects and crashes.
THEOREM Invariance == Spec => []Inv
<1>1. ASSUME Inv, [Next]_vars PROVE Inv'
  <2>1. CASE MonitorStep
    BY <1>1, <2>1, MonitorKeeps, PollKeeps, CaptureKeeps, CaptureFailsKeeps,
       SaveKeeps, SaveFailsKeeps, PublishKeeps DEF MonitorStep
  <2>2. CASE SenderStep
    BY <1>1, <2>2, SenderKeeps
  <2>3. CASE LifecycleStep
    BY <1>1, <2>3, InstallKeeps, ClearKeeps DEF LifecycleStep
  <2>4. CASE BeginReplace \/ BeginClear \/ Restart
    BY <1>1, <2>4, BeginKeeps, RestartKeeps
  <2>5. CASE UserSends \/ UNCHANGED vars
    BY <1>1, <2>5, UserKeeps
  <2> QED BY <1>1, <2>1, <2>2, <2>3, <2>4, <2>5 DEF Next
<1>2. Inv /\ [Next]_vars => Inv'
  BY <1>1
<1> QED BY <1>2, InitHolds, PTL DEF Spec

\* The outbox row, which no other part of the argument looks at; a send that
\* has returned has an outcome for it.
RowTyped ==
    /\ row \in [status : Blocked \cup {"queued", "claimed", "settled"},
                attempts : 0..2]
    /\ snd.pc = "returned" => snd.outcome # "none"

\* finish_claim has a status for every outcome of a send.
LEMMA OutcomesSettle ==
    ASSUME Typed, RowTyped, FinishClaim
    PROVE  RowTyped'
<1>1. snd.outcome \in {"Accepted", "Network", "PermanentFailure",
                       "BlockedActivation", "BlockedReconnect",
                       "ContextChanged", "ContextRejected"}
  BY DEF Typed, Senders, RowTyped, FinishClaim
<1>2. StatusAfter(snd.outcome, row.attempts)
        \subseteq Blocked \cup {"queued", "settled"}
  BY <1>1 DEF StatusAfter, Blocked
<1>3. PICK s \in StatusAfter(snd.outcome, row.attempts) :
          row' = [row EXCEPT !.status = s]
  BY DEF FinishClaim
<1>4. snd'.pc = "idle"
  BY DEF FinishClaim, NoSend
<1> QED BY <1>2, <1>3, <1>4 DEF RowTyped

\* Only the hook, the recovery at a start and the worker itself write the row.
LEMMA RowKept == Inv /\ RowTyped /\ [Next]_vars => RowTyped'
<1> SUFFICES ASSUME Typed, RowTyped, [Next]_vars PROVE RowTyped'
  BY DEF Inv
<1>1. CASE UNCHANGED <<row, snd>>
  BY <1>1 DEF RowTyped
<1>2. CASE HookRuns
  BY <1>2 DEF HookRuns, RowTyped
<1>3. CASE Claim
  BY <1>3 DEF Claim, NoSend, RowTyped
<1>4. CASE Restart
  BY <1>4 DEF Restart, NoSend, RowTyped
<1>5. CASE ReadStatus \/ ReadSnapshot
  <2>1. /\ row' = row
        /\ \/ snd'.pc \in {"snapshot", "ask", "sending"}
           \/ snd'.outcome = "BlockedActivation"
    BY <1>5 DEF ReadStatus, ReadSnapshot, Return, Typed, Senders
  <2> QED BY <2>1 DEF RowTyped
<1>6. CASE AskConnection \/ SendUnauthorized \/ SendRejected
  <2>1. row' = row /\ snd'.outcome # "none"
    BY <1>6 DEF AskConnection, SendUnauthorized, SendRejected, Return,
                Typed, Senders
  <2> QED BY <2>1 DEF RowTyped
<1>7. ASSUME NEW o \in {"Accepted", "Network", "PermanentFailure"},
             SendSettles(o)
      PROVE  RowTyped'
  <2>1. row' = row /\ snd'.outcome # "none"
    BY <1>7 DEF SendSettles, Return, Typed, Senders
  <2> QED BY <2>1 DEF RowTyped
<1>8. CASE MonitorStep /\ ~HookRuns
  <2>1. UNCHANGED <<row, snd>>
    BY <1>8 DEF MonitorStep, NotifyStartOk, CheckStarted, CheckReconnected,
         CallRefused, CallFailed, CallCancelled, RetryDue, PollOk, Capture,
         CaptureFails, Unchanged, SaveBundle, SaveFails, PublishSession,
         HookFails, FinishMonitor, sendVars
  <2> QED BY <1>1, <2>1
<1>9. CASE LifecycleStep \/ BeginReplace \/ BeginClear \/ UserSends
             \/ UNCHANGED vars
  <2>1. UNCHANGED <<row, snd>>
    BY <1>9 DEF LifecycleStep, InstallLogin, ResumeOld, InstallLoaded, Clear,
         Installed, BeginReplace, BeginClear, UserSends, vars, sendVars
  <2> QED BY <1>1, <2>1
<1> QED BY <1>2, <1>3, <1>4, <1>5, <1>6, <1>7, <1>8, <1>9, OutcomesSettle
       DEF Next, SenderStep

\* Type correctness of the connection, the monitor and the outbox row.
THEOREM DeliveryTypeCorrect == Spec => []DeliveryTypeOK
<1>1. Init => RowTyped
  BY DEF Init, NoSend, RowTyped
<1>2. Spec => []RowTyped
  BY <1>1, RowKept, Invariance, PTL DEF Spec
<1>3. Inv /\ RowTyped => DeliveryTypeOK
  <2> SUFFICES ASSUME Inv, RowTyped PROVE DeliveryTypeOK
    OBVIOUS
  <2>1. sh \in Shared /\ mon \in Monitors
    BY DEF Inv, Typed
  <2>2. /\ sh.bundle \in Bundles \cup {NoBundle} /\ sh.revision \in Nat
        /\ sh.monitor \in MonitorStates
        /\ sh.activated \in BOOLEAN /\ sh.required \in BOOLEAN
    BY <2>1, SharedFields
  <2>3. mon.bundle \in Bundles /\ mon.failures \in 0..DegradedAfter
    BY <2>1 DEF Monitors
  <2> QED BY <2>2, <2>3 DEF Inv, Typed, RowTyped, DeliveryTypeOK
<1> QED BY <1>2, <1>3, Invariance, PTL

\* A text message whose cursor was made durable has crossed the sink: neither
\* a failed capture or save, nor a crash between them,
\* nor a new login makes the
\* monitor skip it (apply_response, run_monitor).
THEOREM MessagesAreKept == Spec => []NoMessageLost
<1>1. Inv => NoMessageLost
  BY DEF Inv, Durable, CapturedTo, NoMessageLost
<1> QED BY <1>1, Invariance, PTL

\* No message is sent with a context token the provider has refused since the
\* connection was installed, unless a message brought it again, although the
\* sender reads status and bundle under two acquisitions of the mutex
\* (connection_snapshot, publish_session, set_active).
THEOREM RejectedContextsAreDropped == Spec => []RejectedContextUnused
<1>1. Inv => RejectedContextUnused
  BY DEF Inv, Refused, RejectedContextUnused
<1> QED BY <1>1, Invariance, PTL

=============================================================================
