---------------------------- MODULE GatewayProofs ----------------------------
(***************************************************************************)
(* Proofs about the gateway, for every number of connections and requests, *)
(* every set of scopes and every bound.                                    *)
(***************************************************************************)
EXTENDS Gateway, FiniteSetTheorems, TLAPS

(* A connection whose queue and pending requests keep to their limits.     *)
GoodSessions ==
    {r \in SessionRecords : /\ Len(r.queue) <= QueueCapacity
                            /\ IsFiniteSet(r.pending)
                            /\ Cardinality(r.pending) <= MaxPending}

(* What typing needs to be inductive: a rotation is counted, and only      *)
(* finitely many requests wait for an answer.                              *)
RowInv ==
    /\ row \in Rows
    /\ changes \in 0..MaxChanges
    /\ row.secret <= changes

RegistryInv ==
    /\ active \in Sessions \cup {NoSession}
    /\ invalidation \in Nat
    /\ admin \in [stage : {"idle", "committed", "removed"}, victim : Sessions \cup {NoSession}]
    /\ outside \in Nat

SessionsInv == session \in [Sessions -> GoodSessions]

RequestsInv == request \in [Requests -> RequestRecords]

TypeInv == RowInv /\ RegistryInv /\ SessionsInv /\ RequestsInv

(* What keeps LiveIsRegistered: a session about to tell another holds the  *)
(* other's name only until it has, and it never names itself; the          *)
(* administration holds a name exactly between the two halves of           *)
(* invalidate_device.                                                      *)
LiveInv ==
    /\ LiveIsRegistered
    /\ \A s \in Sessions : /\ session[s].victim # s
                           /\ session[s].victim # NoSession => session[s].phase = "registered"
    /\ admin.stage = "removed" <=> admin.victim # NoSession

(* What keeps RegisteredIsAuthorised: a session that holds a lease and     *)
(* whose fence is still current would be authorised if it registered now,  *)
(* and a fence or a history stamp is never from the future.                *)
LeaseInv ==
    /\ RegisteredIsAuthorised
    /\ \A s \in Sessions :
          /\ session[s].fence <= invalidation
          /\ session[s].outside <= outside
          /\ /\ session[s].phase = "leased"
             /\ session[s].fence = invalidation
             /\ admin.stage # "committed"
             /\ session[s].outside = outside
             => Active /\ Revision = session[s].revision

(* A request in flight belongs to a session of its own revision.           *)
FlightInv ==
    \A q \in Requests :
        request[q].phase \in {"chosen", "waiting", "replied"} =>
            /\ request[q].session \in Sessions
            /\ session[request[q].session].phase # "new"
            /\ session[request[q].session].revision = request[q].revision

Inv == TypeInv /\ LiveInv /\ LeaseInv /\ FlightInv

-----------------------------------------------------------------------------
(* The records: what an assignment to some of their fields leaves behind.  *)

(* Assigning the handshake's fields, the flag or the acknowledged requests *)
(* leaves a good session.                                                  *)
LEMMA SessionEdits ==
    ASSUME NEW r \in GoodSessions
    PROVE  /\ \A p \in Phases, v \in Revisions :
                  [r EXCEPT !.phase = p, !.revision = v] \in GoodSessions
           /\ \A p \in Phases, n \in Nat :
                  /\ [r EXCEPT !.phase = p, !.fence = n] \in GoodSessions
                  /\ [r EXCEPT !.phase = p, !.outside = n] \in GoodSessions
           /\ \A p \in Phases, v \in Sessions \cup {NoSession} :
                  /\ [r EXCEPT !.phase = p, !.victim = v] \in GoodSessions
                  /\ [r EXCEPT !.phase = p, !.victim = v, !.fence = 0] \in GoodSessions
           /\ [r EXCEPT !.told = TRUE] \in GoodSessions
           /\ \A a \in SUBSET Requests : [r EXCEPT !.acked = a] \in GoodSessions
  BY DEF GoodSessions, SessionRecords

(* So does assigning a queue and pending requests that keep to the limits. *)
LEMMA QueueEdits ==
    ASSUME NEW r \in GoodSessions, NEW w \in Seq(Requests), Len(w) <= QueueCapacity,
           NEW p \in SUBSET Requests, IsFiniteSet(p), Cardinality(p) <= MaxPending,
           NEW a \in SUBSET Requests
    PROVE  /\ [r EXCEPT !.queue = w] \in GoodSessions
           /\ [r EXCEPT !.queue = w, !.pending = p] \in GoodSessions
           /\ [r EXCEPT !.pending = p, !.acked = a] \in GoodSessions
           /\ [r EXCEPT !.phase = "closing", !.told = FALSE, !.queue = w,
                        !.pending = p, !.acked = a] \in GoodSessions
  BY DEF GoodSessions, SessionRecords, Phases

(* What membership in GoodSessions says of each field.                     *)
LEMMA Fields ==
    ASSUME NEW r \in GoodSessions
    PROVE  /\ r \in SessionRecords
           /\ r.phase \in Phases /\ r.revision \in Revisions
           /\ r.fence \in Nat /\ r.outside \in Nat
           /\ r.victim \in Sessions \cup {NoSession} /\ r.told \in BOOLEAN
           /\ r.queue \in Seq(Requests) /\ Len(r.queue) <= QueueCapacity
           /\ r.pending \in SUBSET Requests /\ r.acked \in SUBSET Requests
           /\ IsFiniteSet(r.pending) /\ Cardinality(r.pending) <= MaxPending
  BY DEF GoodSessions, SessionRecords

(* A connection not opened yet, and one that has ended, are good sessions. *)
LEMMA Fresh ==
    /\ NewSession \in GoodSessions
    /\ \A v \in Revisions : [NewSession EXCEPT !.phase = "ended", !.revision = v] \in GoodSessions
  <1> DEFINE w == <<>>
  <1>1. IsFiniteSet({}) /\ Cardinality({}) = 0
    BY FS_EmptySet
  <1>2. w \in Seq(Requests) /\ Len(w) <= QueueCapacity
    BY GatewayAssumption
  <1>3. NewSession = [phase |-> "new", revision |-> NoRevision, fence |-> 0, outside |-> 0,
     victim |-> NoSession, told |-> FALSE, queue |-> w, pending |-> {}, acked |-> {}]
    BY DEF NewSession
  <1> HIDE DEF w
  <1>4. NewSession \in GoodSessions
    <2>1. NoRevision \in Revisions /\ "new" \in Phases
      BY DEF Revisions, Phases
    <2>2. NewSession \in SessionRecords
      BY <1>2, <1>3, <2>1 DEF SessionRecords
    <2>3. NewSession.queue = w /\ NewSession.pending = {}
      BY <1>3
    <2>4. IsFiniteSet(NewSession.pending) /\ Cardinality(NewSession.pending) = 0
      BY <1>1, <2>3
    <2>5. Len(NewSession.queue) <= QueueCapacity
      BY <1>2, <2>3
    <2>6. Cardinality(NewSession.pending) <= MaxPending
      BY <2>4, GatewayAssumption
    <2> QED
      BY <2>2, <2>4, <2>5, <2>6 DEF GoodSessions
  <1>5. "ended" \in Phases
    BY DEF Phases
  <1> QED
    BY <1>4, <1>5, SessionEdits

(* Fewer requests keep to the limit, and one more does below it.           *)
LEMMA PendingEdits ==
    ASSUME NEW r \in GoodSessions, NEW q \in Requests, NEW late \in SUBSET Requests
    PROVE  /\ IsFiniteSet({}) /\ Cardinality({}) <= MaxPending
           /\ IsFiniteSet(r.pending \ late) /\ Cardinality(r.pending \ late) <= MaxPending
           /\ Cardinality(r.pending) < MaxPending =>
                 /\ IsFiniteSet(r.pending \cup {q})
                 /\ Cardinality(r.pending \cup {q}) <= MaxPending
  <1>1. IsFiniteSet(r.pending) /\ Cardinality(r.pending) <= MaxPending
    BY Fields
  <1>2. IsFiniteSet({}) /\ Cardinality({}) = 0
    BY FS_EmptySet
  <1>3. /\ IsFiniteSet(r.pending \ late)
        /\ Cardinality(r.pending \ late) <= Cardinality(r.pending)
    BY <1>1, FS_Subset
  <1>4. /\ IsFiniteSet(r.pending \cup {q})
        /\ Cardinality(r.pending \cup {q}) <= Cardinality(r.pending) + 1
    <2>1. Cardinality(r.pending) \in Nat
      BY <1>1, FS_CardinalityType
    <2>2. /\ IsFiniteSet(r.pending \cup {q})
          /\ Cardinality(r.pending \cup {q})
                = IF q \in r.pending THEN Cardinality(r.pending) ELSE Cardinality(r.pending) + 1
      BY <1>1, FS_AddElement
    <2> QED
      BY <2>1, <2>2
  <1>5. Cardinality(r.pending) \in Nat /\ Cardinality(r.pending \ late) \in Nat
        /\ Cardinality(r.pending \cup {q}) \in Nat
    BY <1>1, <1>3, <1>4, FS_CardinalityType
  <1> QED
    BY <1>1, <1>2, <1>3, <1>4, <1>5, GatewayAssumption

(* The assignments to a caller's record.                                   *)
LEMMA RequestEdits ==
    ASSUME NEW r \in RequestRecords
    PROVE  /\ \A v \in Revisions : [r EXCEPT !.phase = "authorised", !.revision = v] \in RequestRecords
           /\ \A s \in Sessions : [r EXCEPT !.phase = "chosen", !.session = s] \in RequestRecords
           /\ [r EXCEPT !.phase = "waiting"] \in RequestRecords
           /\ [r EXCEPT !.expired = TRUE] \in RequestRecords
           /\ \A y \in {"answer", "error"} :
                 /\ [r EXCEPT !.phase = "replied", !.reply = y, !.expired = FALSE] \in RequestRecords
                 /\ [NewRequest EXCEPT !.phase = "ended", !.result = y, !.expired = r.expired]
                        \in RequestRecords
  <1>1. NewRequest \in RequestRecords
    BY DEF NewRequest, RequestRecords, Revisions
  <1>2. r.expired \in BOOLEAN
    BY DEF RequestRecords
  <1> QED
    BY <1>1, <1>2 DEF RequestRecords

(* Replying to callers keeps their records typed.                          *)
LEMMA RepliedType ==
    ASSUME RequestsInv, NEW qs, NEW y \in {"answer", "error"}
    PROVE  Replied(request, qs, y) \in [Requests -> RequestRecords]
  BY RequestEdits DEF RequestsInv, Replied

(* So does ending a caller's wait.                                         *)
LEMMA EndsType ==
    ASSUME RequestsInv, NEW q \in Requests, NEW y \in {"answer", "error"}, Ends(q, y)
    PROVE  RequestsInv'
  <1>1. [NewRequest EXCEPT !.phase = "ended", !.result = y, !.expired = request[q].expired]
            \in RequestRecords
    BY RequestEdits DEF RequestsInv
  <1> QED
    BY <1>1 DEF RequestsInv, Ends

(* Ending a session keeps the sessions typed.                              *)
LEMMA EndedType ==
    ASSUME SessionsInv, NEW s \in Sessions
    PROVE  Ended(s) \in [Sessions -> GoodSessions]
  <1>1. session[s].revision \in Revisions
    BY Fields DEF SessionsInv
  <1>2. [NewSession EXCEPT !.phase = "ended", !.revision = session[s].revision] \in GoodSessions
    BY <1>1, Fresh
  <1> QED
    BY <1>2 DEF SessionsInv, Ended

(* Leaving the loop keeps the sessions and the callers typed.              *)
LEMMA LeaveType ==
    ASSUME SessionsInv, RequestsInv, NEW s \in Sessions, Leave(s)
    PROVE  SessionsInv' /\ RequestsInv'
  <1> DEFINE w == <<>>
  <1>1. w \in Seq(Requests) /\ Len(w) <= QueueCapacity
    BY GatewayAssumption
  <1>2. IsFiniteSet({}) /\ Cardinality({}) <= MaxPending
    BY FS_EmptySet, GatewayAssumption
  <1>3. session' = [session EXCEPT ![s].phase = "closing", ![s].told = FALSE,
                                   ![s].queue = w, ![s].pending = {}, ![s].acked = {}]
    BY DEF Leave
  <1> HIDE DEF w
  <1>4. [session[s] EXCEPT !.phase = "closing", !.told = FALSE, !.queue = w,
                           !.pending = {}, !.acked = {}] \in GoodSessions
    BY <1>1, <1>2, QueueEdits DEF SessionsInv
  <1>5. SessionsInv'
    BY <1>3, <1>4 DEF SessionsInv
  <1>6. RequestsInv'
    BY RepliedType DEF Leave, RequestsInv
  <1> QED
    BY <1>5, <1>6

-----------------------------------------------------------------------------
(* Typing, action by action.                                               *)

(* The row's revision is a revision.                                       *)
LEMMA RevisionType ==
    RowInv => Revision \in Revisions
  BY DEF RowInv, Rows, Revision, Revisions

(* The initial states are typed.                                           *)
LEMMA TypeInit == Init => TypeInv
  <1> SUFFICES ASSUME Init PROVE TypeInv
    OBVIOUS
  <1>1. RowInv
    <2>1. PICK scopes \in ScopeSets :
             row = [secret |-> 0, enabled |-> TRUE, revoked |-> FALSE, scopes |-> scopes]
      BY DEF Init, DevicesInit
    <2>2. changes = 0 /\ 0 \in 0..MaxChanges
      BY DevicesAssumption DEF Init, DevicesInit
    <2> QED
      BY <2>1, <2>2 DEF RowInv, Rows
  <1>2. RegistryInv
    BY DEF Init, RegistryInv
  <1>3. SessionsInv
    BY Fresh DEF Init, SessionsInv
  <1>4. RequestsInv
    BY DEF Init, RequestsInv, RequestRecords, NewRequest, Revisions
  <1> QED
    BY <1>1, <1>2, <1>3, <1>4 DEF TypeInv

(* The steps of the handshake and of the cleanup keep the types.           *)
LEMMA HandshakeType ==
    ASSUME TypeInv, NEW s \in Sessions,
           \/ Authenticate(s) \/ ReadFence(s) \/ InitialLease(s) \/ NoHello(s)
           \/ Register(s) \/ Welcome(s) \/ Cleanup(s)
    PROVE  TypeInv'
  <1> USE DEF TypeInv
  <1>1. session[s] \in GoodSessions
    BY DEF SessionsInv
  <1>2. \A p \in {"authenticated", "fenced", "leased", "registered", "loop"} : p \in Phases
    BY DEF Phases
  <1>3. Ended(s) \in [Sessions -> GoodSessions]
    BY EndedType
  <1>4. CASE Authenticate(s)
    <2>1. [session[s] EXCEPT !.phase = "authenticated", !.revision = Revision] \in GoodSessions
      BY <1>1, <1>2, RevisionType, SessionEdits
    <2>2. SessionsInv'
      BY <1>4, <2>1 DEF Authenticate, SessionsInv
    <2> QED
      BY <1>4, <2>2 DEF Authenticate, RowInv, RegistryInv, RequestsInv
  <1>5. CASE ReadFence(s)
    <2>1. [session[s] EXCEPT !.phase = "fenced", !.fence = invalidation] \in GoodSessions
      BY <1>1, <1>2, SessionEdits DEF RegistryInv
    <2>2. SessionsInv'
      BY <1>5, <2>1 DEF ReadFence, SessionsInv
    <2> QED
      BY <1>5, <2>2 DEF ReadFence, RowInv, RegistryInv, RequestsInv
  <1>6. CASE InitialLease(s)
    <2>1. [session[s] EXCEPT !.phase = "leased", !.outside = outside] \in GoodSessions
      BY <1>1, <1>2, SessionEdits DEF RegistryInv
    <2>2. SessionsInv'
      BY <1>3, <1>6, <2>1 DEF InitialLease, SessionsInv
    <2> QED
      BY <1>6, <2>2 DEF InitialLease, RowInv, RegistryInv, RequestsInv
  <1>7. CASE NoHello(s)
    BY <1>3, <1>7 DEF NoHello, SessionsInv, RowInv, RegistryInv, RequestsInv
  <1>8. CASE Register(s)
    <2>1. [session[s] EXCEPT !.phase = "registered", !.victim = active, !.fence = 0] \in GoodSessions
      BY <1>1, <1>2, SessionEdits DEF RegistryInv
    <2>2. SessionsInv'
      BY <1>3, <1>8, <2>1 DEF Register, SessionsInv
    <2> QED
      BY <1>8, <2>2 DEF Register, RowInv, RegistryInv, RequestsInv
  <1>9. CASE Welcome(s)
    <2>1. [session[s] EXCEPT !.phase = "loop", !.victim = NoSession] \in GoodSessions
      BY <1>1, <1>2, SessionEdits
    <2>2. \A t \in Sessions : [session[t] EXCEPT !.told = TRUE] \in GoodSessions
      BY SessionEdits DEF SessionsInv
    <2>3. SessionsInv'
      BY <1>9, <2>1, <2>2 DEF Welcome, SessionsInv
    <2> QED
      BY <1>9, <2>3 DEF Welcome, RowInv, RegistryInv, RequestsInv
  <1>10. CASE Cleanup(s)
    BY <1>3, <1>10 DEF Cleanup, SessionsInv, RowInv, RegistryInv, RequestsInv
  <1> QED
    BY <1>4, <1>5, <1>6, <1>7, <1>8, <1>9, <1>10

(* The steps of the session loop keep the types and the limits.            *)
LEMMA LoopType ==
    ASSUME TypeInv, NEW s \in Sessions,
           \/ StopTold(s) \/ Disconnect(s) \/ Revalidate(s)
           \/ HandleCommand(s) \/ ExpirePending(s)
           \/ \E q \in Requests : RequestAck(s, q) \/ RequestRefused(s, q) \/ Response(s, q)
    PROVE  TypeInv'
  <1> USE DEF TypeInv
  <1>1. session[s] \in GoodSessions
    BY DEF SessionsInv
  <1>2. CASE StopTold(s) \/ Disconnect(s) \/ Revalidate(s)
    <2>1. SessionsInv' /\ RequestsInv'
      BY <1>2, LeaveType DEF StopTold, Disconnect, Revalidate
    <2> QED
      BY <1>2, <2>1 DEF StopTold, Disconnect, Revalidate, RowInv, RegistryInv
  <1>3. CASE HandleCommand(s)
    <2> DEFINE q == Head(session[s].queue)
               refused == request[q].expired \/ Cardinality(session[s].pending) >= MaxPending
               rest == Tail(session[s].queue)
               pend == IF refused THEN session[s].pending ELSE session[s].pending \cup {q}
    <2>1. session[s].queue \in Seq(Requests) /\ session[s].queue # <<>>
          /\ Len(session[s].queue) <= QueueCapacity
      BY <1>1, <1>3, Fields DEF HandleCommand
    <2>2. q \in Requests /\ rest \in Seq(Requests) /\ Len(rest) <= QueueCapacity
      BY <2>1, GatewayAssumption
    <2>3. pend \in SUBSET Requests /\ IsFiniteSet(pend) /\ Cardinality(pend) <= MaxPending
      <3>1. CASE refused
        BY <1>1, <3>1, Fields
      <3>2. CASE ~refused
        <4>1. Cardinality(session[s].pending) < MaxPending
          BY <1>1, <3>2, Fields, FS_CardinalityType, GatewayAssumption
        <4>2. /\ IsFiniteSet(session[s].pending \cup {q})
              /\ Cardinality(session[s].pending \cup {q}) <= MaxPending
          BY <1>1, <2>2, <4>1, PendingEdits
        <4> QED
          BY <1>1, <2>2, <3>2, <4>2, Fields
      <3> QED
        BY <3>1, <3>2
    <2>4. session' = [session EXCEPT ![s].queue = rest, ![s].pending = pend]
      BY <1>3 DEF HandleCommand, SessionsInv
    <2>5. request' = IF refused THEN Replied(request, {q}, "error") ELSE request
      BY <1>3 DEF HandleCommand
    <2> HIDE DEF q, refused, rest, pend
    <2>6. [session[s] EXCEPT !.queue = rest, !.pending = pend] \in GoodSessions
      BY <1>1, <2>2, <2>3, QueueEdits
    <2>7. SessionsInv'
      BY <2>4, <2>6 DEF SessionsInv
    <2>8. RequestsInv'
      BY <2>5, RepliedType DEF RequestsInv
    <2> QED
      BY <1>3, <2>7, <2>8 DEF HandleCommand, RowInv, RegistryInv
  <1>4. ASSUME NEW late \in SUBSET Requests,
               session' = [session EXCEPT ![s].pending = @ \ late, ![s].acked = @ \ late]
        PROVE  SessionsInv'
    <2> DEFINE p == session[s].pending \ late
               a == session[s].acked \ late
    <2>1. session' = [session EXCEPT ![s].pending = p, ![s].acked = a]
      BY <1>4 DEF SessionsInv
    <2>2. p \in SUBSET Requests /\ a \in SUBSET Requests
      BY <1>1, Fields
    <2>3. IsFiniteSet(p) /\ Cardinality(p) <= MaxPending
      BY <1>1, FS_Subset, Fields, FS_CardinalityType, GatewayAssumption
    <2> HIDE DEF p, a
    <2>4. [session[s] EXCEPT !.pending = p, !.acked = a] \in GoodSessions
      BY <1>1, <2>2, <2>3, GatewayAssumption, QueueEdits, Fields
    <2> QED
      BY <2>1, <2>4 DEF SessionsInv
  <1>5. CASE ExpirePending(s)
    <2> DEFINE late == {q \in session[s].pending : request[q].expired}
    <2>1. late \in SUBSET Requests
      BY <1>1, Fields
    <2>2. session' = [session EXCEPT ![s].pending = @ \ late, ![s].acked = @ \ late]
      BY <1>5 DEF ExpirePending
    <2>3. request' = Replied(request, late, "error")
      BY <1>5 DEF ExpirePending
    <2> HIDE DEF late
    <2>4. SessionsInv'
      BY <1>4, <2>1, <2>2
    <2>5. RequestsInv'
      BY <2>3, RepliedType DEF RequestsInv
    <2> QED
      BY <1>5, <2>4, <2>5 DEF ExpirePending, RowInv, RegistryInv
  <1>6. ASSUME NEW q \in Requests, RequestAck(s, q)
        PROVE  TypeInv'
    <2> DEFINE a == session[s].acked \cup {q}
    <2>1. a \in SUBSET Requests
      BY <1>1, Fields
    <2>2. session' = [session EXCEPT ![s].acked = a]
      BY <1>6 DEF RequestAck, SessionsInv
    <2> HIDE DEF a
    <2>3. [session[s] EXCEPT !.acked = a] \in GoodSessions
      BY <1>1, <2>1, SessionEdits
    <2>4. SessionsInv'
      BY <2>2, <2>3 DEF SessionsInv
    <2> QED
      BY <1>6, <2>4 DEF RequestAck, RowInv, RegistryInv, RequestsInv
  <1>7. ASSUME NEW q \in Requests, RequestRefused(s, q) \/ Response(s, q)
        PROVE  TypeInv'
    <2>1. session' = [session EXCEPT ![s].pending = @ \ {q}, ![s].acked = @ \ {q}]
      BY <1>7 DEF RequestRefused, Response, Drop
    <2>2. SessionsInv'
      BY <1>4, <2>1
    <2>3. RequestsInv'
      BY <1>7, RepliedType DEF RequestRefused, Response, RequestsInv
    <2> QED
      BY <1>7, <2>2, <2>3 DEF RequestRefused, Response, RowInv, RegistryInv
  <1> QED
    BY <1>2, <1>3, <1>5, <1>6, <1>7

(* The callers' steps keep the types, and the queue's limit.               *)
LEMMA CallerType ==
    ASSUME TypeInv, NEW q \in Requests, CallerStep(q)
    PROVE  TypeInv'
  <1> USE DEF TypeInv
  <1>1. request[q] \in RequestRecords
    BY DEF RequestsInv
  <1>2. Ends(q, "error") \/ Ends(q, "answer") => RequestsInv'
    BY EndsType
  <1>3. CASE Authorise(q)
    <2>1. [request[q] EXCEPT !.phase = "authorised", !.revision = Revision] \in RequestRecords
      BY <1>1, RevisionType, RequestEdits
    <2>2. RequestsInv'
      BY <1>2, <1>3, <2>1 DEF Authorise, RequestsInv
    <2> QED
      BY <1>3, <2>2 DEF Authorise, RowInv, RegistryInv, SessionsInv
  <1>4. CASE Dispatch(q)
    <2>1. active # NoSession =>
            [request[q] EXCEPT !.phase = "chosen", !.session = active] \in RequestRecords
      BY <1>1, RequestEdits DEF RegistryInv
    <2>2. RequestsInv'
      BY <1>2, <1>4, <2>1 DEF Dispatch, RequestsInv
    <2> QED
      BY <1>4, <2>2 DEF Dispatch, RowInv, RegistryInv, SessionsInv
  <1>5. CASE TrySend(q)
    <2> DEFINE s == request[q].session
               w == Append(session[s].queue, q)
    <2>1. [request[q] EXCEPT !.phase = "waiting"] \in RequestRecords
      BY <1>1, RequestEdits
    <2>2. RequestsInv'
      BY <1>2, <1>5, <2>1 DEF TrySend, RequestsInv
    <2>3. SessionsInv'
      <3>1. CASE s \notin Sessions
        BY <1>5, <3>1 DEF TrySend, SessionsInv, Told
      <3>2. CASE s \in Sessions /\ session' = [session EXCEPT ![s].queue = Append(@, q)]
                                /\ ~(Len(session[s].queue) >= QueueCapacity)
        <4>1. w \in Seq(Requests) /\ Len(w) <= QueueCapacity
          BY <3>2, Fields, GatewayAssumption DEF SessionsInv
        <4>2. session' = [session EXCEPT ![s].queue = w]
          BY <3>2 DEF SessionsInv
        <4> HIDE DEF w
        <4>3. [session[s] EXCEPT !.queue = w] \in GoodSessions
          <5>1. session[s] \in GoodSessions
            BY <3>2 DEF SessionsInv
          <5>2. /\ session[s].pending \in SUBSET Requests
                /\ IsFiniteSet(session[s].pending)
                /\ Cardinality(session[s].pending) <= MaxPending
            BY <5>1, Fields
          <5> QED
            BY <4>1, <5>1, <5>2, QueueEdits
        <4> QED
          BY <3>2, <4>2, <4>3 DEF SessionsInv
      <3>3. CASE s \in Sessions /\ session' = Told(session, s)
        <4>1. [session[s] EXCEPT !.told = TRUE] \in GoodSessions
          BY <3>3, SessionEdits DEF SessionsInv
        <4> QED
          BY <3>3, <4>1 DEF SessionsInv, Told
      <3> QED
        BY <1>5, <3>1, <3>2, <3>3 DEF TrySend, SessionsInv
    <2> QED
      BY <1>5, <2>2, <2>3 DEF TrySend, RowInv, RegistryInv
  <1>6. CASE Expire(q)
    <2>1. [request[q] EXCEPT !.expired = TRUE] \in RequestRecords
      BY <1>1, RequestEdits
    <2>2. RequestsInv'
      BY <1>6, <2>1 DEF Expire, RequestsInv
    <2> QED
      BY <1>6, <2>2 DEF Expire, RowInv, RegistryInv, SessionsInv
  <1>7. CASE TimeOut(q) \/ Deliver(q)
    <2>1. RequestsInv'
      BY <1>2, <1>7 DEF TimeOut, Deliver
    <2> QED
      BY <1>7, <2>1 DEF TimeOut, Deliver, RowInv, RegistryInv, SessionsInv
  <1> QED
    BY <1>3, <1>4, <1>5, <1>6, <1>7 DEF CallerStep

(* Every operation on the row leaves a row, and counts itself.             *)
LEMMA RowStep ==
    ASSUME RowInv, RotatePreservingScopes \/ RotateReplacingScopes \/ Enable \/ Disable \/ Revoke
    PROVE  RowInv'
  <1>1. /\ row \in Rows /\ row.secret \in Nat /\ changes' = changes + 1
        /\ changes \in Nat /\ changes' \in 0..MaxChanges
    <2>1. Counted
      BY DEF RotatePreservingScopes, RotateReplacingScopes, Enable, Disable, Revoke
    <2>2. row \in Rows /\ row.secret \in Nat
      BY DEF RowInv, Rows
    <2> QED
      BY <2>1, <2>2, DevicesAssumption DEF RowInv, Counted
  <1> DEFINE n == row.secret + 1
  <1>2. n \in 0..MaxChanges /\ n <= changes'
    BY <1>1, DevicesAssumption DEF RowInv
  <1>3. CASE RotatePreservingScopes \/ RotateReplacingScopes
    <2>1. \/ row' = [row EXCEPT !.secret = n]
          \/ \E scopes \in ScopeSets : row' = [row EXCEPT !.secret = n, !.scopes = scopes]
      BY <1>1, <1>3 DEF RotatePreservingScopes, RotateReplacingScopes, Rows
    <2> HIDE DEF n
    <2>2. row' \in Rows /\ row'.secret = n
      BY <1>1, <1>2, <2>1 DEF Rows
    <2> QED
      BY <1>1, <1>2, <2>2 DEF RowInv
  <1>4. CASE Enable \/ Disable \/ Revoke
    <2>1. row' \in Rows /\ row'.secret = row.secret
      BY <1>1, <1>4 DEF Enable, Disable, Revoke, Rows
    <2> QED
      BY <1>1, <2>1 DEF RowInv
  <1> QED
    BY <1>3, <1>4

(* The steps of the administration and the command line keep the types.    *)
LEMMA AdminType ==
    ASSUME TypeInv, AdminStep
    PROVE  TypeInv'
  <1> USE DEF TypeInv
  <1>1. \/ RotatePreservingScopes \/ RotateReplacingScopes \/ Enable \/ Disable \/ Revoke
        => RowInv'
    BY RowStep DEF RowInv
  <1>2. CASE AdminChange
    BY <1>1, <1>2 DEF AdminChange, RegistryInv, SessionsInv, RequestsInv
  <1>3. CASE AdminEnable
    BY <1>1, <1>3 DEF AdminEnable, gatewayVars, RegistryInv, SessionsInv, RequestsInv
  <1>4. CASE InvalidateDevice
    BY <1>4 DEF InvalidateDevice, RowInv, RegistryInv, SessionsInv, RequestsInv
  <1>5. CASE TellRemoved
    <2>1. \A t \in Sessions : [session[t] EXCEPT !.told = TRUE] \in GoodSessions
      BY SessionEdits DEF SessionsInv
    <2>2. SessionsInv'
      BY <1>5, <2>1 DEF TellRemoved, Told, SessionsInv
    <2> QED
      BY <1>5, <2>2 DEF TellRemoved, RowInv, RegistryInv, RequestsInv
  <1>6. CASE CommandLine
    BY <1>1, <1>6 DEF CommandLine, RegistryInv, SessionsInv, RequestsInv
  <1> QED
    BY <1>2, <1>3, <1>4, <1>5, <1>6 DEF AdminStep

(* Every step keeps the types.                                             *)
LEMMA TypeStep == TypeInv /\ [Next]_vars => TypeInv'
  <1> SUFFICES ASSUME TypeInv, [Next]_vars PROVE TypeInv'
    OBVIOUS
  <1>1. CASE UNCHANGED vars
    BY <1>1 DEF vars, TypeInv, RowInv, RegistryInv, SessionsInv, RequestsInv
  <1>2. ASSUME NEW s \in Sessions, SessionStep(s)
        PROVE  TypeInv'
    BY <1>2, HandshakeType, LoopType DEF SessionStep
  <1> QED
    BY <1>1, <1>2, CallerType, AdminType DEF Next

-----------------------------------------------------------------------------
(* What the steps leave alone.                                             *)

(* The fields of a session that the registry and the handshake are about;  *)
(* a session once told stays told.                                         *)
Untouched(t) ==
    /\ session'[t].phase = session[t].phase
    /\ session'[t].revision = session[t].revision
    /\ session'[t].fence = session[t].fence
    /\ session'[t].outside = session[t].outside
    /\ session'[t].victim = session[t].victim
    /\ session[t].told => session'[t].told

(* A step of the loop that goes on, or of a caller, touches no session and *)
(* neither the row nor the registry.                                       *)
LEMMA QuietSteps ==
    ASSUME TypeInv,
           \/ \E s \in Sessions :
                 \/ HandleCommand(s) \/ ExpirePending(s)
                 \/ \E q \in Requests : RequestAck(s, q) \/ RequestRefused(s, q) \/ Response(s, q)
           \/ \E q \in Requests : CallerStep(q)
    PROVE  /\ UNCHANGED <<row, active, invalidation, admin, outside>>
           /\ \A t \in Sessions : Untouched(t)
  <1>1. \A t \in Sessions : session[t] \in SessionRecords
    BY Fields DEF TypeInv, SessionsInv
  <1>2. DOMAIN session = Sessions
    BY DEF TypeInv, SessionsInv
  <1> USE <1>1, <1>2 DEF SessionRecords, Untouched
  <1>3. ASSUME NEW s \in Sessions, HandleCommand(s)
        PROVE  UNCHANGED <<row, active, invalidation, admin, outside>>
               /\ \A t \in Sessions : Untouched(t)
    BY <1>3 DEF HandleCommand
  <1>4. ASSUME NEW s \in Sessions, ExpirePending(s)
        PROVE  UNCHANGED <<row, active, invalidation, admin, outside>>
               /\ \A t \in Sessions : Untouched(t)
    BY <1>4 DEF ExpirePending
  <1>5. ASSUME NEW s \in Sessions, NEW q \in Requests,
               RequestAck(s, q) \/ RequestRefused(s, q) \/ Response(s, q)
        PROVE  UNCHANGED <<row, active, invalidation, admin, outside>>
               /\ \A t \in Sessions : Untouched(t)
    <2>1. CASE RequestAck(s, q)
      BY <2>1 DEF RequestAck
    <2>2. CASE RequestRefused(s, q)
      BY <2>2 DEF RequestRefused, Drop
    <2>3. CASE Response(s, q)
      BY <2>3 DEF Response, Drop
    <2> QED
      BY <1>5, <2>1, <2>2, <2>3
  <1>6. ASSUME NEW q \in Requests, CallerStep(q)
        PROVE  UNCHANGED <<row, active, invalidation, admin, outside>>
               /\ \A t \in Sessions : Untouched(t)
    <2>1. CASE TrySend(q)
      BY <2>1 DEF TrySend, Told
    <2>2. CASE ~TrySend(q)
      BY <1>6, <2>2 DEF CallerStep, Authorise, Dispatch, Expire, TimeOut, Deliver
    <2> QED
      BY <2>1, <2>2
  <1> QED
    BY <1>3, <1>4, <1>5, <1>6

(* A session that leaves its loop is closing, and otherwise as it was.     *)
LEMMA LeaveFrame ==
    ASSUME TypeInv, NEW s \in Sessions, StopTold(s) \/ Disconnect(s) \/ Revalidate(s)
    PROVE  /\ UNCHANGED <<row, active, invalidation, admin, outside>>
           /\ session[s].phase = "loop"
           /\ \A t \in Sessions \ {s} : Untouched(t)
           /\ session'[s].phase = "closing"
           /\ session'[s].revision = session[s].revision
           /\ session'[s].fence = session[s].fence
           /\ session'[s].outside = session[s].outside
           /\ session'[s].victim = session[s].victim
  <1>1. \A t \in Sessions : session[t] \in SessionRecords
    BY Fields DEF TypeInv, SessionsInv
  <1>2. DOMAIN session = Sessions
    BY DEF TypeInv, SessionsInv
  <1>3. Leave(s) /\ session[s].phase = "loop" /\ UNCHANGED <<row, active, invalidation, admin, outside>>
    BY DEF StopTold, Disconnect, Revalidate, Looping
  <1> QED
    BY <1>1, <1>2, <1>3 DEF Leave, SessionRecords, Untouched

(* A session that ends keeps its revision and nothing else.                *)
LEMMA EndedFrame ==
    ASSUME TypeInv, NEW s \in Sessions, session' = Ended(s)
    PROVE  /\ \A t \in Sessions \ {s} : Untouched(t)
           /\ session'[s].phase = "ended"
           /\ session'[s].revision = session[s].revision
           /\ session'[s].fence = 0
           /\ session'[s].outside = 0
           /\ session'[s].victim = NoSession
  <1>1. \A t \in Sessions : session[t] \in SessionRecords
    BY Fields DEF TypeInv, SessionsInv
  <1>2. DOMAIN session = Sessions
    BY DEF TypeInv, SessionsInv
  <1> QED
    BY <1>1, <1>2 DEF Ended, NewSession, SessionRecords, Untouched

(* The steps of the handshake, field by field.                             *)
(* A session learns the revision it was authenticated under.               *)
LEMMA AuthenticateFrame ==
    ASSUME TypeInv, NEW s \in Sessions, Authenticate(s)
    PROVE  /\ \A t \in Sessions \ {s} : Untouched(t)
           /\ session'[s].phase = "authenticated" /\ session'[s].revision = Revision
           /\ session'[s].fence = session[s].fence
           /\ session'[s].outside = session[s].outside
           /\ session'[s].victim = session[s].victim
  <1>1. \A t \in Sessions : session[t] \in SessionRecords
    BY Fields DEF TypeInv, SessionsInv
  <1>2. DOMAIN session = Sessions
    BY DEF TypeInv, SessionsInv
  <1> QED
    BY <1>1, <1>2 DEF Authenticate, SessionRecords, Untouched

(* It reads the invalidation generation.                                   *)
LEMMA FenceFrame ==
    ASSUME TypeInv, NEW s \in Sessions, ReadFence(s)
    PROVE  /\ \A t \in Sessions \ {s} : Untouched(t)
           /\ session'[s].phase = "fenced" /\ session'[s].fence = invalidation
           /\ session'[s].revision = session[s].revision
           /\ session'[s].outside = session[s].outside
           /\ session'[s].victim = session[s].victim
  <1>1. \A t \in Sessions : session[t] \in SessionRecords
    BY Fields DEF TypeInv, SessionsInv
  <1>2. DOMAIN session = Sessions
    BY DEF TypeInv, SessionsInv
  <1> QED
    BY <1>1, <1>2 DEF ReadFence, SessionRecords, Untouched

(* The two assignments of InitialLease and Register that do not end the    *)
(* session.                                                                *)
TakesLease(s) ==
    session' = [session EXCEPT ![s].phase = "leased", ![s].outside = outside]

Registers(s) ==
    session' = [session EXCEPT ![s].phase = "registered", ![s].victim = active, ![s].fence = 0]

(* It takes the lease.                                                     *)
LEMMA LeaseFrame ==
    ASSUME TypeInv, NEW s \in Sessions, TakesLease(s)
    PROVE  /\ \A t \in Sessions \ {s} : Untouched(t)
           /\ session'[s].phase = "leased" /\ session'[s].outside = outside
           /\ session'[s].revision = session[s].revision
           /\ session'[s].fence = session[s].fence
           /\ session'[s].victim = session[s].victim
  <1>1. \A t \in Sessions : session[t] \in SessionRecords
    BY Fields DEF TypeInv, SessionsInv
  <1>2. DOMAIN session = Sessions
    BY DEF TypeInv, SessionsInv
  <1> QED
    BY <1>1, <1>2 DEF TakesLease, SessionRecords, Untouched

(* It registers, and names the session it replaces.                        *)
LEMMA RegisterFrame ==
    ASSUME TypeInv, NEW s \in Sessions, Registers(s)
    PROVE  /\ \A t \in Sessions \ {s} : Untouched(t)
           /\ session'[s].phase = "registered" /\ session'[s].victim = active
           /\ session'[s].fence = 0
           /\ session'[s].revision = session[s].revision
           /\ session'[s].outside = session[s].outside
  <1>1. \A t \in Sessions : session[t] \in SessionRecords
    BY Fields DEF TypeInv, SessionsInv
  <1>2. DOMAIN session = Sessions
    BY DEF TypeInv, SessionsInv
  <1> QED
    BY <1>1, <1>2 DEF Registers, SessionRecords, Untouched

(* It tells that session, and enters the loop.                             *)
LEMMA WelcomeFrame ==
    ASSUME TypeInv, NEW s \in Sessions, Welcome(s)
    PROVE  /\ \A t \in Sessions \ {s} : Untouched(t)
           /\ session[s].victim \in Sessions \ {s} => session'[session[s].victim].told
           /\ session'[s].phase = "loop" /\ session'[s].victim = NoSession
           /\ session'[s].told = session[s].told
           /\ session'[s].fence = session[s].fence
           /\ session'[s].revision = session[s].revision
           /\ session'[s].outside = session[s].outside
  <1>1. \A t \in Sessions : session[t] \in SessionRecords
    BY Fields DEF TypeInv, SessionsInv
  <1>2. DOMAIN session = Sessions
    BY DEF TypeInv, SessionsInv
  <1> QED
    BY <1>1, <1>2 DEF Welcome, SessionRecords, Untouched

(* Telling a session to end changes nothing else.                          *)
LEMMA ToldFrame ==
    ASSUME TypeInv, TellRemoved
    PROVE  /\ \A t \in Sessions : Untouched(t)
           /\ admin.victim \in Sessions => session'[admin.victim].told
  <1>1. \A t \in Sessions : session[t] \in SessionRecords
    BY Fields DEF TypeInv, SessionsInv
  <1>2. DOMAIN session = Sessions
    BY DEF TypeInv, SessionsInv
  <1> QED
    BY <1>1, <1>2 DEF TellRemoved, Told, SessionRecords, Untouched

-----------------------------------------------------------------------------
(* The invariants behind the properties, action by action.                 *)

(* Who is registered, and who is about to be told.                         *)
LEMMA LiveStep ==
    ASSUME TypeInv, LiveInv, [Next]_vars
    PROVE  LiveInv'
  <1> USE DEF LiveInv, LiveIsRegistered
  <1>0. /\ active \in Sessions \cup {NoSession} /\ NoSession \notin Sessions
        /\ admin.victim \in Sessions \cup {NoSession}
        /\ \A t \in Sessions : session[t].victim \in Sessions \cup {NoSession}
    BY Fields, GatewayAssumption DEF TypeInv, RegistryInv, SessionsInv
  <1>1. ASSUME UNCHANGED <<active, admin>>, \A t \in Sessions : Untouched(t)
        PROVE  LiveInv'
    BY <1>1 DEF Untouched
  <1>2. ASSUME NEW s \in Sessions, Authenticate(s)
        PROVE  LiveInv'
    <2>1. session[s].phase = "new" /\ UNCHANGED <<active, admin>>
      BY <1>2 DEF Authenticate
    <2> QED
      BY <1>2, <2>1, AuthenticateFrame DEF Untouched
  <1>3. ASSUME NEW s \in Sessions, ReadFence(s)
        PROVE  LiveInv'
    <2>1. session[s].phase = "authenticated" /\ UNCHANGED <<active, admin>>
      BY <1>3 DEF ReadFence
    <2> QED
      BY <1>3, <2>1, FenceFrame DEF Untouched
  <1>4. ASSUME NEW s \in Sessions, session' = Ended(s), UNCHANGED <<active, admin>>,
               session[s].phase \in {"fenced", "leased"}
        PROVE  LiveInv'
    BY <1>0, <1>4, EndedFrame DEF Untouched
  <1>5. ASSUME NEW s \in Sessions, InitialLease(s)
        PROVE  LiveInv'
    <2>1. session[s].phase = "fenced" /\ UNCHANGED <<active, admin>>
      BY <1>5 DEF InitialLease
    <2>2. CASE TakesLease(s)
      BY <2>1, <2>2, LeaseFrame DEF Untouched
    <2> QED
      BY <1>4, <1>5, <2>1, <2>2 DEF InitialLease, TakesLease
  <1>6. ASSUME NEW s \in Sessions, NoHello(s)
        PROVE  LiveInv'
    BY <1>4, <1>6 DEF NoHello
  <1>7. ASSUME NEW s \in Sessions, Register(s)
        PROVE  LiveInv'
    <2>1. session[s].phase = "leased" /\ UNCHANGED admin
      BY <1>7 DEF Register
    <2>2. CASE /\ Registers(s)
               /\ active' = s
      BY <1>0, <2>1, <2>2, RegisterFrame DEF Untouched
    <2>3. CASE session' = Ended(s) /\ UNCHANGED active
      BY <1>4, <2>1, <2>3
    <2> QED
      BY <1>7, <2>2, <2>3 DEF Register, Registers
  <1>8. ASSUME NEW s \in Sessions, Welcome(s)
        PROVE  LiveInv'
    <2>1. session[s].phase = "registered" /\ UNCHANGED <<active, admin>>
      BY <1>8 DEF Welcome
    <2> QED
      BY <1>0, <1>8, <2>1, WelcomeFrame DEF Untouched
  <1>9. ASSUME NEW s \in Sessions, Cleanup(s)
        PROVE  LiveInv'
    <2>1. /\ session[s].phase = "closing" /\ session' = Ended(s) /\ UNCHANGED admin
          /\ active' = IF active = s THEN NoSession ELSE active
      BY <1>9 DEF Cleanup
    <2> QED
      BY <1>0, <2>1, EndedFrame DEF Untouched
  <1>10. ASSUME NEW s \in Sessions, StopTold(s) \/ Disconnect(s) \/ Revalidate(s)
         PROVE  LiveInv'
    BY <1>0, <1>10, LeaveFrame DEF Untouched
  <1>11. ASSUME \/ \E s \in Sessions :
                      \/ HandleCommand(s) \/ ExpirePending(s)
                      \/ \E q \in Requests : RequestAck(s, q) \/ RequestRefused(s, q) \/ Response(s, q)
                \/ \E q \in Requests : CallerStep(q)
         PROVE  LiveInv'
    BY <1>1, <1>11, QuietSteps
  <1>12. CASE AdminChange \/ AdminEnable \/ CommandLine
    <2>1. UNCHANGED <<active, session>> /\ admin'.victim = admin.victim
          /\ (admin'.stage = "removed" <=> admin.stage = "removed")
      BY <1>12 DEF AdminChange, AdminEnable, CommandLine, gatewayVars, TypeInv, RegistryInv
    <2> QED
      BY <2>1
  <1>13. CASE InvalidateDevice
    <2>1. /\ UNCHANGED session /\ admin.stage = "committed" /\ active' = NoSession
          /\ admin'.victim = active
          /\ admin'.stage = "removed" <=> active # NoSession
      BY <1>13 DEF InvalidateDevice, TypeInv, RegistryInv
    <2> QED
      BY <1>0, <2>1
  <1>14. CASE TellRemoved
    <2>1. /\ admin.stage = "removed" /\ UNCHANGED active
          /\ admin' = [stage |-> "idle", victim |-> NoSession]
      BY <1>14 DEF TellRemoved
    <2> QED
      BY <1>0, <1>14, <2>1, ToldFrame DEF Untouched
  <1>15. CASE UNCHANGED vars
    BY <1>15 DEF vars
  <1> QED
    BY <1>2, <1>3, <1>5, <1>6, <1>7, <1>8, <1>9, <1>10, <1>11, <1>12, <1>13, <1>14, <1>15
       DEF Next, SessionStep, AdminStep

(* What the holder of a lease may conclude from its fence.                 *)
LEMMA LeaseStep ==
    ASSUME TypeInv, LiveInv, LeaseInv, [Next]_vars
    PROVE  LeaseInv'
  <1> USE DEF LeaseInv, RegisteredIsAuthorised
  <1>0. /\ active \in Sessions \cup {NoSession} /\ NoSession \notin Sessions
        /\ invalidation \in Nat /\ outside \in Nat
        /\ \A t \in Sessions : /\ session[t].fence \in Nat /\ session[t].outside \in Nat
                               /\ active = t => session[t].phase \in {"registered", "loop", "closing"}
    BY Fields, GatewayAssumption DEF TypeInv, RegistryInv, SessionsInv, LiveInv, LiveIsRegistered
  <1>1. ASSUME UNCHANGED <<row, active, invalidation, admin, outside>>,
               \A t \in Sessions : Untouched(t)
        PROVE  LeaseInv'
    BY <1>1 DEF Untouched, Active, Revision
  <1>2. ASSUME NEW s \in Sessions, Authenticate(s)
        PROVE  LeaseInv'
    <2>1. session[s].phase = "new" /\ UNCHANGED <<row, active, invalidation, admin, outside>>
      BY <1>2 DEF Authenticate
    <2> QED
      BY <1>0, <1>2, <2>1, AuthenticateFrame DEF Untouched, Active, Revision
  <1>3. ASSUME NEW s \in Sessions, ReadFence(s)
        PROVE  LeaseInv'
    <2>1. session[s].phase = "authenticated" /\ UNCHANGED <<row, active, invalidation, admin, outside>>
      BY <1>3 DEF ReadFence
    <2> QED
      BY <1>0, <1>3, <2>1, FenceFrame DEF Untouched, Active, Revision
  <1>4. ASSUME NEW s \in Sessions, session' = Ended(s),
               UNCHANGED <<row, invalidation, admin, outside>>,
               active' = active \/ active' = NoSession, active' # s
        PROVE  LeaseInv'
    BY <1>0, <1>4, EndedFrame DEF Untouched, Active, Revision
  <1>5. ASSUME NEW s \in Sessions, InitialLease(s)
        PROVE  LeaseInv'
    <2>1. session[s].phase = "fenced" /\ UNCHANGED <<row, active, invalidation, admin, outside>>
      BY <1>5 DEF InitialLease
    <2>2. CASE /\ Active /\ Revision = session[s].revision
               /\ TakesLease(s)
      BY <1>0, <2>1, <2>2, LeaseFrame DEF Untouched, Active, Revision
    <2> QED
      BY <1>0, <1>4, <1>5, <2>1, <2>2 DEF InitialLease, PolicyHolds, TakesLease
  <1>6. ASSUME NEW s \in Sessions, NoHello(s)
        PROVE  LeaseInv'
    BY <1>0, <1>4, <1>6 DEF NoHello
  <1>7. ASSUME NEW s \in Sessions, Register(s)
        PROVE  LeaseInv'
    <2>1. session[s].phase = "leased" /\ UNCHANGED <<row, invalidation, admin, outside>>
      BY <1>7 DEF Register
    <2>2. CASE /\ session[s].fence = invalidation
               /\ Registers(s)
               /\ active' = s
      BY <1>0, <2>1, <2>2, RegisterFrame DEF Untouched, Active, Revision
    <2>3. CASE session' = Ended(s) /\ UNCHANGED active
      BY <1>0, <1>4, <2>1, <2>3
    <2> QED
      BY <1>7, <2>2, <2>3 DEF Register, Registers
  <1>8. ASSUME NEW s \in Sessions, Welcome(s)
        PROVE  LeaseInv'
    <2>1. UNCHANGED <<row, active, invalidation, admin, outside>>
      BY <1>8 DEF Welcome
    <2> QED
      BY <1>0, <1>8, <2>1, WelcomeFrame DEF Untouched, Active, Revision
  <1>9. ASSUME NEW s \in Sessions, Cleanup(s)
        PROVE  LeaseInv'
    BY <1>0, <1>4, <1>9 DEF Cleanup
  <1>10. ASSUME NEW s \in Sessions, StopTold(s) \/ Disconnect(s) \/ Revalidate(s)
         PROVE  LeaseInv'
    BY <1>0, <1>10, LeaveFrame DEF Untouched, Active, Revision
  <1>11. ASSUME \/ \E s \in Sessions :
                      \/ HandleCommand(s) \/ ExpirePending(s)
                      \/ \E q \in Requests : RequestAck(s, q) \/ RequestRefused(s, q) \/ Response(s, q)
                \/ \E q \in Requests : CallerStep(q)
         PROVE  LeaseInv'
    BY <1>1, <1>11, QuietSteps
  <1>12. CASE AdminChange
    <2>1. UNCHANGED <<active, invalidation, session, outside>> /\ admin'.stage = "committed"
      BY <1>12 DEF AdminChange, TypeInv, RegistryInv
    <2> QED
      BY <1>0, <2>1
  <1>13. CASE AdminEnable
    <2>1. UNCHANGED <<active, invalidation, session, outside, admin>>
      BY <1>13 DEF AdminEnable, gatewayVars
    <2>2. Active => Active'
      BY <1>13 DEF AdminEnable, Enable, Active, TypeInv, RowInv, Rows
    <2>3. Revision' = Revision
      BY <1>13 DEF AdminEnable, Enable, Revision, TypeInv, RowInv, Rows
    <2> QED
      BY <1>0, <2>1, <2>2, <2>3
  <1>14. CASE InvalidateDevice
    <2>1. /\ UNCHANGED <<row, session, outside>> /\ active' = NoSession
          /\ invalidation' = invalidation + 1
      BY <1>14 DEF InvalidateDevice
    <2> QED
      BY <1>0, <2>1
  <1>15. CASE TellRemoved
    <2>1. /\ UNCHANGED <<row, active, invalidation, outside>>
          /\ admin.stage # "committed" /\ admin'.stage # "committed"
      BY <1>15 DEF TellRemoved
    <2> QED
      BY <1>0, <1>15, <2>1, ToldFrame DEF Untouched, Active, Revision
  <1>16. CASE CommandLine
    <2>1. UNCHANGED <<active, invalidation, session, admin>> /\ outside' = outside + 1
      BY <1>16 DEF CommandLine
    <2> QED
      BY <1>0, <2>1
  <1>17. CASE UNCHANGED vars
    BY <1>17 DEF vars, Active, Revision
  <1> QED
    BY <1>2, <1>3, <1>5, <1>6, <1>7, <1>8, <1>9, <1>10, <1>11, <1>12, <1>13, <1>14, <1>15,
       <1>16, <1>17 DEF Next, SessionStep, AdminStep

(* No step gives a session that is no longer new another revision.         *)
LEMMA RevisionKept ==
    ASSUME TypeInv, [Next]_vars, NEW t \in Sessions, session[t].phase # "new"
    PROVE  session'[t].phase # "new" /\ session'[t].revision = session[t].revision
  <1> DEFINE Kept == session'[t].phase # "new" /\ session'[t].revision = session[t].revision
  <1>1. ASSUME NEW s \in Sessions, Authenticate(s) PROVE Kept
    BY <1>1, AuthenticateFrame DEF Untouched, Authenticate
  <1>2. ASSUME NEW s \in Sessions, ReadFence(s) PROVE Kept
    BY <1>2, FenceFrame DEF Untouched
  <1>3. ASSUME NEW s \in Sessions, session' = Ended(s) PROVE Kept
    BY <1>3, EndedFrame DEF Untouched
  <1>4. ASSUME NEW s \in Sessions, InitialLease(s) \/ NoHello(s) \/ Cleanup(s) PROVE Kept
    <2>1. CASE TakesLease(s)
      BY <2>1, LeaseFrame DEF Untouched
    <2> QED
      BY <1>3, <1>4, <2>1 DEF InitialLease, NoHello, Cleanup, TakesLease
  <1>5. ASSUME NEW s \in Sessions, Register(s) PROVE Kept
    <2>1. CASE Registers(s)
      BY <2>1, RegisterFrame DEF Untouched
    <2> QED
      BY <1>3, <1>5, <2>1 DEF Register, Registers
  <1>6. ASSUME NEW s \in Sessions, Welcome(s) PROVE Kept
    BY <1>6, WelcomeFrame DEF Untouched
  <1>7. ASSUME NEW s \in Sessions, StopTold(s) \/ Disconnect(s) \/ Revalidate(s) PROVE Kept
    BY <1>7, LeaveFrame DEF Untouched
  <1>8. ASSUME \/ \E s \in Sessions :
                      \/ HandleCommand(s) \/ ExpirePending(s)
                      \/ \E q \in Requests : RequestAck(s, q) \/ RequestRefused(s, q) \/ Response(s, q)
               \/ \E q \in Requests : CallerStep(q)
        PROVE  Kept
    BY <1>8, QuietSteps DEF Untouched
  <1>9. CASE TellRemoved
    BY <1>9, ToldFrame DEF Untouched
  <1>10. CASE AdminChange \/ AdminEnable \/ InvalidateDevice \/ CommandLine \/ UNCHANGED vars
    BY <1>10 DEF AdminChange, AdminEnable, InvalidateDevice, CommandLine, gatewayVars, vars
  <1> QED
    BY <1>1, <1>2, <1>4, <1>5, <1>6, <1>7, <1>8, <1>9, <1>10 DEF Next, SessionStep, AdminStep

InFlight == {"chosen", "waiting", "replied"}

(* What a step may do to a caller: leave it as it is but for a reply; pick *)
(* the registered session for it; hand it an answer; or fail it.           *)
CallerMoves(q) ==
    \/ /\ request'[q].phase \in InFlight => request[q].phase \in InFlight
       /\ request'[q].session = request[q].session
       /\ request'[q].revision = request[q].revision
       /\ request'[q].result = request[q].result
    \/ /\ active # NoSession /\ session[active].revision = request[q].revision
       /\ request'[q].session = active
       /\ request'[q].revision = request[q].revision
       /\ request'[q].result = request[q].result
    \/ /\ request[q].phase = "replied" /\ Authorises("run", request[q].revision)
       /\ request'[q].phase = "ended"
    \/ /\ request'[q].phase = "ended" /\ request'[q].result = "error"
    \/ /\ request'[q].phase = "authorised" /\ request'[q].result = request[q].result

(* Ending one caller's wait leaves the others alone.                       *)
LEMMA EndsFrame ==
    ASSUME TypeInv, NEW q \in Requests, NEW p \in Requests, NEW y, Ends(p, y)
    PROVE  IF p = q THEN request'[q].phase = "ended" /\ request'[q].result = y
                    ELSE request'[q] = request[q]
  BY DEF TypeInv, RequestsInv, Ends, NewRequest

(* A reply moves a waiting caller only.                                    *)
LEMMA RepliedFrame ==
    ASSUME TypeInv, NEW q \in Requests, NEW qs, NEW y, request' = Replied(request, qs, y)
    PROVE  CallerMoves(q)
  <1>1. request[q] \in RequestRecords
    BY DEF TypeInv, RequestsInv
  <1>2. \/ request'[q] = request[q]
        \/ /\ request[q].phase = "waiting"
           /\ request'[q] = [request[q] EXCEPT !.phase = "replied", !.reply = y, !.expired = FALSE]
    BY DEF Replied
  <1> QED
    BY <1>1, <1>2 DEF CallerMoves, InFlight, RequestRecords

(* Every step moves every caller in one of these ways.                     *)
LEMMA CallerFrame ==
    ASSUME TypeInv, [Next]_vars, NEW q \in Requests
    PROVE  CallerMoves(q)
  <1>0. ASSUME request'[q] = request[q] PROVE CallerMoves(q)
    BY <1>0 DEF CallerMoves
  <1>1. \A p \in Requests : request[p] \in RequestRecords
    BY DEF TypeInv, RequestsInv
  <1>2. ASSUME NEW s \in Sessions, SessionStep(s)
        PROVE  CallerMoves(q)
    <2>1. \/ request' = request
          \/ \E qs, y : request' = Replied(request, qs, y)
      <3>1. CASE StopTold(s) \/ Disconnect(s) \/ Revalidate(s)
        BY <3>1 DEF StopTold, Disconnect, Revalidate, Leave
      <3>2. CASE HandleCommand(s) \/ ExpirePending(s)
        BY <3>2 DEF HandleCommand, ExpirePending
      <3>3. CASE \E p \in Requests : RequestAck(s, p) \/ RequestRefused(s, p) \/ Response(s, p)
        BY <3>3 DEF RequestAck, RequestRefused, Response
      <3>4. CASE \/ Authenticate(s) \/ ReadFence(s) \/ InitialLease(s) \/ NoHello(s)
                 \/ Register(s) \/ Welcome(s) \/ Cleanup(s)
        BY <3>4 DEF Authenticate, ReadFence, InitialLease, NoHello, Register, Welcome, Cleanup
      <3> QED
        BY <1>2, <3>1, <3>2, <3>3, <3>4 DEF SessionStep
    <2> QED
      BY <1>0, <2>1, RepliedFrame
  <1>3. ASSUME NEW p \in Requests, CallerStep(p)
        PROVE  CallerMoves(q)
    <2>1. CASE p # q
      <3>1. request'[q] = request[q]
        BY <1>3, <2>1, EndsFrame DEF CallerStep, Authorise, Dispatch, TrySend, Expire, TimeOut,
           Deliver, TypeInv, RequestsInv
      <3> QED
        BY <1>0, <3>1
    <2>2. CASE p = q
      <3>1. CASE Ends(q, "error")
        BY <3>1, EndsFrame DEF CallerMoves
      <3>2. CASE Authorise(q)
        BY <1>1, <3>1, <3>2 DEF Authorise, TypeInv, RequestsInv, RequestRecords, CallerMoves
      <3>3. CASE Dispatch(q)
        BY <1>1, <3>1, <3>3 DEF Dispatch, TypeInv, RequestsInv, RequestRecords, CallerMoves
      <3>4. CASE TrySend(q)
        <4>1. \/ request' = [request EXCEPT ![q].phase = "waiting"] /\ request[q].phase = "chosen"
              \/ Ends(q, "error")
          BY <3>4 DEF TrySend
        <4> QED
          BY <1>1, <3>1, <4>1 DEF TypeInv, RequestsInv, RequestRecords, CallerMoves, InFlight
      <3>5. CASE Expire(q)
        BY <1>1, <3>5 DEF Expire, TypeInv, RequestsInv, RequestRecords, CallerMoves
      <3>6. CASE TimeOut(q)
        BY <3>1, <3>6 DEF TimeOut
      <3>7. CASE Deliver(q)
        BY <3>1, <3>7, EndsFrame DEF Deliver, CallerMoves
      <3> QED
        BY <1>3, <2>2, <3>2, <3>3, <3>4, <3>5, <3>6, <3>7 DEF CallerStep
    <2> QED
      BY <2>1, <2>2
  <1>4. CASE AdminStep \/ UNCHANGED vars
    BY <1>0, <1>4 DEF AdminStep, AdminChange, AdminEnable, InvalidateDevice, TellRemoved,
       CommandLine, gatewayVars, vars
  <1> QED
    BY <1>2, <1>3, <1>4 DEF Next

(* Which session a request in flight belongs to.                           *)
LEMMA FlightStep ==
    ASSUME TypeInv, LiveInv, FlightInv, [Next]_vars
    PROVE  FlightInv'
  <1> SUFFICES ASSUME NEW q \in Requests, request'[q].phase \in InFlight
               PROVE  /\ request'[q].session \in Sessions
                      /\ session'[request'[q].session].phase # "new"
                      /\ session'[request'[q].session].revision = request'[q].revision
    BY DEF FlightInv, InFlight
  <1>1. PICK t \in Sessions : /\ request'[q].session = t
                              /\ session[t].phase # "new"
                              /\ session[t].revision = request'[q].revision
    <2>1. \A t \in Sessions : active = t => session[t].phase # "new"
      BY DEF LiveInv, LiveIsRegistered
    <2>2. active # NoSession => active \in Sessions
      BY DEF TypeInv, RegistryInv
    <2> QED
      BY <2>1, <2>2, CallerFrame DEF CallerMoves, FlightInv, InFlight
  <1>2. session'[t].phase # "new" /\ session'[t].revision = session[t].revision
    BY <1>1, RevisionKept
  <1> QED
    BY <1>1, <1>2

-----------------------------------------------------------------------------
(* The theorems.                                                           *)

(* The inductive invariant holds initially ...                             *)
LEMMA InvInit == Init => Inv
  <1> SUFFICES ASSUME Init PROVE Inv
    OBVIOUS
  <1>1. TypeInv
    BY TypeInit
  <1>2. /\ \A s \in Sessions : session[s] = NewSession
        /\ active = NoSession /\ invalidation = 0 /\ outside = 0
        /\ admin = [stage |-> "idle", victim |-> NoSession]
        /\ \A q \in Requests : request[q] = NewRequest
    BY DEF Init
  <1>3. /\ NewSession.phase = "new" /\ NewSession.victim = NoSession
        /\ NewSession.fence = 0 /\ NewSession.outside = 0
        /\ NewRequest.phase = "new"
    BY DEF NewSession, NewRequest
  <1>4. LiveInv
    BY <1>2, <1>3, GatewayAssumption DEF LiveInv, LiveIsRegistered
  <1>5. LeaseInv
    BY <1>2, <1>3, GatewayAssumption DEF LeaseInv, RegisteredIsAuthorised
  <1>6. FlightInv
    BY <1>2, <1>3 DEF FlightInv
  <1> QED
    BY <1>1, <1>4, <1>5, <1>6 DEF Inv

(* ... and every step keeps it.                                            *)
LEMMA InvStep == Inv /\ [Next]_vars => Inv'
  BY TypeStep, LiveStep, LeaseStep, FlightStep DEF Inv

(* The inductive invariant of the gateway: the types, who is registered    *)
(* and who is about to be told (LiveInv), what a fence is worth (LeaseInv) *)
(* and which session a request in flight belongs to (FlightInv).           *)
THEOREM Invariance == Spec => []Inv
  BY InvInit, InvStep, PTL DEF Spec

(* The state is what it is declared to be; in particular no queue and no   *)
(* set of pending requests ever exceeds its limit, and no counter of the   *)
(* device's row runs past its bound (MAX_GATEWAY_PENDING_REQUESTS).         *)
THEOREM GatewayTypeCorrect == Spec => []GatewayTypeOK
  <1>1. Inv => GatewayTypeOK
    <2> SUFFICES ASSUME Inv PROVE GatewayTypeOK
      OBVIOUS
    <2>1. \A s \in Sessions : /\ session[s] \in SessionRecords
                              /\ Len(session[s].queue) <= QueueCapacity
                              /\ Cardinality(session[s].pending) <= MaxPending
      BY Fields DEF Inv, TypeInv, SessionsInv
    <2>2. session \in [Sessions -> SessionRecords]
      BY <2>1 DEF Inv, TypeInv, SessionsInv
    <2> QED
      BY <2>1, <2>2 DEF Inv, TypeInv, RowInv, RegistryInv, RequestsInv, GatewayTypeOK
  <1> QED
    BY <1>1, Invariance, PTL

(* However handshakes, replacements, cleanups and invalidations            *)
(* interleave, a running session that was not told to end is registered or *)
(* about to be told, and the registry never holds an ended one.            *)
THEOREM LiveSessionsAreRegistered == Spec => []LiveIsRegistered
  <1>1. Inv => LiveIsRegistered
    BY DEF Inv, LiveInv
  <1> QED
    BY <1>1, Invariance, PTL

(* A handshake that read the row before a disable, rotate or revoke never  *)
(* outlives it: the fence read first closes the window, for any number of  *)
(* connections racing any number of changes.                               *)
THEOREM RegisteredSessionsAreAuthorised == Spec => []RegisteredIsAuthorised
  <1>1. Inv => RegisteredIsAuthorised
    BY DEF Inv, LeaseInv
  <1> QED
    BY <1>1, Invariance, PTL

(* No answer reaches a caller once the device is no longer authorised      *)
(* under the revision of the session that gave it.                         *)
THEOREM AnswersAreFresh == Spec => NoStaleAnswer
  <1>1. Inv /\ [Next]_vars =>
           [\A q \in Requests :
               request'[q].result = "answer" /\ request[q].result # "answer" =>
                   Authorises("run", session[request[q].session].revision)]_vars
    <2> SUFFICES ASSUME Inv, [Next]_vars, NEW q \in Requests,
                        request'[q].result = "answer", request[q].result # "answer"
                 PROVE  Authorises("run", session[request[q].session].revision)
      OBVIOUS
    <2>1. request[q].phase = "replied" /\ Authorises("run", request[q].revision)
      BY CallerFrame DEF CallerMoves, Inv
    <2> QED
      BY <2>1 DEF Inv, FlightInv
  <1> QED
    BY <1>1, Invariance, PTL DEF Spec, NoStaleAnswer
=============================================================================
