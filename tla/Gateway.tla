------------------------------ MODULE Gateway ------------------------------
(***************************************************************************)
(* The gateway of the server: WebSocket sessions a device opens, the       *)
(* registry that knows the current one (apps/server/src/gateway/           *)
(* registry.rs), the session loop (gateway/runtime.rs), callers that send  *)
(* a request to the device through it, and the administration service      *)
(* that disables, rotates or revokes the device meanwhile                  *)
(* (admin/command/devices.rs).                                             *)
(*                                                                         *)
(* The registry is one mutex; what register, invalidate_device and         *)
(* dispatch do after releasing it is a step of its own.  A control message *)
(* and the cancellation token always go together and both only end the     *)
(* loop: told is the two.  The device's frames are whatever it likes.      *)
(***************************************************************************)
EXTENDS Devices, Sequences, SequencesExt

CONSTANTS
    Sessions,          \* connections the device ever opens
    Requests,          \* requests callers ever make
    QueueCapacity,     \* MAX_GATEWAY_OUTBOUND_QUEUE
    MaxPending,        \* MAX_GATEWAY_PENDING_REQUESTS
    NoSession

ASSUME GatewayAssumption ==
    /\ NoSession \notin Sessions
    /\ QueueCapacity \in Nat \ {0}
    /\ MaxPending \in Nat \ {0}

VARIABLES
    active,        \* the session the registry holds for the device
    invalidation,  \* its invalidation generation
    session,       \* each connection's task
    request,       \* each caller
    admin,         \* the device operation of the administration service
    outside        \* history: changes made from the command line

gatewayVars == <<active, invalidation, session, request, admin, outside>>
vars == <<row, changes, active, invalidation, session, request, admin, outside>>

Phases == {"new", "authenticated", "fenced", "leased", "registered", "loop", "closing", "ended"}
(* The revision of no credential: what a record holds before it has one.   *)
NoRevision == <<0, {}>>
Revisions == {NoRevision} \cup ((0..MaxChanges) \X ScopeSets)

SessionRecords ==
    [phase : Phases, revision : Revisions, fence : Nat, outside : Nat,
     victim : Sessions \cup {NoSession}, told : BOOLEAN,
     queue : Seq(Requests), pending : SUBSET Requests, acked : SUBSET Requests]

RequestRecords ==
    [phase : {"new", "authorised", "chosen", "waiting", "replied", "ended"},
     revision : Revisions, session : Sessions \cup {NoSession}, expired : BOOLEAN,
     reply : {"none", "answer", "error"}, result : {"none", "answer", "error"}]

GatewayTypeOK ==
    /\ row \in Rows
    /\ changes \in 0..MaxChanges
    /\ active \in Sessions \cup {NoSession}
    /\ invalidation \in Nat
    /\ session \in [Sessions -> SessionRecords]
    /\ request \in [Requests -> RequestRecords]
    /\ admin \in [stage : {"idle", "committed", "removed"}, victim : Sessions \cup {NoSession}]
    /\ outside \in Nat
    /\ \A s \in Sessions : /\ Len(session[s].queue) <= QueueCapacity
                           /\ Cardinality(session[s].pending) <= MaxPending

(* A connection the device has not opened yet; of one that has ended only  *)
(* the revision is kept, which the properties compare.                     *)
NewSession ==
    [phase |-> "new", revision |-> NoRevision, fence |-> 0, outside |-> 0,
     victim |-> NoSession, told |-> FALSE, queue |-> <<>>, pending |-> {}, acked |-> {}]

(* A caller that has not asked yet; of one that has ended, the result and  *)
(* whether the deadline has passed.                                        *)
NewRequest ==
    [phase |-> "new", revision |-> NoRevision, session |-> NoSession, expired |-> FALSE,
     reply |-> "none", result |-> "none"]

Init ==
    /\ DevicesInit
    /\ active = NoSession
    /\ invalidation = 0
    /\ session = [s \in Sessions |-> NewSession]
    /\ request = [q \in Requests |-> NewRequest]
    /\ admin = [stage |-> "idle", victim |-> NoSession]
    /\ outside = 0

(* authorization_policy: the device is active, under the revision the      *)
(* session was authenticated with, and may connect.                        *)
PolicyHolds(s) ==
    Active /\ Revision = session[s].revision /\ "connect" \in row.scopes

Told(sessions, s) == [sessions EXCEPT ![s].told = TRUE]

Ended(s) ==
    [session EXCEPT ![s] = [NewSession EXCEPT !.phase = "ended", !.revision = session[s].revision]]

(***************************************************************************)
(* Mutants: the same steps with a plausible mistake in them.               *)
(***************************************************************************)
(* register ignores that the device was invalidated meanwhile.             *)
RegisterUnfenced(s) ==
    /\ session[s].phase = "leased"
    /\ session' = [session EXCEPT ![s].phase = "registered", ![s].victim = active]
    /\ active' = s
    /\ UNCHANGED <<row, changes, invalidation, request, admin, outside>>

(* cleanup removes the device's entry whoever it belongs to.               *)
CleanupAnyEntry(s) ==
    /\ session[s].phase = "closing"
    /\ session' = Ended(s)
    /\ active' = NoSession
    /\ UNCHANGED <<row, changes, invalidation, request, admin, outside>>

(* The answer is handed over without asking the row again.                 *)
DeliverUnchecked(q) ==
    /\ request[q].phase = "replied"
    /\ request' = [request EXCEPT ![q].phase = "ended", ![q].result = request[q].reply]
    /\ UNCHANGED <<row, changes, active, invalidation, session, admin, outside>>

(***************************************************************************)
(* The handshake.                                                          *)
(***************************************************************************)
(* The middleware authenticates the token the device presents, in one      *)
(* fenced transaction, and remembers the revision.                         *)
Authenticate(s) ==
    /\ session[s].phase = "new"
    /\ Active
    /\ session' = [session EXCEPT ![s].phase = "authenticated", ![s].revision = Revision]
    /\ UNCHANGED <<row, changes, active, invalidation, request, admin, outside>>

(* prepare_initial_lease reads the invalidation generation first ...       *)
ReadFence(s) ==
    /\ session[s].phase = "authenticated"
    /\ session' = [session EXCEPT ![s].phase = "fenced", ![s].fence = invalidation]
    /\ UNCHANGED <<row, changes, active, invalidation, request, admin, outside>>

(* ... and then the device's row (initial_lease).                          *)
InitialLease(s) ==
    /\ session[s].phase = "fenced"
    /\ session' = IF PolicyHolds(s)
                  THEN [session EXCEPT ![s].phase = "leased", ![s].outside = outside]
                  ELSE Ended(s)
    /\ UNCHANGED <<row, changes, active, invalidation, request, admin, outside>>

(* receive_hello fails, or times out.                                      *)
NoHello(s) ==
    /\ session[s].phase = "leased"
    /\ session' = Ended(s)
    /\ UNCHANGED <<row, changes, active, invalidation, request, admin, outside>>

(* register, under the registry's lock: refused when the device was        *)
(* invalidated since the fence was read, else the session replaces the one *)
(* before it, which is told afterwards.                                    *)
Register(s) ==
    /\ session[s].phase = "leased"
    /\ \/ /\ session[s].fence = invalidation
          /\ session' = [session EXCEPT ![s].phase = "registered", ![s].victim = active,
                                        ![s].fence = 0]
          /\ active' = s
       \/ /\ session[s].fence # invalidation
          /\ session' = Ended(s)
          /\ UNCHANGED active
    /\ UNCHANGED <<row, changes, invalidation, request, admin, outside>>

(***************************************************************************)
(* The callers' oneshot channels: a reply that comes while the caller      *)
(* still waits is kept, any other is dropped.                              *)
(***************************************************************************)
Replied(requests, qs, reply) ==
    [q \in Requests |->
        IF q \in qs /\ requests[q].phase = "waiting"
        THEN [requests[q] EXCEPT !.phase = "replied", !.reply = reply, !.expired = FALSE]
        ELSE requests[q]]

Held(s) == ToSet(session[s].queue) \cup session[s].pending

(* The task leaves the loop: the pending requests are failed, and the      *)
(* queue is dropped with its receiver.                                     *)
Leave(s) ==
    /\ session' = [session EXCEPT ![s].phase = "closing", ![s].told = FALSE,
                                  ![s].queue = <<>>, ![s].pending = {}, ![s].acked = {}]
    /\ request' = Replied(request, Held(s), "error")

(* After register has released the lock: the old session is told, the new  *)
(* one welcomed.                                                           *)
Welcome(s) ==
    /\ session[s].phase = "registered"
    /\ session' = [t \in Sessions |->
          CASE t = s -> [session[s] EXCEPT !.phase = "loop", !.victim = NoSession]
            [] t = session[s].victim /\ t # s -> [session[t] EXCEPT !.told = TRUE]
            [] OTHER -> session[t]]
    /\ UNCHANGED <<row, changes, active, invalidation, request, admin, outside>>

(* run_tracked, once the task has ended: cleanup removes the entry only if *)
(* it is still this connection's.                                          *)
Cleanup(s) ==
    /\ session[s].phase = "closing"
    /\ session' = Ended(s)
    /\ active' = IF active = s THEN NoSession ELSE active
    /\ UNCHANGED <<row, changes, invalidation, request, admin, outside>>

(***************************************************************************)
(* The session loop.  Its select is biased: control and cancellation come  *)
(* before everything else.                                                 *)
(***************************************************************************)
Looping(s) == session[s].phase = "loop" /\ ~session[s].told

StopTold(s) ==
    /\ session[s].phase = "loop"
    /\ session[s].told
    /\ Leave(s)
    /\ UNCHANGED <<row, changes, active, invalidation, admin, outside>>

(* The socket closes or fails, a frame breaks the protocol or is too       *)
(* large, the heartbeat goes unanswered, the welcome cannot be sent, or    *)
(* the database cannot be read at the authorization tick.  A late or       *)
(* unacknowledged answer ends the session as well, its own caller being    *)
(* failed like the others.                                                 *)
Disconnect(s) ==
    /\ Looping(s)
    /\ Leave(s)
    /\ UNCHANGED <<row, changes, active, invalidation, admin, outside>>

(* The authorization tick, every thirty seconds.                           *)
Revalidate(s) ==
    /\ Looping(s)
    /\ ~PolicyHolds(s)
    /\ Leave(s)
    /\ UNCHANGED <<row, changes, active, invalidation, admin, outside>>

(* handle_command: the head of the queue is sent to the device, unless it  *)
(* has expired or too many wait for an answer already.                     *)
HandleCommand(s) ==
    /\ Looping(s)
    /\ session[s].queue # <<>>
    /\ LET q == Head(session[s].queue)
           refused == request[q].expired \/ Cardinality(session[s].pending) >= MaxPending
       IN /\ session' = [session EXCEPT
                ![s].queue = Tail(@),
                ![s].pending = IF refused THEN @ ELSE @ \cup {q}]
          /\ request' = IF refused THEN Replied(request, {q}, "error") ELSE request
    /\ UNCHANGED <<row, changes, active, invalidation, admin, outside>>

(* A frame of the device about a pending request: an acknowledgement, a    *)
(* refusal (or an error frame), an answer.  After the deadline, for a      *)
(* request that is not pending, or for an answer that was never            *)
(* acknowledged, the frame ends the session (Disconnect).                  *)
Drop(s, q) ==
    [session EXCEPT ![s].pending = @ \ {q}, ![s].acked = @ \ {q}]

RequestAck(s, q) ==
    /\ Looping(s)
    /\ q \in session[s].pending
    /\ ~request[q].expired
    /\ session' = [session EXCEPT ![s].acked = @ \cup {q}]
    /\ UNCHANGED <<row, changes, active, invalidation, request, admin, outside>>

RequestRefused(s, q) ==
    /\ Looping(s)
    /\ q \in session[s].pending
    /\ ~request[q].expired
    /\ session' = Drop(s, q)
    /\ request' = Replied(request, {q}, "error")
    /\ UNCHANGED <<row, changes, active, invalidation, admin, outside>>

Response(s, q) ==
    /\ Looping(s)
    /\ q \in session[s].acked
    /\ ~request[q].expired
    /\ session' = Drop(s, q)
    /\ request' = Replied(request, {q}, "answer")
    /\ UNCHANGED <<row, changes, active, invalidation, admin, outside>>

(* expire_pending *)
ExpirePending(s) ==
    /\ Looping(s)
    /\ LET late == {q \in session[s].pending : request[q].expired}
       IN /\ late # {}
          /\ session' = [session EXCEPT ![s].pending = @ \ late, ![s].acked = @ \ late]
          /\ request' = Replied(request, late, "error")
    /\ UNCHANGED <<row, changes, active, invalidation, admin, outside>>

(***************************************************************************)
(* A caller: request_job, request_catalog or request_control.              *)
(***************************************************************************)
Ends(q, result) ==
    request' = [request EXCEPT ![q] = [NewRequest EXCEPT
        !.phase = "ended", !.result = result, !.expired = request[q].expired]]

(* current_authorization before anything is sent; it fails too when the    *)
(* database cannot be read.                                                *)
Authorise(q) ==
    /\ request[q].phase = "new"
    /\ \/ /\ Authorises("run", Revision)
          /\ request' = [request EXCEPT ![q].phase = "authorised", ![q].revision = Revision]
       \/ Ends(q, "error")
    /\ UNCHANGED <<row, changes, active, invalidation, session, admin, outside>>

(* dispatch, under the registry's lock: the session to use.  It fails when *)
(* the device is offline, when the session was opened under another        *)
(* revision, or when it did not announce the capability the action needs.  *)
Dispatch(q) ==
    /\ request[q].phase = "authorised"
    /\ \/ /\ active # NoSession
          /\ session[active].revision = request[q].revision
          /\ request' = [request EXCEPT ![q].phase = "chosen", ![q].session = active]
       \/ Ends(q, "error")
    /\ UNCHANGED <<row, changes, active, invalidation, session, admin, outside>>

(* try_send, after releasing it: closed once the session has left its      *)
(* loop; a full queue marks a slow consumer, which is ended.               *)
TrySend(q) ==
    LET s == request[q].session
        open == session[s].phase \in {"registered", "loop"}
        full == Len(session[s].queue) >= QueueCapacity
    IN /\ request[q].phase = "chosen"
       /\ \/ /\ open /\ ~full
             /\ session' = [session EXCEPT ![s].queue = Append(@, q)]
             /\ request' = [request EXCEPT ![q].phase = "waiting"]
          \/ /\ open /\ full
             /\ session' = Told(session, s)
             /\ Ends(q, "error")
          \/ /\ ~open
             /\ Ends(q, "error")
             /\ UNCHANGED session
       /\ UNCHANGED <<row, changes, active, invalidation, admin, outside>>

(* The request's deadline passes, for the caller and for the session.      *)
Expire(q) ==
    /\ request[q].phase = "waiting"
    /\ ~request[q].expired
    /\ request' = [request EXCEPT ![q].expired = TRUE]
    /\ UNCHANGED <<row, changes, active, invalidation, session, admin, outside>>

TimeOut(q) ==
    /\ request[q].phase = "waiting"
    /\ request[q].expired
    /\ Ends(q, "error")
    /\ UNCHANGED <<row, changes, active, invalidation, session, admin, outside>>

(* An answer is handed over only if the device is authorised still, under  *)
(* the revision the request was sent under; a database that cannot be read *)
(* or a result of another kind fails the request.                          *)
Deliver(q) ==
    /\ request[q].phase = "replied"
    /\ \/ /\ request[q].reply = "answer"
          /\ Authorises("run", request[q].revision)
          /\ Ends(q, "answer")
       \/ Ends(q, "error")
    /\ UNCHANGED <<row, changes, active, invalidation, session, admin, outside>>

(***************************************************************************)
(* Administration.  Rotate, disable and revoke hold the lifecycle guard    *)
(* from the change of the row to the end of invalidate_device; enable does *)
(* not take it.  The command line is another process: it changes the row   *)
(* and cannot reach the registry.                                          *)
(***************************************************************************)
AdminChange ==
    /\ admin.stage = "idle"
    /\ RotatePreservingScopes \/ Disable \/ Revoke
    /\ admin' = [admin EXCEPT !.stage = "committed"]
    /\ UNCHANGED <<active, invalidation, session, request, outside>>

AdminEnable ==
    /\ Enable
    /\ UNCHANGED gatewayVars

(* invalidate_device, under the registry's lock ...                        *)
InvalidateDevice ==
    /\ admin.stage = "committed"
    /\ invalidation' = invalidation + 1
    /\ active' = NoSession
    /\ admin' = IF active = NoSession THEN [admin EXCEPT !.stage = "idle"]
                ELSE [stage |-> "removed", victim |-> active]
    /\ UNCHANGED <<row, changes, session, request, outside>>

(* ... and after it.                                                       *)
TellRemoved ==
    /\ admin.stage = "removed"
    /\ session' = Told(session, admin.victim)
    /\ admin' = [stage |-> "idle", victim |-> NoSession]
    /\ UNCHANGED <<row, changes, active, invalidation, request, outside>>

CommandLine ==
    /\ RotateReplacingScopes \/ Revoke
    /\ outside' = outside + 1
    /\ UNCHANGED <<active, invalidation, session, request, admin>>

SessionStep(s) ==
    \/ Authenticate(s) \/ ReadFence(s) \/ InitialLease(s) \/ NoHello(s) \/ Register(s)
    \/ Welcome(s) \/ Cleanup(s) \/ StopTold(s) \/ Disconnect(s) \/ Revalidate(s)
    \/ HandleCommand(s) \/ ExpirePending(s)
    \/ \E q \in Requests : RequestAck(s, q) \/ RequestRefused(s, q) \/ Response(s, q)

CallerStep(q) ==
    Authorise(q) \/ Dispatch(q) \/ TrySend(q) \/ Expire(q) \/ TimeOut(q) \/ Deliver(q)

AdminStep ==
    AdminChange \/ AdminEnable \/ InvalidateDevice \/ TellRemoved \/ CommandLine

Next ==
    \/ \E s \in Sessions : SessionStep(s)
    \/ \E q \in Requests : CallerStep(q)
    \/ AdminStep

Spec == Init /\ [][Next]_vars

(***************************************************************************)
(* Properties.                                                             *)
(***************************************************************************)
(* A session that runs and has not been told to end is the one the         *)
(* registry holds, or is about to be told; and the registry holds no       *)
(* session that has ended: the late cleanup of an old connection never     *)
(* takes a newer one out of reach (registry.rs, cleanup).                  *)
LiveIsRegistered ==
    \A s \in Sessions :
        /\ session[s].phase \in {"registered", "loop"} /\ ~session[s].told =>
               \/ active = s
               \/ admin.victim = s
               \/ \E t \in Sessions : session[t].phase = "registered" /\ session[t].victim = s
        /\ active = s => session[s].phase \in {"registered", "loop", "closing"}

(* Unless the row was changed from the command line, or by an operation    *)
(* that has not reached the registry yet, the registered session holds the *)
(* device's present revision, and the device is active: a handshake that   *)
(* read the row before a disable, rotate or revoke never outlives it       *)
(* (registry.rs, register and invalidate_device).                          *)
RegisteredIsAuthorised ==
    \A s \in Sessions :
        active = s /\ admin.stage # "committed" /\ session[s].outside = outside =>
            Active /\ Revision = session[s].revision

(* An answer reaches its caller only while the device is authorised under  *)
(* the very revision of the session that gave it, whatever changed while   *)
(* the request was in flight (runtime.rs, request_job_with_revision).      *)
NoStaleAnswer ==
    [][\A q \in Requests :
          request'[q].result = "answer" /\ request[q].result # "answer" =>
              Authorises("run", session[request[q].session].revision)]_vars

=============================================================================
