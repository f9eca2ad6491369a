# promptdock: TLA+ models, checks and proofs

promptdock carries notifications, results and commands between a developer's
machine (the desktop application, which watches coding agents) and the
developer's WeChat account, through a small self-hosted relay server. This
directory holds TLA+ models of the parts of that system whose correctness
depends on interleavings, crashes, lost answers and time, the TLC runs that
check them on small instances, and TLAPS proofs for all instances.

`PROJECT.json` is the index: components, runs, one mutant per checked property,
the source lines behind every definition, findings, hazards and theorems.

To repeat a run: `tlc -workers 2 -config MCRelayOutbox_claims.cfg MCRelayOutbox`
(configuration and module as in `PROJECT.json`, "runs"). To repeat the proofs:
`tlapm RelayOutboxProofs.tla`, and so for each of the eight `...Proofs` modules (section 6);
each takes between half a minute and four minutes.

Contents: 1 the system; 2 modules and their correspondence to the code; 3 runs;
4 bounds; 5 fairness; 6 proofs; 7 what the models found; 8 what is not
modelled; 9 plan.

## 1. The system

    agent hooks -> event inbox -> agent runs -> desktop outbox --HTTP--> relay outbox -> WeChat channel
                                                     |                      ^               |
                                 desktop receipts <--HTTP--> result pages --+           WeChat user
                                 desktop gateway client <--WebSocket--> gateway <- inbound commands
                                                                                  ^       |
                                                               WeChat monitor ----+       v
                                                                                   (reply: relay outbox)

The server (`apps/server`, Rust, tokio) is one process over one SQLite database
and one encrypted file with the WeChat connection. Its tasks share the database
through transactions, the connection through a mutex-protected `SharedState`,
and wake each other through `Notify`. The desktop (`apps/desktop/src-tauri`) is
another process with its own SQLite database; both retry over HTTP. A service
manager restarts the server; during an upgrade or a slow stop two server
processes can overlap on one database.

| Component | State it keeps | Operations | Talks to | What is hard | What makes it correct |
|---|---|---|---|---|---|
| Relay outbox (`outbox/`) | `notification_outbox`: status, claim token, attempts, due time, expiry, body | stage, recover, expire, claim, resolve link, complete, release, unblock, cancel, retention | channel, result pages, inbound replies, monitor hook | dead or overlapping processes, late completions, repeated submissions | one life cycle per row, exclusive claims, no duplicate, truthful acceptance, everything settles |
| Delivery status domain (`relay-domain`) | none | `can_transition_to`, `is_terminal` | the outbox | four writers, one table of transitions | the outbox implements it |
| Result pages (`results.rs`, trigger in `001_init.sql`) | `results`, `result_actions` | publish, resend, revoke, read, receipt, projection trigger | outbox, retention, desktop | clock readings older than the write lock, one revision for two writers, revocation against a send in progress | exact projection, growing version, a revoked link does not go out |
| Retention (`retention.rs`) | none of its own | copy back and delete notices, purge bodies, sweep confirmations | outbox, results, inbound | same condition in two statements, batches | nothing that is still needed is deleted |
| Desktop receipts (`relay/result_store.rs`, `relay/state.rs`) | `relay_result_publications` | register, refresh, resend, revoke, apply | result pages over HTTP | answers lost or overtaking each other, retries after restart | never goes back, never refuses what is newer, one wish one message |
| WeChat cutover (`wechat/login`, `wechat/secret_store`) | login sessions, staged secret, encrypted file, runtime connection | start login, confirm, stage, promote, resume, disconnect | monitor | three mutexes, a failure at every step, saves dropped in flight, a disconnect cut off by the route's timeout | file, runtime and monitor agree; no dead login is promoted; everybody finishes |
| WeChat monitor and channel (`wechat/monitor`, `wechat/channel`) | `SharedState`: bundle, revision, status; cursor, context token | poll, capture, save, publish, hook, send, report | outbox, inbound sink, cutover | status and bundle read at different moments, outcome reported after the call | no message lost, no refused context reused, blocked rows released |
| Inbound commands (`inbound/`) | `inbound_commands`, `control_confirmations`, selections | capture, recover, claim, ask gateway, prompt, confirm, dispatch, record, retry, reply, sweep | monitor, gateway, outbox, retention | repeated delivery, crash between device action and record, two right codes, lock against accepted code | one authorised intent, a truthful reply, one reply, everything settles |
| Gateway (`gateway/`) with device credentials (`auth.rs`, `admin/command/devices.rs`) | one session per device, invalidation generations, pending requests; the device row | handshake, register, replace, cleanup, dispatch, answer, expire, invalidate; disable, rotate, revoke, rescope | inbound, desktop, administration | old connection ending after the new one registered, authorisation changed during a handshake or a request | the live session is the registered one, it is authorised, and no answer outlives its authorisation |
| Desktop outbox and hold (`notification/`) | local outbox, hold document, gate, worker | insert, claim, permit, request, complete, recover, expire, hold, resume | relay outbox over HTTP | hold beginning between permit and request, a clock set back, worker stopped in mid-request | held means not sent; a claim is settled by its own worker |
| Capture policy (`desktop_policy.rs`, `settings.rs`, `desktop_runtime.rs`) | policy file, its projections in the database and in memory | save, apply, recover, compare | desktop outbox, ingestor | a save of several steps, each failing or the last before a crash | what a saved policy withdraws is not sent; a saved policy is applied |
| Agent runs (`agent/`) | run records, deadlines | reduce, project, finalize | event inbox, desktop outbox | late and reordered hook events, finalizer racing them, policies changing meanwhile | notices agree with their run, every end that is asked for is told, verdicts stand |
| Event inbox (`event_runtime/`, `inbox.rs`) | inbox file, quarantined segment, rotation journal, cursor | append, read, checkpoint, rotate, recover, erase | agent runs | a crash between file operations, reused file identities, lines of a newer format | every event read once and in order up to the first unreadable one, no segment left behind |
| Rate limits, administration views, user interfaces, deployment | buckets, views, unit files | - | all of the above | presentation, request-local | - |

## 2. Modules

| Module | Models | Composed with |
|---|---|---|
| `DeliveryLifecycle` | the promise: the status of a delivery as `relay-domain` tables it, plus staging, removal and the fact that accepted means taken by the provider | refined by `RelayOutbox`, instantiated by `ResultPages` |
| `RelayOutbox` | the outbox table and its worker, processes, recovery, retention | `INSTANCE DeliveryLifecycle` |
| `ResultPages` | one result with its notices | `INSTANCE DeliveryLifecycle` for what the worker may do to a notice |
| `ResultReceipts` | the desktop's row of that result, polls and actions | `EXTENDS ResultPages` |
| `WechatCutover` | logins, promotion, disconnect, the monitor's save over three mutexes | - |
| `WechatDelivery` | monitor loop, shared connection state, sender, hook | one outbox row |
| `InboundCommands` | sink, commands, confirmations, worker, device, sweep | - |
| `Devices` | the credential row of a device: revision, scopes, disabled, revoked | extended by `Gateway` |
| `Gateway` | sessions, registry, callers, administration | `EXTENDS Devices` |
| `EventLog` | the promise of the event inbox: a queue that stores each event once, the oldest first, and in the end all of them in front of the first that is sealed | refined by `EventInbox` |
| `EventInbox` | the inbox file, its rotation and recovery, the source thread | `INSTANCE EventLog` |
| `AgentRuns` | reducer, projection on the outbox, finalizer, applied policies | the worker as far as a row shows it |
| `DesktopDelivery` | the desktop outbox with its worker, the hold, the capture policy and its save | - |
| `RelayOutboxProofs`, `ResultReceiptsProofs`, `WechatProofs`, `InboundCommandsProofs`, `GatewayProofs`, `EventInboxProofs`, `AgentRunsProofs`, `DesktopDeliveryProofs` | the proofs about the component of that name (`ResultReceiptsProofs`: about `ResultPages` too; `WechatProofs`: about `WechatCutover` and `WechatDelivery`) | each `EXTENDS` its components |
| `MC...` | the instances for TLC | |

In every module one action is one SQL transaction, one critical section of a
mutex, or one hand-over to the outside: what the code can interleave, the model
interleaves. A loop of the code is the set of its steps with a program counter.
Definitions whose comment starts with "Mutant:" or "As X, but" are defective
variants of a definition; no specification uses them. They show that each property notices
the defect it is about.

**RelayOutbox.** `rows` is the table, one record per row id; `pc`, `passNow`,
`claim`, `outcome`, `stopping` are the local variables of the worker of each
process (`outbox/worker.rs`): the `now` read before the claim, the
`ClaimedNotification`, the `ChannelOutcome`, the cancellation token. Ingress
(`ingress.rs`) checks identity, payload hash and expiry and either inserts,
acknowledges the existing row or refuses; the clock it does so with was read
before the write lock was asked for, so `at` is any time up to `now`. `StartServer` and `StartWorker` recover stale claims
(`claim.rs`), the loop expires, claims by priority, due time and age, resolves a
protected link, sends, and completes only while the row still carries its token
(`retry.rs`). `Crash` forgets the process, not the table. `Unblock`,
`CancelNotices`, `DeleteOutbox` are the writes of the monitor's hook, of a
revocation and of retention. `delivered` and `acked` are history.

**ResultPages.** `res` is the row of `results`, `notice` the outbox rows that
belong to it. A transaction carries a clock reading up to `WriteLag` old,
because operations read the clock before they wait for SQLite's writer lock. The
trigger that projects the current notice is part of every action that writes a
notice. Retention copies back, then deletes, in the order and under the
conditions of its statements. `device` is the owner's device as `public_body`
asks for it: enabled, disabled for a while, or revoked for good
(`SetDeviceEnabled`, `RevokeDevice`).

**ResultReceipts.** `desk` is the desktop's durable row, `action` and `fetched`
the two requests that can be under way. An answer is computed by the server,
held, and applied or lost later. `Verdict` is the sequence of checks of
`apply_inner`, in order. The desktop's device stays enabled there: a disabled
one gets no answers, which is what a lost answer is.

**WechatCutover.** Each mutex maps every party that has it or asked for it to
the parties that asked before; who has nobody before it holds the mutex, as tokio's fair
mutex grants it. A login's task goes through stage, wait for the cutover mutex,
stop the monitor, promote, start, report; each step may fail and then resumes
the old connection or, after promotion, does not. `late` counts, by credential,
the renames and removals that tokio's blocking pool still has to finish although
the future that asked for them was dropped; `LateWrite` is one of them taking
effect, at any later time. The disconnect runs inside a route handler
(`admin/router.rs:316`, `api/wechat.rs:75`), which a `TimeoutLayer` may drop at any
await: `RouteTimeout` gives up its mutexes and its places in their queues
wherever it stands. If it was joining the monitor, nobody joins that worker any
more; the worker's last step, which waits for nothing, is merged into the timeout.
`truth`, `stray` and `torn` are history: what the last promotion or removal left
on disk, and whether a late write or a cut-off disconnect came since. Between the
grant of the cutover mutex and the request for the gate other tasks may run: the
runtime has several threads, and tokio hands a mutex over before its new owner is
polled. One disconnect is in progress at a time.

**WechatDelivery.** `sh` is `SharedState`. The sender reads the status, then the
bundle, then calls the provider, then reports against the revision it read;
monitor, logins, disconnects and restarts interleave between any two. `refused`
is the set of context tokens the provider has refused since the connection was
installed and no message has brought again, `forgotten` those that were refused
before it was installed anew in the same process.

**InboundCommands.** `cmds` and `confs` are the two tables, `wk` the worker of
each process, `typed[m]` whose code message m holds, `sent[c]` the messages on
whose behalf an intent reached a device, `told[m]` the reply that was staged. A
`plan` is what the outside does: messages in order, processes, number of faults
(lost cursors, crashes, stops). A control request goes out when the command is
bound to the confirmation; the device may act on it while the worker waits, and
the worker may be answered, time out, be stopped, or die before or after.

**Gateway.** `row` is the device's credential row, `active` and `invalidation` the
registry's entry, `session[s]` one connection's task from its handshake
(authenticated, fenced by the invalidation generation, leased, registered) to the
clean-up, `request[q]` one caller from its first authorisation to the second.
What the code does after it has released the registry's mutex is a step of its
own: telling the replaced session, telling the invalidated one, sending a frame.
`outside` counts changes that the command line makes in another process, which
reach no registry; the device answers whatever it likes.

**EventInbox.** A file is an identity and a sequence of lines; identities are
reused, as inode numbers are. One step is one system call or one transaction:
append under the lock, read a line, store an event with its cursor, and the
rotation's journal, rename, create, journal, checkpoint, erase, remove. `Crash`
may come between any two, a helper may die inside a line, and each step may
fail. A helper of a newer version may write an envelope this desktop cannot read
(`"newer"`): `ReadUnsupported` stays in front of it and at most checkpoints where it
stands. `Waiting`, the complete lines behind the checkpointed cursor, is the queue
of `EventLog`, and the newer ones among them are its `sealed` events.

**AgentRuns.** `run[r]` is the record the reducer computes, `notice` the outbox rows
by dedupe key. `RunStarted` ... `AttentionRequired` are the transactions of
`project_event`, each with the reducer, the withdrawal of notices it makes false
and the insertion of the new one; events are ingested at any time after they
were observed. `FinalizeBatch` is the finalizer's transaction. `Claim`, `Conclude`,
`Release` and `Expire` are the delivery worker; it also revokes a row whose policy is
not the one of the settings, or when these cannot be read. `notify` is the applied
policy, the notices it asks for, and `ApplyProjection` the transaction that replaces
it and revokes open rows. The code's status for such rows is `cancelled`, as for
those the course of a run withdraws; the model keeps the two apart (`revoked`) as
`last_error_code` does. `unasked` is history: the runs that last ended when the policy
did not ask for a notice.

**DesktopDelivery.** `worker` is the delivery thread with the claim it holds,
`control` the runtime's lock and whether it is paused, `save` the policy operation that has
the operation lock, `ingest` an event between reading the policy and inserting
its notice. `file`, `applied` and `settings` are the three places a policy is in.
The hold is compared with a clock that may elapse or be set back at any step;
`StartHttp` is the last look at it before a request.

## 3. Runs

| Run | Checks | Shows |
|---|---|---|
| `outbox_claims` | `ClaimConsistent`, `ExclusiveWithinLease`, `RedactedWhenSettled`, `ImplementsLifecycle` | Two processes, crashes, restarts, stale claims, expiry and cancellation over one row: a row is claimed twice at once only past the lease, a completion that comes late changes nothing, settled rows are redacted, and the table implements `DeliveryLifecycle` |
| `outbox_settles` | `StoredOnce`, `AckedIsStored`, `SettlesUnlessOrphaned` | Repeated and colliding submissions that waited for the write lock, retention and crashes over two rows: nothing is stored twice while it is valid, nobody is acknowledged for another payload, and the only row that is left behind is an orphaned claim |
| `result_pages` | `ProjectionExact`, `LivePageKept`, `RevokedLinkStays`, `VersionAdvances` | Publish, resend, revoke, changes of the device, the worker and retention with clock readings out of order: the projection stays exact through the deletion of the notice, a live page keeps its first notice and can be read while its owner's device is enabled, versions grow, a revoked link that was not in the channel's hands does not go out |
| `result_receipts` | `NewerNeverRefused`, `ResendReplacesSeen`, `DesktopCatchesUp` | Lost and overtaking answers: nothing newer is refused, one resend wish is one message, the refresh catches up while the page lives |
| `cutover` | `DiskFollows`, `OneConnection`, `OnlyCircleBlocks`, `OnlyLivePromotes`, `EveryoneFinishes` | Two logins, two disconnects that the route's timeout may drop, the monitor's save, every step failing, renames and removals that land late: the file is what the last promotion or removal left unless a late write or a cut-off disconnect came since, runtime and monitor agree unless a disconnect was cut off, no cancelled login is promoted, nobody waits in vain for a mutex but the three of one circle, and with the timeout everyone finishes |
| `delivery` | `NoMessageLost`, `RejectedContextUnused`, `ReactivationReleases` | Monitor, sender, login, disconnect, restart and user interleaved over three messages: no message is lost, a context token refused since the connection was installed is not used again, and a connection that comes back releases what it blocked |
| `delivery_resumed` (violation) | `ContextNotReused` | A failed cutover installs the old connection again, with the context the provider has refused |
| `inbound` | `IntentAuthorised`, `ReplyIsTrue`, `SettledForever`, `CommandsSettle` | Prompts with right, wrong and foreign codes, repeated deliveries, crashes, stops and overlapping processes: an intent reaches a device for one authorised message and never from a locked confirmation, the owner is told what was done, a command is answered once, and all settle |
| `gateway` | `LiveIsRegistered`, `RegisteredIsAuthorised`, `NoStaleAnswer` | Two connections and two requests of a device that is changed twice, between any two steps: the clean-up of an old session leaves the new one alone, a handshake does not outlive the change it missed, an answer from before a change is discarded |
| `event_inbox` | `ImplementsLog`, `ActivatedCaughtUp`, `SegmentsErased` | Four lines, three file identities, three crashes or failures in the middle of reading and rotating: the inbox implements `EventLog` (nothing is lost, skipped or stored twice, and nothing in front of the first unreadable line is left waiting), the finalizer waits for the backlog, rotated segments are erased |
| `agent_runs` | `NoticesFollowRun`, `EndIsReported`, `VerdictStands`, `SettlingEnds` | Every order and delay of three events, with finalizer, worker and changes between two policies: a notice that waits is true, no end is silent but by the user's settings, a verdict gives way only to a more certain one, settling ends |
| `desktop_delivery` | `WorkerOwnsClaim`, `NoSendUnderHold`, `RevokedNeverSent`, `PolicyIsApplied` | One row under holds, two saves of a policy, a crash or failed step anywhere: the worker is alone with its claim, nothing starts under a hold, what a saved policy has withdrawn stays unsent, and every saved policy is applied |

Each module also states its type invariant (`TypeOK`, `PagesTypeOK`, `CutoverTypeOK`,
`DeliveryTypeOK`, `InboundTypeOK`, `GatewayTypeOK`, `InboxTypeOK`, `RunsTypeOK`,
`DesktopTypeOK`). They hold on the instances of the runs, and all of them are proved
(section 6). No run
lists them: they say what the variables are, and the proofs start from them.

Every property of a passing run has a mutant in `PROJECT.json`: a change of one
definition, of the kind a careless edit of that code would make, under which TLC
reports that property violated.

Deadlock checking is off where the modelled system may really stop: in the
outbox and result runs when the bounded clock has run out and do, in the cutover runs when all logins and disconnects are over, in the gateway
run when all connections and callers are done, and in the desktop runs when the
bounded events, lines and saves are used up. `delivery` and `inbound` check it.

## 4. Bounds

| Bound | Why it is enough |
|---|---|
| one row in `outbox_claims`, two in `outbox_settles` | the statements relate a row to itself, its claimants and, for identity only, one other row |
| two workers, three tokens | a hand-over and a second hand-over back; workers are symmetric (a symmetry set in the run that has only safety properties) |
| one delay per retry schedule, `MaxAttempts` 3 or 1 | one scheduled retry and the end of the schedule both occur; the code has no bound on attempts, the model's guard caps the counter |
| lease 1, expiry 1..3, clock 4 | every order of claim, lease, retry, expiry and retention occurs |
| `MaxTTL`, retention and expiry equal in `outbox_settles` | the boundary at which `StoredOnce` still holds (see 7) |
| two notices (three with the desktop), one or two resend requests | the first notice, one replacement and one race between replacements |
| `WriteLag` 1 | one transaction overtakes another; more only repeats it |
| `Retention` 0 or 1 | deletion at the earliest and after a wait |
| two logins, two disconnects | three waiting parties are the smallest circle; the second disconnect meets what the first left, also when it was cut off; late writes are as many as saves and removals were dropped |
| three messages, `DegradedAfter` 2, `MaxRevision` 2 | a text, one that is not captured and a second context; below and at the threshold; a connection replaced twice |
| plans of up to three messages, `MaxAttempts` 2, two processes or up to two faults | a prompt and two tries; lock at the last try; overlapping processes and crashes are explored in separate plans to keep the run small |
| `CommandTTL` 4, `ConfirmTTL` 2, `StaleClaim` 2, arrivals until 2, clock to 6 | prompts and commands become due before, while and after a command is being answered |
| two connections, two requests, two changes, queue and pending limit 1 | a connection replaced by another, a full queue, a change during the handshake and one during the request; connections and requests are symmetric |
| three identities, four lines, capacity 3, three faults | a rotation that reuses the identity of an erased segment, a full inbox, a crash during the recovery from a crash |
| one run, three events, clock 3, `Quiet` 1, `Cooldown` 2, two policies | notices and records of different runs never meet; three events are enough to settle, resume and end, or to end twice; a policy that asks for everything and one that asks for no ends, applied any number of times |
| one row, `RetryLimit` 1, two claims, two saves, one fault | rows meet only in the worker, which has one at a time; a retry and the end of the schedule; a save that narrows the policy and one that widens it again |

## 5. Fairness

- `RelayOutbox!FairSpec`: time passes, and each process keeps taking the steps of
  its loop. The loop polls every `IDLE_POLL`, sends end by their HTTP timeout, and
  the service manager restarts a process. Nothing is assumed of submissions,
  unblocking, revocation or retention, and the properties are conditional on
  the servers staying up in the end.
- `ResultReceipts!ReceiptsFairSpec`: weak fairness of the refresh (a timer), strong
  fairness of applying an answer: not every answer is lost. Nothing is assumed
  of the user.
- `WechatCutover!CutoverFairSpec`: tasks are polled, blocking operations somebody waits
  for end, unfinished logins expire (the login's own deadline), and a disconnect that
  does not end is dropped by the route's timer (`route_timeout_seconds`, 5 by default and
  at most 10). Nothing is assumed of late writes, which may land at any time or never.
- `WechatDelivery!FairSpec`: monitor, sender and installation run on; strong fairness of
  the hook says that the outbox is not unavailable each time it is called.
- `InboundCommands!FairSpec`: time, and each worker's own steps. The recovery scan is not
  assumed to get a turn while commands are ready, because the worker's `select!`
  is biased towards its wake-up.
- `EventInbox!Spec`: the source thread runs on and the desktop is started again after
  a crash. Nothing is assumed of the helpers, and no fault has to happen.
- `AgentRuns!Spec`: the finalizer's thread wakes at the next deadline, and time
  passes. Nothing is assumed of events or of the delivery worker.
- `DesktopDelivery!FairSpec`: the worker's thread, a policy operation that has begun, the
  maintenance loop and the restart go on. Holds, clock changes, events and saves
  are never assumed, and faults are bounded.
- `Gateway` has only safety properties and assumes no fairness.

## 6. Proofs

Eight modules prove, for every value of the constants that satisfies the named
assumptions, what the runs check on small instances. Each `EXTENDS` its component.

| Module | Theorem | Statement |
|---|---|---|
| `RelayOutboxProofs` | `TypeCorrect` | `Spec => []TypeOK` |
| | `ClaimsAreConsistent` | `Spec => []ClaimConsistent` |
| | `BodiesAreRedacted` | `Spec => []RedactedWhenSettled` |
| | `AcceptedIsDelivered` | `Spec => []AcceptedWasDelivered` |
| | `SettledStaysSettled` | `Spec => TerminalForever` |
| | `OutboxImplementsLifecycle` | `Spec => ImplementsLifecycle`: the outbox refines `DeliveryLifecycle` |
| | `AcknowledgedIsStored` | `Spec => []AckedIsStored` |
| | `LeaseIsExclusive` | `Spec => []ExclusiveWithinLease` |
| | `SubmissionsAreStoredOnce` | `KeptLongEnough => (Spec => []StoredOnce)` |
| `ResultReceiptsProofs` | `PagesTypeCorrect` | `Spec => []PagesTypeOK` |
| | `ProjectionIsExact` | `Spec => []ProjectionExact` |
| | `LivePagesAreKept` | `Spec => []LivePageKept` |
| | `RevokedLinksStay` | `Spec => []RevokedLinkStays` |
| | `VersionsAdvance` | `Spec => VersionAdvances` |
| | `NewerIsNeverRefused` | `ReceiptsSpec => []NewerNeverRefused` |
| | `ResendsReplaceWhatWasSeen` | `ReceiptsSpec => []ResendReplacesSeen` |
| | `ReceiptsImplementPages` | `ReceiptsSpec => Spec`: with a desktop attached, the pages still behave as `ResultPages` says |
| `WechatProofs` | `CutoverTypeCorrect` | `CutoverSpec => []CutoverTypeOK` |
| | `OnlyTheCircleDeadlocks` | `CutoverSpec => []OnlyCircleBlocks` |
| | `FileFollows` | `CutoverSpec => []DiskFollows` |
| | `ConnectionIsOne` | `CutoverSpec => []OneConnection` |
| | `OnlyLiveLoginsArePromoted` | `CutoverSpec => OnlyLivePromotes` |
| | `DeliveryTypeCorrect` | `Spec => []DeliveryTypeOK` |
| | `MessagesAreKept` | `Spec => []NoMessageLost` |
| | `RejectedContextsAreDropped` | `Spec => []RejectedContextUnused` |
| `InboundCommandsProofs` | `InboundTypeCorrect` | `Spec => []InboundTypeOK` |
| | `IntentsAreAuthorised` | `Spec => []IntentAuthorised` |
| | `RepliesAreTrue` | `Spec => []ReplyIsTrue` |
| | `SettledCommandsStay` | `Spec => SettledForever` |
| `GatewayProofs` | `GatewayTypeCorrect` | `Spec => []GatewayTypeOK` |
| | `LiveSessionsAreRegistered` | `Spec => []LiveIsRegistered` |
| | `RegisteredSessionsAreAuthorised` | `Spec => []RegisteredIsAuthorised` |
| | `AnswersAreFresh` | `Spec => NoStaleAnswer` |
| `EventInboxProofs` | `InboxTypeCorrect` | `Spec => []InboxTypeOK` |
| | `InboxImplementsLog` | `Spec => Log!LogSpec`: the inbox refines `EventLog` |
| | `NothingIsLost` | `Spec => []NoRecordLost` |
| | `EventsAreReadInOrder` | `Spec => []ReadInOrder` |
| | `ActivationIsCaughtUp` | `Spec => []ActivatedCaughtUp` |
| `AgentRunsProofs` | `RunsTypeCorrect` | `Spec => []RunsTypeOK` |
| | `NoticesAreTrue` | `Spec => []NoticesFollowRun` |
| | `EndsAreReported` | `Spec => []EndIsReported` |
| | `VerdictsStand` | `Spec => VerdictStands` |
| `DesktopDeliveryProofs` | `DesktopTypeCorrect` | `Spec => []DesktopTypeOK` |
| | `WorkerOwnsItsClaim` | `Spec => []WorkerOwnsClaim` |
| | `NoRequestUnderHold` | `Spec => NoSendUnderHold` |
| | `WithdrawnIsNeverSent` | `Spec => RevokedNeverSent` |

Four properties are proved and not in a run. `AcceptedWasDelivered` says that a row says
accepted only when the provider took its message, `TerminalForever` that a settled row
never reopens. `NoRecordLost` and `ReadInOrder` say of the inbox's files and cursor what
`ImplementsLog`, which the run checks, implies: a record that was skipped is a waiting event
that vanishes, one that is read twice an event that is stored and still waits.

**Assumptions.** Bounds and durations are naturals (some of them positive), the
notifications, policies and messages of a plan have the fields the code gives them, and the
value that stands for "no row" or "no claim" is none of the values a row or claim can
have (`NoneAssumption`). The messages of `WechatDelivery` and `InboundCommands` are
finite sequences (`Len(...) \in Nat` in their assumptions). One theorem has a
hypothesis of its own: `KeptLongEnough`, that both retention periods are at least
the longest time to live. It holds for the defaults (30 and 90 days);
`config.rs:321-324` admits an accepted retention from one day on, and with one
shorter than the time to live `StoredOnce` is false: a retried submission that is still
valid finds its row deleted and is stored again.

**Relay outbox.** `TypeOK` alone is not inductive: a completion reads the fields of the
claim a worker holds, and only the worker's program counter says that there is
one. `TypeInv` adds that (`WorkerOK`). `SafeInv` adds an invariant of single rows
(`RowInv`), one of single claims (`ClaimInv`) and `AcceptedWasDelivered`: a
completion is written from the worker's memory, so `ClaimInv` says
that the claim still describes the row as long as the row carries its token, and
that an outcome `Accepted` is held only for a row the provider took. The argument
has two halves. `StepRows`: whatever the action, each row makes one of five kinds
of step (stays, is staged, is claimed, leaves, is removed). Then each kind of step
preserves the invariant, and each is a step or a stutter of `DeliveryLifecycle`; that
half no longer mentions the actions, which keeps the proof small. For the lease,
`LeaseInv` relates the start of every pass that holds a claim to the row: a row
that was taken from it is claimed, or due, only more than the lease later. For
`StoredOnce` an invariant on times says that a row is created before it is updated and
expires at most `MaxTTL` after the clock reading it was accepted with, which is no later
than its creation, so retention deletes it only once its submission has expired. A retry
whose clock was read before that and which gets the write lock afterwards is stored
again, as a row that the next sweep expires; `StoredOnce` says no more than that.

**Result pages and receipts.** `PagesInv` says that the projected status is the one of the
current notice or, once retention has deleted that notice, a terminal one, that until a
page expires its body and first notice are there, whatever becomes of the device, and where
a revoked link can be.
`ReceiptsInv` adds the desktop: every receipt somebody holds is an
earlier answer of the server, and any two of them are ordered (`OrderInv`); a registered
resend that was not served is the one in the desktop's row and is about the current
notice (`OneOpen`); and the row names the notice the resend is about or the one it
created (`Pending`). Each step of the composition is a step of the pages or leaves
their variables alone, which is `ReceiptsImplementPages`.

**WeChat cutover.** Where a task stands in its code determines which mutexes it has asked
for, which it holds, and what its session and its staged secret are: `LocksInv`, the conjunction of
`LoginInv` for each login, `DiscInv` and `MonitorInv`. It needs no assumption on timing and holds for
any set of logins, finite or not. A mutex somebody is at has a holder, because the
sets of those who asked before are finite and strictly ordered by inclusion (`SomeHolder`, from the well-foundedness
of that order), and only one (`OneHolder`). `OnlyTheCircleDeadlocks` then is an analysis of who waits
for whom: in a set of parties of which each waits for another, somebody waits for a mutex, its holder is in the set
and its position says what it waits for in turn; every chain ends with a party
that waits for nothing, or closes as `Circle`. That the circle is not for good is `EveryoneFinishes`, which the
run checks. `ConnectionInv` says what the file, the runtime and the monitor
hold, by the position of the one party that has the cutover mutex: only between promotion and
start of the new monitor, and between the stop and the end of a disconnect, does the monitor's
credential differ from the runtime's. The file follows `truth` until a late write lands (`stray`) or
a disconnect is cut off after it began to clear (`torn`); a rename is left behind only when a
disconnect has told the monitor to stop, because a cutover stops it while the staged secret
holds the write lock, so no rename can have begun.

**WeChat delivery.** `Durable`: every cursor somebody holds (in the file, in the shared
state, in the monitor's hands) lies behind messages that have crossed the sink.
`Refused`: as long as the current bundle holds a token the provider has refused since it was
installed, the connection is deactivated, and a change of context is a new revision, so a sender that saw the connection
activated may take the bundle in a second acquisition of the mutex: only the
sender itself can cause a refusal in between. Installing a bundle starts with a clean slate, which is why the
theorem speaks of one installation (section 7). For the types, `LastMessage`
shows that a response with a context token has a last one, and `OutcomesSettle` that
`finish_claim` has a status for each outcome a send can return with.

**Inbound commands.** The invariant has a part for single commands (`RowOK`), one for
single confirmations (`ConfOK`), one for senders (`OneCredential`: at most one awaiting
confirmation) and one for the worker (`WorkerOK`: what it holds in memory still
describes the row it owns). The centre is the binding: a confirmation is bound once,
to one message, by the worker that owns that message's row, and the intent leaves only with
that binding. "Nothing was done" is answered only where no live binding
exists, so no later pass can make it false.

**Gateway.** `LiveInv`: a session about to tell another one to end holds the other's name
only until it has, and the administration holds a name exactly between the two halves of
`invalidate_device`. `LeaseInv`: a session that has read the device's row and whose fence is still the
registry's generation would be authorised if it registered now, and no fence is from the
future. `FlightInv`: a request in flight belongs to a session of the request's own
revision, so the caller's comparison of revisions catches every change in between.

**Event inbox.** `ContentInv`: the stored events and the lines behind the checkpointed cursor form
one ascending sequence that contains every written event. `CursorInv` says where the
cursor stands by how far the rotation has come: between the rename and its
checkpoint it names the quarantined segment, whose identity no new file
can get while the segment exists, so that recovery reads on in the right file from
each point of interruption. The refinement of `EventLog` follows from `ContentInv`: whatever file and cursor are
in place, `Waiting` is the set of events written and not stored (`WaitingIsUnstored`), so the steps of the
rotation and its recovery leave the queue alone, and the line behind the cursor is its oldest
event. A newer line is written and waits like any other, and nothing ever takes it out of the file (`NewerStays`:
the segment is rotated only at its end), so an event is sealed for good. `PhaseInv` says what each step of the source thread may rely on,
`CaughtUp` that the end of the file was seen before the finalizer is active.

**Agent runs.** `RowInv`: a row that was attempted or is being sent has been claimed, so the withdrawal
of attention notices never passes over a waiting one. `FollowInv`: a notice of an end exists only for an
authoritative, hence final, verdict; a notice of the finalizer bears a generation that was
reached, and the one a settling run is about to use is still free. `VerdictInv`: a completion is
inferred or authoritative, never definitive. `ReportInv` is `EndIsReported` of one run. Applying a policy moves
rows without making them claimable anew or withdrawing them with the run (`Carried`), as the worker does, so it
disturbs none of these.

**Desktop delivery.** `PauseInv`: a paused runtime whose pause has returned has no worker. `PolicyInv`: the
policy file is at most one commit ahead of the database, and then everything is paused and waits
for the projection; every other copy of the policy is the database's or older. `RevokedInv`: a withdrawn
row that is still open is one the projection of the file will cancel. While the file is ahead there
is no worker, which is why a withdrawn notice stays unsent through a save
interrupted between file and database.

**Corrections the proofs caused.** The precedence in `AgentRuns`' treatment of
attention-required events, and the order of checks in `Verdict` of `ResultReceipts` (a chain of checks as
in the source, where a `CASE` had left overlapping guards open). Without a change of meaning: explicit sets for what a
row, receipt, action or piece of work can be (`Rows`, `ReceiptType`, `ActType`, `Works`) and
the form of `Interrupted` in `InboundCommands`, and the mutexes of `WechatCutover`, which were sequences with
`SelectSeq` and are functions now (who holds a mutex, who waits and in which order is the same).

**Only model-checked.**

- Liveness under fairness, which the prover does not reach: `SettlesUnlessOrphaned`,
  `DesktopCatchesUp`, `EveryoneFinishes`, `ReactivationReleases`, `CommandsSettle`,
  `SegmentsErased`, `SettlingEnds`, `PolicyIsApplied`.
- That no event in front of the first unreadable line waits for ever, the second half of
  `ImplementsLog`, for the same reason.
- `StoredOnce` without `KeptLongEnough`, which is false (above).

## 7. What the models found

With a run (the quotation is in `PROJECT.json`, "findings"):

- `delivery_resumed`: after a failed cutover the old bundle is installed again under a new
  revision and with `activation_required` cleared (`service.rs:348`, `monitor/runtime.rs:154`), so
  the context the provider had refused is used again before any new message.

Observed while modelling and checking, without a run of their own:

- The monitor, told to stop by a disconnect, drops its save and with it the write lock
  (`wechat/monitor/poll.rs:290`), but the rename runs on in the blocking pool. The
  disconnect removes the file and reports success; the rename then brings the
  credential back, and the next start of the server finds it, although
  `wechat/login/service.rs:235` will not have a clean disconnect claimed of an uncertain
  deletion. This is `stray` in `DiskFollows`.
- The route's timeout drops a disconnect while the store's directory is synced. The file
  is gone and the monitor is empty, but `runtime.disconnect` (`service.rs:238`, under
  "Always remove secret-bearing process state") never runs: the runtime still has the
  credential and says "connected", and a cutover that fails afterwards starts the
  monitor with it. This is `torn` in `OneConnection`.
- A row in `sending_channel` whose process died is recovered only at startup and
  only when the claim is stale (`outbox/claim.rs:54`). A restart within the lease
  leaves it there until another restart, and the expiry sweep excludes it;
  `docs/integrations/wechat-relay.md:64` promises retries until expiry. This is the
  exception in `SettlesUnlessOrphaned`.
- A sender that saw the connection inactive blocks its row after the activation
  hook has run (`wechat/channel/mod.rs:128`); nothing releases it while the
  connection stays active. `ReactivationReleases` therefore speaks of connections
  that come back.
- `receipt_for` stamps an expired page with `page_expires_at`, a revision no write
  produced; a later write that reaches the same number gives another answer
  under the same revision, which the desktop refuses. `NewerNeverRefused` speaks of
  strictly newer answers.
- Disconnect holds the cutover mutex and waits for the staging gate; a stage writer
  holds the gate and waits for the store's lock; a staged login holds that lock and
  waits for the cutover mutex (`Circle`; it takes a first login that was cancelled while
  it staged, and a second that is already at the gate). The route's timeout ends it:
  the disconnect is dropped without having done anything, and must be asked for again.
- A rename left behind by a disconnect may also land after a later login was promoted,
  and a removal left behind by a cut-off one may remove that login's file.
- A retry of a submission whose clock was read just before its expiry and which waits for
  the write lock until retention has deleted the first row is stored again, already
  expired (`outbox/ingress.rs:63`). It is not sent.
- Event inbox: an envelope of a newer version stops the source for good, also for the
  older lines behind it and for the activation of the finalizer
  (`event_runtime/source.rs:334`); only an upgrade of the desktop lets it go on.
- Agent runs: a claimed notice is revoked when the settings cannot be read
  (`outbox.rs:2023`), and its dedupe key stays taken: the end it was to tell stays untold although
  the policy asks for it. `EndIsReported` counts it as taken back by the settings.
- Agent runs: a Stop that reaches a run which its quiet period has completed starts
  a new settle generation without withdrawing the "completed" notice of the
  earlier one, which start and output events do withdraw.
- Agent runs, desktop outbox: a row that is being sent escapes every withdrawal;
  the notice may go out after the event that made it false. The properties speak
  of rows no worker has claimed.
- Desktop outbox: a claim orphaned by a crash and a restart within five minutes
  stays in `sending` until a later recovery, and blocks a change of destination
  meanwhile (`guard_destination_change`).
- Desktop policy: `PolicyProcessor::process` (`desktop_runtime.rs:27`) marks the settings
  pending while the worker runs; the worker then cancels a claimed notice as
  revoked (`outbox.rs:2021`) although the new policy may allow it. `settings.rs:30` and
  `NotificationsView.vue:229` speak of pausing.
- `unblock_at` moves blocked rows to `retry_wait`, which `can_transition_to`
  (`relay-domain/src/lib.rs:229`) does not list; `DeliveryLifecycle!Released` adds it.
- `StoredOnce` depends on `accepted_days` being at least `MAX_TTL` (30 days). The
  default is equal; `config.rs:321` allows 1.
- Desktop: a revoke answer that is the first to show the resent notice leaves the
  resend wish in place, so the row is polled for good.
- A failed cutover releases the cutover mutex before `finish_cutover` resets
  `cutover_committing` (`qr.rs:499` has a `debug_assert` near this).
- After a clear that failed ("unreadable", `service.rs:235`), a later failed login's
  `restore_safe_status` shows `disconnected` although the file is still there.
- Inbound: `prepare_control_dispatch_at` does not look at `dispatch_state`, so a code that
  was accepted before a newer prompt replaced its credential still dispatches the
  older intent, while `repository.rs:558` says that replacing invalidates it.
- Inbound: `retention.rs:303` deletes recorded outcomes of confirmations whose command
  has not been answered; the owner then reads that nothing was found although
  the run started (excepted in `ReplyIsTrue`).
- Inbound: a prompt made in the last two minutes of a command's life outlives it;
  `queue_reply_with_confirmation_at` answers with an error, which ends the worker and with
  it the server (action `ReplyRefused`).
- Inbound: a repeated delivery of a wrong code counts as another attempt.
- Inbound: a control request that keeps timing out is due again at once (the retry is
  computed from the time before the request) and keeps newer commands waiting
  until it expires.
- `docs/architecture/README.md:66` speaks of a single-use token; the page can be
  read again. `wechat-relay.md` names states `pending` and `delivered` that the code
  does not have.

## 8. What is not modelled

- Encryption, hashing, token generation, parsing and rendering of messages: values
  are atoms, and codes are named after the confirmation they belong to.
- SQLite's own durability and the HTTP and iLink protocols: a transaction commits
  or not, a call answers, fails or is lost.
- The selection tables behind list and select commands (`inbound/repository.rs`,
  `replace_selection_at` to `selection_entry_at`): such a command gets some reply.
  Deleting settled commands after days, and dead-lettering of commands another
  build wrote.
- QR refresh, verification codes and the provider's login answers; the grants for
  logins started by an administrator, which no production path consumes.
- Notification bundles (`outbox/bundles.rs`): their HTTP route is retired, only the
  clean-up of old rows is left.
- Clock readings that lag behind the write lock, other than those of the submissions and
  of the result pages: elsewhere the clock is the one of the commit.
- The upgrade of the desktop that can read envelopes of a newer version; protected
  content that cannot be unprotected is a failed read that is tried again.
- In `AgentRuns` the quiet period is the one of one policy, and rows are not pruned
  (`prune_retained`, `outbox.rs:510`), which only removes rows that are long settled.
- Several results, accounts, devices or runs at once: each module has one, because
  nothing in the code relates two of them except the queues.
- Rate limits, heartbeats and the encoding of gateway frames; the identity merging,
  titles and quota look-ups of agent runs; the desktop's retention of old runs.
- The hook installer (edits of other programs' configuration files), pairing and
  profile storage of the desktop, its application shell, launchers and quota
  reader, the HTTP layer of the server, the administration's listings and audit
  log, both user interfaces, deployment. They are sequential, request-local or
  presentation; the map in `PROJECT.json` covers the concurrent core, not them.

## 9. Plan

The modules of section 2 were written in the order of that table: first the path of
a notification on the server, then results and the WeChat connection, then
commands, the gateway, and the desktop from its inbox to its outbox.

Worth modelling next: the selection tables of inbound commands (a start prompt
names a preset that the named device offered for exactly the named runtime,
workspace and profile; a run slot means the page the owner was last sent), and a
plan with two prompts in `InboundCommands` for the replaced credential above.

With them comes the next theorem worth proving: that a prompt names what its device
offered. Of the models as they are, every safety property that a run checks is proved.
