# A TLA+ verification of PAIMOS AEON's coordination code

PAIMOS AEON is a Go server over PostgreSQL, a daemon (`aeon-agentd`) that owns
native agent processes on a person's computer, a command line and a web
client. Most of its 400 kLOC are tenant-scoped CRUD in SQL transactions. The
parts this project is about are the ones where several goroutines, processes,
replicas or crashes meet, and where a test reaches only the schedules its
author thought of.

* [Inventory](#inventory) – the system's parts, their state and what is hard in them
* [Modules](#modules) – what is modelled, and how it corresponds to the code
* [Runs](#runs) – what TLC checks, the bounds, the fairness
* [Proofs](#proofs) – what TLAPS proves for every value of the constants
* [Disagreements](#disagreements) – where the code and its own comments differ
* [Not modelled](#not-modelled) and [Plan](#plan)

Paths below are relative to `src/internal/` unless they begin with `src/`.

## Inventory

| component | state it keeps | operations | talks to | what is hard |
|---|---|---|---|---|
| `nativedrain` | admission flag, launches in flight, one attempt, per-session status | `WithAdmission`, `Begin`, `Drain`, `Status` | the supervisor through `Runtime` | a launch racing the drain; a caller that times out while its worker is inside a call; a retry beside an abandoned worker |
| `nativerecovery` | one decision journal per conversation, a poison flag | `Reconcile`, `Resume` | the supervisor through `Runtime`, `nativereceipts` | a crash between deciding and forking; ambiguous writes; effects of a dying writer; reclaiming bounded storage |
| `localjournal` | a checkpoint file and an append journal | `Open`, `Put`, `Delete`, `Decode` | the file system | every pair of old and new files a power loss can leave; torn appends; up- and downgrades |
| `db/pool.go` | background slots, held connections, gauges | acquire and release tracer, `WithConnection`, `Acquire` | `pgxpool` | leaking a slot on a failing path; nested acquisition; starvation of foreground work |
| `db/listeners.go` | one hub per channel with its subscribers and session | `SubscribeNotifications`, `WaitForNotification`, `Close`, `CloseNotificationConnections` | PostgreSQL `LISTEN` | lost wake-ups over reconnects and full mailboxes; last close racing a new subscriber; shutdown |
| `db/subscription_admission.go` | one session per replica, leases, advisory locks | `AdmitSubscription`, `Check`, `Close` | PostgreSQL advisory locks, other replicas | reentrant locks; a lost session with active leases; shutdown racing an admit |
| `events` writer (`writer.go`, migration 0101) | the tenant's log and its counter row | `Append` in the caller's transaction | every mutation of the server | ids that commit out of order |
| `events/subscribe.go` | cursor, boundary, page | the subscription handler | the log, the hub, admission | a lossless resume over cut pages, two reads, lost hints and reconnects |
| `events/stream.go`, `position.go`, `retention.go` | browser stream cursors, settled positions, deletion marks | handlers, middleware, a sweep | the log | the `resumed: false` cut-off; positions observed before commit |
| `nativereceipts` with its users in `nativeintegration/delivery` and `agentd` | per session a journal of operations, each with its states and what of them was reported | accept, begin, acknowledge, stop, report, retire, release, recover | the native process, the server's receipts repository | a crash between marker, write and acknowledgement; a lost answer to a report; a journal, a page or a flush at its limit |
| `nativestream`, `nativeadmission`, `nativequota` | bounded buffers, admitted accounts | daemon-side state machines | the server | buffers at their limit |
| `agentd` | owned processes, leases, ledger | supervision loops | all of the above, the server | its size: 31 kLOC, modelled in slices as the environment of the modules above |
| `inbox` with the drain of `harness/delivery.go` | messages, receipts, deliveries with leases, cursors, drain leases | send, page read, ack, cancel, adapter claim and completion, managed drain, session close, a sweeper | adapters, daemons, PostgreSQL | a message taken, read, failed and withdrawn at once; late completions; retries at the cap; a sweeper that acts on what it selected earlier |
| `harness`, `agentruns`, `agentpairing`, `approvals`, `questions`, `routine*`, `recurrences`, `embedding` | rows with a status column | handlers and workers with claim, lease and retry | PostgreSQL, daemons | two claimers, late acknowledgements, expiry |
| goals, work orders, capacity, cross review, authorization, migrations, web, CLI | rows, calculations, views | CRUD | PostgreSQL, GitHub | little coordination of their own |

What makes each modelled part correct is stated as properties in its module;
the hazards behind them, each at the line where it bites, are in
`PROJECT.json`.

How the parts interact: a request or a worker acquires a connection
(`PoolAdmission`), appends to the tenant's log in its transaction
(`EventLog`), and the commit's `NOTIFY` reaches the hub of the replica
(`NotificationHub`), which wakes the subscription handlers
(`SubscriptionStream`) that were admitted across replicas
(`SubscriptionAdmission`). On the daemon's side a conversation's writer is
closed for an upgrade by `NativeDrain`, continued after a loss by
`NativeRecovery`, and run records are kept in `LocalJournal`. While it lives,
each input, keystroke and stop passes through `NativeReceipts`: it is journaled
before the process is touched, and what became of it is reported to the server,
at the latest by the next poll. What agents and
people send each other passes through `InboxDelivery`, whose managed drain is
called by the daemon's sessions.

## Modules

Each component has one module; where a cfg cannot write the values TLC needs
(function-valued constants, symmetry sets), `MC<module>.tla` defines them. Operators whose
comment begins with "Mutant of" are the deliberate bugs that show that a
property can fail; no action uses them.

### NativeDrain (`nativedrain/drain.go`)

State: `closed`, `launching`, `state`, `reason`, `flushed`, `running` are the
coordinator's fields; `callerDone`, `workerDone`, `late`, `cancelled`,
`abandoned` belong to the current attempt; `caller` and `worker` are program
counters of the `Drain` goroutines and of the attempt goroutine; `sess` is
`c.sessions`. `live`, `registry`, `busy`, `quiesced` are the supervisor behind
the `Runtime` port (external).

Each critical section of the code is one action; each `Runtime` call is one
action with all outcomes its contract allows, so a caller's timer or context
can end between any two of them. `Drain` is `DrainBegin`, then one of
`DrainRefused`, `DrainAlreadyReady`, `DrainStart`; the select is `CallerDone` or
`CallerGivesUp`; the deferred function is `CallerLeaves`. The worker walks
`WorkerStart`, `WorkerCollect`, `CloseSession` and the four steps of a close, and
the flush. `CallerGivesUp` takes `cancel()` and `deferAttempt` together: the worker sees
the cancelled context only at its next call, and nothing between the two can be seen.

Properties: `ReadyMeansQuiet` (the status never says ready while a launch is in
flight, a writer lives, or a recorded session is not checkpointed and
flushed), `NoLateReadiness` (an attempt its caller abandoned publishes nothing),
`SuccessIsLasting`, `OnlyIdleWritersClosed`, and `DrainReturns` (liveness).

### NativeRecovery (`nativerecovery/*.go`, `agentd/native_recovery.go`)

State: `file` and `disk` are the decision journals as a reader sees them and as
a power loss leaves them; `call` is the `Resume` in progress with its locals;
`poisoned` is the coordinator's flag. The owner's world is external: the binding
revision `cur`, its `grant`, living processes `proc`, the ledger's `occupied`, the
`callbacks` that still answer, uncertain `effects`.

A call holds the writer's fence and `recovery.lock`, so calls do not interleave;
everything else does. `Resume` is cut at every point where the world can
change: `ReadState`, `Settle`, `Prepare`, `SaveIntent`, `Recheck`, the attempt,
`SaveComplete`. `Fail` is any refusal, port error or deadline. A failing save
leaves the old or the new journal in either view (`SaveAmbiguous`). The host
opens a fresh coordinator per request, so poison does not carry over
(`NewCoordinator`). An attempt may fork without being able to confirm it
(`AttemptUncertain`).

Properties: `RequestForksOnce`, `OneWriter`, `OneRestartPerGrant`,
`ForksReconciled`, `OldCallbacksExpired`. A request is identified with the
binding it expects, as the code's digest does: after its journal was reclaimed
a request id may be used again, for another binding.

### LocalJournal (`localjournal/journal.go`)

State: the records in memory, both files, and for each file the set of
*images* a power loss may leave. A write adds an image, an fsync (of the file,
or of the directory for a rename) leaves one. `may` is a history variable: the
values a recovery may show for a key, i.e. the last acknowledged one and those
of mutations that failed or were interrupted since. `dirty` records that since
the last reset an append failed half-way, or an `Open` failed or was killed
between the truncation of the journal and its fsync (`OpenResets`).

Actions follow the calls in the code: append, fsync, checkpoint rename,
directory fsync, truncate, fsync; each may fail (`CallFails`), and `Kill` and
`PowerLoss` happen anywhere. `Open(v)` is a daemon of schema version v, so
upgrades and downgrades are sequences of opens. A daemon of version v reads every version
up to its own: the code needs a migration from each older one (`journal.go:183`), and
`Supported` assumes that they are all registered. Reading is the operator
`Recovery`, which also stands for the read-only `Decode`.

Properties: `AckedSurvives`, `CrashIsReadable`, `NewerSchemaUntouched`.

### NotificationHub (`db/listeners.go`)

One channel. `listeners` is the map's entry, `pc` the run goroutine of each hub
ever created (hubs are numbered), `closing`, `ready`, `members`, `wake` their
fields; `session`, `broken`, `inflight` are PostgreSQL (external). `due` is a
history variable: events an active subscriber has not learned of. `heard` holds
the subscribers during whose call or life the hub LISTENed.

Every critical section of `listenerMu` is one step, so what `CloseAlwaysReturns` shows
is that the waits, which hold no lock, come to an end; a lock kept across a wait
could not be expressed. `ShutdownReturns` waits for every hub rather than for those the code
has captured: after the shutdown no hub is added and at most one runs. `Close`'s
early return when its context ends is left out, since the hub goes on closing
without its caller.

Properties: `EventsCovered` (no lost wake-up), `OneBackend`, `ShutdownIsFinal`,
`EventsReachSubscribers` and `CloseAlwaysReturns` (liveness), and
`ReturnsOnlyListening`, which the code's comment promises and the code does not keep.

### EventLog, SubscriptionStream and LosslessReader (`events/writer.go`, migration 0101, `events/subscribe.go`)

`EventLog` is the tenant's log: committed rows, the counter, and each writer's
uncommitted rows. The trigger's `UPDATE event_counters` holds the row until the
transaction ends: `Append` is enabled only for the one writer that has the lock.
`SubscriptionStream` extends it with the handler's variables `after`, `newest`,
`items`, `through`, the mailbox, and the client's Last-Event-ID `cursor`. The
page is read in two transactions (`ReadTopics`, `ReadPlans`), each with its own
limit, then merged, filtered and capped. The hub appears by its contract:
hints may be replaced by a resync (`HubOverflow`, `HubDown`, `HubUp`). Rows whose
topic the key may not read have the kind "denied" and are dropped after the cut,
as in the code. `Disconnect` stands for every early return of the handler.

`LosslessReader` is the abstract specification: a log that only grows at its end,
and for each client a position and the events it has. A client joins somewhere, and when
its position moves, it moves forward and takes exactly the readable events it
passes. Connections, pages, hints and transactions do not appear in it.

Properties: `ReadsLikeALog` is the refinement, with the committed log, its newest
id and the clients' cursors as log, top and positions; frames that do not move
the cursor past an event are stutters. `NoLostWakeup`: the newest position is read in one step
and the wait begins several later, and still whatever is committed in between leaves a
hint that ends the wait. Also `NoGap`, `InOrderOnce` and `CatchesUp` (liveness).

### SubscriptionAdmission (`db/subscription_admission.go`, limiter of `events/subscribe.go`)

Per replica: mutex, session, lifetime flag, leases, shutdown flags. Per stream:
where its handler is, the slot it tries, its lease. PostgreSQL's sessions and
locks are external; the server ends a session at any time, and ends a closed
one some time later, so locks of a replaced session linger. `AdmitSubscription`
keeps the mutex through its queries: it is several actions because the server,
the lifetime and other replicas move between them.

Properties: `TwoPerKey`, `DroppedAreEnded`, `SessionHasLease`.

### PoolAdmission (`db/pool.go`)

`slots`, `held`, `waiting` are the monitor's; `at`, `permit`, `done`, `got`, `sess`
belong to each goroutine's acquisition and context. `pgxpool` is external:
granting, failing and taking back connections.

Properties: `PermitsExact`, `ForegroundHeadroom`, `RequestsServed`.

### DeliveryGuarantee and InboxDelivery (`inbox/*.go`, `harness/delivery.go`, `harness/module.go`)

`DeliveryGuarantee` is the abstract specification, with two variables: what
became of each message (`outcome`) and which messages somebody has been shown
(`shown`). A message is unsent, refused at once, open, delivered, told (its
sender has a failure notice) or withdrawn. A settled outcome is final, only an
open message is shown, delivered, told or withdrawn, and only one nobody has
seen can be withdrawn.

`InboxDelivery` is the code. Its variables are the columns that decide: of
`inbox_messages` (`acked`, `fetched`, `hidden` for an elapsed `expires_at`,
`cancelled`, `picked`), `inbox_receipts` (`receipt`, `reason`, `due`),
`inbox_message_deliveries` (`delivery`, `target`, `token`, `attempts`, `live` for
an unexpired lease), `harness_deliveries` (`drain`: leased, stale after its
lease time, completed, released), the adapters' `cursor`s, and the number of
System notices per message. `exposed` is a history variable. The actions are
transactions: `Send`, `Refuse`, `Ack`, `Cancel`; the recipient's page read,
which selects in one step (`SelectPage`) and locks and rechecks in a second
(`HandOver`); the adapters' `Claim`, `ClaimFails`, `Complete`, `Unavailable`,
`AttemptFails`, `AttemptFailsForGood`; the managed drain (`Drain`,
`DrainConfirms`, `DrainGivesUp`) and `CloseGeneration`; the sweeper's two
selects, one transaction per candidate (`SweepOne`), and its death. A lease's
token may be presented at any later time, so a late or repeated completion is
always possible. `Fail` is `failMessageAt` with its notice, `CanFail` its guards.
The fence (`attachedmsg.Lock`) and `SKIP LOCKED` appear as guards.

`KeepsGuarantee` is the refinement: the inbox implements `DeliveryGuarantee`
under the mapping `Outcome`, which reads a message's receipt, acknowledgement,
expiry and notices together: a combination that means two things at once (a
notice about an acknowledged message, say) maps to no abstract outcome.
Other properties: `DrainNeverStuck` (the drain's INSERT never meets a released
row of its session), `CursorSkipsNothing` (an adapter's cursor never passes an
unsettled message) and `Settled` (liveness).

### NativeReceipts (`nativereceipts/*.go`, `nativeintegration/delivery/*.go`, `agentd/native_session.go`, `agentd/native_control.go`, `nativesessions/receipts/*.go`)

One owned session, structured (inputs and a stop) or terminal (keystrokes and a
stop). `mem` is the journal in memory: an entry is an operation, the log of its
states and how many of them the server has acknowledged. `images` is what
`receipts.json` may hold after a crash, `store` whether the handle is open,
poisoned by a failed save, or down; `recovered` is `recoveredInputs`. `live`,
`events`, `refused`, `released` are the daemon's record of the
session; `offered` the keystrokes the terminal's client has sent; `proc` and `turn` the process and how far it has told of an input;
`known`, `stopped`, `consent` the server. `writes` and `mine` are history
variables: how often an operation was really written, and which were written
since the journal was opened.

`th` holds the places of two goroutines. The owner is whoever has `opMu`: a poll, a
command, a terminal operation. The reader takes the provider's events. The
other locks are read off the places: `HoldsDelivery` is `Delivery.mu`, `HoldsEvents`
is `eventMu`. A command is `Command` or `PTYOperation` (to the end of `Accept`),
`Begin`, `Write`, `Settle`, with `Unsure` and `Reject` on the failing paths. A flush
is `Report` (the attempt saved, then the server's answer or its loss) and `Ack`,
repeated; `Finish` is what each kind of caller does with the result, down to
`Retire` and `Release`. A poll is `PollStart`, `Reconcile`, `PollEvents`, `Observe`.
`Crash` happens at any point and `Reopen` reads any image.

The server commits a report's receipt and, for an exit, stops the harness session in a
second transaction (`ServerRecords`, `ServerStops`). The second may fail: the report
is then answered with an error although the receipt is there, and the next flush
reports it again.

Assumptions about the environment:

* A keystroke is sent once. The daemon keeps no record of it and would take a repeated
  request: `Accept` finds its entry, and after its retirement the terminal's sequence
  refuses it (`nativepty/takeover.go:640`). `PTYOperation` excludes repeats with `offered` because
  the repository's client gives each keystroke a fresh request id and gives up the
  terminal on any error (`nativepty/client.go:263`).
* `StopSettles` assumes that the server goes on taking the reports of a stop: the
  daemon's pairing is not revoked (`receipts/current.go:87`) and the owner keeps the
  permission to read the project (`receipts/repository.go:172`). A report refused for one of these would be
  refused for ever.

Abstractions: deadlines, evidence digests and authority checks may fail whenever the
code makes them. `Report` chooses the entry and takes the answer in one step; that is
sound because one goroutine flushes at a time, which `OneFlusher` states of the locks and
of the count the flush finds after its answer. `Command` stands for commands of the socket and for those a poll
fetches. Withdrawn consent is found by a report. `ProcessExits` happens only where
some step can see it. A reopened session keeps its binding and its process, as
`TestCrashBeforeNativeAckHoldsInputAndReplaysOnlyMetadata` does; a daemon of a new
generation leaves restored entries inert, so the model does more than that daemon.

Properties: `ReceiptsHonest` (at most one write per operation, and no journal and
no server ever says more or less than what happened), `Agrees` (`CopiesAgree`: journal
and server differ by at most the report in flight; `OneFlusher`: one goroutine flushes
at a time, and the report that was answered is still the one its entry owes; each part has a
mutant of its own, a journal that forgets unreported keystrokes and a missing `eventMu`), `ReleasedIsExited` (a hold is given back
only for a process that is gone, and every journal a restart may read has the
exit), `ExitReportedFirst` (the release starts after the server's stop, or after a flush
that made all the reports it may), `StopHasRoom`, and `StopSettles` (liveness).

## Runs

All bounds are constants with a name; small values suffice because the code
treats members of these sets alike and every limit is reached inside the bounds.

| run | cfg | checks | instance, and why it is enough |
|---|---|---|---|
| `drain` | NativeDrain | safety of the drain, and that every `Drain` returns | 1 launcher, 2 callers, 1 session: a launch racing the drain, a retry beside an abandoned worker, a reopened session. The safety properties are proved for any number of sessions |
| `recovery` | MCNativeRecovery | forks, writers, effects | 1 conversation, 3 requests against 2 attempts, 2 grants with different windows, 3 revisions, 1 operation. Proved for any of these |
| `recovery_reclaim` | MCNativeReclaim | reclaiming forgets no spent restart | 2 conversations in a directory of 1, up to 4 revisions. Proved for any of these |
| `journal` | MCLocalJournal | crash consistency | 2 keys, 2 values, 2 schema versions, a limit of 1 record and 2 lines, 4 faults: enough for a torn append, a failed reset and a power loss in one history, and for the stale journal under [Disagreements](#disagreements). Proved for any of these |
| `hub` | MCNotificationHub | no lost wake-up, events arrive, `Close` returns | 2 subscribers, one of a tenant and one of all, 2 events of 2 tenants, mailboxes of 1, a replacement hub. The invariants are proved for any capacity and any numbers |
| `hub_listen` | MCNotificationHubListen | a comment of the code, expected to fail | 1 event, 1 hub |
| `subscription` | SubscriptionStream | lossless, ordered resume (refinement of the log reader), no lost wake-up; the stream catches up on hints alone | 2 writers, 3 events of 4 kinds, pages of 1: both reads are cut and the merge is capped. The safety properties are proved for any log and page size |
| `admission` | MCSubscriptionAdmission | two streams per key over replicas | 2 streams of a key on one replica and a third on another: one too many, refused only by the locks; 3 server sessions, so that a replaced one lingers. The local limiter's counts are reached but never refuse here. Proved for any replicas, streams and sessions |
| `pool` | PoolAdmission | exact slots, foreground reserve; a request is served with all workers stuck | 2 workers for 1 slot, 2 requests, 2 connections, reserve 1: every limit is reached, and acquisitions nest. The safety properties are proved for any numbers |
| `inbox` | MCInboxDelivery | the delivery guarantee (refinement), the drain, the cursors, the attempt cap; a message past its deadline is settled | 2 messages in 4 mixes of the 7 kinds: two of an address's queue, two of a session (a page or a close that takes both), a pull message beside a push. 2 attempts under both caps, so a retry and the refusal at the cap happen. The safety properties are proved for any number of messages of any kinds |
| `receipts` | NativeReceipts | one write per operation, honest receipts, agreement with the server, one flusher, a release only after the exit, and a stop that is settled by polls alone | 1 input or 2 keystrokes and a stop in a journal of 2 entries: both reserve and limit refuse; no retained history, so retirement happens; a flush of at most 4 reports, fewer than a full journal can owe, so the limit ends one; 1 fault, at any save, call, release or a crash, and what a poisoned journal brings with it. The safety properties are proved for any operations, limits and faults |
| `receipts_page` | NativeReceiptsPage | a comment of the code, expected to fail | 1 input and a stop in pages of 1 entry, no fault |

The type invariant of `inbox` is checked in its run, because it holds the attempt
cap. Those of `drain` and `hub` are proved (`DrainTypeOK`, `HubTypeOK`), and the
other proofs carry the types inside their inductive invariant.

Deadlock is checked except in `journal` and the `hub` runs, where the bound on
faults or on the number of hubs lets a history simply end, in `inbox`, which
ends when all its messages are settled, and in the `receipts` runs, which end
when the session is released.

Symmetry is used only in `journal`, `admission` and the recovery runs, which
check no liveness, over sets whose members no definition tells apart.

Fairness, and why the code justifies it:

* `drain`: the deadline passes (a timer is armed), and a caller whose select
  has a ready case or who is leaving takes its step. Nothing is assumed of the
  worker: a runtime call may hang for ever, and `Drain` must return all the same.
* `hub`: the run goroutine is scheduled; connecting has a timeout of ten
  seconds, the pause of one; a wait on a dead or cancelled session ends with an error;
  queued hints are received; consumers handle what they are handed. Nothing is
  assumed of the success of a connect.
* `subscription`: a handler runs, the hub reconnects, a hint in the mailbox
  is taken. No fairness for the heartbeat: hints alone must suffice.
* `pool`: `pgxpool` queues waiters and serves them in order (strong fairness of
  a grant), a cancelled wait ends, callbacks return. Only requests give their
  connection back; workers may keep theirs for ever.
* `inbox`: a reader's transaction ends and leases run out (weak fairness of
  clocks and of one transaction). The sweeper is strongly fair: `Run` repeats its
  pass on a ticker under an advisory lock that the next process takes over, so
  a pass is completed again and again, although any single one may die. Nothing
  is assumed of senders, recipients, adapters or the drain.
* `receipts`: a goroutine that holds its locks goes on (every call has a
  timeout). The poll's ticker fires again and again and a Go mutex hands itself
  to a waiter it has starved, and `Delivery.mu` is a channel that serves its
  senders in turn: strong fairness of a poll's start and of the reader. Nothing
  is assumed of people, of the process, or of a restart.

## Proofs

`NativeDrainProofs` proves, for any sets of launchers, callers and sessions and
any inventory limit, from the assumptions that the sessions are finite and the
limit is a natural number:

* `DrainTypeOK` – the type invariant, inductive by itself.
* `DrainReadyMeansQuiet` – `ReadyMeansQuiet` is not inductive: being ready is the
  end of a long walk of the worker. `ReadyInv` adds three parts. `Admission`: once
  the worker has listed the inventory, admission is closed and no launch is in
  flight. It stays so, because `Begin` precedes every attempt and `Admit` tests
  the flag. `Inventory`: from then on every live writer is registered
  and has an entry. `Progress`: while the loop runs, what it has visited without an
  error is checkpointed, a checkpointed session has no writer, and an attempt
  without an error reaches the flush only with nothing left to do. Each part
  has its own lemma with one step per action that can disturb it.
* `DrainNoLateReadiness` – from the type invariant and the exclusion of a second
  attempt until the abandoned one's worker is done.
* `DrainSuccessIsLasting` – adds `CallInv`, which ties a caller inside `Drain` to the
  single running attempt, so that nobody can leave ready behind another's back.
* `DrainOnlyIdleWritersClosed` – the action property. `Fenced`: what the worker is
  about to close is quiesced and idle. Only a launch lifts a fence, and `Inventory`
  says that none is in flight.

`NotificationHubProofs` proves, for any sets of subscribers, events and tenants,
any positive mailbox capacity, any subscription limit and any number of hub
generations, from the assumption that the resync hint is not an event:

* `HubTypeOK` – types, and the bound on mailboxes, from `Typed`, which is the type
  invariant with mailboxes as sequences. Its lemmas say what `publish` does: the
  hint or a resync is in the mailbox afterwards, and what was told stays told.
* `HubOneBackend`, `HubShutdownIsFinal` – from `Lifecycle`: the map's entry is exactly
  the hub whose goroutine runs, and a backend is open exactly from its LISTEN
  to the end of its wait. Neither property is inductive without it: a new hub is
  created by looking at the map, not at sessions.
* `HubEventsCovered` – `EventsCovered` needs two more facts. `Membership`: a subscriber is a
  member of a hub that exists. `Returned`: an active subscriber's hub has
  connected once, so its next connect rescans, and everything it waits for is
  addressed to it. The step is split by who moves: a subscriber, a hub, PostgreSQL.

`InboxDeliveryProofs` proves, for any number of messages, any mixes of kinds and
any positive caps:

* `InboxKeepsGuarantee` – the refinement. `Outcome` may only be read in states
  where a message's columns agree, so the step needs `IInv`: `Shape`, and for
  each message `MessageOk`, which ties the columns of the five tables to each
  other. `UnsentOk`: an unsent message has no trace anywhere. `QueuedOk`: a queued
  one is not acknowledged and has no notice. `HandedOffOk`: one handed off is
  acknowledged, has no notice, and its delivery is neither pending nor blocked.
  `FailedOk`: a failed one is hidden and not acknowledged, nobody holds it, and it has
  a reason and exactly the notice that reason calls for. `TokenOk`: only kinds that
  adapters take hold a lease token. `ExposedOk`: what was shown was marked fetched. Each action then maps to a step of
  `DeliveryGuarantee` or to a stutter; the session's close maps to one `Tell` of
  the set of its messages.
* `InboxTypes` – the type invariant, from `TInv`. The attempt cap in it is not
  local: a claim adds an attempt when failing a spent message is refused, so the
  proof needs that a claimable message can always be failed, which is `IInv`.
* `InboxDrainNeverStuck` – from `DInv`: in a running session a released drain
  row belongs to a message that can no longer be read, because release happens
  only together with a failure or a confirmation.
* `InboxCursorSkipsNothing` – from `OInv`: messages are sent in the order of their
  numbers, and everything of the address before the head of the queue is settled.

`DaemonRestartProofs` holds the proofs about what a daemon finds when it comes
back, `NativeRecovery` and `LocalJournal`. Of `NativeRecovery` it
proves, for any conversations, requests, operations and
grants, any windows, and any limits on attempts, journals and revisions, from the
assumptions that windows lie within the clock's range and limits are natural
numbers:

* `RecoveryInductive` – `IInv`. The properties speak of history (`forks`,
  `restarts`); what forbids a second fork is in the journal, so most parts tie
  history to it. `ForksPast`: a request that has forked expects a binding that has
  moved on, or is still unconfirmed in both views of the journal, so no power loss can
  forget it. `Fresh`: a call past its first read has not forked, its request is
  unconfirmed in both views before the launch, and the launch moves the binding.
  `RestartsPast` and `FirstRestart` are the same for a grant's one restart, with
  the time until which an attempt is retained: reclaiming may drop it only after
  the window. `PastFence`: past the fence the conversation has neither writer nor
  callback. `Reconciled`: the effects at the launch are among those the call has
  seen. `Writers`: one process, counted by the ledger.
* `RecoveryOneWriter`, `RecoveryRequestForksOnce`, `RecoveryOneRestartPerGrant`,
  `RecoveryOldCallbacksExpired` – invariants, each a consequence of `IInv`.
* `RecoveryForksReconciled` – the action property: it follows from `Reconciled`
  at the step that launches.

Of `LocalJournal` it proves, for any keys and values, any number of schema
versions, any limits and any number of failing calls, kills and power losses,
from the assumptions that the key of a line that is no entry is no key and that
the limits are natural numbers:

* `JournalAckedSurvives` – from `Known`: no image of either file, no record in
  memory and no mutation under way holds a value that `may` does not name. It survives the
  moment `may` is narrowed because of `Ordered`: when the journal's reset is durable,
  the only checkpoint a crash can leave is the one with the records in memory.
  What a replay shows is either the checkpoint's value or that of a line (`OverTouched`);
  the last line on a key exists because a bounded set of line numbers has a greatest
  one, which needs no induction.
* `JournalCrashIsReadable` – the hard part is that *every* pair of an older or newer checkpoint and an
  older or newer journal must keep the record limit. `Agreed`: with the current
  journal, all checkpoints a crash can leave give the same records. `Stale`:
  between two mutations, a journal that a crash can bring back changes nothing, so after
  one more mutation it can at most undo that one (`OverStale`). `PairsFit`
  follows for every pair, and for the checkpoint that is written next. `WithinLimit`
  holds of memory and checkpoints also after a failed append, so that the
  next reset is clean again.
* `JournalNewerSchemaUntouched` – the action property, from `NotNewer`: a running
  daemon has accepted or written every version in its files.

`SubscriptionStreamProofs` proves, for any writers, clients and log and any positive
page size, from the assumption that the "latest" cursor is not a position:

* `StreamInductive` – `IInv`. `LogOk`: committed ids do not exceed the counter,
  and the uncommitted rows of the one lock holder follow it. From it comes the lemma everything rests
  on: a commit adds rows only after the ones a reader may have seen. Then, for each client:
  `Standing` (where cursor, `after`, `newest` and `last` stand to each
  other at each label of the handler; only between the frames of a page is the
  client ahead of the handler), `PageOk` (what is in the page after one read, after both, and
  while frames are sent), `Gapless`. The lemmas `ReadPage` and `PageWhole` say what a
  cut page is good for: it holds all rows up to its end.
* `StreamNoGap` – from `Gapless`; `StreamInOrderOnce` – the action property, from
  `PageOk`: what is still to be sent lies after the cursor.
* `StreamNoLostWakeup` – from `HInv` (`StreamHints`). `NoLostWakeup` speaks of a waiting
  stream, but the danger is earlier: `Woken` says it from the read of the newest
  position on, through the two page reads and the frames, because a commit in
  between finds a subscriber that does not wait yet. `Held`: a transaction that has the counter
  row has a row of its own, so a commit moves the newest position to one of the
  ids it notifies.
* `StreamReadsLikeALog` – the refinement. A commit is a `Grow`, with the lemma above;
  a client without a position takes its first one when the stream is ready (`Join`);
  a frame is an `Advance`. That a frame's item is the *only* readable event
  between the old cursor and the new one needs `PageOk` and `Gapless`, and that a
  page holds nothing else is `Wanted`.

`SubscriptionAdmissionProofs` proves, for any replicas, keys, streams and server
sessions, from the assumptions that every stream has a home and a key, "none" is
no session and no stream, and the local limit is positive:

* `AdmissionTwoPerKey` – the local limiter does not count what other replicas admit, so this
  rests on the locks. `Locked`: while the server has a replica's session, the
  session holds the lock each lease stands for. It needs `OwnSession` (replicas
  never share a session), `Registered` (leases of a replica stand for different
  locks of the stream's own key), `HasSession` and `Mutex` (a handler that tries
  locks is the one inside `AdmitSubscription`). Two locks per key do the rest.
* `AdmissionDroppedAreEnded` – itself a part of the invariant.
* `AdmissionSessionHasLease` – from `Needed`: a session outlives its last lease
  only under the mutex, and `Drained`.

`PoolAdmissionProofs` proves, for any workers and requests, any finite number of
connections and any reserve below it, from the assumptions that workers are not
requests and "no connection" is none:

* `PoolPermitsExact` – `IInv` is `Counted`, the slots in use are the acquisitions in
  flight with a permit and the held connections, and `Owners`, which makes counting
  possible: a connection has one owner (`OneOwner`, `HasConn`), inside a
  retained session every acquisition fails (`Retained`), a permit belongs to a
  worker in flight (`Permitted`), and `held` is exactly what workers use
  (`HeldByWorkers`).
* `PoolForegroundHeadroom` – from the count and the capacity of the channel.

`NativeReceiptsProofs` proves, for any disjoint inputs and keystrokes and a stop among
neither, any limits of journal, inputs, history, flush and page, and any number
of faults, from the assumption that the limits are numbers and those of the
journal, the flush and the page positive:

* `ReceiptsInductive` – `IInv`. Its core is `CopyOk`, which holds of *every* copy a
  restart may read and of the handle's own: operations occur once (`Distinct`), a
  log begins with accepted and only its second state may start or refuse the write
  (`LogOk`), the server has what the entry counts as sent or one state more
  (`Reported`), a written operation has its start marker and an acknowledgement or
  an exit is true (`Honest`), what a copy lacks is unwritten and unknown, or a
  settled keystroke (`Complete`), and a terminal's stop has a slot (`Room`).
  `ServerOk` says the same of the server. `MineOk`: acknowledged inputs that are
  not recovered were written in this lifetime. `OwnerOk` is what the owner relies
  on between two of its steps while the reader moves: before a write, the
  marker is in every copy, so a crash finds it. It survives the reader because an event
  extends only a log that is already acknowledged. `AckOk`: a report the
  server took is found again by its index. That needs `EventsOk` and
  `ReaderOk`: entries are retired only in a terminal, where no reader runs.
* `ReceiptsAreHonest`, `ReceiptsStopHasRoom` – from `IInv`. The
  lemmas on `Retained` (ranks of a finite set of positions), `Recover` and
  `Moved` say what retiring, recovering and advancing leave of a copy.
* `ReceiptsOneFlusher` – `FInv`, inductive together with `IInv`. `Alone`: `Delivery.mu` has one
  holder. The reader flushes under both locks and the owner under one of them, so one
  goroutine flushes (`OneFlushes`). `Uncounted`: while a flush waits to count an
  answer, its entry's count is what it was. Only an acknowledgement changes a count,
  and the flusher is alone. `Told`: an exit that is counted, or answered and about to be
  counted, has stopped the session; an exit whose report failed between the two
  transactions need not have. Every step keeps the counts (`Plain`), is an answer
  (`Takes`), counts one (`CountsStep`), or starts from copies that were there (`Anew`).
* `ReceiptsAgree` – `CopiesAgree` from `IInv`, `OneFlusher` from `IInv` and `FInv`.
* `ReceiptsReleasedIsExited`, `ReceiptsExitReportedFirst` – from `XInv`
  (`ReceiptsHandOver`), which follows an exit through its hand-over. During a flush that
  a release follows, the stop's log in memory ends in the exit. Once the flush has
  saved, or found that nothing is left to report, the exit is in every copy: in the second
  case because the server has it and is at most one report ahead of any
  copy (`CopiesAgree` again), and the session is stopped because the exit is counted (`Told`). From there to the release and after it the process is gone.
  Every step is one of six kinds: it leaves the owner far from a
  release (`Away`), is the reader's or the world's and keeps the stop's log (`Stays`),
  confirms an exit (`Confirms`), is a step of the flush (`Hands`), finds a terminal gone
  (`Ends`), or gives the hold back (`Gives`). `XInv` is shown for each kind.

In these five modules the types are part of the inductive invariant, which TLC has checked as an
invariant on the instances of the runs before it was proved.

Only model-checked: the liveness properties (`DrainReturns`, `EventsReachSubscribers`,
`CloseAlwaysReturns`, `CatchesUp`, `RequestsServed`, `Settled`, `StopSettles`). Temporal
proofs under fairness are outside this proof system's reach. Every safety
property of a passing run is also a theorem.

## Disagreements

`db/listeners.go:80` says that `SubscribeNotifications` "returns only once LISTEN
is established". `h.ready` is closed once, by the hub's first connect; a
subscriber that joins while the hub is between two sessions returns at once.
`hub_listen` shows the trace. No event is lost by it: `EventsCovered` holds,
because the reconnect hands the new member a resync too.

`nativeintegration/delivery/delivery.go:252` says of `ConfirmExit`: "It also retries a
previously failed exit-report/release without another close." and
`src/docs/features/native-lead-integration.md:204` that "a qualified exit observer can
settle/retry without another close". Its caller `reconcileExit` (`agentd/native_session.go:1465`) looks for the
stop in the first page of 100 entries and gives up when there is a second, while a journal
holds 512. `receipts_page` shows a stop that is never settled for that reason; with
a journal no longer than a page `StopSettles` holds.

Met while modelling, and not contradicting any statement in the repository:

* a short write leaves a torn tail in a journal that stays in use, and the next
  append glues to it; a crash before that mutation's reset leaves a state `Open`
  calls corrupt (`localjournal/journal.go:408`);
* an `Open` that is interrupted between the journal's truncation and its fsync
  leaves an old journal that a power loss can still bring back, and the next `Open`
  finds the file empty and does not sync it again (`localjournal/journal.go:225`).
  Two interrupted mutations later that journal may be replayed over a checkpoint
  it never belonged to and exceed the record limit, which `Open` calls corrupt. The attempt to
  prove `CrashIsReadable` found this: without the second clause of `dirty` it is
  violated with four faults;
* a failing or cancelled lock query ends every stream of the replica
  (`db/subscription_admission.go:78`);
* a conversation with 32 attempts, or with an incomplete one and a full
  directory, is never resumed again (`nativerecovery/recovery.go:293`);
* a flush ends without an error after 100 reports, so `flushExit` releases a session
  whose exit is not yet reported when more than that are owed
  (`nativeintegration/delivery/delivery.go:274`). This is the second case of
  `ExitReportedFirst`; the exit is then in the journal (`ReleasedIsExited`), but no
  poll of a released session reports it any more;
* only keystrokes leave the last of 512 slots free, so the stop of a structured
  session with a full journal is refused (`nativereceipts/journal.go:131`);
* a turn event of an input whose write is uncertain is refused by the journal and
  stays at the head of `pendingEvents`, before those of later inputs
  (`agentd/native_session.go:1637`).

## Not modelled

`PROJECT.json` lists every component that is left out with its reason: pure I/O
and CRUD, calculations over real time, user interfaces, and the parts the plan
still has. Of the inbox, these are left out: the stall notice of
`sweepChatPickup`, `heal` and receipts without a deadline from before an upgrade,
wake webhooks, native inbox leases, pickup policy of pull assistants, reply
obligations, action requests held for approval, messages to persons, the limit
of 100 candidates per pass, and several sessions of a principal. A pull assistant
is assumed to run no managed session. Of the receipts: finals and drain grants,
interrupts, resizes, approvals, the switch of who holds the terminal, the limit of
128 pending events, the cap on live inputs, and evidence digests and sequences. Inside the modelled components the abstractions are: payloads,
identities, digests and UUID validation (a malformed one is a refusal); wording
of errors; metrics, sampling and logging; authorization queries, which end a
stream at any step; the value of timeouts (a timeout is an event that may happen
once armed).

## Plan

In this order; each item is a module with its runs, then its proofs.

1. `NotificationHub` shown to implement the listener contract that
   `SubscriptionStream` assumes (refinement).
2. `NativeReceipts`: finals and drain grants, interrupts and resizes.
3. The browser stream (`events/stream.go`) and event positions
   (`events/position.go`, the client's merge).
4. `nativestream` buffers, `nativeadmission` life cycle.
5. Server-side claims: `agentruns` queue, `embedding` worker,
   `routinebudget`, `approvals`: two claimers, expiry, late answers.
6. The composition of `NativeDrain` and `NativeRecovery` behind one supervisor:
   a resume is refused while draining (`dispatchAllowed`) and a drain sees
   every successor.
