# Verification of AgentInbox

AgentInbox is a daemon that collects events from sources (GitHub, Feishu,
e-mail, timers, ...), routes them through subscriptions into the inbox of an
agent, and wakes the agent's activation targets (a webhook, or a terminal
prompt). This directory holds TLA+ models of its core, the TLC configurations
that check them on small instances, and TLAPS proofs of what holds for every
instance. Paths below are relative to the repository (`src/service.ts`, ...).

The daemon is one Node process over one SQLite database. JavaScript runs to the
next `await` without interruption, so the interleavings that matter are those
at awaits, between timers, and between processes that share the database. A
step of a model is what runs between two awaits, or one transaction.

## Inventory

**Event log and consumers** (`src/backend.ts`, `src/store.ts`,
`src/stream_compaction.ts`).
State: `stream_events` (a global offset, an identity, a payload that may be
pruned), `consumers` (one per subscription, with `next_offset`).
Operations: append with deduplication; create or reset a consumer at `latest`,
`earliest`, `at_offset`, `at_time`; delete; read; commit; compaction in batches.
Called by the poll, by registration and by the control API, from more than one
process. Hard: a start is resolved in one transaction and written in another;
compaction runs beside resets; a commit does not know of a reset.
Correct if: no consumer has a pruned event before it; what is pruned is a
prefix; a commit passes no unhandled event; every event is handled in the end.

**Subscription poll** (`src/service.ts`, `pollSubscription`).
State: the set of polls in flight. Reads a batch, awaits a lifecycle projection,
a filter and a digest hook per event, stores inbox items and entries, enqueues
notifications, commits. An error commits past the failing event.
Hard: everything it read before an await may be stale after it.
Correct if: as for the log, plus every matching event has an entry.

**Inbox and digest threads** (`src/service.ts` 1803-2093 and 3297-3314,
`src/store.ts` 2047-2700).
State: `inbox_items`, `inbox_entries` (item, or snapshot of a digest thread),
`digest_threads` with a revision and a flush deadline, a lock per group.
Operations: append to a thread, flush, recheck, ack (which reconciles the
snapshot), collect what was acked long ago.
Hard: a snapshot is computed across awaits of an adapter while items arrive and
are acked. Correct if: no unacked item is in no visible entry and under no
deadline; a snapshot shows no acked item for ever; one visible snapshot per
thread.

**Activation delivery** (`src/service.ts` 3030-3918 and 4144-4161).
State: notification buffers, delivery locks and delivery generations (volatile);
dispatch states, targets and the pause flag (persistent).
Operations: enqueue, flush, merge under a lease, dispatch, ack follow-up, lease
tick, pause, resume with catch-up, removal of targets and subscriptions.
Hard: nearly everything; see the hazards in `PROJECT.json`.
Correct if: nothing is sent across a pause; a backoff is kept; nothing held is
dropped silently; nothing held is stuck; no row outlives its target for ever.

**Subscription lifecycle** (`src/service.ts` 1344-1560, 2779-2832, 3994-4080,
4312-4340). State: `subscriptions`, `subscription_lifecycle_retirements`,
`source_idle_states`. Registration with validation and rollback, removal,
retirement by a terminal signal or deadline, auto-pause of idle sources.
Hard: awaits between checks and writes (registration against removal, idle
pause against registration). Correct if: what is due ends and nothing else does;
a template is registered as a whole or not at all; a subscription that was
confirmed has a consumer.

**Timers** (`src/service.ts` 972-1073, 1768-1801, 4225-4310, 5380-5530). State:
`timers` with `next_fire_at`, one timeout in memory. Hard: a restart must catch up
once, by the mode of the timer; the search for an occurrence jumps over the
calendar of a time zone. Correct if: a due slot fires once and is not slept over.

**Agents and registration** (`src/service.ts` 844-970, 1075-1166, 2860-3028,
3890-3920, 4082-4112, `src/terminal.ts`, `src/current_agent.ts`).
State: `agents`, `activation_targets`. Hard: one registration takes targets from
several agents in separate writes and may throw between them. Correct if: a
terminal has one agent, and takes itself for it.

**Sources and hosts** (`src/service.ts` 316-843, `src/adapters.ts`,
`src/sources/remote.ts`). State: `source_hosts`, `sources`, `streams`, and for a
managed source a checkpoint. Requests that register, follow, update, pause and
remove await providers; a sync reads and writes the checkpoint across awaits.
Correct if: a host is there exactly while it is used; the cursor passes no event
that was not stored.

**Provider modules** (`src/sources/*`): translation of payloads; GitHub CI keeps a
notification state per digest group.

**Inbox watchers** (`src/service.ts` 2095-2169, `src/http.ts` 2068-2140,
`src/client.ts`): replay between listing and start, frames, reconnection.

**Runtime gate and terminal** (`src/runtime_gate.ts`, `src/terminal.ts`): whether a
prompt may be typed, from samples of a process, a session file and a screen that
go on changing.

**Daemon process** (`src/daemon.ts`, `runServe` of `src/cli.ts`): lock, pid file,
socket and metadata shared by starting, stopping and killed processes.

**Outbound delivery and e-mail content** (`src/service.ts` 2380-2650,
`src/email_body.ts`, `src/email_attachment_content.ts`): reply routes of
operators; a cache of bodies read in pages; files named by their hash.

**Database** (`src/store.ts` 150-700, `src/db_integrity.ts`): integrity scan,
recovery from a backup, backups before migrations. **HTTP, client, CLI**,
**filters and schemas**: parsing and formatting.

How they interact: sources append to the log; the sync interval polls each
subscription, which stores entries and calls `enqueueActivationTarget` for each
effective target; direct messages and timers do so without a poll; acks call
back into delivery after the digest threads are reconciled; the sync interval
also ticks leases, digest deadlines, retirements and collections.

## Modules

| Module | Models | Used by |
| --- | --- | --- |
| `ActivationDelivery` | activation delivery of one agent | `MCActivationDelivery`, `ActivationDelivery_proofs` |
| `StreamLog` | the log of one stream, its consumers, their polls, compaction | `MCStreamLog`, `MCLive`, `StreamLog_proofs` |
| `ConsumerFeed` | abstract: what the log promises a consumer | `StreamLog` |
| `DigestThreads` | the digest threads of one group of an inbox | `MCDigestThreads`, `DigestThreads_proofs` |
| `SubscriptionLifecycle` | the subscriptions of one source | `MCSubscriptionLifecycle`, `MCParts`, `SubscriptionLifecycle_proofs` |
| `SourceRegistry` | hosts, sources, streams, follow templates | `MCParts2`, `Registration_proofs` |
| `RemoteSource` | the sync of a managed remote source | `MCParts`, `MCLive`, `Daemon_proofs` |
| `Timers` | timers and their timeout | `MCParts2`, `Daemon_proofs` |
| `CronSchedule` | the occurrences of a cron expression | `MCParts2`, `MCCronSchedule`, `Daemon_proofs` |
| `AgentTargets` | registration, targets, states and names of agents | `MCParts2`, `Registration_proofs` |
| `InboxWatch` | watchers of an inbox | `MCParts2`, `Outbound_proofs` |
| `RuntimeGate` | the decision to type into a terminal, and the typing | `MCParts`, `Outbound_proofs` |
| `DaemonProcess` | the files of starting, stopping and killed daemons | `MCParts`, `Daemon_proofs` |
| `StoreOpening` | opening, recovering, migrating and backing up the database | `MCParts`, `Daemon_proofs` |
| `GithubCiDigest` | the notification policy of GitHub CI | `MCParts2` |
| `EmailBody` | bodies of e-mails, in pages | `MCParts`, `Outbound_proofs` |
| `EmailAttachments` | managed files of attachments | `MCLive`, `Outbound_proofs` |
| `OperatorRoutes` | operator messages and the routes of their replies | `MCParts2`, `Outbound_proofs` |
| `Listings` | sequences without some elements, and in order | `InboxWatch`, `EmailBody`, `DataLemmas` |
| `StreamLog_proofs`, `ActivationDelivery_proofs`, `DigestThreads_proofs`, `SubscriptionLifecycle_proofs` | theorems about the module each is named after | |
| `Registration_proofs`, `Daemon_proofs`, `Outbound_proofs` | theorems about sources and agents that register; about the start of the process, its remote sources and its timers; about what leaves it | |
| `DataLemmas` | facts about finite sets, numbers and sequences | the proofs |

`MCLive`, `MCParts` and `MCParts2` hold several modules that share no state: a
variable `part`, chosen in the initial state, says which of them runs, and the
others keep one initial state. The modules that are proved about are extended by
`MCParts`, `MCParts2` and `MCLive`, with their constants in the configuration, so that TLC
evaluates their assumptions and the invariants it checks are those of the theorems;
the others are instantiated. (In `MCLive` the log and the
remote source are instantiated: `MCStreamLog` and `MCParts` extend them.) `MCLive` states fairness of a disjunction over the
parts, which is fairness of the one that runs, since `part` never changes.

How the modules meet: the start of a poll, its batch and its commit are those of
`StreamLog`; the entry a poll stores is an `Arrives` in `DigestThreads`, a
`PollStores` in `ActivationDelivery` and a `StoreEntry` in `InboxWatch`; a
`DirectMessage` there is also a fired timer of `Timers`; a removed source or agent
is an environment step in the modules that only see its effect.

### ActivationDelivery

| Variable | Code |
| --- | --- |
| `inbox`, `subs`, `target`, `minUnacked`, `paused` | entries, subscriptions, targets, policy, `deliveryPaused` (store) |
| `dispatchState` | `activation_dispatch_states`: status, lease, last fingerprint, pending entries and subscriptions |
| `generation` | `deliveryGenerations` |
| `buffer` | `notificationBuffers`: entries and the timer handle |
| `lock` | `targetDeliveryLocks`: the chain of operations, its head running |
| `resume` | `resumeAgentNow` of a paused agent between its awaits |
| `arriving`, `ackDue` | a poll between its awaits; `handleInboxAckEffects` |

One operation at the head of a lock goes through `queued`, and, if it
dispatches, `gate`, `remind` (or `defer`) and `send`; each is an await of
`dispatchActivationTarget`. `Turn` starts a queued operation; `FlushNothing`,
`FlushDiscards`, `FlushDispatches`, `FlushMerges` are the paths of
`flushNotificationBufferLocked`; `RetrySettles`, `RetryDispatches` those of
`maybeDispatchActivationTargetLocked`; `CatchUpSettles`, `CatchUpDispatches`
those of a resume; `GateAnswers`, `ReminderReady`, `SendEnds` continue after an
await. `StateAfter` and `BufferAfter` are what the end of a dispatch and its
caller write. Every other action is a handler: arrival, ack, timer, tick, pause,
resume, change of a target, removal of a subscription, crash.

Time is abstract: a lease is null, live or expired, and expires at any moment.
The count of new items is the set of entries it counts. A fingerprint is the
set of entries a prompt announces. Which failure is permanent (status code,
probe, consecutive failures) is a choice of the environment. A clean stop of the
service is modelled as a crash: it flushes the buffers first, so a crash loses
more. Terminal registration is `AddTarget` and `UpdatePolicy`.

### StreamLog

`rows`, `pruned` and `next` are the tables; `start` is a start position resolved
and not yet written (`resolveInitialOffset` to `insertConsumer` or
`resetConsumer`), `poll` a running `pollSubscription` (batch still to handle,
last offset handled), `compaction` a running `applyStreamCompaction`. `tried` is
a history variable: the offsets a poll of the consumer has handled or failed on.
The identity of a consumer and that of its subscription are one. Offsets have
gaps (`Append` takes any greater offset), because all streams share one counter.
A retention cutoff is an offset, since creation times grow with offsets; the
byte limit of a batch may end it anywhere.

### DigestThreads

`items`, `acks`, `threads` and `entries` are the tables: `acks` holds the acked
items in the order of `acked_at`, an entry without items has no row, and a thread
is unused, open, closed or deleted. `deriving` holds the items a poll has stored
and asks a grouping for; `lock` is the chain of `digestGroupLocks`, whose head
runs; `removed` tells whether the source or the inbox is gone. `letGo` is a
history variable: items the code gives up, by a crash or a failed grouping
between the item and its entry, or by closing the thread of a removed source.

An append starts as `Arrives`, `Grouped` (or `Ungrouped`, an entry of its own)
and `AppendItem`; when that flushes, or when `SyncFlushes` queued a flush and
`FlushAsks` found something pending, the head of the lock is at `gate` and then
at `summary`, the two awaits. Whatever answer comes, the candidate is compared
again first: `CandidateIsStale` against `GateDenies`, `GateApproves` and
`SummaryReady`, which publishes. `Ack` queues a repair for the open thread, and
`ReconcileRepairs`, `ReconcileCloses` and `ReconcileSettles` are its outcomes.
`Collects` removes the items of the oldest acks with what refers to them.

One group is modelled, since groups share neither lock nor thread; a repair that
waits for the locks of other groups first is one that is late in this lock.
The notification state a module stores with a snapshot is left out.

### SubscriptionLifecycle

The tables are `source`, `idle`, `agent`, `subs`, `consumer`, `retire` and `log`
(what kind of event was appended); `reg[s]`, `poll[s]`, `group`, `removing`, `srcOp`
and `gcPass` are the calls under way, each at an await. A registration goes through
`validate`, `resume`, `consume` and `finish` (`Registering`), a template registers
its members in turn and rolls back when one fails (`Grouping`); a poll is
`PollStart`, `PollRead`, `PollCommit`, `Schedule` or `PollFails`; `GcTick` is the
collection pass of the interval, which retires what is due, removes what has lost
its source (`Heal`), tracks idle sources and begins the pause of one.

### SourceRegistry and RemoteSource

`SourceRegistry` follows several requests at a time from await to await: `ensure`
(the provider is asked), the sources and then the subscriptions of a follow, its
rollback, and a removal. Rows are numbered as they are inserted, so a source that is
removed and registered again is another one. `RemoteSource` is one source: `sync`
carries what the sync read at each await, `request` a pause or removal, `update` an
update with what it restores; `cursor` is the checkpoint, `feed` the length of the
managed stream and `stored` what reached the log.

### Timers and CronSchedule

Time is discrete. `wake` is when the timeout expires, at once for a delay beyond
`MaxDelay`, as `setTimeout` does. `SyncTimers` fires all that is due in one step,
`CrashInSync` stops it between the item and the row. `CronSchedule` takes one jump
of `nextCronOccurrence` per step and the doubling and halving probe of
`lastOverdueCronOccurrence` around it; its calendar has short hours, days and months
of different length, and a zone changes its offset at most once. There are no leap years,
and the jumps a search may make (10,000 in the code) are enough for two years.

### AgentTargets and InboxWatch

A registration is one action, with its writes in order and the points where it may
throw after some of them; `flights` are dispatches and resumes that write the state
of a target they read earlier. `outcome` is what the last step registered. A place is
what the environment tells of a terminal: a pane, an iTerm session (`window`) and a
tty, each of which may be missing, and a pane may inherit the window its tmux was
started from. The table has unique indexes for the pane, the window and the session
(`Conflicts`), none for the tty: a lookup by tty may find one of several rows
(`Lookups`), and `Current` may name any of their agents. In
`InboxWatch` a frame is on the `wire`, `held` by the client or `shown`;
`batch` is what a writer stored and has not told.

### RuntimeGate, DaemonProcess, StoreOpening

`RuntimeGate` reads a `world` that changes between any two probes, and keeps what was
so at some instant of the evaluation in `history`. A row may lack the pid, the session
or the address (an iTerm row with a tty only), and what it lacks is not looked at: a
Claude without a pid by no probe, a row without a session by no log. The two readers
of session files differ: a Codex file that cannot be read or names another session is
"unknown" (`src/runtime_gate.ts:960`), and directories that cannot be listed are "no such
file" (974-999, then 947 and 203), which takes a live target offline (`hidden`); the file
of a Claude is missing when it cannot be read, and names another session when the process
was started anew. In `DaemonProcess` every file
operation is a step and a process may be killed before any of them. In
`StoreOpening` the content of the file is a count of committed work, `owed` what a
recovery has to restore.

### GithubCiDigest, EmailBody, EmailAttachments, OperatorRoutes

`GithubCiDigest` merges evidence as the module does, in one step per look at the
thread; what falls between the awaits of a look is in `DigestThreads`. `EmailBody`
has the cache with its budget, reads that share a flight, and cursors that name the
version of the body. `EmailAttachments` has rows, files shared by hash, the queue of
operations of an item and the collector. `OperatorRoutes` forwards messages with a
reply route and delivers replies; a chat stands for a delivery handle.

## Runs

| Run | Instance | Shows |
| --- | --- | --- |
| `delivery_hook` | webhook, entry of a subscription and direct entry, thresholds 1 and 2, 1 pause | `BackoffRespected`, `NoSilentDrop` |
| `delivery_two` | terminal and webhook, 1 entry, 1 pause, 1 crash | `FencedSend`, `RowsAreSound`, `NoSilentDrop` |
| `delivery_live` | webhook, 2 direct entries, 1 pause, fairness | `NeverStuck` |
| `delivery_siblings` | webhook, entries of two subscriptions, no pause | violated: `SiblingsStayPending` |
| `stream_log` | 2 consumers, 3 identities, offsets to 3, 3 starts, 1 compaction, 1 crash | `TypeOK`, `UnreadHistoryKept`, `PrunedIsPrefix`, `NoEventSkipped`, `ImplementsFeed` |
| `digest_threads` | 3 items, 2 polls, 3 operations on the lock, 1 rotation, 1 crash, removals | `NothingLost`, `EntriesAreSound`, `SnapshotsAreCurrent`, `StaysPublished` |
| `digest_live` | 3 items, 1 poll, 2 operations, fairness | `Surfaces`, `AcksAreRepaired` |
| `lifecycle_live` | 1 subscription with 1 request and 1 crash, or 2 with 1 crash and a template; 1 event, fairness | `WhatIsDueEnds`, `RegisteredIsConsumed` |
| `live` | log: 1 consumer, 2 starts, 1 compaction, 1 crash; remote: 2 events, 2 requests, 1 failure, 1 restart; attachments: 2 messages, 3 attachments, 2 contents, 1 crash; fairness | `EventsAreHandled`, `ProviderEventsArrive`, `OrphansAreCollected`, `StorageIsSound` |
| `parts` | lifecycle: 1 subscription with a request, a crash and 2 events, or 2 with a template, 1 event and a request or a crash; remote: 3 events; gate: 13 kinds of target, 2 changes; daemon: 3 servers, 2 cleaners, 1 kill; store: 3 versions, 2 damages, 1 crash; body: 2 entries, 2 readers | `EndsAreComplete`, `RetirementNeverPostponed`, `LogFollowsProvider`, `GateIsSound`, `DaemonIsSound`, `StoreIsSound`, `ReadsAreSound` |
| `parts2` | CI: 3 sets of evidence; cron: 324 expressions, 2 zones that keep their offset; agents: 2 agents, 2 sessions, 3 places (a pane with the window, the window with a tty, the tty alone), 3 operations; watch: 3 entries, 2 connections, 1 restart; registry: 2 clients, 3 requests, 1 crash; routes: 2 messages, 2 routes; timers: one of each mode, 2 starts, 3 changes | `NoticesAreSound`, `SearchIsExact`, `BindingsAreSound`, `WatchIsSound`, `RegistryIsSound`, `RollbackTakesItsOwn`, `RoutesAreSound`, `TimersKeepTime`, `RecoversByMode` |
| `cron_advance` | zones that set the clock back by an hour | violated: `OccurrencesAdvance` |

A property named `...Sound` or `...Complete`, `LogFollowsProvider`,
`TimersKeepTime` and `WhatIsDueEnds` are conjunctions of properties that are named
and explained on their own in the module; those of invariants include the type
invariant of the module.

**Bounds.** In delivery, two entries are the fewest with one announced or in
flight while another arrives, and make a full buffer with `MaxItems = 2`. Two
targets are the fewest with pre-emption. One pause gives the four orders of
decision, pause, resume and send: a second only repeats them with another
generation. `MaxOps` bounds the operations queued on one lock: at 2 one runs
while another waits and gets stale. `generation` also counts no further than
`MaxPauses`. In the log, two consumers are the fewest with a slowest and a
faster one; three offsets allow a gap, a batch and an event beyond it; three
starts allow both to be created and one to be reset. In the
digests, three items are the fewest with one acked, one published and one pending
under a repair; `MaxThreads = 3` and `MaxEntries = 5` are never reached by less (a
thread needs an item, a snapshot a new item or an ack), so they disable nothing;
three operations are one running, one to make it late and one behind. In the
lifecycle, two members are the fewest of which one is registered when the other
fails; two terminal events are needed for an earlier and a later end. (The request,
the restart and the second registration are alternatives of the initial state, `LifecycleInit` and
`MCInit`.) In the
registry, two requests run at once and a third comes after. In the timers, `MaxTime`
leaves room for three slots of an interval and a delay longer than the longest. The
three sets of CI evidence hold a rerun with the other workflow late, a push that
overtakes another, and a workflow completed before it has a conclusion; a new run of
an older push is not among them. Of the agents, two places share a window and two a
tty, so that two rows come to share a tty by a registration and a heartbeat, and a third
registration meets both. The kinds of gate target have each probe run with what the row
needs for it and without. Three servers are the fewest of which two find
the lock of a third. `CHECK_DEADLOCK` is off in all runs: with every bound used up
the system rests.

**Fairness.** `FairSpec` of the delivery: the event loop runs what was queued
(weak fairness of the operation at the head of each lock, of the poll between
its awaits, and of a resume); the sync interval and timers come back (strong
fairness only because `MaxOps` can disable them now and then); leases are
finite; and an endpoint or gate asked again and again answers in the end (strong
fairness of success: without it retries go on for ever, or the target falls
offline). No user action is fair: no ack, no resume, no repair. `NeverStuck`
therefore has the ways out a user would have to leave. `FairSpec` of
the digests: awaits of the module end (weak fairness of what holds the lock),
deadlines pass and the sync interval comes back, and a module asked again and
again lets something be published (strong fairness of `SummaryReady`; the gates of
the repository have a hard timeout). In `lifecycle_live` time passes, the interval
polls every subscription and collects, started removals and rollbacks go on, and a
pause that is tried again and again succeeds (strong fairness of `GcPaused`). In
`live`: the poll of a consumer (`syncAllSubscriptions` polls every subscription at
each interval and one failing poll does not stop the others); the interval lists and
syncs sources, a sync in flight goes on, a backoff elapses; the collector of
attachments comes back and the queue of each message moves. Failures are bounded,
which stands for a provider that answers in the end.

**What `NoSilentDrop` exempts** is listed in `LetGo`, one disjunct per case, each
a place where the code gives an entry up: four of them are hazards of their own
(the dispatch row of a removed subscription, a buffer deleted under a flush, a
timer handle that fired during a pause, a crash). No property covers a crash between
the steps of a resume, or a row that a threshold holds back: `delivery_live` has a
threshold of one. The same holds of the item of a digest that a crash leaves without an
entry (`letGo`), the source paused in use, the shared default route, and the lock
removed as stale: the runs exempt them, and where a statement about them is refuted it
is in the table below.

## The refinement

`ConsumerFeed` says what the log of a stream promises a consumer, with no word of
batches, transactions, compaction or processes: a log that grows at its end and holds
an identity once; a consumer that reads from its position only when all that follows
is kept, takes the events one after another without leaving one out, and moves
its position past what it took and no further; events before every position may be
forgotten. `Feed` in `StreamLog` maps the tables to it (`log` to the stored offsets
with their identities, `kept` to what is not pruned, `position` to `next`, `reading` and
`handled` to the poll and its history), and `ImplementsFeed == Feed!Spec` is checked by
`stream_log` and proved by `LogImplementsFeed`. Start positions resolved but not written,
failed and empty reads, and the batches of a compaction that prune nothing are stutters.

## Where code and statements differ

Two disagreements are runs, with the quoted line under "findings" in `PROJECT.json`:
removing a subscription forgets what its siblings had pending
(`SiblingsStayPending`: a webhook fails, the row waits for its retry with the entries of
both subscriptions, one is removed, and no row, buffer, timer or queued operation is left
for the entry of the other), and where the clock is set back the next occurrence of a cron
expression may be one that is over (`OccurrencesAdvance`).

The modules state more properties that TLC refutes (their comment says so, "NOT a
property of the code" or "Violated"). They are not in a configuration; to see one
fail, give it as the only property of a `.cfg` for a module that extends its module,
with the instance of the `parts` table above.

| Property | What the code does |
| --- | --- |
| `StreamLog!ResetIsKept` | `commit` writes its offset whatever `next_offset` is by then (`src/backend.ts:250`), so a poll under way undoes a reset |
| `StreamLog!AtTimeStartsAtTheFirst` | a start `at_time` is the offset of the event that occurred first (`src/store.ts:3247`); a lower offset that occurred later is missed |
| `DigestThreads!CleanupFlushes` | the thread of a removed source is closed with items that no entry ever shows (`src/service.ts:4173`) |
| `SubscriptionLifecycle!AutoPausedHasNoSubs` | an idle source is paused after an await although a subscription came meanwhile (`src/service.ts:4070`; `docs/site/reference/cli.md:196`) |
| `SubscriptionLifecycle!LastRemovalIsTracked` | a collection by hand that retires the last subscription starts no grace period (`src/service.ts:2239`) |
| `RemoteSource!PausedIsStopped` | a sync in flight ensures the runtime that a pause stopped (`docs/site/reference/http-api.md:286`) |
| `RemoteSource!PausedUntilResumed` | a failing update writes back the status it read before a pause (`src/service.ts:793`; `http-api.md:283`) |
| `EmailAttachments!DeletionIsPermanent` | a fetch queued behind a deletion overwrites its tombstone (`README.md:204`) |
| `EmailBody!CompleteIsKept` | a read without fetch that began earlier stores its part over the whole body (`src/email_body.ts:283`) |
| `DaemonProcess!SingleInstance` | two processes remove the same stale lock, the second one the lock of the first (`src/daemon.ts:357`; `CHANGELOG.md:281`) |
| `StoreOpening!RecoveryIsResumed` | a crash after the damaged file was put aside leaves no file, and the next start makes an empty one (`README.md:343`) |
| `AgentTargets!ForceRebinds` | a forced registration throws when its session is known at another place and this place is still another agent's, or when a pane brings along a window that another row has: the update or the insert breaks a unique index, after the agent's row was written (`src/service.ts:2905`) |
| `InboxWatch!WatchFollowsSequence`, `ResumeMissesNothing` | a direct message is told before the entry a poll stored before it, so an ack or a reconnection after it passes that entry (`CHANGELOG.md:632`) |
| `InboxWatch!WatchIsAnswered` | a watch whose anchor was collected is neither answered nor refused |
| `SourceRegistry!StreamsHaveSources`, `NoTwins`, `AnswerStands` | a stream ensured for a source removed meanwhile; two follows that register one wish twice; a follow that is taken back after another was answered with its subscription |
| `OperatorRoutes!RepliesReachTheAsker` | messages without a route share the default of their binding, and each points it at its own chat (`src/service.ts:2506`) |

Seen while modelling, without a property: an ack can remind a webhook of entries it
was told of, because the pending count outlives the dispatch that covered them
(`src/service.ts:3393`); after a rotation the last snapshot of the closed thread goes
on showing what was acked through an older one; a consumer created by a poll for a
subscription removed meanwhile is never removed; a crash between an inbox item and its entry
leaves the item without one; a timer further off than 2^31-1 ms makes its timeout
expire at once, again and again; a heartbeat that moves a session between backends
leaves the old backend in the target's row; heartbeats may leave rows of two agents with
one tty, and a terminal that tells nothing but its tty takes itself for either
(`src/current_agent.ts:175`); directories of Codex sessions that cannot be listed take a
live target offline (`src/runtime_gate.ts:974`); updating the policy of a webhook reactivates
the target but not its agent; the trailing blank lines a screen capture trims shift the
row of the cursor (`src/runtime_gate.ts:845`); a prompt is typed and confirmed by two
commands (`src/terminal.ts:195`); `agentinbox backup` opens, and so migrates, the
database without the lock (`src/cli.ts:1368`), and shutdown closes it while `stop` is
still flushing (`src/cli.ts:1466`); a failed ensure leaves the source's row, which a retry
accepts as registered (`src/service.ts:339`); a delivery the provider took is not
recorded if the call throws afterwards.

## Proofs

Fifteen modules are proved about, for every value of the constants that satisfies their
assumption: any consumers, targets, entries, items, subscriptions, sources and processes,
any limits. The assumptions (`StreamAssumption`, `DeliveryAssumption`, `DigestAssumption`,
`ConstantsAssumption`, `RemoteAssumption`, `RegistryAssumption`, `DaemonAssumption`,
`StoreAssumption`, `OperatorAssumption`, `AttachmentAssumption`, `AgentAssumption`,
`TimersAssumption`, `WatchAssumption`, `BodyAssumption`, `CronAssumption`) say
that bounds are numbers, that a mark for nothing is not one of the things, and that a plan, a policy or a
map has the shape validation gives it; `RuntimeGate` needs none. For each module there
is one inductive invariant (`IInv`, or one named after the module), one lemma per part of it and group of actions
with a step per action, and the temporal theorems last. `DataLemmas` has what several of
them need; where a recursive function or a step of a search needs an induction, it is
one over a set of numbers, of whose complement the least is looked at (`UpTo`,
`ChainExists`), because the induction theorems of the library cannot be instantiated here.
The runs check each of these
properties on a small instance, under the same definitions.

### StreamLog_proofs

| Theorem | Statement |
| --- | --- |
| `TypeCorrect` | `Spec => []TypeOK` |
| `CompactionKeepsUnread` | `Spec => []UnreadHistoryKept` |
| `CompactionPrunesPrefix` | `Spec => []PrunedIsPrefix` |
| `ReadsAreNeverRefused` | a live consumer is never below the retained history |
| `CommitSkipsNothing` | `Spec => NoEventSkipped` |
| `LogImplementsFeed` | `Spec => ImplementsFeed` |

`IInv == TypeOK /\ UnreadHistoryKept /\ PrunedIsPrefix /\ BatchHandled`.
`UnreadHistoryKept` alone is nearly inductive: a start is checked again when it
is written (`WriteStart`), in the transaction that writes it, which is what makes
it safe that it was resolved in another one; a commit is checked too; and a
compaction stops below every consumer. Without `PrunedIsPrefix` the boundary
`RetainedFrom` would not tell pruned from retained events. `BatchHandled` carries
`NoEventSkipped`: between its start and its last handled offset a poll has
handled every stored event, which needs that a batch is the first events of the
unread ones and that new rows only come at greater offsets. The lemmas about
`Highest`, `FirstAtOrAfter` and `FirstOf` come first (a finite nonempty set of
offsets has a greatest element, by well-foundedness of strict inclusion).

`LogImplementsFeed` uses the invariant in each step: a read may begin because
`UnreadHistoryKept` keeps all that follows the position, a commit moves past what was
handled because of `BatchHandled`, and a batch of a compaction forgets only what is
before every position. Each action of `StreamLog` is mapped to an action of
`ConsumerFeed` or to a stutter, in the lemma `FeedStep` with a step per action.

### ActivationDelivery_proofs

| Theorem | Statement |
| --- | --- |
| `RowsAreSoundAlways` | `Spec => []RowsAreSound`, which includes `TypeOK` |
| `Invariance` | `Spec => []IInv` |
| `SendsAreFenced` | `Spec => FencedSend` |
| `BackoffsAreRespected` | `Spec => BackoffRespected` |
| `NothingIsSilentlyDropped` | `Spec => NoSilentDrop` |

`RowsAreSound` is inductive once its type part says that only the head of a lock has
left the phase `queued`. `SendsAreFenced` needs no more: a pause raises the generation,
and the step that starts a request compares it with that of the operation.

The other two are about what an operation does with a row it read several awaits ago, so
`IInv == RowsAreSound /\ Inv` adds, per target, what its row, its buffer and its queue know
of each other. `WellFormed`: a row has pending entries exactly while it is dirty. `RunsOn`:
the row is still the one the running operation read, or its lease ran out, or the row is
gone, since only the head of the lock writes it; and what the operation will announce or
put back covers what that row holds and what it took from the buffer, but for acked
entries. `QueueOK`: while a resume drains the locks a drain is the last in each of them, so
that its catch-ups come first, and a catch-up finds no backoff it was not told of, or one
about acked entries only; this is what lets `BackoffsAreRespected` except the
catch-up no further than it does. `ArrivingInv`: a poll stores an entry once. A step
changes the machinery of few targets and leaves `RowOK` and `QueueOK` of the others alone;
the lemmas about queues (`PushFacts`, `HeadFacts`, `HeadKeeps`) are shared.

`NothingIsSilentlyDropped` follows action by action from `IInv`: an entry that a row, a
buffer or an operation holds before the step is held, acked, announced or in `LetGo`
after it. `LetGo` names the places in the code that give up an entry and nothing else.

### DigestThreads_proofs

| Theorem | Statement |
| --- | --- |
| `Invariance` | `Spec => []IInv` |
| `NothingIsLost` | `Spec => []NothingLost` |
| `EntriesAreSoundAlways` | `Spec => []EntriesAreSound` |
| `SnapshotsStayCurrent` | `Spec => SnapshotsAreCurrent` |
| `PublishedStaysPublished` | `Spec => StaysPublished` |

`IInv == TypeOK /\ ThreadsOK /\ QueueOK(lock) /\ AcksOK /\ ArrivingOK /\ NothingLost`.
`EntriesAreSound` says that at most one snapshot of a thread is visible, and it fails
under a step unless every snapshot but `latest` is superseded, revisions rise with
the entries, and a thread that is unused or deleted refers to nothing: `ThreadsOK`.
`QueueOK` says that a queued append brings an item no other one brings and that a
candidate is not empty, so that what is published has items. `ArrivingOK` keeps an
item on its way at one place: without it an item could be appended twice, and be
pending and published at once. `AcksOK` says an item is acked once, so that the
acks a collection leaves are of items that are still there.
`NothingLost` then follows by where an unacked item was (on its way, in an entry of its
own, in the latest snapshot, pending under a deadline, or let go) for each action; the
lemmas `PublishFound`, `AppendFound`, `HolderFound`, `CollectFound` and `CrashFound` are its
cases. The greatest revision among the snapshots that a collection leaves
(`GreatestRevision`) exists by well-foundedness of strict inclusion again.

### SubscriptionLifecycle_proofs

| Theorem | Statement |
| --- | --- |
| `Invariance` | `Spec => []IInv` |
| `EndsAreCompleteAlways` | `Spec => []EndsAreComplete`, which includes `TypeOK` |
| `NeverPostponed` | `Spec => RetirementNeverPostponed` |

`IInv == EndsAreComplete /\ SignalOK /\ PassOK /\ GroupOK`. A retirement belongs to a
subscription that is there because the step that stores one looks at the subscription
again; for that the signal a poll carries over its awaits, and the row of a collection
pass, must be something (`SignalOK`, `PassOK`). That a template that failed leaves none of
its members needs `GroupOK`: members begin in their order, each when those before it are
registered (`Sequential`), so that when one fails no other is under way, nor is one
during the rollback (`NoneUnderWay`). `RetirementNeverPostponed` uses the lemma that the
earliest of a finite set of terminal instants is one of them and before the others
(`FirstOfFinite` of `DataLemmas`).

### Registration_proofs

| Theorem | Statement |
| --- | --- |
| `Invariance` | `RegistrySpec => []IInv` |
| `HostsGoWithSources` | `RegistrySpec => []RegistryIsSound` |
| `TakesBackItsOwn` | `RegistrySpec => RollbackTakesItsOwn` |
| `AgentInvariance` | `AgentSpec => []AgentInv` |
| `RegistrationsBind` | `AgentSpec => BindingsAreSound` |

`IInv == PlacesSound /\ TasksSound`. That hosts and sources go together depends on what a
request resolved before an await and uses after it: the key and the id of a removal, the
host a registration found, the ids a follow has for the first sources of its plan
(`TasksOK`, one conjunct per await). `RollbackTakesItsOwn` is about ids that a follow
wrote down awaits ago: an id is never drawn twice (`IdsAreDrawn`), and one that a follow
remembers as its own is of a subscription it made, or of one that is gone (`OwnOK`).
The follow that is taken back although another was answered with its subscription
(`AnswerStands`, refuted above) is within both.

`AgentInv == AgentTypeOK /\ RowsOK /\ TerminalsOK`: no id is used twice, a target's
agent is there, and two terminals never share a session, a pane or a window; they may
share a tty. That is owed to the unique indexes (`Conflicts`): a row that breaks none
joins rows that break none (`RowPut`), and a dispatch or resume that writes the state of
a target it read awaits ago changes neither place nor session (`StatusSet`). What an
agent has after a registration is owed to its order: what is met of other agents, and
what its agent has elsewhere, is ceded or refused before its own row is written
(`CededRows`, `UpsertRows`). From that `BindingsAreSound` follows step by step
(`RegisterBinds`). Nobody else has the pane, the window or the session of the row that is
left, and what its agent has besides is of the same tty (`BoundRow`). A caller with a pane
or a window is found by it; one with a tty only may be found as another agent, but also
as its own (`BoundSeen`); a row whose backend a heartbeat left behind is found by its
session. A name is tried if one terminal of its agent is the caller's, so none is
displaced for it (`NamesAreAgents`). Without force nothing is ceded, and the row that is
written is the caller's (`UnforcedRows`), also where the registration throws half way
(`ForceRebinds`, refuted above), which keeps `AgentInv` but is no success.

### Daemon_proofs

| Theorem | Statement |
| --- | --- |
| `AdmitsOne` | `DaemonSpec => []DaemonIsSound` |
| `OpenKeepsTheWork` | `StoreSpec => []StoreIsSound` |
| `RemoteInvariance` | `RemoteSpec => []RemoteInv` |
| `FollowsProvider` | `RemoteSpec => []LogFollowsProvider` |
| `StoredOnce` | no event of the stream is in the log twice |
| `TimersAreKept` | `TimersSpec => []TimersKeepTime` |
| `StartRecoversByMode` | `TimersSpec => RecoversByMode` |
| `SearchesAreExact` | if no zone changes its offset, `CronSpec => []SearchIsExact` |

`DaemonInv == DaemonTypeOK /\ LockHeld`: whoever is between the creation of the lock and its
release holds the lock, unless one was removed as stale. With a stale lock two processes
may run, as `SingleInstance` shows; `OneDaemonPerLock` excepts exactly that, and no
crash, signal or late cleaner is another way.

`StoreInv == StoreTypeOK /\ BackupsOK /\ FileOK /\ OwedOK`. That an open database holds
what is owed to it must be known of the file in every phase (`OwedOK`): nothing is owed of
a missing one, no more of a damaged one than the newest backup holds, and all that it
holds otherwise. `FileOK` says what the file can be in each phase, among others that one
which is archived is empty, so that nothing is lost by it, and that no file of before the
first migration opens. The backup a recovery takes is the newest because each has a time
of its own and is of a healthy file (`BackupsOK`, `NewestIsRecoverable`); pruning takes
backups away and changes none (`BackupAdded`). The mutant that prefers the highest version
is what this excludes. A crash in the recovery itself is excepted, as `RecoveryIsResumed`
shows it must be.

`RemoteInv == RemoteTypeOK /\ MarksOK /\ BatchOK /\ StoredOK /\ StoredInOrder`. The checkpoint
is written by a sync, a pause, a failed update and a removal, each from what it read
before its awaits, so it may move backwards. `MarksOK` therefore says of every place
one of them remembers, not only of the checkpoint, that the log has what is before it;
and that the log keeps the order of the stream when a batch is read again needs the same
of every event that is in it (`StoredOK`): an event that is appended is the first that
is missing. Proving the type of an update under way found a step of an earlier version
of the model, a second update during a sync, that left a record behind; `UpdateRequest` is
corrected.

`TimersInv == TimersKeepTime /\ OnSlots /\ OneShots`: the next fire of a cron timer is one of its
slots, and a one-shot timer that waits has not fired; the rest of what a row may be is in the
types. `SlotsFireOnce` holds because an item is named by its timer and slot, also for the fire
a crash repeats. `WakesInTime` is proved from `Nearest`, which every change of a row
recomputes over all rows. For `StartRecoversByMode` the search of `lastOverdueCronOccurrence`
must end at the last missed slot for every set of slots (`LastOverdueIs`). A probe that hits moves
the slot forward and doubles the jump, one that misses has shown that no slot lies inside the jump
and halves it, and one that misses within a minute shows that none is left, since slots
are a minute apart (`ProbeLearns`, `MultiplesApart`). Each probe but the last lowers a
measure that is at most `4 * MaxTime` at the start, so the search has ended by the bound the model
gives it: that is the induction over probes, with `UpTo`.

`CronInv` has, besides types, what a search knows and what it costs. `Scanned`: from where it
began (`Begin`, which for a probe is the edge of the jump) up to the candidate no instant is
allowed. Each of the seven jumps keeps this by a lemma of its own (`PastYear` to `PastMinutes`):
it goes to the first time of the next unit, or to the first allowed value of the field, and every
time between has that field disallowed. `InTime` counts the jumps against the days that were
passed: a jump over a day or more pays for itself, one into an hour, into the next hour's first
minute or to a minute is paid for by the next day, and at most three are ahead, because what
each of them makes fit stays fitting until the day changes. So a search that gives up has
looked at more than two years (`GivenUp`); and an overdue search, which knows an occurrence,
never gives up, since what fits once fits again within two years, on the same date or on the
same day of the week of that month (`Recurs`). With a calendar that has leap days the
second claim would need eight. The theorem is about any calendar, expression and start; it
needs that a zone keeps its offset, the exception `cron_advance` shows.

### Outbound_proofs

| Theorem | Statement |
| --- | --- |
| `VerdictsAreGrounded` | `GateSpec => []GateIsSound` |
| `OwnRoutesAreKept` | `OperatorSpec => []RoutesAreSound` |
| `StorageStaysSound` | `AttachmentSpec => []StorageIsSound` |
| `PagesStayOneBody` | `BodySpec => []ReadsAreSound` |
| `WatchersMissNothing` | `WatchSpec => []WatchIsSound` |

`GateInv` adds to the verdict what each reading on the way was a ground of (`SeenOK`):
`history` has noted it at the instant of the reading (`WorldNoted`), and forgets nothing
when the world changes; which probes run for which row is `ProbesOK`. `Down` are the
grounds to go offline, among them the session that was there and could not be listed,
`Excused` those to type. `OperatorInv` carries the chat
of a route from the ingress that stored it (`PassedOK`, `RoutesOK`) into the replies under
way (`RepliesOK`), for a route that no other message came by; a binding that is replaced
and a source that is removed leave both alone. `AttachmentInv == StorageIsSound /\
QueuesOK /\ PhasesOK`: a file is looked for and the limit is checked in one step of a
fetch, and the row is written some awaits later. Between them other attachments of the
message cannot take the room, since operations of a message run one after another, nor can
a collection, a deletion or an expiry of another row take the file, since it is marked as
being published (`PhasesOK`).

`BodyInv == BodyTypeOK /\ ReadersOK /\ NoBodyOfGoneEntry`. A page follows those before it
because a reader's place is where its last page ended, which is where a character begins
(`PlaceOK`), and is of their body because a cursor is refused unless the cached row has the
body it names (`CursorHolds`), whoever replaced, expired or evicted that row in between. A
reader that shares the load of another gets its first page when the load ends, so it must
still be at the beginning (`LandedIs`). A body is stored only for an entry that is there at
that instant, and what eviction keeps of the rows are rows there were (`KeptIs`).

`WatchInv == WatchTypeOK /\ NothingUnseen /\ ListedIsComing`. `NothingUnseen` says of every
unacked entry after an anchor that it is in the session, in a frame, held by the client,
shown, or with the writer that stored it; the entries a writer has stored and not told are what
makes it hold between a commit and its notification. It is not inductive alone: a start leaves
out of what was told meanwhile the entries that were in the list, which loses nothing only
because the list itself was sent (`ListedIsComing`). The sequence functions `Removed` and
`InOrder`, by which the pending entries are filtered and sent in order, are characterised in
`DataLemmas` for every input (`RemovedIs`, `InOrderIs`).

### Only model-checked

All liveness properties: TLAPS proves no `ENABLED` and no fairness argument here. Of the
others, `NoticesAreSound` of `GithubCiDigest`: it folds the evidence in the order of its
times, over a sequence. What a search does where the offset of a zone changes has no theorem
either: there `SearchIsExact` does not hold for every start, as `cron_advance` shows. The
properties of the table above that the code violates have no theorem either.

## What is left

1. An abstract inbox (an item is pending, shown, acked) refined by `DigestThreads`, and
   an abstract delivery refined by `ActivationDelivery`.
2. One model of several agents and sources, for what only shared tables connect.

## Not modelled

Translation of provider payloads, routing of HTTP requests, parsing and printing of
the CLI, filter expressions, schemas, the version handshake, the statements of
migrations, the scan of an attachment, metrics: input and output or pure formatting,
with no state shared between steps. The types of `RuntimeGate` and the other modules
are checked; what AppleScript and tmux do with a typed prompt is not. SQLite's own
transactions are taken as atomic and durable.
