# A model of banto-industrial's collection core

TLA+ modules, TLC configurations and TLAPS proofs for the parts of
banto-industrial in which several tasks, requests and devices act at once: the
broker that owns the one session a PLC accepts, the directory of brokers, the
range diagnostic, the collection lifecycle of banto-hub, its emergency stop of
PLC writes, the writer of the daily data files, the push connection between the
hub and the bridge to external databases, the queue of the database sink, and the
client library that follows a hub's tags.

Every definition is translated from the Rust source. `PROJECT.json` names, for
each definition, the lines it stands for ("map"), for each run what it shows,
for each property the mutated definition that breaks it, the hazards the
properties are for, and the theorems.

    tlc -workers 2 -config MCRangeDiagnostics.cfg MCRangeDiagnostics.tla   # one run
    tlapm BrokerTaskProofs.tla                                             # one proof

Contents: 1 inventory, 2 modules and code, 3 runs, 4 fairness, 5 proofs,
6 where code and documents disagree, 7 what is not modelled, 8 plan.

## 1. Inventory

The repository holds three products built from one workspace: **banto-hub** (a
tag server: it reads PLCs and databases, serves the values over REST, WebSocket,
gRPC, MQTT, OPC UA and MCP, and writes back to PLCs), **banto-hub-sink** (a
sidecar that stores tag values in external databases and bridges external
databases into the hub) and **ChronoGazer** (a recorder: it collects values into
daily files and shows trends).

| Part | State it keeps | Operations | Interacts with | Correct means |
|---|---|---|---|---|
| `banto-broker`, connection task | connection state, back-off attempt, status watch, pending diagnostic | dial, serve one job at a time, accept/discard/finalize a diagnostic, stop | callers through a bounded job channel; a driver session | one device connection; fail fast, never queue; suppression of reads tied to the session it was diagnosed on |
| `banto-broker`, session directory | two maps (handles, task entries), a shutdown watch | ensure, remove, stop_and_join, shutdown | spawns and joins connection tasks | no task out of reach, one per port |
| range diagnostics (`rest/diagnostics.rs`, `hub.rs`) | the last report, the catalog revision | post, get, publish | the broker's handle; the catalog | what is shown is what the session does; nothing tentative is left behind |
| collection lifecycle (`controller.rs`, `hub.rs`) | state, mode, transition lock, live-apply flag, applied registry, quit marks | start, stop, set_mode, live apply, quit, shutdown | collector, sessions, DB source, push side, tray, HTTP handlers | state tells the truth, one transition at a time, no registry change lost, no collection after consent to quit |
| write control (`write_control.rs`) | live flag, stop generation, `op_lock`, abandoned writes; a DB row and a state file | stop, resume, restart | the write path reads the flag | a saved stop holds across crashes until a confirmed resume |
| `banto-collect` | one loop per connection, current values, events | start, reload, stop, poll | broker, tstore | every group is polled on its period; stop is bounded |
| `banto-tstore` writer | rows buffered per date, the open daily file, a count of dropped rows | open, append, flush, rotate, prune, close | SQLite files; queries pick files by date | no accepted row disappears uncounted, is filed under another day, or is missed by a query |
| hub session synchronisation (`hub.rs`, `broker_sim.rs`) | sessions of the applied registry, recorded targets | apply_run, roll back | directory, controller | a failed apply leaves the sessions of what still runs |
| hub write path | audit rows, rate limiter | write a value | broker, write control | log before write; every intent has a result |
| hub ingest and the bridge (`ingest/*`, `banto-hub-sink/src/source/*`) | per connection: an epoch, the values held, the registered WebSocket; the source, its pollers and their permit | push values, announce an epoch, commit settings, fetch settings, query | registry, collection lifecycle, external DB | what is held was read in the present epoch, by the newest stream, with the present settings; one poller per connection |
| sink (`banto-hub-sink`) | bounded queue per group, flusher, producer, applied settings | sample, flush, apply settings, shut down | hub stream, external DB | every row is stored, queued, or dropped and counted; in the table of its group; nothing is stored twice by accident |
| hub live streams (`stream.rs`, `subscribe_core.rs`) | per WebSocket: a subscription, what was sent last for each name, a bounded outbound queue | register, subscribe, tick, notify, recheck the credential | catalog, tag values, clients | who sees a replaced catalog is told; who has read everything sent has the present values |
| `banto-tagclient` | the catalog of an attempt, the publish gate, the watched state, a stop signal | attempt, rebind, back off, publish, restart, shut down, drop | hub, by REST and WebSocket | what is shown is the hub's catalog and values, or the client is about to learn better; nothing is shown after a shutdown |
| DB source | poll ladders | poll | catalog, tag values | no stale value after a change of the catalog |
| ChronoGazer engine, retention, shells | a collection; a lifecycle | start, restart, stop, prune | collect, tstore | one collection per data root |
| drivers, codecs, planners, expressions | none | pure functions | | decode what the device sent |
| profiles, services, installers | files and services of Windows | install, switch, grant | the operating system | |

The complete list, with the reason for every part that is left out, is
`"components"` in `PROJECT.json`.

What makes the system hard: every HTTP handler is a future that hyper drops when
its client disconnects, at whatever `await` it stands; the two maps of the
directory are under two locks; jobs carry facts ("the session I diagnosed") that
may be stale when they are served; locks are held over awaits on devices and
databases that may not answer; several records of one fact (flag, row and file;
state, collector, sessions and DB source; catalog and applied registry) change in
several steps any of which may fail or be the last before a crash. The hazards,
40 of them, each at its line, are in `PROJECT.json`.

## 2. The modules and the code

### BrokerTask, `crates/banto-broker/src/lib.rs`

One connection task (`run_broker_task`, 1700-2080) and the holders of its
`BrokerHandle`. `conn` is `ConnState` (Backoff, Connecting, Connected), extended
by what follows the loop (Leaving, Gone). The task's `select!` becomes one
action per branch: `Due`, `DialOk`, `DialFailed` for the connection, one `Take`
action per kind of job, `Break` for the stop, shutdown and last-handle branches.
A job's call on the session is an await, so it is begun (`TakeCall`) and ended
(`CallOk`, `CallFatal`) by different actions; a fatal end answers the caller
before the task drops the session (`DropSession`), as the code does. An accept
is installed (`TakeAccept`) before it is answered (`ReplyAccept`), because the
caller may vanish between. `queue` is the job channel followed by the senders
blocked on it; `Abandon` is the caller's future being dropped, with a job in the
channel (its reply channel closes) or blocked before it (it never arrives).

Abstracted: reading, writing, diagnosing and the two clock operations have the
same control and are the kind `Call`; what the wire does is "succeeds" or "is
fatal"; delays of the back-off are any delay. `outside` and `before` are the
read rules of the session object (`banto-driver-engine`), which die with it.

### RangeDiagnostics, `rest/diagnostics.rs` and `hub.rs`, extends BrokerTask

The POST handler step by step (capture an epoch, refresh, diagnose, accept,
publish, finalize or discard), the store of the report in `CollectorManager`,
catalog commits, and the GET that withdraws a report that no longer holds. The
12 s limit (`TimeOut`) covers refresh and diagnosis only, as in the code; a
client's disconnect (`Disconnect`) may come at any await.

### SessionDirectory, `crates/banto-broker/src/lib.rs` 1196-1530

`ensure_with`, `remove`, `stop_and_join` and `shutdown` with one action per
critical section. `signal[t]` is the task's own stop channel (armed, sent,
dropped: `changed()` resolves for a dropped sender too); `seen[t]` is the
version of the shutdown watch its receiver counts as seen, which a task spawned
after the shutdown has already. A task is reduced to what BrokerTask shows of it
(`StopEndsTask`: told to stop, it leaves). `turns` is history: whether the
callers have taken turns and kept off `remove`, as the hub does (it operates on
the directory under `rebuild_lock`, `hub.rs` 2232-2236). Two properties hold
only then, and say so.

`stop_and_join` and `shutdown` are futures, and their join is the one await in
them. The hub awaits `stop_and_join` in handlers of HTTP requests (`hub.rs` 1765,
1857, 2498), which hyper drops when the client disconnects; `Abandon` is that
drop. The `JoinHandle` goes with the future, so nobody waits for the task any more;
its signal has been sent. A dropped `shutdown` also drops the entries it has not come
to, and with them their senders (the hub runs its own to the end; a caller with a
time limit does not). `unjoined` is history: the tasks not yet gone that were left
so.

### CollectionController, `apps/banto-hub/core/src/controller.rs` over `hub.rs`

Requests (`start`, `stop`, `set_mode`, live apply) are processes; the transition
lock is tokio's fair mutex (an owner and a queue, handed over on release);
`acquire_transition` is two steps, the failed `try_lock` and the read of
`live_apply_in_progress`. Each await of `stop_locked`, `start_locked`,
`apply_run` and `commit_catalog_and_apply_live` ends an action. The registry,
the catalog and what the collector runs are version numbers, so "which
configuration is in force where" is what the properties compare. The tray's
quit gate (`QuitGate`: ask, mark and look again in one critical section) and
`RunningHub::shutdown` (without the lock) run beside. `Drop` is a handler
dropped at an await. Left out: error texts, run ids, revision counters, and a
registry without any enabled group.

### WriteControl, `apps/banto-hub/core/src/write_control.rs`

`set_enabled` in both directions. `live`, `gen`, `lined` are the flag and
`StopState`; `owner`, `waiters` are `op_lock`. DB writes run in tasks of their
own (`writes[n]`), may end after the operation that spawned them, and an error
does not say whether the row changed; `lagStop`, `lagResume` are the lists of
abandoned ones. `Restart` is a crash between any two steps followed by
`decide_startup`. A future of `set_enabled` may be dropped at any await (`Drop`),
which is what the guards `QueuedStop`, `TrackedDbWrite` and `PendingStopWrites`
exist for. The REST handlers run operations through `set_enabled_detached`, so
theirs are not; `detached` is history that says so, and the module doc promises
four of the properties for that case only. Left out: a hub configured without a state file,
a corrupt file, panics, actors and texts.

### TsWriter, `crates/banto-tstore/src/writer.rs` over `files.rs`, `findable.rs`

A writer, the files it leaves, and the writers opened after it. One mutex
serialises the operations, so one is under way (`op`, `pc`), cut at its awaits:
the commit of a flush (`Commit`) and the removal of what it wrote (`Taken`), the
creation of a file (`CreateFile`) and of its schema (`CreateSchema`), the change
of file (`Attach`) and, after the old file is closed, of the date (`Switched`).
Any of the storage's steps may fail (`GiveUp` is the `?` of each operation: an
append goes on and keeps its row, a close counts what it gives up), the process
may crash and, where an operation only borrows the writer, its future be dropped.
The clock is read anew by every operation and may say anything; whether the
flush interval has passed is left open. `buf[d]` are the rows waiting for date
`d`; rows are numbers into `log`, the history of what was accepted, and
`discarded` and `lost` are the history of what was given up. `Candidates` is
the rule by which `banto-tsquery` picks files. A date is a day number, a file is
its date and sequence number, and `Cells` gives the width of a configuration's
rows. Left out: a second group (one transaction writes all), and two writers at
once (`Collector::apply_config` opens the next one before it closes the first).

### IngestBridge, `apps/banto-hub/core/src/ingest/*`, `controller.rs`, `banto-hub-sink/src/source/*`, and EpochSlot

Both ends of one push connection. On the Hub's side: `saves`, the settings the
slot was built from and those saved since (`Commit` may read any of them, as a
snapshot of the registry is read under the transition lock and not under the
registry's), `phase` (the collection, with the failed start, `faulted`), and
`slot` (epoch, held value, last notice, registered WebSocket). `conn[c]` is one
WebSocket with both ends and what is under way in either direction: the `state`
notice is a watch (`unread`, the newest only), the close is ordered behind it,
and a broken link loses both. On the bridge's side: `refresh` (the `Notify` and
its permit), `fetch` (what a fetch under way was answered), `running`, the
sources, the pollers and the permit that keeps two of them from querying one
database. `era` in a reading is history, the epoch in which its query began;
`newest` the WebSocket registered last; `folded` and `skipped` say that a notice
of changed settings was overwritten unread, or never sent because the settings
were changed back before the slot learnt of them.

EpochSlot is what the slot promises, in three actions: a stream opens, a reading
of the present epoch from the newest stream is taken, the epoch turns and the
held value goes. IngestBridge implements it (`KeepsItsEpoch`), checked by TLC and
proved.

Left out: the queries of one connection are one; keys, quality, `status`, `ping`
and the sending budget; a poller that panics.

### SinkQueue, `banto-hub-sink/src/{queue,flush,group,plan,run}.rs`

One group from the sample to the database. `rows` and `dropped` are the queue
(`RowQueue`), `producer` and `ending` the producer and those already aborted that
may finish one more round, `fl` the flusher tasks (`Flusher::run`: waiting for the
interval, checking a table, inserting a batch, draining, and told to stop, to
drain, or aborted), `engine` the place of `apply_plan` and `shutdown`. Each await
of these ends an action, because the stop cuts `apply_plan` there
(`ShutdownBegins`). An INSERT without an answer has stored its rows or not
(`Unanswered`). History: `made` (the table each row was sampled for), `gone` (rows
counted as dropped), `twice`, `unsure`, and the two leaks the properties except by
name: `strays` (rows an aborted producer put into a queue already given up) and
`cut` (counts that went with a plan the stop cut off).

Left out: several groups or connections, the reasons for a broken group, the length
of waits, deletion of a group, a pool that cannot be built.

### TagClient, `crates/banto-tagclient/src/*` against `stream.rs`, `subscribe_core.rs`, `rest/tag_space.rs`, `hub.rs`

One client and the Hub it reads. An attempt of the worker takes the catalog, opens
the WebSocket, subscribes, waits for the first data, fetches the values and lays the
newer of both over each other (`at` is the await it stands at); an attempt that
resolves no name pings, takes the catalog again and publishes that. `mode` counts the
rebinds made in a row. `cat`, `gate`, `rest` are the attempt's catalog and the two
parts of `PublishGate`; `pub` is the state the application watches. `sock` is the
WebSocket with both ends: the Hub's subscription and its baseline (`base`, the content
sent last), the unread revision, and what is on its way (`down`). `resp` is the REST
request under way, read in two steps as the handlers do: map and revision first, run
and readings after. `handle` and `stop` are the `TagClientHandle`: the worker looks at
the stop signal first at every await, so `stop = "racing"` is the one poll that began
before the signal and may still end.

On the Hub's side `Commit` changes map and revision and `SendRevision` tells the watch
afterwards; `StartOrStop` tells nobody; `RestartHub` is a new process that counts
revisions and runs from the start. History: `odd`, a reading that was not later than
the one before, or that came back to the content sent last after the client had fetched
another one later than all it was sent (`Untold`); `twin`, an answer of another process
that carries the same revision and run. The properties except what follows from these,
and section 6 says what does. What the Hub
does is followed until the client is told to stop (`Watched`).

Left out: `write_tag`, TLS pins, endpoints, secrets, wildcards and interval
subscriptions, lengths of delays, and frames that this Hub never sends.

Every MC module only gives model values. Proof modules are `BrokerTaskProofs`
(also about RangeDiagnostics, which composes it with its callers),
`SessionDirectoryProofs`, `ControllerProofs`, `WriteControlProofs`, `TsWriterProofs`,
`IngestBridgeProofs` (also the refinement of EpochSlot), `SinkQueueProofs` and
`TagClientProofs`.

## 3. The runs

| Run | Checks | Instance |
|---|---|---|
| `range_diagnostics` | `TypeOK` (attempts are 1-based), `SingleDeviceConnection`, `SuppressionHolds`, `SuppressionOwned`, `ShownIsInstalled`, `TentativeHasOwner`; `ComesToRest` | the broker's task with two diagnostic handlers, clients that disconnect, channel of 1, 2 dials, 2 epochs, 2 revisions |
| `session_directory` | `TypeOK`, `NoTaskOutOfReach`, `OneLiveTask`; `OperationsReturn` | two threads, two connections, every operation, callers dropped at a join, 2 tasks |
| `controller` | `TypeOK`, `RunHoldsTogether`, `Reflected`; `RequestsReturn` | two requests, two modes, 2 registry versions, any step may fail |
| `controller_exits` | `QuitConsent` | two requests, handlers dropped at any await, quit and shutdown |
| `controller_dropped` | `DroppedForLifecycle`, violated | three requests |
| `controller_cut` | `TransitionsEnd`, violated | one request |
| `write_control` | `TypeOK`, `ResumeIsFinal`, `SavedStopHolds`, `NoWarningNoSurprise`; `OnlyConfirmationEnables`, `StopReturns` | two operations at a time, 3 in one life, any number of crashes, futures dropped |
| `ts_writer` | `TypeOK`, `RowsAreFound`, `NothingVanishes`, `NewestWins`; `OperationsReturn` | two rows, two dates, two configurations, three openings |
| `ts_writer_retry` | `RetryRecovers`, violated | one row, one opening |
| `ingest` | `TypeOK`, `HeldIsOurSql`, `OnePoller`; `KeepsItsEpoch` (refinement), `Flows` | two SQL texts, two sources, two pollers, two WebSockets, 2 disturbances, epochs to 4 |
| `sink` | `TypeOK`, `NothingVanishes`, `StoredRight`; `Settles` | 3 rows, queue of 2, batch of 2, 2 changes of settings, 1 failure, two flushers |
| `tagclient` | `TypeOK`, `NewsOnItsWay`, `NothingLeftUnsaid`; `Settles` | a client of two names, two contents, outbound queue of 2, 1 rebind in a row, 3 disturbances, a shutdown and a drop counted among them |

What the safety properties say, in words:

- `SuppressionHolds`: reads are suppressed only by a report diagnosed on the session
  that reads, and a pending acceptance is the installed one.
- `OneLiveTask`: one live task per connection, and a filed handle leads to it (while
  the callers take turns, as the hub does). It excepts tasks whose join was dropped
  with its caller, which it shows to have been told to stop; section 6 says what
  follows from that exception.
- `RunHoldsTogether`: while the collection runs and while it is at rest, the state,
  the collector, the sessions and the DB source agree on one registry version;
  `Reflected`: a live apply applies the whole change, or a later request does.
- `ResumeIsFinal`: an enabled flag is saved as enabled, by the resume that set it.
- `RowsAreFound`: a row is in a file of its day, and a query that covers its time
  opens that file; the open file is never pruned. `NothingVanishes` here: an accepted row is in a file, buffered, or
  counted as given up, and the counts are right; `NewestWins`: of two rows of one time
  the later accepted is kept.
- `NothingVanishes` of SinkQueue: a sampled row is stored, queued, or counted as
  dropped, however the queue overflowed during the INSERT that is now acknowledged;
  `StoredRight`: it is stored in the table it was sampled for, and once unless an INSERT
  went unanswered.
- `HeldIsOurSql`: what the Hub holds was queried with the settings it has, but for the
  two losses of section 6; `OnePoller`: one poller of a connection queries at a time.
- `NewsOnItsWay`: a client that shows a catalog the Hub has replaced will be told: the
  revision is about to be sent, unread, or on its way, or the WebSocket has ended. This
  is what the second look at the catalog, in the values' answer, is for.
- `NothingLeftUnsaid`: the Hub sends differences from what it sent last. When no
  difference is left, the client holds the Hub's value, or will once it has read what is
  on its way, whichever of REST and WebSocket brought the later one.
- `ComesToRest`: every handler returns, and a task told to stop leaves. `Settles` of
  SinkQueue: in the end the newest settings are applied and nothing stays queued, and a
  shutdown reports and ends. `Settles` of TagClient: after the last disturbance a client with a
  good key shows the Hub's present catalog and values, one with a revoked key shows
  `Unauthorized`, and a shutdown leaves no worker and no connection.

Why these bounds are enough for the cases the properties are about:

- **Two callers** (two handlers, two threads, two requests) give every pair of
  roles: the one that is served and the one that waits, the one whose acceptance is
  pending and the one refused; a third adds only a longer queue.
  `controller_dropped` uses three requests because its counterexample needs two
  overlapping live applies and a stop.
- **`Capacity = 1`** with two callers puts one job in the channel and one sender
  behind it, which is the boundary (`JOB_CHANNEL_CAPACITY` itself is 32).
- **`MaxDial = 2`**: two sessions suffice for a fact of the first to be stale in
  the second; a status sent between is counted by `ver`, which has no bound of
  its own.
- **`MaxEpoch = 2`**: a diagnostic and the one that replaces it.
- **`MaxTask = 2`, two connections**: a task and its successor on one port, or
  two independent ones.
- **`MaxDb = 2`**: the registry before and after a change.
- **`MaxOps`** bounds operations in one life of the process only; crashes reset
  it, so a run has lives without end. Three are a stop, a resume and a stop.

- **`Times`** of TsWriter are a tick of one local day and a tick of the day after
  next (days of 2 ticks, an offset of 1): two dates, rows of times that a query for
  the other date's file would miss, and a clock that jumps both ways. Two rows give two dates waiting, or two rows of one time, which is what
  order, upsert and cap are about; rows of configuration A fit in the buffer two
  at a time, those of B one at a time, so the cap is met and not met.
- **`MaxOpens = 3`**: configurations A, B and A again, which is what
  `NewestWins` (its part `LaterFileIsNewer`) is about, on dates that go back and forth.

- **Two SQL texts, two sources, two pollers, two WebSockets** of IngestBridge: the
  present one and the one it replaces, which is being stopped. `Disturbances = 2`
  allows a change that meets another change (a save and a stop, a save and a save
  back, a broken link and a save); `MaxEpoch = 4` lets the collection be started
  again after each. `MaxUp = 1`: a message under way when the epoch moves.
- **TagClient**: two names allow all, some and none of the requested names to be
  bound, and one to be unbound while the other stays. `QueueCapacity = 2` stands for
  `OUTBOUND_QUEUE_CAPACITY` (256): data and a notice fill it, the next frame closes the
  WebSocket. `MaxRebinds = 1` stands for 3: a rebind, and the back-off after it. A
  reading's time is that of the one before or the next. Three disturbances put a second
  and a third into the middle of an attempt that the first has begun (a commit, a
  restart of the Hub, a new reading). Two contents let one come back; a third one in
  between takes 1.7 million states for one name's three contents and found the second
  part of `odd`, and the proof of `NothingUnsaid` covers any number.
- **SinkQueue**: a queue of 2 and three rows overflow while a batch of 2 is being
  inserted, so the acknowledged batch is gone in part; the five settings that may
  follow (other tags, no tags, another table, another database, no database) twice
  in a row give each branch of `plan_changes` after each other.

`CHECK_DEADLOCK FALSE` stands in the configurations of the broker, directory,
controller, TsWriter, IngestBridge, SinkQueue and TagClient: a stopped task or process, or
bounds used up, is a proper end there. WriteControl has none: a restart is always
possible.

No run uses symmetry: most of them check liveness.

## 4. Fairness

- **BrokerTask under RangeDiagnostics**: weak fairness of taking and ending a
  job and of leaving (the tokio task is polled, and each call on a session is
  bounded by `bounded_job`); strong fairness of `Break`, because `select!`
  polls its branches in random order and so a ready stop is not overtaken for
  ever. None for a dial: it may stay unanswered, and `StopEndsTask` holds all
  the same. Weak fairness of a handler's own steps; none for disconnects,
  requests, commits or `Stop`.
- **SessionDirectory**: a call that has begun goes on; a task told to stop
  leaves (shown above). None for starting operations, letting handles go or dropping
  a caller.
- **CollectionController**: a request that is polled goes on. This includes
  the awaits of `apply_run`, whose steps are bounded in the code by the
  driver's and the database's limits.
- **WriteControl**: operations are polled, the local file answers, the timer
  `STOP_DB_SAVE_TIMEOUT` fires. Nothing is assumed of the database: a write may
  run for ever, and `StopReturns` holds all the same.

- **TsWriter**: an operation that is polled goes on, and the storage answers, if
  only with an error (`WF(Step)`). None for starting an operation or for the
  commit rather than its failure.
- **IngestBridge**: every task is scheduled while it has something to do; the arms of
  the Hub's unbiased `select!` each get their turn, so each has its own weak
  fairness; a source's `select!` is biased (stop, then the stream), so these have
  theirs; the supervisor's timer fires. A fetch may fail again and again but not for
  ever (strong fairness of `FetchApplied`). None for saves, stops and broken links,
  and none for a periodic fetch beside a running source: `Flows` does not need it.
- **SinkQueue**: tasks go on and every database operation ends within its limit, by
  its answer or by a failure (the failures are bounded); none for samples, changes
  or the stop.

- **TagClient**: every branch of the Hub socket's `select!` (request, tick, notice,
  recheck of the credential) is served in the end, and so has weak fairness of its own;
  the worker is polled (`WF(WorkerWorks)`). Its `select!` is biased (stop, text,
  values; `worker.rs` 509), so the values have no fairness of their own: they may wait
  while there is text, and `Settles` does not need more. A request is answered
  (`WF(ReadMap)`, `WF(Answer)`) and a dead link is seen to be dead. This is assumed of
  the network, not provided by the code: `RestClient::new` sets no limit
  (`rest.rs` 31-39; `with_request_timeout` is for callers that want one) and the
  WebSocket has no keep-alive, so a peer that falls silent without closing can hold a
  worker for as long as it likes. None for
  commits, readings, restarts, failures, or for asking the client to stop.

## 5. What is proved

All theorems hold for every value of the constants, under the named assumptions
of the modules (`BrokerAssumption`, `DirectoryAssumption`,
`ControllerAssumption`, `WriteControlAssumption`, `TsWriterAssumption`,
`BridgeAssumption`, `SinkAssumption`, `ClientAssumption`), which only type the
constants and keep the model value for "nobody" apart from the actors and from the
values it stands beside. TLC evaluates each of them.

**BrokerTaskProofs** proves what `range_diagnostics` checks of the task. The
invariant is `TypeOK /\ Device /\ EpochsOld /\ Reports`. `Device` ties the sets of
dials and sockets to `conn` (exactly `{dialNo}` or empty), which makes
`SingleDeviceConnection` inductive. That a suppression is of this session (one half
of `SuppressionHolds`) is not inductive alone: an accept installs whatever report it
carries if the status has not changed since. `EpochsOld` says that no epoch held by
a caller, a job or the installed report is newer than the present one and, if it has
the present status version, that it was captured on the present dial: so "status
unchanged" implies "same session". `Reports` keeps `outside`, `before`, `pending`
and the job being answered consistent; the other half of `SuppressionHolds` is part
of it. From these follow `TypeCorrect`, `OneConnection`, `SuppressionStands` and the
action property `FinalizedReportStays`.

The same module proves the two invariants of **RangeDiagnostics**. `HandlersUseTask`
says that the composition implements BrokerTask with its callers, so that its invariant
can be used. `DiagInv` then follows the epoch of a diagnostic through handler, channel
and job in service: each job answers the handler that queued it (`OwnJobs`), an epoch
in any hand was given out before (`Known`, `DiagJobs`), a tentative report has a
handler, a queued job or the job in service that will end it, unless its client went
away (`Tentative`), and what is shown was installed and has not been replaced since
without the table being told (`Published`, `Installed`). `ReportShownIsInstalled` and
`AcceptHasOwner` are two of its consequences.

**SessionDirectoryProofs** proves `TypeCorrect`, `TasksStayInReach` and
`OneTaskInTurns`. A task that somebody removed from the map is in reach through
`took` or `drain`, so the invariant needs that a caller with an entry in hand is
inside the operation that will stop it (`TookInside`), and that only one shutdown
drains (`OneShutdown`). `OneTaskInTurns` is about callers that take turns: at most
one call is under way (`Alone`), tasks yet to be spawned are named nowhere
(`Numbered`), an entry is filed under its own connection (`Filed`), the two maps
agree but for the operation between them (`Agree`, `HandlesGone`, `Emptied`), who is
alive is filed, drained or in the hands of `stop_and_join`, unless its join was
dropped (`AliveIsKnown`), and nobody has told a filed task to stop (`Untold`). Apart
from turns, a task whose join was dropped has been told to stop (`UnjoinedTold`).

**ControllerProofs** proves all that the controller's runs check of its safety:
`LockIsHeld`, `ConsentIsKept`, `TypeCorrect`, `RunIsWhole` and `OneConfiguration`.
`LockInv` says that the owner is outside the queue, that the queue has no repetition
and holds only requests that wait, and that everybody at a label that needs the lock
owns it; every step touches the lock in one of six ways, each a lemma. `QuitInv` says
that after a consent the mark is set, which the last look of a start finds, and that a
start past that look has put the state to `Starting`, with which no idle consent is
given. `RunInv` says how much of a run there is at each step of the holder
(`HalfDown`, `HalfUp`), and that it is whole at every step that neither builds nor
takes down and whenever the lock is handed over. It needs `Known`: a live apply goes
on only while the collection runs, which only the holder can change. `ShowInv` follows
a version from the registry to the catalog and the collector: where the two differ
from the newest, a live apply that has yet to read the registry is under way
(`LivePending`), and one that holds the lock shows its own version unless another one
waits (`Shown`). `RunIsWhole` assumes that no handler is dropped and the process is
not shutting down, `OneConfiguration` only the first: findings 1 and 2 of section 6
and the note on the shutdown say why.

**WriteControlProofs** proves everything `write_control` checks that is a matter of
safety: `TypeCorrect`, `SavedStopsHold`, `ResumesAreFinal`,
`OnlyConfirmedResumesEnable`, `NoSurprises`. One invariant serves all, in named
parts. `Counts` and `Holds` tie the counters to the operations under way and say who
owns `op_lock`. `OwnNumbers` and `OwnWrites` say that a DB write belongs to one
operation and what it writes. `StopWrites` and `ResumeWrites` say who still waits for
a running write: the stop or every later resume for a "disabled", and for an
"enabled" the resume, the stop that interrupted it, or that stop's own write. With
them the flag rises only once no write can take the row back (`Lowered`,
`StoredEnabled`). `Undropped` holds while no future is dropped: an interrupted
resume's write is left to a stop still on its way (`Handover`), and the state file
says "pending" or "disabled" whenever a resume's write may still land (`FileTells`),
which is what carries `SavedStopHolds` over a crash. For `NoSurprises` (no warning shown
means that a restart would decide as the flag says now) the invariant follows each
outcome to the place that shows it: of the operations under way one will record an
outcome later than the one recorded last (`Followed`), an operation whose outcome
yields to a later one leaves the truth to that one (`Overtaken`), and at each step
between a save and its outcome the file, the row and the flag are such that the outcome
about to be recorded warns if it must (`Midway`, `Deciding`, `Warned`).

**TsWriterProofs** proves all that `ts_writer` checks but `OperationsReturn`:
`TypeCorrect`, `RowsStayFound`, `NothingEverVanishes` and `NewestStays`, from three
invariants that rest on one another.

- `DayInv`, for `RowsStayFound` (`RowsInTheirDay`, `QueriesFindRows` and
  `OpenFileKept`, the last as `OpenFileStays`). A commit puts the rows of `current`
  into the open file, so this file must be of that date through every failed, retried
  and abandoned rotation: `Position` says at which steps it is of `current`, and that
  between the change of file and the change of date it is of `next`. A future dropped
  just there leaves the two apart (`torn`), and the properties except it. Dates grow
  with time (`DaysGrow`, a fact about `\div`), so what `append` accepts for one time is
  opened by every wider query.
- `CountInv` adds that what is in no buffer is in a file, replaced, or counted
  (`Accounted`, `Counted`). Between a commit and the removal of what it wrote a row is
  in both places, and the removal may only take what the commit put there (`Written`);
  a close that succeeded has nothing left (`NothingHeld`). That an upsert replaces a
  row only by a newer one of its time needs that a set of row numbers has a largest
  one (`Largest`).
- `OrderInv`, for `NewestStays`, adds that the open file is the last of its date and
  has the writer's configuration (`OpenIsLast`, `Named`), that earlier files of a date
  hold older rows than whatever waits for it (`OlderFiles`, `OlderRows`), and that the
  cap drops the oldest first (`OldestGoFirst`), so no newer row is dropped while an
  older one of its time waits to overwrite it.

**SinkQueueProofs** proves all that `sink` checks but `Settles`: `TypeCorrect`,
`NothingEverVanishes` and `EachStoredRight`. `OrderInv` types the engine (`TypeInv`) and
says what a plan under way may still do (`Plan`), which flushers serve which queue and
what they were told (`Served`), and that a queue's rows are of its table (`Tabled`).
`RowInv` adds where each row is: the rows of a queue stand in the order they were
sampled and no row is in two places (`InPlace`), the rows of a batch being inserted are
the first of their queue but for those an overflow has dropped meanwhile (`Sent`), an
answered INSERT is of rows stored nowhere before (`Once`), and stored, queued, dropped
and lost together are what was sampled (`Accounted`). The hard step is the removal
after an answered INSERT: it takes as many rows as are left of the batch, and that these
are the batch's own, although the queue overflowed and was filled again in between, is
`Sent`.

**TagClientProofs** proves `TypeCorrect`, `NewsComes` and `NothingUnsaid`, from three
invariants. `TypeInv` adds to the types what each stage of an attempt has (`Stages`:
which await has a catalog, values, an open socket), what the wire carries (`Wire`) and
that a `Live` client shows its attempt's parts (`Shown`).

- `NewsInv`, for `NewsComes`: what was read of the Hub is of its past, one map to each
  revision of a process (`Revisions`); and from the answer that the worker compares with
  its catalog on, a commit is unsent, unread, on the wire, or the socket is about to end
  (`Told`). The Hub subscribes before it answers the values' request, which is why the
  comparison suffices, and not the first look at the catalog.
- `ValueInv`, for `NothingUnsaid`: the readings of a name come in the order of their
  times (`InTime`), one content to each time (`OneContent`), the last one sent has the
  content the Hub compares with (`LastSent`), and a value fetched later than all that was
  sent is the Hub's present reading or differs from what was sent, so that the next tick
  has something to send (`FetchedLater`). The first form of `odd` excepted less: that a
  content comes back before the tick has seen it. `FetchedLater` was not inductive under
  it, and with three contents TLC showed why: fetched between, then replaced twice
  before the tick. `Untold` is what that proof needs.

**IngestBridgeProofs** proves `TypeCorrect` and `OnePollerAlways`. Whoever is alive
holds the permit in the supervisor's map (`Permitted`), a source that has not been
told to stop is the one the supervisor runs and knows that permit (`Owned`), and the
supervisor keeps a permit as long as a poller holds it: so the replacement waits,
whatever is fetched between.

The second part proves `EpochKept`: IngestBridge implements EpochSlot, with
`epoch`, `stream` and `held` read off `slot` and `newest`. The hard step is the
message that is applied: its epoch equals the slot's, but the reading it carries was
begun at some time before. `Timely` says of everything under way (a query, an
outbox, a message, a welcome, a notice) that it was begun no later than the slot's
epoch and no earlier than the epoch its holder names; then equal epochs mean a
reading of this epoch. It needs that a source which learns of a new epoch retires
its poller and empties its outbox in the same step.

The third part proves `HeldIsOurs`: what the slot holds was read with SQL that the
slot has or will have, unless a notice was overwritten unread or a commit passed over
a change and announced nothing (`Announced`). The invariant `SqlInv` follows a change
of settings along its way. `Own`: sources have streams and pollers of their own, and
one that waits for the configuration reads nothing. `News`: the source of the
registered stream has SQL of the slot's, or the change is on its way to it (the
notice unread, a `state` in the stream), or it waits for a fetch that begins later, or
for one that saw the change. `Heralded`: a message of a change names an epoch later
than all that comes before it, so a source that knows the present epoch has heard of
every change (`HeardAll`) and may begin to query. `ReadOurs` and `SentOurs` carry this
to the outbox and to the values in flight that name the present epoch; what names an
earlier one is refused. The replacement is where `Lone` comes in: a source that is not
told to stop by an applied fetch is the one the supervisor runs, and the fetch was of
its settings. TLC checked `SqlInv` on the instance of the run before the proof.

Only model-checked: everything that says something eventually happens
(`ComesToRest`, `OperationsReturn`, `RequestsReturn`,
`StopReturns`, `Flows`, `Settles`: liveness under fairness is out of the prover's
reach). Every invariant that a passing run checks is also a theorem. No module that is
proved about declares a RECURSIVE operator, and nothing is proved by induction over data.

## 6. Where the code and its documents disagree

Three runs end in a counterexample; each is a finding in `PROJECT.json` with the
quoted line.

1. `controller_dropped`: a stop that arrives around the end of a live apply may be
   taken for a repetition and ignored.
2. `controller_cut`: a client that disconnects during a stop leaves the state
   `Stopping` until the process restarts.
3. `ts_writer_retry`: a failure, or a crash, between the creation of a data file and
   of its schema leaves a file that every later switch to its date, and every
   later open on that date, refuses. Waiting dates are served oldest first, so
   nothing of a later date is written either while the writer lives.

More things the models show, which contradict no promise, or no run of their own checks:

- A stop and start does not commit the catalog of a change whose live apply failed,
  as the recovery hint (`rest/crud.rs` 57-60) says it does: `start_locked`
  (`controller.rs` 661) applies the registry and leaves the catalog.
- A start that was accepted just before the shutdown may bring the collector and the
  DB source up behind it: `begin_shutdown` comes after `manager.shutdown`
  (`runtime.rs` 1284, 1331).
- A notice of changed settings that the WebSocket has not read yet is replaced by the
  notice of a stop, which says nothing of the settings (`ingest/mod.rs` 777): the bridge
  starts querying again with the SQL it has before it fetches the new one (`folded`).
- Settings saved and changed back before one commit announce nothing, although the
  bridge may have fetched those between (`rest/ingest_bridge.rs` 323-341): it goes on
  with them until its next fetch (`skipped`).
- A stop of the sink that comes while a plan stops a flusher drops the plan with the
  counts it carries (`run.rs` 58-60, 405-411): these rows appear in no report (`cut`).
- After the contents of a database connection changed, a group whose own settings did
  not change keeps the producer with the old flusher's `Notify` (`flush.rs` 14-15):
  a full batch wakes nobody, and the interval alone flushes.
- A producer aborted within a poll may push one more row into a queue already given
  up; it is stored nowhere and counted nowhere (`strays`).
- A client that disconnects while its request waits in `stop_and_join` (`lib.rs` 1444)
  leaves the old task on its way out with the device, in neither map and joined by
  nobody. The next apply overlaps with nothing, finds the connection without a
  session (its own `stop_and_join` has nothing to wait for) and starts a second task,
  whose first dial the device may refuse. The struct's doc (`broker_glue.rs` 238-249)
  says that the old task is stopped and joined before the new session is ensured,
  which is so of callers that are not dropped. The old task ends by its signal, and
  the new one dials again, so nothing lasts. `OneLiveTask` excepts these tasks
  (`unjoined`).
- The doc of `SessionDirectory` (`lib.rs` 1178) says that a task spawned after the
  shutdown exits at once, its receiver reading `true`. It waits with `changed()`,
  which a fresh receiver does not return from for a value already sent. The task ends
  when its entry is dropped.
- A flush dropped while it closes the old file (`writer.rs` 590) leaves the writer
  with the new file and the old date: what is appended to the old date goes into
  the new file, and a prune no longer keeps the open file. Only a flush that a
  request awaits (`collector.rs` 629) can be dropped.
- `banto-tsquery` (`raw.rs` 9, `decimate.rs` 478) takes the files of a group not to
  overlap in time. A clock set back across a change of configuration makes them
  overlap; what holds is that later files have later accepted rows (`NewestWins`).
- A client that disconnects while its diagnostic is being accepted, finalized or
  discarded leaves the acceptance tentative (`rest/diagnostics.rs` 276): every
  later accept is refused until the session is re-established. `TentativeHasOwner`
  excepts exactly these diagnostics (`cut`).
- The DB write of an interrupted resume is handed to the first stop only. If that
  stop times out, a second one writes "disabled" beside the abandoned "enabled"
  (`write_control.rs` 1283-1295); the state file still stops a restart, which is
  why `SavedStopHolds` holds.
- A stop that comes between the confirming rename (1186) and the last check (1197)
  makes the resume return "interrupted" with both records saying enabled; the stop
  itself then saves.

- A reading whose time is not later than the one before loses against it (`odd`). A
  quality turned Stale keeps its sample's time; if the difference is read after the REST
  values but was taken before them, the older content wins at equal time
  (`stream_core.rs` 331-343), and the Hub, which has sent its difference, says nothing
  more. Likewise a value fetched by REST between two ticks, when the content has gone back to
  the one sent last before the next tick, at once or over a third: the client stays
  `Live` with it. The design
  (`docs/banto-tagclient-design.md` 457-469) speaks of timestamps only.
- Revisions and run ids count from the start in a new process of the Hub. A restart
  between the first and the second look at the catalog can give both looks the same pair
  of numbers (`twin`), and the client goes `Live` or `Unbound` with the other process's
  catalog. The comment at `worker.rs` 549-552 relies on the run id to tell a restarted
  Hub whose revision happens to match.
- A stop and start of the collection notifies nobody: a `Live` client keeps the run id
  and the mode of its attempt.
- A worker whose poll was running when its handle was dropped may publish once more
  after the `Stopped` of the drop (`handle.rs` 188-203). The model excepts this by
  saying nothing of `pub` after a drop.
- The comment at `hub.rs` 1081-1084 says that the revision is sent within the critical
  section; the code sends it after (2185). `NewsOnItsWay` counts that step (`unsent`).

## 7. What is not modelled

Windows services, ACLs, installers, user interfaces and wire formats: their
behaviour is the operating system's, sequential, or pure. Drivers are one
abstract call. SQLite is a row that a write changes or does not. Time is
absent: a limit may fire at any moment its timer runs. Panics are not modelled
except that of a dial's sub-task, which the broker treats as a failed dial.

The share of the implementation's lines the map covers is small because most of
them are such code: forms and validation, drivers' codecs, REST and MCP surfaces,
registry storage, installers, tests. Three details of modelled code are left out:

- The supervisor of the bridge signals a source to stop (`source/mod.rs` 532) and
  then drops the permits that no connection is configured for and no poller holds (538);
  `FetchApplied` is both in one step. On another thread the old source may have chosen
  its event before the signal and take the permit (`session.rs` 578) after the look.
  Its poller is then stopped at once, but a fetch that brings the connection back while
  that poller's query still runs would make a new permit and a second poller.
  `OnePoller` says nothing of this window, which lasts from one instruction to another.
- `parse_data_file_name` (`schema.rs` 63-80) reads sequence numbers of exactly three
  digits; `NewFile` has no limit. The thousandth file of one day would be written and
  never be listed again.
- The driver engine's `accept_diagnostic` (`banto-driver-engine/src/lib.rs` 323-331)
  returns without a word if the report is not of the tags it is given; `TakeAccept`
  always installs, since the handler passes the tags it had diagnosed.

The modules cover the parts in which several
actors meet.

## 8. Plan

Done: BrokerTask, RangeDiagnostics, SessionDirectory, CollectionController,
WriteControl, TsWriter, IngestBridge with EpochSlot, SinkQueue, TagClient, and the proofs
of section 5.

Next, in this order:

1. **SessionSync** (`hub.rs` 1508-1521, 1718-1842, 2232-2378; `broker_sim.rs`
   153-187): the sessions of the applied registry under failing and dropped
   applies; composes with SessionDirectory's operations.
2. **WritePath** (`write_path.rs`, `write_audit.rs`): intent before write, one
   result per intent, a late answer after a time-out, composed with WriteControl's
   flag.
3. **CollectTask**, the launch gate, instance lock and exit-once, ChronoGazer's
   engine.

Refinements: an abstract life of a task (running, told, leaving, gone), which
BrokerTask implements and SessionDirectory assumes; an abstract emergency stop
(a saved stop is lifted by a confirmed resume only), which WriteControl implements;
a bag of accepted rows per day, from which only the cap, retention and a newer row
of the same time remove, which TsWriter implements.

Proofs: the refinements above, each step by step.
