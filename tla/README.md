# Mission Control: TLA+ models, checks and proofs

This directory holds a formal model of the parts of Mission Control (this
repository: a Next.js dashboard that orchestrates agents over a gateway) whose
correctness depends on interleavings, failures and long sequences of calls.
The reference is the code; every definition names, in `PROJECT.json` under
`map`, the lines it stands for.

## 1. The system

One Node process serves the API routes under `src/app/api`, keeps nearly all
persistent state in one SQLite database (`src/lib/db.ts`, synchronous calls)
and the rest in files, runs a scheduler in the same process and talks to child
processes, to a root daemon over a Unix socket, to webhooks over HTTP, to files
of the Conductor and, from the browser, to a gateway over a WebSocket. The
browser keeps copies of tables and refreshes them by polling and by a stream of
server-sent events. SQLite calls do not yield, so a handler is atomic between
two `await`s; everything interesting happens between them.

| Component | State | Operations | What makes it hard | What makes it correct |
|---|---|---|---|---|
| Pipeline runs (`api/pipelines/run`) | `pipeline_runs` rows with a snapshot of the steps; pid map in memory; children | start, advance, cancel, spawn, exit of a child | exit handler, operator and spawn overwrite the same snapshot; restart loses the pid map and the handlers; templates and pipelines deleted under a run | steps end once and in order, the outcome tells the truth, cancel reaches the process, unattended runs end |
| Tenant provisioning (`lib/super-admin`, `lib/provisioner-client`, `ops/mc-provisioner-daemon.js`) | `tenants`, `provision_jobs`; executions in memory; commands in the daemon | queue, approve, reject, cancel, run, step answers, time-out | two-person rule over many admins and repeated approvals; concurrent jobs of a tenant; a time-out races the late answer of a root command; restart in the middle of a plan | rule of two persons, plan order on the machine, "completed" is true, dry runs change nothing |
| Webhooks (`lib/webhooks`, `api/webhooks`) | `webhooks` with failure count and enabled flag; `webhook_deliveries` with retry time | fire, deliver, retry pass, manual retry, reset, delete | awaits on stale snapshots, ten seconds for headers and without limit for a body, overlapping passes, crash between clearing and retrying | each delivery chain is bounded, not doubled, and ends |
| Scheduler (`lib/scheduler`) | task table in memory with running flags | tick, manual trigger, clean-up, heartbeat check | the manual trigger ignores the running flag | tasks that overlap do no harm |
| Task board (`api/tasks`, `api/tasks/queue`, `api/quality-review`, `lib/task-status`) | `tasks`, `quality_reviews`, `projects` with ticket counters | create, update, bulk update, claim, review, delete | several doors to `done`; agents claiming at once | approval before done, unique tickets |
| Conductor sync (`lib/conductor-sync`) | last hash; `tasks`, `agents` | read file, upsert | unreadable files, order of writes, updates by hand in between | one row per task, no version passed over unread |
| Gateway connection (`lib/websocket`, the page, the gateway panel, the header) | refs of a hook, timers, sockets, the shown record | connect, challenge, handshake, ping, close, retry, unmount | callbacks and timers of earlier sockets run on the refs of the newer one | one live socket per hook, what is shown is real, a dead link is noticed |
| Agents, heartbeats, direct connections (`api/agents`, `api/connect`, `api/status`) | `agents`, `direct_connections` | register, connect, disconnect, heartbeat, wake, sync, delete | five writers of one status; connections replaced and closed late | silence or an older connection takes no connected agent off line that is within the timeout |
| Notices (`api/notifications`, `scripts/notification-daemon.sh`, `api/agents/message`) | `notifications` with delivered mark; batches in memory | notify, deliver, mark, delete, clean up | ten seconds per send on a snapshot; lost answers; overlapping batches; restart between send and mark | no notice goes astray, none comes twice without a reason, pending ones arrive if somebody with a credential polls |
| Data rooms (`api/data-rooms`, `api/room`, `lib/data-room`) | rooms, documents and their files, links, visitors, events | create, upload, expire, enter, record, delete | checks before the body is awaited, writes after it; files beside rows | documents have their files, what the analytics count is true |
| Live updates (`lib/event-bus`, `api/events`, `lib/use-server-events`, `lib/use-smart-poll`, `task-board-panel.tsx`) | stream, polling timer, fetches and drops in flight, the store | broadcast, connect, fail, give up, poll, drag and drop | fetches answered out of order, streams that go mute or are given up, drops that fail | a card shows what its task had, a board in view has a source of news |
| Settings files (`api/cron`, `api/tokens`, `api/integrations`, `api/gateway-config`, `lib/agent-sync`) | `cron/jobs.json`, token records, `.env`, `openclaw.json` | read, change, write back | no lock, an await at every step, writes that truncate first, a table and a file that should agree | an answered change stays, an untouched entry stays, the row of an agent says nothing that is not in its file or workspace |
| Sessions and users, rate limiter, alerts, migrations, reports, the other panels | | | see section 7 | |

## 2. Modules

| Module | Models | Code |
|---|---|---|
| `PipelineRun` | pipeline runs, their children, the pid map, the linked task | `api/pipelines/run/route.ts`, the deletions in `api/pipelines`, `api/workflows` |
| `StepwiseRuns` | abstract: a run that makes its steps one after the other | |
| `ProvisionJobs` | tenants, jobs, executions, the socket client, the daemon | `lib/super-admin.ts`, `lib/provisioner-client.ts`, `ops/mc-provisioner-daemon.js`, `api/super` |
| `ApprovedChanges` | abstract: the changes to a machine that provisioning promises | |
| `WebhookDelivery` | webhooks, deliveries, calls in flight, retry passes | `lib/webhooks.ts`, `api/webhooks`, `lib/scheduler.ts` |
| `DeliveryChains` | abstract: the chain of calls one event makes for one webhook | |
| `TaskBoard` | tasks, reviews, projects with their ticket counters, the Conductor's file and its synchronisation | `api/tasks`, `api/quality-review`, `api/projects`, `api/github`, `lib/task-status.ts`, `lib/conductor-sync.ts` |
| `GatewaySocket` | instances of the WebSocket hook, their sockets, the shown record | `lib/websocket.ts`, `[[...panel]]/page.tsx`, `multi-gateway-panel.tsx`, `header-bar.tsx` |
| `NoticeDelivery` | agents, direct connections, notices, batches of sends | `api/agents`, `api/connect`, `api/notifications`, `api/status`, `lib/db.ts`, `lib/scheduler.ts`, `scripts/notification-daemon.sh`, the agents of both synchronisations |
| `DataRooms` | rooms, documents, files, links, visitors, events | `api/data-rooms`, `api/room`, `lib/data-room.ts`, the foreign keys of `lib/migrations.ts` |
| `LiveBoard` | tasks in the table, the event stream, polling, fetches, drops, cards in a browser | `lib/event-bus.ts`, `api/events`, `api/tasks`, `lib/use-server-events.ts`, `lib/use-smart-poll.ts`, `store/index.ts`, `task-board-panel.tsx` |
| `SharedFiles` | the files that requests rewrite as a whole, and the row of an agent that follows one | `api/cron`, `api/tokens`, `api/cleanup`, `api/integrations`, `api/gateway-config`, `api/agents/[id]`, `lib/agent-sync.ts` |
| `...Proofs` | theorems about the module in front of the suffix; `SharedFilesProofs` extends `DataRooms` too and holds the theorems about both | |
| `MC...` | the symmetry sets used by the configurations; `MCSharedFiles` is the instance of `SharedFiles` and of `DataRooms`, one behaviour being about one of them | |

`StepwiseRuns`, `ApprovedChanges` and `DeliveryChains` are abstract
specifications: what pipelines promise of a run, what provisioning promises of
the changes it makes, and what webhooks promise of the calls for one event.
`PipelineRun`, `ProvisionJobs` and `WebhookDelivery` implement them, each by a
refinement mapping `Promised`; the properties are `ImplementsStepwiseRuns`,
`ImplementsApprovedChanges` and `ImplementsChains`.

Composition: `TaskBoard` has three parts that share the tasks table (the board's
routes, projects, the synchronisation), with `PipelineMoves` for what pipeline
runs do to it; `NoticeDelivery` composes the
agents with five writers of their rows, the connections and the notices;
`LiveBoard` composes the table, the bus, the stream and a browser;
`SharedFiles` composes a file with the table that mirrors it.

In every module a synchronous handler is one action, and a handler with an
`await` inside is cut there: what it holds in memory across the cut is a record
of its own (`calls` in `PipelineRun`, `exec` in `ProvisionJobs`, `calls` and
`pass` in `WebhookDelivery`, `stat` in `TaskBoard`, `batch` and `asks` in
`NoticeDelivery`, `parked` in `DataRooms`, `req` in `SharedFiles`, `fetch` and
`drop` in `LiveBoard`). A restart clears these variables and keeps tables and files.
Operators whose comment says *mutant* are not used: each is a definition with a
plausible bug in it, and `PROJECT.json` names the property that finds it out.

### Pipeline runs

`run` is the table; `children`, `tracked` and `calls` are the processes, the
pid map and the handlers parked at the dynamic import at the head of
`spawnStep`. `StartPipeline`, `AdvanceRun`, `CancelRun`, `ChildExits` are the
handlers up to that point; `SpawnSucceeds` and `SpawnThrows` are the rest of
`spawnStep` together with the tail of `advanceRun`, which stores the copy of
the steps it read before. `ImportYields` says whether another event may come in
while the import is pending; Node resolves the import of a loaded module in the
microtask queue, and the first import of the process does not.

As a run of `StepwiseRuns` a row is `stuck` when it is marked running and its
current step has failed, and its steps are `completed`, `failed` or, whatever
else they are, `open`: a step that is skipped or still runs when the run ends has
no result. `tolerant` are the steps with `on_failure` set to `continue`. While
`advanceRun` is parked the table still shows the step before; that step ends for
the abstract run when the copy is stored, possibly together with a next step
that cannot begin.

### Tenant provisioning

`exec[j]` is one invocation of `executeProvisionJob`: who runs it, which
command it waits for, and `before`, the tenant status it read at its start.
`daemon` holds the commands the daemon is working on; a command stays there
when its client has timed out. Jobs come into the table in the order of their ids
(`AUTOINCREMENT`). `applied` is what the commands of live jobs have
done to the machine (history). `WellFormedBodies` restricts the bodies of
requests, not what the handlers do with them.

As a change of `ApprovedChanges` a job is `open` while an admin may still decide
about it (queued, approved, rejected, failed) and `stranded` when it is marked
running and nobody attends to it: the server died, or the daemon closed the
connection without an answer. A dry run is a change of length 0. `consent` says
that the approver is somebody else than the requester, `asked` which steps the
daemon is working on, `progress` how many steps of the plan are on the machine.

### Webhooks

`Fire` is `fireWebhooks`; `Answer` is the synchronous block at the end of
`deliverWebhook` together with the next iteration of the retry loop that waited
for it (`Continue`). `HeadersCome` is the moment at which the abort timer is
cleared: from then on the call is in `reading` and nothing ends it but the end
of its body. `retryEnabled` is the setting `webhooks.retry_enabled`, which the
tick asks for and a pass started by hand does not (`MayStart`). `StartPass` is the synchronous head of
`processWebhookRetries` and its first call. `Tick` is the pass started by the
scheduler, which runs one at a time; `ManualPasses` are started through
`POST /api/scheduler`, which looks at no flag.

### Task board

Every request is one action under `Request`; the synchronisation is `SyncStat`
(the stamp) and `SyncRead` (reading and copying), with writes of the Conductor
in between. Requests do not interleave with a synchronisation, which is
synchronous. `reviews[t]` holds the verdicts of the latest second, any of which
may be the latest row. `key` is the `conductor_id` in the metadata of a task;
creation and update store any metadata, so requests set, change and remove it
as they like, and `written` remembers of which rows (history).

### Gateway connection

`hook[h]` holds the refs of one use of `useWebSocket`: the remembered socket,
whether it has a URL, the retry timer that `reconnectTimeoutRef` names and the
number of timers whose handle was overwritten (`strays`), attempts, missed
pongs, sent pings, the flags of manual disconnection and fatal errors. `sock[s]`
is a socket of the browser with its own state, kept until its close event was
handled, which may be long after a newer one was opened. Callbacks run with the
refs of their hook and not with those of their socket: `Closed(s)` changes
`hook[sock[s].of]` whatever that hook remembers by now. `shown` is the record
that the header reads. `LinkDies` is a link that goes mute without an event.

### Agents and notices

A batch is selected in one step (`Deliver`) with recipient and session key as
they are then; `Sent` and `SendFails` work through it one command at a time.
`heard[n]` says which sessions received a notice, `doubtful` which of them may
rightly come again: the answer was lost, the server stopped, or two batches
held it. An agent's status has three values: `"dismissed"` is `offline` as
somebody set it or `GET /api/status` took it from the age of a session on
disk, whatever the timeout is (`SyncFromSession`); `"offline"` is what silence
or disconnection makes of it. `seen` says that `last_seen` is within the
timeout. The timeout is a setting: raised, it spares agents of the heartbeat
check, which therefore takes any set of those that were stale. `Deliver` needs
a credential (`Authorised`); the daemon has none, and every caller that has one
may filter by agent or not. `Poller` is a caller with a credential of which
`PendingIsDelivered` supposes that it goes on posting.

### Data rooms

A request that awaits a body is parked (`parked`) with what it checked before:
`UploadBegins`, `UploadNamed` and `UploadEnds` are the three parts of an
upload; the name is fixed at the second one, with a clock in milliseconds. The
foreign keys delete or detach rows as SQLite does (`Deleted`, `Detached`).

### Live board

`row` is what the server has, `wire` the events written to the stream and not
yet received, `fetch` and `drop` what the browser has under way, `shown` the
cards made from the store. `had` is history: the statuses a task had in the
table so far. Fetches are read on the server and received in the browser at
different steps, in any order. The stream may fail with an event
(`StreamFails`) or go mute (`Sever`).

### Settings files

A behaviour is about one of the four files (`which`). A request is `begun`,
`read`, `open` (its write has truncated the file), then `written` (`.env`,
before the rename) or `filed` (an agent, before the update of its row). `fd`
says which file a write goes to; a rename moves the file under the other
writers (`Moved`). `due` is what the file should hold by the answers given;
`doubtful` holds entries whose requests overlapped or broke off, `erased` the
token records that a post of another workspace left out, `blind` says
that a file cut short was taken for an empty one, `apart` the leaves that were
set on one side only.

The entries of an agent are the leaves of its fields (`tools.allow`,
`identity.emoji`). In the file an update sets its leaves and leaves their
siblings alone (`Changed`, the `deepMerge` of `lib/agent-sync.ts`); in the row it
replaces the whole field, so that siblings vanish there (`Merged`, the spread in
`api/agents/[id]/route.ts:86`). Which leaves make up a field is left open: any
set of other leaves may vanish with it. A rollback merges what the row said, so
leaves it does not have stay in the file (`NotPutBack`). The synchronisation
stores in the row what the file says and, for leaves in `Enriched` of which it
says nothing, what `identity.md` and `TOOLS.md` say.

## 3. What is checked

All runs are exhaustive for their bounds.

| Run | Bounds | What it shows |
|---|---|---|
| `pipeline_sync` | one run, 3 steps, 3 spawns, a crash, failing spawns, deletions; imports do not yield | `ImplementsStepwiseRuns`, `OutcomeMatchesSteps`, `CancelReachesProcesses`, `AutoRunFinishes` |
| `pipeline_async` | one run, 2 steps, 2 parked handlers, 3 spawns, a crash | what holds even if imports yield: `TrackedPidsAreLive`, `NeverRestarted`, `ReviewNeedsCompletedRun` |
| `pipeline_stuck` | 2 steps, failing spawns | finding, section 6 |
| `provisioning` | two jobs of one tenant that may run at once, 2 admins, a plan of 2 steps, 2 executions, a crash, a daemon that may drop connections | `JobHistory`, `ImplementsApprovedChanges`, `StartedJobEnds` |
| `provision_stale` | two jobs of one tenant | finding, section 6 |
| `webhook_chains` | one webhook, 2 events of up to 2 calls, a manual pass beside the tick, a manual call, 3 deliveries kept, a restart, the setting switched on and off at any time | `OneLiveCallPerChain`, `ImplementsChains`, `ChainsEnd` |
| `webhook_breaker` | one webhook, one event, `MaxRetries` = 5 as in the code | finding, section 6 |
| `tasks_board` | two rows, one agent, two projects, one task of the Conductor, 4 requests, one write of the file (2 stamps), any number of restarts and failing reads | `OneTaskPerKey`, `HashIsHonest`, `GateHonoured` |
| `gateway` | one hook, 3 sockets of different ages, 2 overwritten timers, 2 missed pongs, 2 attempts | `LiveSocketIsCurrent`, `ShownIsReal`, `DeadLinkIsShown` |
| `notices` | two agents that may take over a session key, the daemon and two callers with a credential, batches of 2 of 3 notices, 2 connections, 3 requests | `DeliveredReachedItsAgent`, `HeardAgainIsDoubtful`, `ConnectedIsUp`, `PendingIsDelivered` |
| `board_live` | one task, 2 statuses, 2 fetches and a drop in flight, 2 changes, one attempt before the stream is given up | `ShownWasTrue`, `NewsHasASource`, `PollingCatchesUp` |
| `files_and_rooms`, part files | each of the four files with 2 entries (of two workspaces; one of them enriched), 2 values, 2 requests in flight of 3, one fault | `AnswersAreKept`, `EnvStaysWhole`, `RowAgreesWithConfig` |
| `files_and_rooms`, part rooms | two rooms, 2 addresses, 2 requests in flight of 5, one link, 2 documents, 2 visitors, 2 events, a clock of 2 values | `DocumentHasItsFile`, `VisitsAreTrue` |

Each passing run checks the type invariant of its module as well (`TypeOK`,
`RoomsTypeOK` for the data rooms); `pipeline_async` leaves that to
`pipeline_sync`.

Why the bounds are enough to be interesting: a run of three steps has a first,
a middle and a last one. Two jobs are the least that overlap, two admins the
least for whom the two-person rule can be kept and broken, two executions let a
job be retried while a command of the first is still in the daemon. Two passes
are the least that overlap, two events let answers of different chains come in
either order, and three kept deliveries make pruning meet a pending retry. Two
rows are the least for which a key could be given twice; four requests reach
create, move, delete of the project, create. Three sockets are the least for
which a close event comes to a hook that has lost one socket, holds a second
and may open a third. Three notices with batches of two have one that waits
behind the limit. Two requests in flight let a deletion fall between the check
and the write of another request. Two fetches may be answered in the wrong
order while a drop is under way. Three requests for a file let two overlap
after, before or around an answered one. That the bounds are not too small is
shown for each property by the mutated definitions: TLC finds a violation of
every property inside these very bounds.

Exceptions that the safety properties name: `AnswersAreKept` leaves out
the entries of requests that overlapped or broke off, with the leaves a rollback
cannot put back, the records of other workspaces that a single post of tokens
leaves out (`erased`), and everything after a file cut short was taken for an
empty one (`blind`). `RowAgreesWithConfig` leaves out leaves that were set on one
side only and says nothing of leaves that the row has not. `OneTaskPerKey`
counts the rows whose key no request wrote. `HashIsHonest` leaves out a version
that could not be read. Each exception is a way the code really loses
something, and section 6 lists it.

Deadlock is not checked: bounded behaviours end, and so do those of the system
when nobody asks for anything.

### Fairness

- `PipelineRun!FairSpec`: a pending import is resolved (the event loop does
  nothing else with it), and a child ends (`openclaw agent --timeout`).
  Operators owe nothing: they may, but need not, advance or cancel.
- `ProvisionJobs!FairSpec`: an armed client timeout fires. The daemon owes
  nothing.
- `WebhookDelivery!FairSpec`: a call whose headers have not come gets them or
  ends, with the abort after ten seconds at the latest, weakly fair per event and
  webhook. Nothing is assumed of a call whose headers came: its body may go on
  for ever, and with it the pass that waits. The scheduler ticks for ever; a delivery
  that is due and stays due is in one of the selections, strongly fair because
  an earlier pass or a disabled webhook may stand in the way for a while. The
  selection takes fifty rows without an order; that it does not pass over one
  row for ever is assumed. The database answers with the index on
  `next_retry_at`, so the oldest come first.
- `GatewaySocket!FairSpec`: intervals and timers of the browser fire, and a
  socket that is closing gets its close event. The gateway owes nothing, not
  even an answer to a ping.
- `NoticeDelivery!FairSpec`: a command of the polling caller ends (it is killed
  after ten seconds). A notice whose send is tried again and again arrives at
  last: strongly fair per notice. That there is a caller with a credential which
  goes on posting is no fairness of the code, but the premise of
  `PendingIsDelivered`: the daemon that comes with the code posts for ever and
  is refused each time.
- `LiveBoard!FairSpec`: the polling interval goes on, a drop is answered or
  fails, and of fetches repeated for ever some are read by the server and some
  of the answers arrive. The stream owes nothing.
- `DataRooms` and `SharedFiles` state no liveness and assume no fairness.

Exceptions that the liveness properties name: `StartedJobEnds` leaves out a job
whose connection the daemon closed without an answer, `ChainsEnd` a webhook
that does not stay enabled, a setting that does not stay on, and a chain that is
held by a body without end, its own or that of a call its pass waits for
(`Held`), `DeadLinkIsShown` a gateway that does not know
ping, `PendingIsDelivered` a notice behind a batch full of notices that nobody
can receive (`Clogged`) and a server to which nobody with a credential posts,
`PollingCatchesUp` a stream that counts as up. The
runs contain all of these cases; sections 5 and 6 say which are faults.

## 4. What is proved

The proof modules hold for every value of the constants, under the named
assumption of each module only (`ProvisionAssumption`, `TaskAssumption`,
`GatewayAssumption`, `NoticeAssumption`, `BoardAssumption`, `FilesAssumption`,
`WebhookAssumption`, `PipelineAssumption`, `RoomAssumption`): the bounds are
numbers, NULL is none of the values, the set of webhooks is finite. In each of
them `IInv` (`RoomIInv` for the data rooms) is the inductive invariant, with one
lemma per action and a last theorem per property. TLC checked each of these
invariants on the instance of the component's run before it was proved.

**ProvisionJobs.** `TypeOK`, `TwoPersonRule`, `NoStepSkipped`,
`CompletedMeansApplied` and `DryRunsChangeNothing` are invariants of `Spec`.
None is inductive. That a completed job has its plan applied needs the steps
before the current one of a live execution to be on the machine
(`ExecProgress`); that the next command skips nothing needs the same. Both need
that an execution belongs to a running job inside its plan (`ExecOwnsJob`), so
that approvals and rejections cannot change the job under it, and that commands
and applied steps belong to plans (`CommandsPlanned`, `AppliedPlanned`), so
that a late answer of a former execution cannot hurt. The lemmas share
`StatusOnly`, `FailSafe` and `UnheardSafe`. `JobHistory`, a property of steps,
follows from what a step may do to one row (`RowMoves`): only its status and
approver change, and out of running only by the execution that owns the job, so
`ExecOwnsJob` is what it takes from the invariant.

The refinement `ImplementsApprovedChanges` needs one more invariant: the steps of
a job that are on the machine are those up to some number (`AppliedInOrder`),
which makes `progress` a number, and makes the outcome of a whole plan its
length. It holds because a command never waits for an answer with a step in
front of it missing (`NoStepSkipped`). Each action moves any number of jobs:
a crash strands all that are running, and the answer to one command is a step of
its own job and a stutter of the others. `Moved(j)` lists the moves a job may
make, the lemmas ending in `As` show that an action makes one of them for each
job, and `EveryMovePromised` that such a step is a step of `ApprovedChanges`.
What that module does not promise is in its text: a change that was given up,
or even cancelled, may still go forward on the machine, because the commands
sent for it are not called back; and a stranded change stays stranded.

**TaskBoard.** `TypeOK`, `TicketsUnique`, `OneTaskPerKey` and `HashIsHonest`
are invariants of `Spec`. `TicketsUnique` needs `TicketsAllocated`: a ticket
that was not brought along from a deleted project is at most the counter of the
project its task is in. It is preserved by `DeleteProject` because the tasks
leave the project before its counter is forgotten, and by every other step
because counters only grow. `GeneralActive` says that there is always a
project to put tasks into; `CountersBounded` keeps tickets inside their type.
`HashIsHonest` needs `StampsPast`: no stamp is ahead of the file.
`OneTaskPerKey` follows from what `Known` looks for: the synchronisation makes
a row only if no row has the key, and whoever else brings a key to a row marks it
as `written`, so of two rows with one key one at least is marked. Without
the mark it is false: two requests may set the same `conductor_id`. Each request
is reduced to one of three lemmas: it replaces a row (`RowReplaced`), touches
rows only (`RowsOnly`), or allocates a ticket (`TicketAllocated`).
`GateHonoured`, a property of steps, holds route by route (`Gated`); it needs
types alone, and says nothing of the Conductor's file, which is no route.

**GatewaySocket.** `TypeOK`, `LiveSocketIsCurrent`, `ShownIsReal` and
`RetryPending`. What makes them inductive is who owns what: a hook remembers
sockets of its own only (`OwnSocket`), a hook whose handshake is complete has a
socket that was accepted (`ReadyIsAccepted`), and so has every socket with
pings under way (`PingedIsAccepted`), because a late pong of an older socket
may say Connected again; a mounted hook was not disconnected by hand
(`MountedIsNotManual`), which is why a close event schedules a retry.

**NoticeDelivery.** `TypeOK`, `DeliveredReachedItsAgent`,
`HeardAgainIsDoubtful`, `ConnectedIsUp` and `OneConnectionPerAgent`.
`IInv` is `TypeOK /\ Presence /\ Delivery`. `Presence`: a connection that is not
gone has its agent (`HasAgent`), and an agent that is connected and within the
timeout is not off line by silence. The last holds for every timeout: it is
never assumed that an agent off line by the age of its session is past it. `Delivery` ties batches to notices: the key in
a batch is or was one of its agent (`BatchIsOwned`, from `KeyIsHeld`), ids that
were not created yet were heard by nobody (`UnbornIsUnheard`), and a notice
that is pending or in a batch although it was heard, or in two batches, is
doubtful (`PendingHeardIsDoubtful`, `BatchedHeardIsDoubtful`,
`BatchedTwiceIsDoubtful`).

**LiveBoard.** `TypeOK`, `ShownWasTrue` and `NewsHasASource`. `IInv` is
`TypeOK /\ Link /\ Truth`: `Link` has what the stream and the polling timer
may be in each state of page and panel, `Truth` follows a status on its way:
what is in the table, on the wire, in a fetch, in a drag or in a drop was in
the table once (`RowIsHad`, `WireWasTrue`, `FetchWasTrue`, `DragWasTrue`,
`DropWasTrue`), and what is shown belongs to a task that exists or existed
(`ShownIsBorn`).

**SharedFiles.** `TypeOK`, `AnswersAreKept`, `EnvStaysWhole` and
`RowAgreesWithConfig`. The invariant follows an entry that is not in doubt
(`Certain`) through the copies a request makes of it. Two requests past their
first read put each other's entries in doubt (`Overlaps`), so whoever changes
the file or reads it finds, for all other entries, what the answers say: in the
copy it has (`CopyKept`), in the file unless somebody has begun to write the
entry (`FileKept`, `FiledIsThere`), in .env.tmp until it is renamed
(`TempKept`). The row, and the copy of it that the update of an agent read and
that its rollback writes back, may say less than the file, or what the
workspace says, but nothing else (`Says`, `RowKept`, `RowReadKept`); that is all
the field-by-field merge leaves, and it is enough for a rollback to put back
every leaf it writes. A leaf that it could not put back is in doubt from then on
(`NotPutBack`), and so is a record that a post left out (`erased`). Who writes alone finds the
file as it left it (`WriteIsMine`, `EnvInv`), which is why a failing write
leaves nothing but a file cut short, and .env not even that. `RowAgreesWithConfig`
needs `NeverBlind` besides: no request about openclaw.json goes on without it.
`Dropped` is shared by the requests that end without a write, `WriteResult`
and `WritesAlone` by the writes.

**WebhookDelivery.** `TypeOK`, `OneLiveCallPerChain` and the refinement
`ImplementsChains`. One call per chain is inductive once it is said in three
parts (`OneOfAChain`: waiting deliveries of a chain are one, calls in flight are
one, and not both at a time) together with where a delivery waits: in the table
or in one pass, never in two (`OnePlace`). That is what `processWebhookRetries`
achieves by clearing `next_retry_at` in the same synchronous block that selects.
`RetriesAreDue` and `CallsAreDue` keep attempts below the limit and tie them to
events that were fired. A body that is being received disturbs nothing:
`HeadersCome` and the setting change no call. Types need a count: every delivery has an id up to
`MaxRows`, because the calls that chains can still make (`Ahead`), the manual
calls in flight and those not made yet always fit into the ids that are left
(`IdsSuffice`); the cardinalities are why `Hooks` is finite. The refinement goes
chain by chain: `Moves(e, w)` says where the calls and the waiting deliveries of
a chain can come from, every action is shown to obey it (`StepSafe`), and such a
step is a step of `DeliveryChains` under the mapping `Promised`, or leaves the
chain as it is (`ChainStep`, `StepImplements`).

**PipelineRun.** The invariant has two halves. However handlers interleave,
`TypeOK`, `TrackedPidsAreLive`, `NeverRestarted` and `ReviewNeedsCompletedRun`
hold; they need that neither a row nor the copy of it that a parked handler
writes back runs two steps (`StepsSequential`), since a step that ends moves the
run on only from a state in which all steps before it ended. The other half,
`Undisturbed`, holds if no event slips in between the import and the spawn
(`~ImportYields`), and contains `StepsInOrder`, `OutcomeMatchesSteps` and
`CancelReachesProcesses`. One handler is parked then (`OneParked`) and its copy
is the row as it is about to be (`ParkedIsAhead`), so that writing it back loses
nothing. A step has one process and no process is ahead of the run
(`ChildrenBehind`): the exit of an earlier step cannot be taken for that of the
current one. `CancelReachesProcesses` needs that the process of a step that runs
is the one the pid map names (`RunningIsTracked`).

The refinement `ImplementsStepwiseRuns` is proved under `~ImportYields` as well,
and is false without it. It needs to know what a parked handler is about to
store (`ParkedFollows`): the row as it is, or the row with its current step
ended and the next one begun. Storing the second is then the end of one step,
together with the failure of the next one if its spawn throws. The end of a step
may also come from an exit or a request that ends the run at once; the lemmas
ending in `As` show of each case that it is one move of one run (`RunMoves`),
`EndsMoves` puts them together for the end of a step that `advanceRun` and the
exit of a process share, and `EveryStepMoves` says that an event moves one run
or none. What `StepwiseRuns` does not promise is
that a run ends, and that the process of a step that has ended is gone.

**DataRooms.** `RoomsTypeOK`, `DocumentHasItsFile` and `VisitsAreTrue`, in the
second part of `SharedFilesProofs`: both modules are about requests that overlap
at files, and both proofs follow what a request knew before it waited. Everything a parked request refers to has a row still,
live or gone, and the room of its visitor is the one it noted (`ParkedFits`).
That is why its write is of the right room although rooms, links and documents
may have been deleted meanwhile. A document keeps its file because names are
times (`NamesAreTimes`), so a file is overwritten or unlinked only by a document
of the same room and millisecond, or by an upload that finds its room gone, when
no document of the room is listed (`RoomsOfDocs`). `VisitsAreTrue` is inductive
as it stands: `DeletedRows` and `VisitsGo` show that every cascade takes the
events along with their visitors, `RecordedStep` that closing the latest open
page leaves none open.

Proved and not part of a run, because the theorem says more than a run could:
`StepsInOrder`, `TwoPersonRule`, `NoStepSkipped`, `DryRunsChangeNothing`,
`CompletedMeansApplied` (all parts of what `StepwiseRuns` and `ApprovedChanges`
say, but about the tables instead of the mapping), `TicketsUnique`, `RetryPending`, `OneConnectionPerAgent`.

Only model-checked: the liveness properties `AutoRunFinishes`, `StartedJobEnds`,
`ChainsEnd`, `DeadLinkIsShown`, `PendingIsDelivered` and `PollingCatchesUp` (the
prover handles neither fairness nor ENABLED). That the refinement mappings of
`StepwiseRuns`, `DeliveryChains` and `ApprovedChanges` map steps to steps is
proved; that a run, a chain or a change ends is not part of them. All other
properties of the passing runs are stated by theorems. `StepsInOrder`,
`OutcomeMatchesSteps`, `CancelReachesProcesses` and `ImplementsStepwiseRuns` are
proved for `ImportYields = FALSE` only: on the instance of `pipeline_async` TLC
finds each of them violated, when a handler that was parked stores its old copy of the
steps over what another one did.

## 5. Simplifications

- Pipeline runs: logs, prompts and results are left out; one task stands for
  the task of every linked run, without competing edits (those are in
  `TaskBoard`).
- Provisioning: commands, allow-lists and artefacts are left out; a command
  succeeds, fails or is never answered. Whether a command whose connection is
  closed took effect is open. `AllowExec = FALSE` is covered by the proofs and
  by no run.
- Webhooks: retry times are a flag; a delivery that waits may be due at any
  time. Pruning keeps the newest deliveries by id, the code by `created_at`, a
  number of seconds, with ties in any order.
- Task board: titles, comments, mentions, tags, due dates and priorities are
  left out, so the queue may take any task an agent could get. Ids of deleted
  rows may come again, which SQLite avoids for autoincremented ids; the
  properties do not depend on it. Stamps are taken to change with every write,
  although two writes inside one millisecond that keep the size would share
  one. Metadata other than `conductor_id` is left out. `companies.json` is taken to be in order. The agents that the
  synchronisation writes are in `NoticeDelivery`.
- The models have one pipeline run where TLC counts: that a task linked to two
  runs follows the one that finishes last is in no run, and two runs with parked
  handlers have too many states. The theorem `ReviewAfterCompletion` is about any
  number of runs.
- `TicketsUnique` does not speak of tasks whose project was deleted: they keep
  their numbers when they come to the default project, and these may be taken
  there. `HashIsHonest` does not speak of a version that could not be read:
  its stamp is stored all the same, and the version is not tried again.
- `GateHonoured` speaks of moves to done of tasks that exist, by the board's
  own routes. `POST /api/tasks` creates tasks that are done at once, and the
  synchronisation moves tasks to done when the Conductor has merged them.
- Gateway: frames that only fill the store and the signature of the device are
  data; delays are left out, so a timer may fire at any time; the table of
  pings is a number.
- Notices: notices created in the same second are ordered by id; of `last_seen`
  only its age against the timeout is kept; a synchronisation with
  `openclaw.json`, one transaction over many entries, is one entry a step.
- Data rooms: all uploads have one original name; a draft room counts as an
  active one, as it does in the code; folders, branding, passcodes, download
  flags and the queries of the analytics are left out.
- Live board: of a task only its status; the project filter is "all"; a click
  on refresh through a form of a panel that was closed since, a tab that is
  hidden when the board mounts, and a synchronisation that throws after it
  broadcast are left out. Duplicate cards of a task are a set of statuses.
- Webhooks, notices: of the settings those are modelled that hold up a
  property; a timeout is not a number, `GrowOld` may come at any time.
- Settings files: a field does not change from an object to a plain value
  or back. The entries stand for jobs, records, variables or the leaves
  of the fields of one agent. The creation of agents with a write to the gateway, the limit
  of 10,000 records and writers outside the server (OpenClaw, an editor) are
  left out. A request is answered in the step that ends its write.

## 6. Where code and documentation disagree

Shown by runs:

1. `pipeline_stuck`: a step with `on_failure = continue` whose spawn fails
   leaves the run running with nothing to move it on
   (`api/pipelines/run/route.ts:241`, against the comment in line 240).
2. `provision_stale`: a dry-run decommission puts the tenant back to the status
   it had when it started, over a bootstrap that completed in between
   (`lib/super-admin.ts:822`, against lines 824-825).

3. `webhook_breaker`: the fourth retry of an event is its last, and its failure
   disables the webhook (`lib/webhooks.ts:268`, `attempt < MAX_RETRIES - 1`);
   `docs/webhooks.md:155` has the breaker trip when "all 5 retry attempts" have
   failed, and the table above it lists a fifth one. `DeliveryChains` allows the
   calls that the documentation allows, so `ImplementsChains` does not depend on
   which of the two is right.

Met while modelling, without a run of their own.

*Tasks and projects.* The schema for updates fills in `status`, so that an
update that only assigns a task sends it to the inbox (`lib/validation.ts:50`;
`lib/task-status.ts:23-24` and `tests/tasks-crud.spec.ts:182` expect
otherwise). The comment at `lib/conductor-sync.ts:476` (only a successful
synchronisation updates the hash) is not true of a file that cannot be parsed:
the error becomes an empty list (line 124), and the version is passed over from
then on. A task created or updated with a `conductor_id` in its metadata is a
second row of that task of the Conductor, or is taken over by it; a row
whose metadata is replaced is not found again and gets a second row beside it
(`api/tasks/route.ts:248`, `api/tasks/[id]/route.ts:264-267`).
`syncCompletedTasks` (`lib/conductor-sync.ts:501`) is called by nobody.

*Pipelines and provisioning.* The template of the next step may have been
deleted: the run then waits for an operator (`api/pipelines/run/route.ts:303`).
A run whose last step succeeds after an earlier failure ends as
`completed_with_errors`. A daemon that closes the connection without data
leaves the job running for ever (`lib/provisioner-client.ts:93`).

*Webhooks.* The ten seconds of `docs/webhooks.md` end with the headers: an
answer whose body does not end holds its chain, the pass that waits for it, and,
since the tick starts no second pass, all later retries
(`lib/webhooks.ts:216-218`). A manual retry of a batch
calls a webhook that is disabled (`docs/webhooks.md:158`). A webhook switched
on by hand without a reset keeps its failure count and is enabled although the
count is at the threshold.

*Gateway.* "Click to reconnect" (`header-bar.tsx:302`, `:361`) belongs to an
instance of the hook that never had a URL: it resets the shown record and
connects nothing. "Connecting... (10)" stays after the attempts are used up.
The close event of an older socket stops the heartbeat of the newer one and
takes its handshake for lost. A handshake has no timeout.
`gatewaySupportsPing` is never reset. Closing the gateway panel runs the
cleanup of its own hook and says Disconnected while the page's connection is
up (`lib/websocket.ts:700`).

*Agents and notices.* The daemon posts without a credential
(`scripts/notification-daemon.sh:71-75`), and `proxy.ts:112-128` and
`requireRole` answer it with 401 each time; notices are delivered only if
somebody else posts. `GET /api/status` takes an agent off line whose session on
disk is an hour old, even if `general.agent_timeout_minutes` allows more.
Notices nobody can receive are never marked and stay at
the head of every batch (`api/notifications/deliver/route.ts:43`, against the
comment in line 10). A direct message is sent and then delivered once more as
a notice. `POST /api/connect` leaves `last_seen` as it was, so that the next
heartbeat check takes a just connected agent off line; connections stay
"connected" after that. `GET /api/status` may move `last_seen` backwards.

*Data rooms.* The files of a deleted room stay on disk, and an upload that ends
after the deletion leaves one more. The events route ignores the expiry of the
link and the status of the room; a link closed while an entry awaits its body
still admits. Two uploads of one name in one millisecond share a file.

*Live updates.* `lib/use-server-events.ts:19-20` says that the stream brings
"instant updates for all local-DB data"; claims through
`api/tasks/queue/route.ts:119`, the tasks of pipeline runs
(`api/pipelines/run/route.ts:319`, `:373`), the inserts of both importers are
not broadcast, and `agent.deleted`, `chat.message.deleted` and
`notification.read` have no case in the dispatch. Events between a fetch and
the stream, or during a reconnection, are not fetched again; a stream that goes
mute keeps the polling paused; after twenty attempts the stream is given up
for good. An added task that a fetch brought already is shown twice. A bulk
update announces tasks that do not exist. A failed drop reverts the card to the
status at the start of the drag, over newer events, and of two overlapping
drops of a task the card may keep a status the task never had (the exception
`crossed` of `ShownWasTrue`).

*Settings files.* A post of token usage drops the records of the other
workspaces (`api/tokens/route.ts:605-612`; `tests/agent-costs.spec.ts:74`
reads them per workspace). Adding a cron job and posting tokens take a file
that cannot be read for an empty one and write that back. All requests share
the name `.env.tmp`: of two overlapping changes one may be answered with
success and be lost, the other be answered with an error and be made. The
rollback of an agent's update does not remove leaves that are new, at whatever
depth, puts what the row had from the workspace into the file, and
overwrites edits made through `api/gateway-config` meanwhile; the row is
written from a copy read before the awaits, so that overlapping updates lose
fields in the table. An update of a part of `tools`, `identity` or `sandbox`
keeps the other parts in the file and drops them in the row, until the next
synchronisation (`api/agents/[id]/route.ts:86`, `lib/agent-sync.ts:358`).

## 7. Not modelled

- **The panels of the user interface** (about half of the repository's lines,
  under `src/components` and `src/app/**/*.tsx`) fetch, render and post forms.
  The parts with state that outlives a request are modelled: the task board as
  a copy of a table, the stream, the polling, the connection and what the
  header shows. A state machine of the others would restate their JSX.
- **Sessions and users, access requests** (`lib/auth.ts`, `api/auth`): each
  handler is one short synchronous transaction once its body is read. The role
  is read before `await request.json()`, so a demotion does not stop a request
  that is already being received; no state lives across an await beyond that.
- **Rate limiter** (`lib/rate-limit.ts`): one map changed by synchronous calls.
- **Alerts** (`api/alerts`): one synchronous pass over tables that are only
  read; its notices are an input of `NoticeDelivery` (`Notify`).
- **Chat, comments, mentions, activities, standups**: rows that are inserted
  and read. They reach the models as notices and events.
- **Migrations** are a straight-line script; the tables they make appear as
  variables.
- **Reports, search, export, token statistics**: aggregations that write
  nothing.
- **Backups, memory files, session scans, `openclaw` itself**: files and
  programs outside the server's control; what they do to modelled state is an
  input.

## 8. Plan

Every component of section 1 with behaviour of its own has its module. Next, in
this order:

1. Proofs: what is left of the order of steps when imports yield, that is, how
   far a handler that was parked can set a run back.
2. The scheduler's clean-up composed with the tables it empties.
3. Sessions against changes of users, if a handler comes to keep state across
   an await.
