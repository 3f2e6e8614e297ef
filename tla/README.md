# Formal model of the build server

The repository is a small CI server: projects and builds in SQLite, one local
Docker runner inside the server process, remote build agents that claim work
over HTTP, a git poller and a webhook that create builds, live log streams, a
fleet view and a Telegram outbox. The modules here model the parts whose
correctness depends on the order in which handlers, goroutines, agents and
restarts act.

## 1. Inventory

| Component | State it keeps | Operations | What is hard | What makes it correct |
|---|---|---|---|---|
| Build queue and life cycle (`internal/db/db.go`, `buildlogs.go`, `internal/api/api.go`, `cmd/builds/main.go`) | `builds` rows (status, agent, requeues, cancel flag, heartbeat), `projects.executor` and profiles, the channel of 100 builds | trigger, re-run, webhook, poller: insert and dispatch; edit of a project and adoption of its pending builds; cancel; restart recovery | every handler is several SQL statements; the project is read before the row exists; the channel is lost with the process | no local build is left off the channel; a cancel lands; outcomes are final; bounded re-queues |
| Local runner (`internal/runner/runner.go`) | the loop's position, `currentID` and `cancelCurrent` under `mu`, the context's cause | take, register, claim, run, finish or re-queue, unregister, stop | claim races with cancels, agents and the janitor; the first cause of a context stays; a refused write leaves a running row | the registered build is the runner's alone until its last write |
| Janitor (`SweepStale`, `FailStaleRunning`) | the rows it scanned, `mu` held | scan, re-read and fail one row per transaction | agents talk to the database between the scan and the transactions | never fails the current build or an agent that beat in time; every abandoned row is failed in the end |
| Agent protocol (`internal/api/agents.go`) | rows owned by agents; what each agent believes | long-poll claim, answer, heartbeat, log upload, finish | lost answers, repeated reports, agents given up that still work, edits between claim and answer | one worker per build; the first outcome stays; an agent's build is never run twice |
| Log stream (`internal/logbus`, `internal/runner/sink.go`, `handleBuildEvents`) | sink buffers, stored log, topic (`base`, `buf`, subscribers, closed), reader's offset | write, flush, publish, seed, subscribe, replay, reconnect, close | retained suffix, slow readers dropped, gaps after a restart, terminal status racing the last bytes | a reader sees the stored log, every byte once and in order |
| Agent log upload (`handleAgentLog`, `AppendAgentBuildLog`) | stored length, topic | append at an expected offset, reseed the topic | lost answers and retries, the janitor's note in between | every chunk stored once, bus and row agree |
| Git poller and webhook (`internal/poller`, `handleGitHubWebhook`) | `last_polled_sha`, stale project snapshots | sweep, ls-remote, compare, create, touch, reset | seconds pass between read and write; webhook and edits interleave | one build per commit; no build of an unwatched ref; no commit is missed for ever |
| Notification outbox (`internal/notifications`, `internal/db/notifications.go`) | outbox rows, incidents, receipts | capture by triggers, submit, verify, retry, prune | a lost answer of the relay, a crash between submit and record, muting between capture and submit | at most one accepted message per event; retried until accepted or expired |
| Agent registry, fleet, pause (`internal/agents`, `internal/db/agentstore.go`) | open polls per agent, last contact, the stored sighting, the pause's deadline | poll started/done, throttled sighting, pause, resume, forget, the page's reads | overlapping and cut-off polls, forget during a poll, a pause during a hold or between the two statements of a first sighting, a page read piece by piece, an empty registry after a restart | no phantom poll; a pause is never lost; nobody that was heard from is called offline; who is gone is offline in the end |
| Live hub (`internal/live`, `handleLive`, `initListLive`) | subscribers and their queues, the last snapshot, the sampling loop's stop channel; what each page shows | subscribe, unsubscribe, sample, publish; reconnect and fall back to polling | an old loop overlaps a new one, a torn or late snapshot, slow subscribers dropped, nothing is sent while nothing changes | one loop serves; "no change" is right for every subscriber; a page shows the truth in the end |
| Authentication (`internal/auth`) | login token bucket | login, middleware | arithmetic at the boundary | bounded attempts per window |
| Mail, web pages, websocket frames, broker probe | none of their own | I/O and rendering | nothing the server's state depends on | not modelled |

Components interact in three ways: through the database (one connection, so
each statement or transaction is atomic and they are totally ordered), through
the channel of builds and the runner's registry inside the process, and through
HTTP requests of agents, which can be lost, repeated or late.

## 2. Plan

Order of work, most important first; (done) marks what exists.

1. `BuildLifecycle` (done): the abstract promise about one row.
2. `BuildQueue` (done): queue, runner, janitor, agents and restarts in one
   module, because the hazards are between them; refines `BuildLifecycle`.
3. `BuildQueueProofs` and `BuildQueueServiceProofs` (done): the inductive
   invariant, seven theorems about rows and workers, and three about what is
   promised to whoever cancels or queues a build.
4. `LogBus` (done): one topic of the bus and its subscribers.
5. `LogStream` and `LogStreamProofs` (done): stored log, sink, agent uploads,
   notes and readers around `LogBus`, with the inductive invariant of all its
   safety properties.
6. `Poller` and `PollerProofs` (done): poller, webhook, operator and edits of
   one project, with the inductive invariant of the poller's snapshot.
7. `Outbox` and `OutboxProofs` (done): capture, switches, worker, relay and
   restarts, with the inductive invariant of all its safety properties.
8. `Fleet` and `FleetProofs` (done): one name's polls, sightings, pause,
   reports and the page that decides whether it is here, with the inductive
   invariant of its safety properties.
9. `LiveHub` and `LiveHubProofs` (done): overlapping sampling loops, subscribers
   and pages, with the proof that one loop serves and everybody is in step.

Modules that could still be added: the coverage of the queues over a fleet of
several names, and the deletion of a project beside what works on its builds.

## 3. The modules and the code

### BuildLifecycle

One variable per observable of a row: its status, who runs it, how often it was
re-queued. `Create`, `Start`, `Requeue`, `Abandon` and `Settle` are the only
things that may happen to a row. Only the server's own attempts are re-queued,
at most `MaxRequeues` times, and a settled row never changes.

### BuildQueue

The database, the server process and the agents each have their variables.

| Variables | Code |
|---|---|
| `status`, `owner`, `requeues`, `cancelReq`, `quiet`, `project` | columns of `builds`; `quiet` holds the rows whose last heartbeat is a TTL or more ago |
| `config` | `projects.executor` and `executor_profiles` |
| `phase`, `grace` | `main` and the runner's `startedAt` against the TTL |
| `queue` | the channel `buildCh` |
| `rpc`, `job`, `current`, `cause`, `verdict` | `Runner.loop`, `process` and `runBuild`, `currentID`, `context.Cause` |
| `sweep` | rows the janitor has scanned and not visited; nonempty means it holds `Runner.mu` |
| `handler` | the local variables of each HTTP handler in flight; the poller's creation of a build has the same steps |
| `promised` | an observer: builds whose cancel was answered 202 |
| `apc`, `work`, `report` | what an agent believes, modelled from how the server uses agents |

SQL statements and transactions are single steps. A handler is a sequence of
steps with its local variables in `handler[h]`: a trigger is
`TriggerRead; CreateBuild; Dispatch`, an edit is
`UpdateRead; UpdateWrite; UpdateAdopt; UpdateEnqueue*`, a cancel is
`CancelPending; CancelCurrent; CancelCheck` or
`CancelPending; CancelCurrent; CancelLookup; CancelFlag`. A lock is modelled by
what it excludes: `CancelCurrent`, `RunnerRegister` and `RunnerLeave` wait while
`sweep` is nonempty, because `SweepStale` keeps `Runner.mu` from its scan to its
last row.

What is abstracted: the commands of an attempt are one step, `RunBuild`, that
chooses the outcome allowed by the context's cause; logs, timestamps and wire
formats are left out; a heartbeat's age is the membership in `quiet`, and the
floor of `AgentStale` is `grace`. An agent that is told its build is no longer
its own drops it, and an agent may crash whenever it works. `Down` ends the
process from any state: memory is gone, rows stay, an unanswered claim is never
heard of, an unanswered report will be repeated. Promises that only the memory
of the process kept (a canceled context) end with the process; those kept as a
flag in the row stay.

`UpdateWrite` writes any configuration, the one it read included: an edit that
does not mention the executor writes back the value it read.

`Faults` allows the database to refuse the runner's and the janitor's writes
(the claim, the read of the project, the end of an attempt, a sweep's
transaction). `NoBuildStranded` and `LocalBuildsStart` are checked without
faults: a claim that is refused drops its build from the channel while the row
stays pending, so they would not hold with them. Other refusals are left out;
the one that matters to these properties is the list of the pending builds in
`handleUpdateProject`: when that read fails, the code adopts nothing and says
nothing (`api.go:440`), and the builds wait for the next restart.

Not in the module: deleting a project (its builds go by cascade), the pause of
an agent (it is `Fleet`'s), the log column (it is `LogStream`'s).

### LogBus and LogStream

`LogBus` is one topic of `logbus.Bus`: `topic` holds its state, the absolute
offset of its first retained byte and the bytes; `chan` the queued events of
each subscriber and `subs` whose channel is open. Each exported method runs
under `Bus.mu` and is one operator. `LogStream` extends it with one build's
stored log and everybody who writes to it or reads it.

| Variables | Code |
|---|---|
| `stored` | the log of `builds.log` and `build_log_chunks`, a sequence of bytes |
| `status`, `owner`, `requeues` | the build's row; the outcomes are one, `done` |
| `phase`, `rpc`, `sink` | the runner, what it does with the build, `logSink.dbBuf` |
| `task` | a writer's local variables after its commit: what to seed, publish, answer and announce |
| `made` | how much output was produced |
| `apc`, `alog`, `aoff`, `acked`, `reqs` | the agent's own log, the `log_offset` its claim was answered with, what it believes is stored, its uploads on the way; modelled from how the server uses agents |
| `stream` | a reader's `handleBuildEvents`: its position, `from`, `sent` and whether it saw an outcome |
| `got`, `heard` | what the reader has received, and who was told an outcome by the stream |

A byte is the number of the piece of output it stands for, 0 for a note, so a
lost, repeated or misplaced byte shows. Every writer commits first and then
publishes, in steps of its own: `Flush; RunnerSeed; RunnerPublish` for the sink,
`UploadOpen; UploadCompare; UploadSeed; UploadAppend; UploadPublish;
UploadAnswer` for an upload (one at a time, `agentLogMu`), `JanitorFail;
JanitorMirror; End` and `CancelPending; CancelPublish; End` for the notes that
are stored with an outcome. A reader goes `Connect; StreamSubscribe; Reread;
Replay` and then takes events until it is told an outcome or its channel is
closed; one that finds an outcome at once goes `Connect; Replay; Final`. What is
written to a connection that breaks arrives up to any point, and the reader
connects again with the offset it has. Why a reader leaves is not asked. `Restart` ends the process from any
state and starts it again, with the recovery of the runner's row.

Left out: line buffering and scrubbing of the sink, which decide what the bytes
are and not where they go; the split of a long chunk into several events and
UTF-8 boundaries; status events that are not terminal (they only make a queue
full earlier); a claim that is answered with an error and fails its build; the
requests of the web UI's page beside its stream, that is its fallback to polling
the log and, while it shows a pending build, its question for the row every 4 s
(`app.js:1847`), after which it closes the stream: for the server that is a
`Disconnect`, and a reader that is not such a page does not do it; refused reads
of the database, on which a stream is closed and the reader reconnects. A
refused append of the sink keeps its buffer and is no step; a refused append at
the end of a build is `Abandon`.

### Poller

One project, its triggers and the remote. A commit is a number in the order of
making; 0 is the empty string and also the `manual` of a build without a commit,
which equals no commit either.

| Variables | Code |
|---|---|
| `tip`, `made` | the remote's branches, external: any push is possible, also one back to an old commit |
| `branch`, `baseline` | `projects.branch` (and `repo_url`), `projects.last_polled_sha` |
| `builds` | the project's `builds` rows: commit, which trigger, active (pending or running) |
| `poll` | `pollProject`'s position and local variables: the branch and baseline of the row it read, and the tip the remote answered |
| `matched` | `handleGitHubWebhook`'s local variables: commits of events it is about to insert builds for |
| `edit` | `handleUpdateProject` between `UpdateProject` and `ResetPollState` |
| `origin`, `seeded` | observers: the branch whose tip the baseline is, and tips that became a first baseline |

A sweep is `PollRead; Probe; CheckBuilt; CheckActive; PollCreate; Touch`, each
step one statement or one `ls-remote`, with the early returns of the code
(`ProbeFails`, and `Touch` at once after a first, unmoved, covered or deferred
tip). An event is `HookMatch; HookCreate`, an edit `EditBranch; EditReset`; the
process may end (`Stop`) between any two steps, and starts again with the rows.

Left out: when a project is due and the interval, so a sweep may come at any
time; switching polling off, which is a pause; the dispatch of a build, which is
`BuildQueue`'s, a full channel being a build that ends at once; the signature
and the other branches of an event; reads and writes the database refuses (a
refused `touch` is a restart between `PollCreate` and `Touch`).

### Outbox

The outbox of one project: an event is the outcome of a build or a change of an
agent's state, the latter numbered by the revision of the observation.

| Variables | Code |
|---|---|
| `row` | `notification_outbox` by event: state, order of insertion, whose event it is, text, whether there is a `relay_id`, whether `next_attempt_at` has come, age |
| `enabled`, `allowed`, `capture` | `projects.telegram_notifications`, the agent's preferences, `telegram_capture_enabled` |
| `ended`, `revision` | `notification_build_seen`, `notification_agent_kind_seen` |
| `secrets` | the version of the project's name and secrets a text is made with |
| `key`, `held` | whether the process has a relay key; `relayNext` and `routeBackoff` |
| `worker`, `batch` | the position in `Sweep`, `process` or `delivery` with the notification in hand and the relay's answer; the rest of `DueNotifications` |
| `posted`, `void` | observers: the texts sent for an event; events retired while nobody was sending them |

A sweep is `Prune; ObserveChange*; ObserveDone; AskRoute; Due` and then, for each
of the batch, `Look; Compose; CheckRoute; Reread; Gate; Post` and one of
`Record`, `Refused`, `Unclear; Retry`, or for a submitted one `AskReceipt` and
one of `Follow`, `Unclear; Retry`. A request to the relay begins in one step and
is answered in another; builds end, switches move and the process restarts
between any two steps. `Write` is the one way a row changes, and notes what was
retired. The relay is external: it accepts, refuses, answers anything else or
nothing.

What is abstracted: a text is the version of the secrets it was made with, 0 for
none; an age counts a day and a week; `held` says what the sweep's own time is
too early for, so it ends, like a row's wait, only between sweeps (`now` is one
value for a sweep); an edit of a switch is one step, because any sequence of
switches is allowed anyway.

Left out: fingerprints of agents and when two are equal (any observation may be a
change); several projects and agents and the categories of an agent's events,
each of which is one more switch of the same kind; outcomes too long to capture;
the limit of ten events in a batch, which are taken in any order; migrations;
deletion of a project; reads and writes the database refuses, on which a sweep
ends as it does at a restart.

### Fleet

The presence and the pause of one agent's name, which several machines may use
at once.

| Variables | Code |
|---|---|
| `server` | whether the process is up and for how long: `Registry.started`, the floor of every staleness |
| `reg` | `Registry.seen[name]`: `known` there is an entry, `polling` and the age of `LastPoll` |
| `row` | the name's row of `agents`: the age of `last_seen_at` and what is left of `paused_until` |
| `poll` | `handleAgentClaim` for each open request; `excused` notes that it looked at the pause before the order, or could not read it |
| `build` | the name's running build and the age of its heartbeat |
| `forgetting` | `handleForgetAgent` between its two deletions |
| `page` | `agents.Build` between its reads, with what it knows of the agent so far |
| `ordered`, `heard`, `gone` | observers: the pause that was ordered, when and how the agent was last heard from, and whether it is gone for good |

A claim is `PollStarted`, then `UpdateSighting; InsertSighting` if the sighting
is due, then `CheckPause; ClaimBuild` in every turn of the loop, and `PollDone`
however it ends. A page is `PageSnapshot; PageRows; PageFill`. The database
refuses what it likes, the pause's read included, which fails open as in the
code. Time goes in ticks, and an age ends at `TTL`, where all are stale: the
code compares ages with the TTL and never with each other across sources, but to
prefer the later one, and a fresh one makes the agent present whichever is
later. A page takes less than a tick. A page is followed until something it has
read shows that the agent is here, because nothing it reads later takes that
back; what remains is whether it says `offline` or `waiting`.

What is abstracted: whether a sighting is due is a free choice, so every throttle
interval is covered; whether the table of names is full is a refused insert. A
pause that is shown, the badge for an agent that is here (busy, paused or
online), the executors it serves, duplicates, clock skew and self-reports are
left out; the name has built before, so that a page lists it (`AgentNames`), and
has one running build at a time.

### LiveHub

| Variables | Code |
|---|---|
| `db` | the recent builds once they stay as they are, `None` as long as they change |
| `last`, `serving` | `Hub.last`; `Hub.running` and the loop that `Hub.stop` belongs to |
| `loop` | the sampling goroutines: where each is in `loop` and `publish`, its snapshot, whether its stop channel is closed |
| `conn` | a page's `handleLive`: whether it is in `Hub.subs`, its channel, and (an observer) what was put into it last |
| `page` | a page's `initListLive`: its socket, what it shows, the fallback's timer and request |

`Subscribe`, the function it returns (`Unsubscribe`) and the second half of
`publish` run under `Hub.mu` and are one step each. The sampling is outside the
lock and several queries, so while builds change `Sample` may take any snapshot:
old, new or a mixture. A handler writes one queued snapshot at a time (`Write`),
and returns when its channel is closed and empty, when it notices that the page
has gone, or when a write or a ping fails. Until its first socket opens, an
impatient page asks with plain GETs (`Fetch`), and applies an answer whenever it
comes (`Fetched`): opening the socket stops the timer and not the request.
`Restart` ends the process from any state. A page that loses its socket shows
what it showed; `shown` is then `None`, so that being right later means having
been told again.

What is abstracted: what is in a snapshot; the interval of the loop and the
delays of the reconnects; a socket that opens is one step with the handler's
subscription; a browser without sockets, which only polls.

### MCBuildQueue, MCLogStream, MCPoller, MCOutbox, MCFleet, MCLiveHub

Give the constants values for TLC. Executors are `local`, `mac`, `unity`,
`win`; `UnityConfig` is a project whose profile map is the allowlist
`{mac, win}`, so that the map and not the primary executor decides who may
claim.

## 4. The runs

Bounds: `MaxBuilds` rows and `Handlers` requests in flight at a time; the
channel has capacity 1, so that it is full as soon as one build waits;
`MaxRequeues` is 1, so that both sides of the bound occur. Restarts, sweeps,
heartbeats, edits and cancels are not bounded. Two builds are enough for a full
channel, for the oldest-first choice of a claim and for a sweep with a row left
to visit; two agents for a contest; two handlers for a race of requests.

| Run | Instance | Shows |
|---|---|---|
| `local` | local project, 2 builds, 2 handlers | `CancelLandsInService`, `CancelInNoGap`, `NoBuildStranded`: with any two requests racing the runner, the janitor and restarts, a cancel answered 202 is held until the build has an outcome (except while the process is stopping), and no pending build is off the channel |
| `adopt` | local and mac, 2 builds, 1 handler, fairness | `LocalBuildsStart`: one move at a time takes the pending builds along, also through a full channel and a restart |
| `agents` | mac and unity, 2 agents, 2 builds | `OneWorkerPerBuild`, `CancelLandsInService`, `OutcomeIsFinal`, `AgentBuildsStay`, `HeartbeatWins` |
| `moves` | local and unity, 2 agents, 1 build, faults, fairness | `TypeOK`, `RunnerKeepsItsBuild`, the refinement `ImplementsLifecycle`, and `RunningBuildsEnd` |
| `stranded` | 2 handlers, local and mac | violation of `NoBuildStranded`: see below |
| `log_stream` | 1 reader, fairness | `BusMirrorsTheLog`: the topic is a part of the stored log at the right offsets; `ReaderSeesTheLog`: a reader has received a prefix of it; `NothingAfterTheEnd`: who is told the outcome has the whole log; `UploadsStoredOnce`, `LogIsFrozen` and `AnnouncedEnds` |
| `log_overflow` | 1 reader, fairness | violation of `StreamsEnd`: see below |
| `poll` | 2 branches, 2 commits, fairness | `BaselineIsCovered`: what is recorded as seen has a build or was a first tip; `PolledOnce` and `PolledBuildsWait`: the poller builds a commit once and one at a time; `TipGetsBuilt`: a tip that stays is built; `TypeOK`, also that no empty tip is recorded |
| `poll_stale` | 2 branches, 2 commits | violation of `EditReseeds`: see below |
| `outbox` | 1 build, 1 alert, fairness | `PendingIsAllowed`: what is queued may be sent as the switches are; `CanceledStays`: what was muted, suppressed or expired is never sent, except by a POST under way; `SameMessage`: all tries of an event carry one text; `ReceiptEndsSending`: an accepted event is followed and not sent again; `OutboxIsBounded`; `NothingWaitsForever`; `TypeOK`, also that what is followed has a receipt |
| `live` | 2 pages, 2 loops, 2 snapshots, fairness | `OneLoopServes`: whoever is subscribed is served by exactly one loop that goes on; `InStep`: what a subscriber was sent last is what the hub compares with; `PagesCatchUp`: once the builds stay, every page comes to show them; `TypeOK`, also the bound of the queues |
| `fleet` | 2 machines, fairness | `NoWorkUnderPause`: only a poll that looked before the order claims during a pause; `OfflineMeansSilent`: who is called offline was not heard from within the TTL of a server that has been up for one; `SilentGoesOffline`; `TypeOK`, also that no more polls are counted than are open |

Bounds of the log runs: two pieces of output, of which the topic retains two and
a note pushes the first out; a subscriber's queue of one event, so that a second
one drops the reader; one upload on its way besides the one being handled, which
is enough for a repeated and for an overlapping request; one re-queue. Restarts,
disconnects and reconnects are not bounded. One reader, because readers share
nothing but the bus.

Bounds of the poller's runs: two commits, so that a branch moves while a build
of the older one is in flight and may move back; two branches, so that an edit
changes what is watched; one build by the webhook or the operator, to race the
poller's. Sweeps, events, edits, pushes and restarts are not bounded.

Bounds of the outbox: one build's outcome and one change of an agent, the two
kinds of capture (with a text and without) and of switches; a table of one row,
so that the second event meets its limit with the first in any state, the
worker's hands included; two versions of the secrets, so that a text made later
would differ. Sweeps, tries, switches, restarts and the relay's answers are not
bounded.

Bounds of the live run: two loops, so that a stopped one overlaps its successor;
a queue of one, so that a second snapshot drops the reader; two snapshots, so
that a page can be wrong and the hub's comparison can say "no change" wrongly;
two pages, so that one may be the last to leave while the other arrives, of
which one is impatient. Joins, losses, reconnects, samples and restarts are not
bounded, a third loop waits until one of the two has gone.

Bounds of the fleet run: two requests, so that polls of one name overlap; a TTL
of two ticks and a hold of one, so that a poll may be open, recent and stale, and
a poll ends before its beginning is stale, as 25 and 90 seconds do; a pause of
one tick. Polls, pauses, builds, pages, restarts and time are not bounded.

Deadlock is not checked in the runs of `BuildQueue`, where the server may be down
and stay down, and of `LiveHub`, where once nothing changes a page may be closed
and no loop be running.

Every property of a passing run has a mutant of the code in `PROJECT.json` that
breaks it: claiming before the registration, dropping a build when the
channel is full, not re-reading a row before it is swept, sweeping the current
build, clearing the cancel flag when it is read, publishing over a gap, not
reading the row again after subscribing, keeping the last snapshot over an idle
period, counting an ended poll that was forgotten, and so on.

### Where code and comments disagree

- `stranded`: the comment at `api.go:412` says the adoption keeps builds from
  sitting pending until the next restart. It does when nothing else is in
  flight; a trigger that read the project before the move, or a second edit
  that writes back the executor it read, still leaves such a build.
- `log_overflow`: `enqueue` writes the failure of a build that does not fit the
  channel to the database and not to the bus. The event stream of a reader who
  watched the build while it was pending (an agent's build whose project is
  moved to the local runner) stays open on a topic nobody closes, kept alive by
  pings until the reader leaves, although `api.go:753` promises the status
  transitions and `api.go:790` wants no topic "that no future writer will close".
  The web UI's own page does not depend on it: while it shows a pending build it
  asks for the row every 4 s (`app.js:1847-1863`), learns the outcome and closes
  the stream (`app.js:1732-1737`). The property is about the stream, and a client
  that only follows the stream waits on. `AnnouncedEnds` is what holds: an
  outcome that anybody has to announce ends every stream.
- `poll_stale`: `docs/adding-a-project.md:216` says that after a change of the
  branch the next sweep seeds anew. The branch and the reset are two statements,
  and a sweep that is at the remote meanwhile records the old branch's tip
  after the reset, so a commit is built that is only not the old branch's. The
  baseline is covered even then (`BaselineIsCovered`).

The following were met while modelling too and have no run of their own; each is
a property defined in a module, and named in a configuration of it TLC shows how
it fails.

- `CancelLandsInService` with a project that moves: the invariant at
  `runner.go:214` has a gap when a project moves to an agent's executor while its
  build waits on the channel. Nobody looks at the executor again before the
  claim, so an agent may claim the row the runner has just registered:
  `Runner.Cancel` says yes, the runner skips the build, and the agent is never
  told. (`MaxBuilds` 1, `Configs <- LocalOrMac`, one agent.)
- `OneBuildPerPush`: `poller.go:7-9` and `docs/adding-a-project.md:209` say that
  the poller and the webhook racing on one push produce a single build. Only the
  poller looks for a build of the commit; an event that comes after the sweep, or
  between its look and its insertion, adds a second build. `PolledOnce` is what
  holds, and it is about the poller's own builds. (One branch, `MaxOthers` 1.)
- `NewestWins`: `live.go:5-8` and `app.js:824` say that applying the newest
  snapshot is always correct. The newest to arrive need not be the newest taken:
  the answer to a plain GET that was under way when the socket opened is applied
  after the socket's first snapshot and stays until the next change.
  `PagesCatchUp` leaves such a page out.
- `ReportIsHeard`: `fleet.go:22` calls an agent offline that is "not heard from
  within the tolerance". The report that ends a build is heard, but neither the
  registry nor a running build remembers it, and the last poll was before the
  build: from the report to the next poll the page, and an observation for a
  message, may say offline. `OfflineMeansSilent` makes the exception.

Smaller observations, for which no property is stated: a `Forget` while the name
has a poll open leaves the later entry's count one too low when that poll ends,
and a machine in a held poll does not "reappear immediately" (`agents.go:399`)
but with its next poll; the number of rows and the insert are two statements in
`RecordAgentSighting`, and `PauseAgent` does not look at the number.

### Fairness

`FairSpec` assumes what the process and the world do by themselves: handlers in
flight, the runner and the janitor are goroutines that are scheduled again
(weak fairness); a goroutine that waits for `Runner.mu` gets it although the
janitor takes it again and again (strong fairness: Go's mutex hands over to a
starved waiter); commands end, at the latest by the build timeout; clocks
advance; a transaction of the janitor is not refused for ever; an agent that
still works on a build reports it. Nothing obliges anyone to create a build, an
agent to claim or to survive, or a stopped server to start. The liveness
properties speak of a server that stays up from some point on.

`LogStream`'s fairness is that of the goroutines only: a writer goes on from its
commit to its last publication, and a connected stream takes the next event.
Nobody has to print, connect, claim or finish, and no reader has to leave.

`Poller`'s fairness: the ticker brings sweeps round and a sweep goes on to its
end; the remote answers now and then (strong fairness of `Probe`: failures may
come between, but not only failures); builds end, which is `BuildQueue`'s
`RunningBuildsEnd` and the runner's or an agent's work; and the process stays up
from some time on (`<>[]Up`; a sweep may need longer than a process that is
restarted for ever lives). Nobody has to push, edit or send an event.

`Outbox`'s fairness: a sweep goes on, which includes that a request ends (the
client's and the sweep's timeouts); days pass, whatever the worker does (strong
fairness, since time is seen between sweeps only); and sweeps begin now and then
(strong fairness of `Prune`, a sweep's first statement), which `Run` sees to
before its first tick. The process may be restarted for ever, the relay need not
answer and a held request need not be released.

`LiveHub`'s fairness: a sampling goroutine goes on, and of the closed stop channel
and the ticker `select` does not take the ticker for ever (strong fairness of
`LoopStops`); queries are not refused for ever; a page that is left alone
connects again (`scheduleReconnect` never gives up), its handler writes what is
queued and notices that a page has gone (idle timeout and pings); a plain GET is
answered. `PagesCatchUp` assumes nothing about how long builds change; it speaks
of the time after they do, in which pages and connections stay as well.

`Fleet`'s fairness: an open claim goes on, which the deadline and the ticker see
to; pages are assembled; time passes, also when a request or a page is always
under way (strong fairness of `Tick`). Nobody has to poll, build, report or
operate.

## 5. What is proved

`BuildQueueProofs` holds for every number of builds, projects, agents and
handlers, every capacity and every bound on the re-queues, from the assumptions
`ConstantsOK` (the types of the constants and that `None` is none of the values
it is compared with) and `ConfigsOK` (`validExecutorProfiles`: a project with
profiles is remote). `Faults` may be either.

The properties are not inductive as they stand. `IInv` strengthens them:

- `RunnerInv` ties the loop's position to the registry and the row: the build
  is registered from before its claim until after its last write, and while the
  commands run the row is running and has no owner;
- `SweepInv`: the registered build is never among the rows the janitor has in
  hand. It holds because the scan leaves `current` out and the registry cannot
  change while `Runner.mu` is held;
- `RowInv`: a row that was not started has no owner, so a claim by the runner
  really makes the row the server's;
- `AgentInv`: what an agent works on is owned by it. Owners never change after
  a claim, so the agent's belief stays true even when it has been given up;
- `HandlerInv` and `PhaseInv`: a handler past its first step has a build, and
  nothing runs in a process that is not up.

`Init => IInv` and `IInv /\ [Next]_vars => IInv'` are proved action by action,
one lemma per action or group of actions. From it follow

| Theorem | Property |
|---|---|
| `TypeCorrect` | `TypeOK`, with the bound on the re-queues |
| `RunnerIsSafe` | `RunnerKeepsItsBuild` |
| `OneWorker` | `OneWorkerPerBuild` |
| `Finality` | `OutcomeIsFinal` |
| `AgentsKeepTheirBuilds` | `AgentBuildsStay` |
| `HeartbeatsWin` | `HeartbeatWins` |
| `Refinement` | `ImplementsLifecycle`: each write of a row is one step of `BuildLifecycle`, everything else a stutter |

`BuildQueueServiceProofs` extends it to the three invariants that speak of
requests over several steps.

`CancelInNoGap` is proved without any further condition (`NoGap`): for every
number of handlers, with agents, moves of projects and refused writes. `GapInv`
adds to `IInv` that only a shutdown sends an attempt back to the queue
(`CauseInv`), that no request is in flight in a process that is not up
(`RestInv`), and that a cancel that went past the pending row is of a build
that has begun (`CancelInv`). A build that has begun is not pending again
before the process stops, and the runner only begins on a pending row: this is
why a handler that has missed the registry once cannot have missed the runner.

The other two do not hold of every behaviour, and the theorems say of which:

- `Faults = FALSE`: a claim that cannot be written drops its build from the
  channel while the row stays pending, and an outcome that cannot be written
  leaves a canceled build running until the janitor fails it;
- `ProjectsStay`: no edit moves a project between the local runner and the
  agents. Any other edit is allowed. `stranded` and the entry on
  `CancelLandsInService` in section 4 are what happens without it.

Under them `SInv` is inductive beside `IInv` and `GapInv`:

- `HandlerAgreesInv` and `HomeInv`: what a handler has read of a project's
  executor is still true, what is on the channel or in the runner's hands is
  local, and what an agent has claimed is not. A claim that the runner loses it
  has therefore lost to an outcome, never to an agent;
- `OrphanInv`: once recovery is over, the server's own running row is the one
  the runner works on, and the runner leaves a build with an outcome unless the
  process is stopping;
- `FlagInv` and `PromiseInv`: flags are on builds that have an agent, a cancel
  that was answered is held, and so is one whose handler has found the
  registered build and has yet to answer. A process that ends keeps only the
  promises that are in a row;
- `WaitInv`: a pending local build goes from the handler that created it to the
  channel, and from there to the runner.

| Theorem | Property |
|---|---|
| `NoGap` | `CancelInNoGap` |
| `CancelsLand` | `CancelLandsInService`, under `Faults = FALSE` and `ProjectsStay` |
| `NobodyStranded` | `NoBuildStranded`, under the same |

`PollerProofs` holds for every set of branches, every number of commits and of
builds by others, from `PollerConstants`. Again the properties are not
inductive: they speak of the rows, and a step that writes a row uses what the
poller has read some steps before. `IInv` adds what the snapshot guarantees:

- `PollInv`: a sweep that compares has a baseline and a tip;
- `CoverInv`: the baseline in the snapshot and what `Touch` will record are
  covered. Covered is monotone (rows are never removed and `HasBuildForCommit`
  counts any status), which is why an old snapshot is still good enough;
- `OnceInv`: from `CheckBuilt` to `PollCreate` no build of the poller has the
  commit in hand, because no one else's step makes a build the poller's;
- `WaitInv`: from `CheckActive` to `PollCreate` no build of the poller is
  active.

| Theorem | Property |
|---|---|
| `TypeCorrect` | `TypeOK` |
| `NoCommitForgotten` | `BaselineIsCovered` |
| `PollerBuildsOnce` | `PolledOnce` |
| `PollerWaits` | `PolledBuildsWait` |

`LiveHubProofs` holds for every set of pages, snapshots and loops and every
depth of the queues, from `HubConstants`. Here the properties are inductive
together: `IInv` is `TypeOK /\ OneLoopServes /\ InStep`. That one loop serves
whenever somebody is subscribed is what lets the first subscriber forget
`Hub.last`: when `serving` is `None` nobody is left whom that could put out of
step. A stopped loop that still publishes disturbs nothing, because `publish`
compares with `last`, sets it and sends in one step under the lock.

| Theorem | Property |
|---|---|
| `TypeCorrect` | `TypeOK`, with the bound on the queues |
| `OneLoop` | `OneLoopServes` |
| `EverybodyInStep` | `InStep` |

`FleetProofs` holds for every finite set of claim requests and every TTL, hold
and longest pause, from `FleetConstants` (a hold is shorter than the TTL). Its
`IInv` has five parts:

- `TypeBase`: `TypeOK` without the bound on the count of polls, which is
- `CountInv`: the registry counts at most the open requests, and none when the
  name has no entry. A request that ends takes itself from the count and from
  the open ones in one step; one that ends after a Forget finds no entry or
  a newer one, and stops at zero;
- `PauseInv`: the pause stored in the row is the one that was ordered, which
  is what the insert of a first sighting might break;
- `ClockInv`: whoever was heard from has left a trace that is as young: an entry
  of the registry, a server that was started since, or a heartbeat. No entry is
  older than the server, since restarts empty the registry;
- `PageInv`: what a page read first still means that when it reads the running
  build last: a page that knows the agent is made by a server that has been up
  for a TTL, one begun after a poll is not offline yet, and a heartbeat it
  could have seen is there until it looks. A page takes less than a tick.

| Theorem | Property |
|---|---|
| `TypeCorrect` | `TypeOK`, with the count of polls |
| `PauseIsKept` | `NoWorkUnderPause` |
| `OfflineIsTrue` | `OfflineMeansSilent` |

`OutboxProofs` holds for every finite set of builds, every number of changes of
the agent and of edits of the secrets, and every limit of the table, from
`OutboxConstants`. Its `IInv` is `TypeOK` and `PendingIsAllowed` with

- `RowInv`: a row tells of something that has happened, so what is captured has
  no row yet, and what is pending has no receipt;
- `HandInv`: what the worker does fits what it has in hand, and it has no event
  twice, in hand and in the batch. Only `Due` fills the batch, when the hand is
  empty;
- `TakenInv`: what the worker took from the table some steps, or some requests,
  ago is still true enough. What was taken as pending has not been accepted
  since, because nobody else records a receipt; what was taken as submitted has
  its receipt; the text that was taken is the row's, and the only one sent. This
  is what makes a row that was muted, expired or removed meanwhile harmless:
  the row may have faded, but it has not got another text or another receipt;
- `PostedInv`: one text was sent for an event, the one its row holds;
- `VoidInv`: what was retired while nobody was sending it is retired or gone,
  and nobody is sending it now. The gate reads the row and begins the POST in
  steps of its own; that it passes only what is pending is why the first step
  of a POST never meets a void row;
- `OutboxIsBounded`: a table that is trimmed loses its excess row, since only one
  event is captured in a step.

The lemmas say what the operators on the table do, `Trim` (which chooses the row
with the smallest number, so that one exists is proved too), `Retire`, `Pruned`,
`Update` and `Capture`. Most steps let rows fade: `Fading` proves
once that a step which leaves rows alone, retires pending ones or removes them
keeps all that is known of the table.

| Theorem | Property |
|---|---|
| `TypeCorrect` | `TypeOK`, with the receipts of what is followed |
| `PendingMayBeSent` | `PendingIsAllowed` |
| `OneMessage` | `SameMessage` |
| `TableIsBounded` | `OutboxIsBounded` |
| `CanceledForGood` | `CanceledStays` |
| `AcceptedOnce` | `ReceiptEndsSending` |

`LogStreamProofs` holds for every set of readers, every size of the topic and of
the queues, every number of re-queues and of uploads in flight and every amount
of output, from `BusConstants` and `StreamConstants`. A log is a sequence, and
everything the invariant says of one is that some bytes are `Part` of it at an
offset. `Part` is not disturbed when a log grows, and is kept by cutting and
joining; the first lemmas of the module say so, and the rest of the proof rests
on them. `IInv` is the properties with

- `RowInv`: the runner works on a row of its own; a row is an agent's only once
  one has claimed it, and before that no upload exists (`NotYours`);
- `TaskInv`: what a writer has committed and not yet published is in the stored
  log where it will say it is, and whoever is going to announce an outcome has
  one. This is what makes it harmless that a commit and its publication are two
  steps, with those of other writers in between;
- `SendInv`: what an upload or a request on its way holds is a piece of the
  agent's own log at the right offset, even when the server has more by now.
  `UploadCompare` may cut it, and the second look of `UploadAppend` at the
  length is why what is stored continues what is there;
- `QueueInv`: what is queued for a reader is in the stored log where it says, and
  an end that is queued is an outcome's;
- `StreamInv`: what a stream believes it has sent is what was written to it, and a
  stream that is about to tell an outcome knows one.

`Growing` is the lemma under all of it: every step leaves the stored log alone
or adds to it, and leaves it alone once there is an outcome; a writer that would
add has a row that is running, or pending and not yet anybody's. `LogIsFrozen`
is that lemma, and what was true of a reader that had been told the outcome
stays true by it.

| Theorem | Property |
|---|---|
| `TypeCorrect` | `TypeOK`, with the bounds on the topic and the queues |
| `TopicMirrorsTheLog` | `BusMirrorsTheLog` |
| `PagesShowTheLog` | `ReaderSeesTheLog` |
| `OutcomeComesLast` | `NothingAfterTheEnd` |
| `EveryByteOnce` | `UploadsStoredOnce` |
| `FrozenLog` | `LogIsFrozen` |

Only model-checked: the liveness properties, because fairness and ENABLED are
out of the prover's reach. Every safety invariant and every action property the
runs check is the subject of a theorem, two of them under the conditions named
above.

## 6. Not modelled

- Mail (`runner/notify.go`), the web pages' rendering, websocket frames (`ws`)
  and the broker probe: I/O without state the rest depends on.
- Authentication (`auth`): signed cookies and tokens are pure functions of a
  request; the one piece of state, the login's token bucket, is sequential
  arithmetic under one mutex.
- Deleting a project, which removes its builds and their logs by cascade while a
  worker may have one in hand, is in none of the modules.
- Coverage of the queues (`fleet.go:389-439`), duplicates, clock skew and
  self-reports: computed for a page from what `Fleet` models and from the
  configuration, and nothing is decided by them.
- The cap on the rows of `agents`, and names other than the one modelled.
- A refused append of the sink is no step of its own: its buffer is kept, a
  later `Flush` stores it, and when `Close` is refused too `Abandon` loses it.
