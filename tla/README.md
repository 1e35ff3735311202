# Formal model of the Lance agent runner daemon

TLA+ modules that model the daemon of this repository (`apps/daemon`), its test
console (`apps/web`) and the RPA application that uses it (`apps/rpa-local-web`),
TLC configurations that check them on small instances, and TLAPS proofs of the
properties that matter most for every value of the constants. Source paths are
relative to the repository; `apps/daemon/src` is written `D`,
`apps/rpa-local-web/src` is written `R`.

## 1. Inventory

The daemon is one Node.js process. It accepts runs over HTTP, queues them,
stages a workspace, spawns one Claude CLI process per run, parses its stream
output, stores messages and events in PostgreSQL and on disk, streams events
to browsers by SSE and delivers webhooks. A second application,
`apps/rpa-local-web`, records and executes browser automation with a Python
process and uses the daemon as a client. `apps/web` is a test console.

| Component | State it keeps | Operations | Talks to |
|---|---|---|---|
| Run queue (`D/core/run-queue.ts`) | none of its own: the `queueStatus` and `sequence` of the run states | `canStartCandidate`, `selectDispatchableCandidates` | called by the run service |
| Run lifecycle (`D/core/run-service.ts`) | the `states` map (one `RunState` per run: queueStatus, start, finishing, terminal, runner, timeout, log handle, buffer of events), `nextSequence`, the dispatch timer, `shuttingDown` | `createRun`, `dispatchQueuedRuns`, `startRun`, `finishRun`, `timeoutRun`, `cancelRun`, `shutdownActive`, `subscribeRunEvents` | repositories, runner, accumulator, artifacts, logs, HTTP |
| CLI runner (`D/core/cli-runner.ts`) | per child: completed, cancelRequested, childClosed, two timers, stream parser | child events, watchdog, kill escalation, `cancel()` | the child process; the run service by callback and promise |
| Run event stream (`run-events.ts`, `event-visibility.ts`, `http/sse.ts`, `http/runs-routes.ts`) | the bounded event buffer of the run, its subscribers, one connection per client | emit, replay, subscribe, end | `apps/web/src/api/sse-stream.ts` on the other end |
| Message accumulator (`message-accumulator.ts`) | the current assistant segment, a throttle timer, a write queue | record event, flush, start segment, flush terminal | `run_messages` rows |
| Webhook delivery (`webhook-delivery-service.ts`) | the LISTEN connection, reconnect, keepalive and next-due timers, the drain with its `drainAgain`, in-flight set; `webhook_deliveries` rows | start, connect, recover, notify, claim, deliver, retry, abandon, stop | PostgreSQL LISTEN, the receiver's HTTP endpoint |
| Persistence (`D/db`) | runs, conversations, messages, artifacts, deliveries | transactions of the above | PostgreSQL through a connection pool |
| Stream parser (`claude-stream.ts`) | unfinished line; messages, blocks and tools already told | push, flush | called by the runner, feeds the run service |
| Creation of runs (`createRun`, `repositories.ts`, `conversation-context.ts`, `webhook-url-policy.ts`) | rows of runs, keys, conversations and messages; the advisory lock; the pool | look up a key, check, insert, compose the context | HTTP, PostgreSQL, the queue |
| Run logs (`run-log-service.ts`) | per log a bounded writer with its queue; `run_logs` | open, append, close | the runner writes, bundles and routes read |
| Artifacts (`artifact-service.ts`) | `run_artifacts` | scan by rules, choose, store | `finishRun`; files of the workspace |
| Uploads (`http/workspace-files-routes.ts`) | a temporary directory per upload | receive, copy, clean up, prune at startup | the workspace of a run |
| Review bundles and feedback (`review-bundle-service.ts`) | none | read detail, logs, rows; build the zip | everything a run leaves |
| Prompt, snapshots, skills, configuration, HTTP, authentication | none of their own, one request or run at a time | compose, copy, parse, route | all services |
| Web console (`apps/web`) | chat messages, the active run, its detail and artifacts, event streams | send, follow, poll, refresh, cancel, clear | the daemon |
| RPA executor (`R/server/executor`) | execution records, event files, the Python process with its stop and timeout, subscribers | start, stop, finish, stream | Python, the front end over SSE, the flow's metadata |
| RPA sessions (`R/server/codegen`, `natural-language`, `workflows`) | session records in memory, background tasks | start, answer, follow up, repair, complete, cancel | the Playwright recorder, daemon runs, flow directories |
| RPA flows and packages (`R/server/rpa`, `R/shared`) | one directory per flow with `flow.local.json` | publish, export, import, delete, validate, verify | sessions, executor, front end |
| RPA workbench (`R/components`) | the flow on the page, the form, subscriptions | load, verify, run, export, import, delete | the RPA server |

Hard behaviours, and what correctness means for each component:

* **Run queue.** One pass selects several runs; each must count against the
  limits for the ones after it, blocked runs must neither be started nor hold
  up others, and the order within a workspace must be kept.
* **Run lifecycle.** `startRun` and `finishRun` of one run are two chains of
  awaits that interleave with each other, with the child's events, the run
  timeout, cancel requests and the shutdown. Whatever the order: a run ends
  once, in one status that is stored and announced once; limits hold while a
  run is still finishing; a freed slot wakes the dispatcher; a shutdown settles
  what was started; a restart ends what was left open; a run that ended never
  gets a process.
* **CLI runner.** Output, exit, close, an error, the watchdog, the kill timer
  and cancel race for one result. The watchdog must be set exactly as long as
  it may fire, the escalation must survive the result.
* **Event stream.** Replay and live events must meet without gap or overlap for
  clients that lose connections at any moment; the buffer is bounded; every
  stream must be ended by the server.
* **Parser and accumulator.** A block told twice is an event once. Throttled
  flushes, new segments, the start's and the end's write touch the same rows by
  reading and writing them back; no text may be lost or put under another
  message, whatever is late.
* **Creation.** Requests with one key, or of one new conversation, overlap; the
  loser of a race must answer as a retry would; a lock and a pool of connections
  must not wait for each other.
* **Files of a run.** Logs are written behind the run, artifacts change while
  they are scanned, and a bundle is read piece by piece while the run ends.
* **Webhook delivery.** Nothing polls the outbox: each due row needs a
  notification, a timer or a recovery that finds it, through overlapping
  wakeups, lost connections, locks that time out and a stop or crash in the
  middle of a batch. An attempt is counted before it is made, and a delivery
  that was closed stays closed.
* **RPA executor.** Stop, timeout and exit race for one status, unawaited log
  writes with the end of the streams; success must be earned.
* **RPA sessions and flows.** Only a session's status keeps two of its background
  tasks apart. No lock covers a flow directory: publications, imports, deletions
  and verifications interleave between their file-system calls.
* **Console and workbench.** Replies come in any order and outlive the view that
  asked; streams reconnect and replay.

`PROJECT.json` lists every component with its status and every hazard at its
line.

## 2. Modules

| Module | What it is |
|---|---|
| `RunQueue` | the admission rule and, as the predicate `IsSelection`, what one dispatch selects; constants: runs, workspaces, profiles, limits |
| `RunQueueLoop` (`MCRunQueue`) | the selection as the loop it is in the code, on a scheduler that queues, dispatches and ends runs |
| `RunLifecycle` (`MCRunLifecycle`) | run service, the rows it writes, child processes, shutdown, crash and startup; EXTENDS `RunQueue` |
| `RunContract` | abstract: what the database shows of a run; `RunLifecycle` is checked and proved to implement it |
| `CliRunner` | one child process and `startClaudeCliRun` |
| `RunnerContract` | abstract: how a runner completes; `CliRunner` is checked and proved to implement it, and `RunLifecycle` uses just these steps for its children |
| `RunEvents` | the event stream of one run, from `emitRunEvent` to a browser that reconnects |
| `RunStreaming` | `CliRunner` and `RunEvents` composed with the run timeout and `finishRun` |
| `ClaudeStream`, `MessageAccumulator` | the parser's memory; segments, flushes and message rows |
| `RunMessages` | both composed with a Claude process and the end of its run |
| `RunRequests` | what a request for a run must look like, and which webhook URLs are allowed |
| `RunCreation` | overlapping calls of `createRun` down to their statements, locks and connections; EXTENDS `RunRequests` |
| `RunLogs`, `Artifacts`, `Uploads` | the bounded log writer; artifact rules; uploads into a workspace |
| `RunFiles` (`MCRunFiles`) | the three composed with a run and its review bundle |
| `WebhookDelivery` | the outbox and its worker: rows, LISTEN connection, timers, drain, attempts, stop, crash |
| `DeliveryContract` | abstract: what the row of a delivery shows; `WebhookDelivery` is checked and proved to implement it |
| `RpaExecution` | one execution: executor, process manager, store and subscribers |
| `RpaFlows`, `RpaQuestions` | the directory of a flow and its writers; the question form in a transcript |
| `RpaSessions` (`MCRpaSessions`) | both kinds of sessions over `RpaFlows` |
| `RuntimeParams`, `RpaPackages` | parameters of a flow; documents and packages |
| `RpaWorkbench` (`MCRpaWorkbench`) | the flow page and its verification view against the server; EXTENDS `RpaPackages` |
| `WebConsole` | the chat of the test console |
| `RunLifecycleProofs` | theorems about `RunQueue` and `RunLifecycle`, among them that it implements `RunContract`, and about `RunQueueLoop` |
| `RunStreamingProofs`, `WebhookDeliveryProofs`, `RunMessagesProofs`, `RunCreationProofs`, `RunFilesProofs`, `RpaExecutionProofs`, `RpaSessionsProofs` | theorems about the module they are named for (`RunStreamingProofs` also about `CliRunner` and `RunEvents`, `RpaExecutionProofs` about `RpaWorkbench`, `RpaSessionsProofs` about `RpaFlows`) |

### Correspondence with the code

**Granularity.** JavaScript runs a callback and the promise reactions that
need no I/O to their end. An action is what the code does from one await on
I/O, timer or child event to the next; two actions interleave only there.
Database transactions are atomic and take effect when their await returns; one
that is in flight when the process dies either committed before or does not
commit at all.

**`RunLifecycle`.** `state[r]` is the `RunState` of a run. `start` and `finish`
are the program counters of `startRun` and `finishRun`, named for the I/O they
wait for: `mark` (`updateRunStarted`), `message` (the accumulator's 'running'
write), `logs`, `skill`, `compose` (prompt and snapshots), `probe`
(capabilities), `returned`; and `artifacts`, `logs`, `message`, `commit`,
`done`. The code's `finishing` is `finish` not in `{none, done}`; its
`terminal` is `done`. `queue` is `queueStatus`; `runner`, `timer` and `logOpen`
are the runner handle with its cancel flag, the run timeout and the log handle.
`row[r]` is what the database has: the run's status, and the statuses for which a
webhook delivery was queued.
`child[r]` is the operating-system process, which survives the daemon.

| Action | Code |
|---|---|
| `CreateRun`, `InsertRun` | `createRun` from its last check; insert and `states.set` |
| `Dispatch` | `dispatchQueuedRuns` and the first part of `startRun` |
| `MarkRunning` .. `Spawn` | `startRun` from await to await |
| `ChildExits`, `RunnerFails` | the handler of `runner.completed` |
| `RunTimeout`, `CancelRun` | `timeoutRun`, `cancelRun` |
| `ArtifactsFinalized` .. `CommitTerminal`, `Cleanup` | `finishRun` from await to await, and the cleanup timer |
| `CloseServer` | a signal up to the await of `server.close` (`index.ts:158-167`) |
| `Shutdown`, `InterruptNext`, `Settled`, `ShutdownResolves` | `shutdownActive` |
| `ShutdownDone` | the webhook service and the pool are closed (`index.ts:169-173`) |
| `Crash`, `Startup` | an unhandled failure or kill; `markInterruptedRunsOnStartup` |

A failing database call inside `startRun` or `finishRun` is not caught and ends
a Node process: it is `Crash`. Failures the code handles (skill, prompt, spawn,
artifacts) are alternatives of their actions.

**Order of transactions.** `updateRunStarted` and `updateRunTerminal` of one run can be
in flight together on two connections of the pool (ten by default,
`D/config/profiles.ts:163`), and both write the row by its id alone. The model lets
them commit in any order. A run that is canceled, or interrupted by a shutdown, while
its start is being stored (`start = "mark"`) may therefore be `running` in the database
after it ended, and take its slot again in memory (`queueStatus`, `run-service.ts:408`).
`CancelIsDurable` shows what that breaks of the phase-3 plan
(`docs/phase-3-queue-timeout-hardening-plan.md:733`). The properties that hold say how far it goes. Only a cancel or a shutdown can
end a run before it has a timer and a runner, so `RowsMatchMemory` excepts just those
(`Reopened`), `RunContract` has a step for them (`BeginLate`), and `EveryRunEnds`
excepts a daemon in which such a run has a slot (`SlotIsLost`).

**Shutdown.** A signal closes the server first and awaits it: event streams that are
open hold that up for as long as clients keep them, and the run service serves on
(`daemon = "closing"`). `Shutdown` has no fairness, therefore, and `ShutdownEnds` speaks of
`shutdownActive` and what comes after it (`daemon = "draining"` and `"stopping"`).

**`CliRunner`.** Its variables are the local variables of `startClaudeCliRun`
and the process behind them (`exit`, `pipes`, the strongest `signal` sent). A
handler is one action: `Output`, `Error`, `Close`, `InactivityFires`,
`KillTimerFires`, `Cancel`. `partialLine` is there for one reason: flushing it
on close counts as activity and sets the watchdog again just before the run
completes.

**`RunEvents`.** Events are known by id. `buffer` is `state.events`; `wire` is
what was written to a connection and not read; `seen` is what a client read
over all its connections. `Connect` sends the replay and subscribes in one step,
as the route does without an await. `phase` is the part of `RunLifecycle` the
stream depends on: `ended` from the end event to the final commit.

**`RunStreaming`** lets the handlers of `CliRunner` produce the events of
`RunEvents`: what a chunk or a flushed line is parsed to is chosen, a failure
emits its diagnosis before the result, and the result or the run timeout calls
`finishRun`. Its steps are steps of `CliRunner` or leave it alone, which is
proved (`StreamedRunnerIsExact`).

**`RunMessages`.** `parser` is what `createClaudeStreamHandler` remembers, `acc`
what a `MessageAccumulator` has in memory with its queue of writes, `rows` is
`run_messages`. `updateRunMessage` is two steps, the row it has read being
`reading` (head of the queue), `start.row` or `finish.row`. A block is named by
its message and place; a text is the sequence of its blocks. `early` and `late`
remember that the run was finished while `startRun` wrote, or that lines came
after the end event.

**`RunCreation`.** One record per call of `createRun`, its `pc` named for the
statement or await it is at: `Lookup`, `Admit`, then the transaction `Begin`,
`Conversation`, `InsertRun`, `NextConversationSeq`, `Commit`, then `Publish`.
`holder` has the connection of each transaction; statements see what was
committed (READ COMMITTED), the unique index waits for the transaction ahead,
and the advisory lock is held by its transaction. What a call can be kept waiting by
has a name (`WaitsForConnection`, `WaitsForLock`, `WaitsForKey`), which the statements
have as their guards. `StatementFails` rolls back,
`Crash` rolls all of them back and ends every open run. `RunRequests` has what
comes before: the shape of a request and the URL policy.

**`RunFiles`.** `start` and `finish` are again program counters of `startRun`
and `finishRun`; `writer` is a bounded log writer per log, `closing` what
`close` found in its queue; `upload`, `temp` and `disk` are an upload and the
workspace; `bundle` has what the bundle has read so far. An entry of a bundle
is what was read for it, and a byte of a log is its place in the output, so that
a byte lost, doubled or out of turn shows; the size in `diagnostics.json` is what
the five attempts of `finalizeDiagnosticsEntry` make of it (the code stops early
when an attempt changes nothing).

**`WebhookDelivery`.** Time is kept as distances. `wait[d]` is how many ticks remain
until the row may be claimed, and `timer` how many until the next-due timer fires, with
`Never` for none; a `Tick` brings all of them nearer. A lock may be claimed one tick
after the moment `getNextWebhookDeliveryDueAt` reports for it, because one statement
says `locked_at < now - timeout` and the other `locked_at + timeout`: `DueIn` has that
difference, and the 250 ms of `minRecheckDelayMs` are `RecheckTicks`. `link` is the
LISTEN connection, `dead` when it broke and nobody has noticed; `ending` counts the
clients that were listeners, or failed to become one, and whose 'end' event is still to
come: the handler does not ask whose event it is, so that a late one closes the listener
of the day (`LateEnd`). A client that is left behind is taken as silent, and as no
reason for a process to stay. `recover` is the await at which `connectListenRecover`
stands, so that the code's `reconnecting` is `recover # "none"`. `drain`, `again`,
`claimed`, `lanes` and `sending` are `draining`, `drainAgain`, the rest of the claimed
batch, the workers of `deliverClaimed` and the awaits of `deliverOne`; `queries` counts
the calls of `scheduleFromPersistence` in flight. The rows survive `Crash` and
`StopDone`, the rest is what a new process has.

| Action | Code |
|---|---|
| `Create` | `createWebhookDeliveryForRunStatus` with its `pg_notify` |
| `Startup`, `Connect`, `Listen`, `RecoveryFails` | `start`, `connectListenRecover` |
| `LinkLost`, `LateEnd`, `KeepaliveFails`, `ReconnectTimerFires` | the events of the connection, `runKeepalive`, `scheduleReconnect` |
| `HandleNotification`, `NextDueTimerFires` | the wakeups |
| `Claim`, `StartDelivery`, `Answered`, `Record`, `BatchDone` | `drainOnce`, `deliverClaimed`, `deliverOne`, `drainDue` |
| `NextDueKnown` | `scheduleFromPersistence`, also after an empty recovery |
| `Stop`, `StopDone`, `Crash` | `stop`, and the end of a process |

A failing outcome write (`insertWebhookDeliveryAttempt` or `mark...`) is an
alternative of `Record`: `Promise.allSettled` swallows it, and its worker ends.
A failing claim or query of the recovery is `RecoveryFails`, of any other drain
an unhandled rejection, so `Crash`.

**`RpaExecution`.** `pc` is the await at which `runExecution` stands, `child`,
the timers and `result` are the process manager's, `events` and `record` the
files, `subs` the async generators of the store. `lines` has for each output line
where its unawaited write is. A failing file operation is `FileError` (caught by
`runExecution`), `LoseLine`, or the loss of the server where nothing catches it.

**`RpaFlows` and `RpaSessions`.** `dir` is the content of a flow directory, named
by who wrote it, and its `flow.local.json`; a publication (`Stage`, `MoveAway`,
`MoveIn`, `Restore`, `RemoveBackup`, `WriteMetadata`), an import, a deletion
(`DeleteFlow` lists, `RemoveFiles` removes the files a flow needs and its metadata in
any order, and may fail at either) and an execution take it call by call. A deletion
works by path, on whatever is there by then. `markFlowVerified` reads the metadata and
writes them back; `MarkVerified` is the write alone, as neither field the model has of
them depends on what was read. `RpaSessions` adds for each session its status
(`allowedTransitions` of the two stores), its background tasks, its runs at the
daemon and its recorder process. `RpaQuestions` decides whether the text of a run
asks something.

**`RpaWorkbench`.** A request of the page is sent, served and answered in three steps.
An export is a step for the document, one for the metadata, one for each reading of a
required file, first for the sums and then for the contents, and one for the rest
(`Export`, `ReadForExport`, `EndExport`); an import, a deletion and an admission, which
`RpaFlows` interleaves, are one step here. A mounted view is named by the start that
mounted it, so that a late reply finds the refs of the view that asked. `exec` is the
server's execution with its events, `sub` a subscription of the browser. A behaviour
begins in one of the `Scenes`: the files of the flow, its parameters, and what the user
and the network may do; `MCRpaWorkbench` has those of the run, the proofs take any.
`RpaPackages` and `RuntimeParams` are functions: `validateRpaDsl`, the entries of an
export, the checks of an import in their order with the 20mb its route takes
(`TooLarge`), and the three places that read a parameter (the form, the view and the
executor). Of a control, `Control` is what the user may enter and `Shows` the text it
displays for a value: a box is checked for the boolean `true` alone, a list shows its
options only, a number or date field no text of another kind.

**`WebConsole`.** `send[s]` is `handleSend` from await to await, `reader` whoever
reads a run's detail (a send's reconciliation, Refresh), `run[s]` the daemon's side:
the script of events, the end event before the flush and the commit. The chat is
the reducer's (`run-event-reducer.ts`).

## 3. Runs

| Run | Instance | Shows | Distinct states |
|---|---|---|---|
| `queue_selection` | 4 runs, 3 workspaces, 2 profiles, global limit 2, profile limits 2 and 1 | the loop computes the only selection `IsSelection` allows, and leaves nobody behind who could start | 5,325 |
| `run_lifecycle` | 2 runs of one workspace, limit 2, one shutdown or crash | limits, no orphaned row and the announced status is the stored one but for reopened runs, shutdown settles runs, workspace order; implements `RunContract`; every accepted run ends, at the latest at the next startup: no wakeup of the dispatcher is lost, but for a slot taken by a reopened run; a shutdown comes to its end | 364,922 |
| `lifecycle_cancel` | the same instance | a canceled run is running again (section 4) | stops at the counterexample |
| `run_streaming` | one child, 1 client, buffer of 2, 3 events and the end, run timeout or none | timers are exact, the result rule, only trimmed events are missed, streams end; implements `RunnerContract` | 395,088 |
| `run_messages` | 2 messages of up to 3 blocks, streamed or not | a block is told once, rows hold their own message, all output up to the end is stored, output is stored while the run goes on | 323,292 |
| `run_creation` | 3 calls, 1 key, pool of 2, queue of 1, one failing statement or crash | a key names one run, turns of the default conversation are ordered, the context is the newest part, no circular wait, and no call waits for anything that circle does not count | 608,982 |
| `run_files` | 2 logs with 3 bytes of output, 1 file under 3 rules, 1 upload, 1 bundle, one fault | closed logs are whole, a bundle of an ended run is final, success shows what it required, uploads leave nothing | 1,973,047 |
| `webhook_delivery` | 2 deliveries, 2 attempts, batches of 2, 1 lane, one fault | attempts are counted before they are made, closed stays closed; what is due has a wakeup; every delivery ends unless the worker is deaf, or held after its stop | 1,069,252 |
| `rpa_execution` | 1 subscriber, 2 output lines, 1 found event, 2 faults | streams are complete, success is earned, executions end | 319,570 |
| `rpa_sessions` | 2 sessions of one flow, 1 import, 1 execution, 1 deletion, one fault, 3 tasks each | one run per session, imports await verification, a flow survives a failing publication, sessions come to rest | 300,771 |
| `rpa_workbench` | 3 verifications of one view, or 2 executions of an imported flow with 1 reconnect; 8 packages with 1 edit, 20 broken ones, an export of a flow that is replaced; 12 kinds of parameters | packages round-trip, an execution runs what the form showed, a report of a verification is earned and made once, a verification no other overlapped is reported | 744,370 |
| `web_console` | 2 sends, a script of 5 events | a disagreement between code and document (section 4) | stops at the counterexample |

**Bounds.** *Lifecycle.* Two runs of one workspace are the smallest instance
where order and exclusion within a workspace can fail, and, as the second waits for the
first, where a wakeup can be lost; interference between runs
goes only through the queue, which `queue_selection` explores with four runs and
all kinds of limits, and which the proofs cover for any number. `MaxRestarts = 1`
allows one crash or shutdown at every point; after the restart the rows are all
that is left, and they are the same rows a second crash would meet. The two
runs are alike, so that one of them comes first (`FirstComesFirst`), and a daemon that was
started again has one run at a time (`OneRunAfterRestart`): two of them meet in the first
life.
`MaxQueueSize = 1` makes both outcomes of the queue-full check occur.

*Streams.* With a buffer of 2 and up to 3 events and the end, every combination
of trimming, replay, live events and lost connections occurs; clients do not
influence each other, so that one is enough. The watchdog is enabled; that it may
be disabled is covered by the proofs.

*Messages.* Two messages are what a late write can mix up; three blocks of a
message give text, tool and text again, each streamed and told again or not.

*Creation.* Three calls: two that race for a key and a later retry, or two
for a conversation and one that reads it. A pool of two is smaller than the
number of calls and as large as one call with its lock can need. Prompts of
length 1 and 4 are below and above the limits of a message.

*Files.* Three bytes of output in chunks of one or two against a limit of two fit,
fill or exceed a log. `BundleLayout` 7 and a limit of 12 are chosen so that the number of
digits of the size changes and the limit is crossed. The rules are two required
ones of one priority and one of a lower. No upload is under way beside a bundle
(`NoBundleYet`): it cannot touch what the bundle reads.

*Webhooks.* Two deliveries and batches of two give full, partial and empty
batches, a delivery that waits for the lane, and one that waits for its retry
while the other is created; two attempts give a retry and an exhausted row; locks
and backoff of one tick let timers, locks and retries fall together and apart.
`MaxFaults = 1` puts one crash, stop, failed recovery or lost connection at any
moment, failing outcome writes are not bounded, and `MaxQueries` bounds how many
answers of `scheduleFromPersistence` are awaited at once.

*RPA.* Two faults let a failing write be followed by a failing write of the failure. Of
two sessions that publish one flow each gets two tasks and no deletion or execution goes
beside them; one session alone gets two tasks beside a deletion, whose files go one by
one, and three beside the others (`TwoSessionsOrOneFlow`). The flow page starts from
scenes of four kinds: packages that are exported and edited once, or put together by hand
around a document with one fault, and imported, in two of them while the flow is replaced
or verified; an imported flow that is verified and run, with a reconnection and a load or
a deletion meanwhile; one parameter of each sample, with defaults that do not pass
themselves or that their control cannot show, of a flow that is run; and three
verifications of one view, two that overlap and leave a stream behind and a third that
overlaps none (`budget.modes` says what is pressed). A package made while the flow was
replaced is not edited as well (`EditZip`), and with one deletion (`Budget`) an export
sees two flows at most.

**Fairness.** `RunLifecycle`: database and file calls answer (`InsertRun`, `StartStep`,
`FinishStep`, `Startup`), a timer that is set fires (`Dispatch`, `Cleanup`), the loop of
`shutdownActive` goes on, and a Claude process ends. The last is not an assumption about
the process: it either ends, or the watchdog, the run timeout or the kill escalation
ends it, which is what `StreamsEnd` checks in `RunStreaming` (a process that keeps
producing output is ended by the run timeout). No fairness is given to cancel, timeouts,
failures, shutdown or crash.

`CliRunner` and `RunStreaming`: timers fire, SIGKILL ends a process, and the pipes
of an ended process are closed; a failed spawn is reported, and the end event
follows a finish. Neither time nor SIGTERM ends a process, and neither the run
timeout nor a client need ever act; `StreamsEnd` excepts a process that goes on
producing output for ever. That pipes are closed is an assumption about
grandchildren: one that inherits the pipes and lives on keeps `close` from being
emitted and a canceled run from completing.

`RunMessages`: the throttle timer fires and queued writes are answered; Claude need not
go on. `WebhookDelivery`: time passes, and what can go on by itself does (timers fire,
PostgreSQL, the receiver or its timeout and the keepalive answer, a stopped or crashed
daemon is started again); the fairness is of these steps taken together, and of the
drain, whose calls are answered whatever the listener does. Faults have none.
`RpaExecution`: the task and its writes go on, timers fire, a process that was sent
SIGKILL closes, a connected client reads. `RpaSessions`: tasks and publications go on,
the daemon ends its runs, a recorder that is to be killed is, and then closes; no user
does anything. `RpaWorkbench`: events on an open stream are delivered, and nothing else.
`RunCreation`, `RunFiles` and `WebConsole` state safety only.

**Deadlock** is not checked: in every model the work is bounded and the system
may come to rest when it is done. That no call of `createRun` waits for ever is
`NoCircularWait`.

## 4. Findings

`EndIsReconciled` (`web_console`): `finishRun` emits the end event before it flushes
the messages and commits the final status; the console reads the detail as soon as
it has the end, and shows as final what is not. The documents quoted in
`PROJECT.json` promise the final detail.

`CancelIsDurable` (`lifecycle_cancel`): a run that is canceled while the transaction of
`updateRunStarted` is under way is canceled in one transaction and running in the other,
and nothing orders the two; when the start commits last the canceled run is `running`
until the next startup.

### Other behaviour a reader of the code should know

The models have it, no run states it: it contradicts the document that is named,
a property had to except it, or it is merely surprising.

*Runs*

* After the same await `startRun` sets `queueStatus` to `running` although the run is
  over (`run-service.ts:408`). It counts against the limits again, until its cleanup
  timer removes it (`:748-753`); that schedules no dispatch, so that a queued run waits
  for somebody to create or end another one
  (`docs/phase-3-queue-timeout-hardening-plan.md:493`); `SlotIsLost` is the exception of
  `EveryRunEnds`.
* `startRun` checks `terminal` after its awaits, not `finishing`: a run canceled or
  timed out meanwhile gets a process that nobody stops
  (`docs/phase-3-queue-timeout-hardening-plan.md:490`, `:533`).
* The slot of a workspace is given back with the final commit, while the process
  may live for the grace period or as the orphan above: two processes may write one
  workspace (`docs/claude-code-runner-daemon-design.md:1164`).
* The 'running' write of the assistant message may come after the terminal one and
  stays (`docs/phase-2-skill-artifact-plan.md:780`).
* A stream opened between the end event and the final commit gets the end as a
  replay, is subscribed, and is never ended (`docs/phase-1-minimal-run-plan.md:755-757`).
* Sequence numbers of messages are not unique among calls that name their
  conversation: they take no lock (`repositories.ts:1669`;
  `docs/daemon-conversation-context-design.md:469`). Prompts of runs that were queued
  later enter the context of an earlier one. The warning that messages were
  omitted by `contextPolicy.recentMessages` can never show.
* A COMMIT whose answer is lost leaves a queued row no daemon schedules before its
  next startup; calls in flight are not counted for `maxQueueSize`; a retry finds its
  run before its webhook URL is looked at.
* A log handle that is opened after the run was finished is never closed; a failing
  `openRunLogs` is an unhandled rejection; output after the close is still appended.
  `pruneExpiredLogs` is called by nobody (`docs/configuration-reference.md:110`).
* A file left by an earlier run satisfies a required rule of a later one, and a
  download of the earlier run's artifact serves the current file.
* Temporary directories of uploads that were under way in a crash stay until a
  startup after the retention time.

*Webhooks*

* A connection lost while the recovery after a LISTEN still runs sets the reconnect
  timer; when it fires before the recovery ends, `reconnecting` makes it return, and
  nothing sets it again: the worker hears nothing from then on
  (`docs/webhook-notifications/implementation-plan.md:679`, `:417`).
  `DeliveriesEndUnlessDeaf` shows that this and the next are the only ways a delivery
  is left.
* A stop that comes while a LISTEN is under way does not see its client, which becomes
  the listener afterwards and is closed by nobody; its connection keeps the process from
  ending (`webhook-delivery-service.ts:135-136`).
* The 'end' event of a client that was replaced closes the client in its place
  (`:132-134`), and a client whose LISTEN fails is not closed.
* The body of a 2xx must end before the timeout, or the delivery counts as failed
  and is made again. A failing claim in a drain is an unhandled rejection (`:694`).

*Console*

* A stale reply of Refresh overwrites newer state; the `finally` of an older send
  clears the active run of a newer one; in poll mode durable messages are never
  reconciled (`App.tsx:698-705`); a broken stream with a failing detail marks a run
  failed that is not (`:675`); live deltas after a Refresh repeat or lose text until
  the final reconciliation.

*RPA*

* A production run whose import was deleted and made again under it clears the gate
  of a flow nobody verified
  (`docs/superpowers/plans/2026-06-06-rpa-flow-reuse-execution-loop.md:23`); this is
  the exception of `ImportsAwaitVerification`.
* A second session overwrites the flow of the first; a `flow.local.json` written
  between the two renames keeps a publication out; a crash between the renames loses
  the flow.
* A canceled session still publishes its artifacts, and `markFailed` gives canceled
  codegen sessions an error
  (`docs/superpowers/plans/2026-06-06-rpa-natural-language-generation-loop.md:592`);
  a cancel before `setDaemonRun` leaves the daemon's run going; a follow-up whose run
  cannot be created leaves its session `hardening` for ever; wrong or repeated
  answers fail a session whose run goes on.
* A deletion removes file by file. A production run that reads the scripts of an import
  before its metadata are gone and looks at the gate after that is let through, and
  when a deletion fails halfway, the metadata removed and the scripts still there, so
  is every later one (`routes/flows.ts:174-184`; `stale` is the exception).
* `markFlowVerified` writes back all it has read (`flow-store.ts:93-102`): a `source` and
  `generator` that an import or publication has written in between are lost. No
  property is about these fields, and the model of the directory has neither.
* "Verify flow" asks for no busy flag (`RuntimeVerificationWorkspace.tsx:351-372`). Two
  executions of one view that overlap share its refs: the stream of the first is closed
  by nobody (`:315-324`), and its events, which are numbered from 1 as those of the
  second are, enter the set of the numbers seen (`:238-241`). The `run.completed` of the
  second is dropped, and the page never learns that the flow may be run
  (`docs/superpowers/plans/2026-06-06-rpa-flow-reuse-execution-loop.md:2047`); a third
  execution loses its own in the same way as long as that stream goes on.
  `VerificationIsReported` says what does hold: a verification that no other request of
  its view overlapped, and that found no such stream (`start[s].alone`), is reported.
* On the flow page a reply to a start after its view is gone subscribes and is never
  closed; late replies of log and status reads overwrite newer ones; the load after a
  report clears the busy flag of a request that is still under way.
* A package that was read while its flow was deleted and imported again has the sums of
  one flow and the files of another; its import is refused as
  `PACKAGE_CHECKSUM_MISMATCH`, long after the export was offered as good
  (`flow-store.ts:116-118`, `rpa-package.ts:90-95`). A package above 20mb can be
  exported and not imported (`routes/packages.ts:41-46`). `PackagesRoundTrip` excepts
  both.
* A box that is not marked runs as `true` when the default of its parameter is `true`
  and the flow was not loaded, or the default is the string `"true"`
  (`RuntimeParamsForm.tsx:112`): the control shows booleans only, `normalizeOneParam`
  reads strings and falls back on the default. A number or a date that its field cannot
  show runs or is refused in the same way.
* A flow whose DSL names another `flow_id` is published and cannot be exported.
* A field the user has emptied is no value for the form, which lets it through, and
  the default for the executor, which refuses the execution as `PARAMS_INVALID` when
  that default does not pass itself (`runtime-params.ts:51`); this is the exception of
  `RunsWhatTheFormShows`.

## 5. Proofs

In `RunLifecycleProofs`, for any finite set of runs, any workspaces and profiles,
any positive limits and any number of restarts:

* `SelectionWithinLimits`: what one dispatch selects, added to
  the busy runs, respects the three limits. The argument takes the selected run
  with the largest sequence number: it was admitted next to all others, so its
  test bounds the whole set.
* `TypeCorrect`: `Spec => []TypeOK`. The invariant `Inv`
  adds to the types what the steps rely on: how `start`, `finish`, `queue` and
  `runner` of one run belong together (a run that was not dispatched has no
  runner; one that is done is terminal; ...) and that known runs have different
  sequence numbers below `nextSequence`. Types alone are not inductive: the
  result of a finish is a terminal status only because a finishing run has one.
* `InFlightLimits`: `Spec => []InFlightWithinLimits`. In-flight
  runs consume capacity (`InFlight \subseteq Busy`, from `Inv`); only `Dispatch`
  adds any, and by `SelectionWithinLimits` it adds what the limits admit.
* `OrderKept`: `Spec => WorkspaceOrder`, under
  `WorkspacesHaveOneProfile`, which `createRun` ensures by refusing any other
  profile. Only `Dispatch` starts a run; two runs of one workspace meet the same
  three limits, so whatever lets the later one in would have admitted the earlier
  one, whose turn came first (`SelectionInOrder`).
* `ShutdownSettles`: `Spec => []ShutdownSettlesRuns`. The invariant added to `Inv` says
  that from the moment the daemon drains every run in flight is on the list the shutdown
  waits for, and that the list is empty when it resolves: nothing is dispatched any
  more, and a run leaves the list only after its final commit (`PendingShrinks`).
* `RowsMatch`, `ContractKept`: `RowsMatchMemory`, and refinement of `RunContract`, in
  whatever order transactions commit. `Stored` relates the row of a run to where its
  start and finish are: not announced as running until the mark, open until the commit,
  then the result, unless the mark came after it; and a run that ended before its mark
  has no runner and was canceled or interrupted, which is what makes the exception small.
  The steps are sorted into quiet ones, which change no status and map to a
  stutter, and the five that write rows, each of which maps to a step of
  `RunContract`.
* `SelectionComputed`, `DispatchTakesAllItCan`, on the scheduler of `RunQueueLoop`:
  `SelectionIsTheLoop` and `DispatchIsMaximal`, for any runs and limits. The queue can
  be sorted (`SortedExists`, by induction over its size, the last run going behind the
  others); after each run of the walk, what is taken of the runs so far is what the
  rule admits (`WalkSelects`, by induction over the walk); and two selections cannot
  differ, as the first run they differ on has the same runs before it in both
  (`SelectionIsUnique`). All they need of the queue is that sequence numbers differ.
  `DaemonDispatchesTheLoop` carries both over to `RunLifecycle`, where `Inv` says so:
  every dispatch of the daemon starts exactly the runs the loop walks to, and no queued
  run that the limits would still admit is left.

In the other modules:

* `TimersExact`, `RunnerKeepsContract`
  (`RunStreamingProofs`), with the inactivity timeout enabled or not. The invariant
  adds that a closed child is over: its process has ended and it has a result.
  `StreamedRunnerIsExact` carries both to `RunStreaming`, for any clients,
  buffer and number of events: every step of the composition is a step of the
  runner or leaves its variables alone.
* `ReplayMeetsLive` (`RunStreamingProofs`): `StreamSpec => []OnlyTrimmedEventsAreMissed`,
  for any clients, any buffer and any output. The buffer holds the last ids without a
  gap (`BufferIsNewest`, kept by `TrimKeepsNewest`). Of a client (`ClientInv`) the
  received ids increase and are below those in flight; and an event it is shown and
  has neither received nor in flight was trimmed, if the client is subscribed (then of
  all events) or has or will have a later one (then of those before it). While it is
  away a client may miss anything after its last id, which is what a connect replays;
  what a broken connection loses lies after everything received
  (`DisconnectKeepsClient`).
* `OutboxKeepsContract` (`WebhookDeliveryProofs`): `WebhookDelivery` implements
  `DeliveryContract`, for any finite set of deliveries, any limits, lock times
  and numbers of faults. What makes it true is that one drain runs at a time:
  the invariant says that claimed and sending deliveries exist only while the
  drain delivers, that they are `delivering`, and that one not sent yet has an
  attempt to spare. Without the `draining` flag a second drain would claim what
  the first still holds.
* `NobodySleeps` (`WebhookDeliveryProofs`): `Spec => []NoDeliverySleeps`. The
  invariant `WakeInv` asks for a wakeup only of a worker that rests: whatever
  writes a row or drops a timer leaves it at work or not listening, and the way back
  to rest is the answer of a query for the next due row, which sees all rows. While
  it rests only time passes, notifications come, and deliveries are created with
  one.
* `TypeCorrect` of `RunStreamingProofs` and of `WebhookDeliveryProofs`. For the stream the
  types follow from `StreamInv`: every id in the buffer, on a wire or received is one the
  run gave out; `PhaseInv` adds that an end event belongs to a run somebody finishes. For
  the worker `lanes` stays natural only because of a bound on the requests in flight
  (`LanesInv`): a delivery that fails takes its taker with it, and a batch starts only
  when nothing is in flight. So `maxConcurrentDeliveries` is never exceeded, however
  wakeups, stops and failing calls overlap; the theorem says so beside `TypeOK`.
* `TypeCorrect`, `SuccessEarned`, `StreamsComplete` (`RpaExecutionProofs`),
  for any subscribers, output lines, events and faults. The types rest on the
  numbering of events and on where a result may stand. For success the invariant
  says which flags belong to which place of the task (`Flags`, `Stages`), that an
  answered stop stays known until the process has closed and the outcome is
  decided (`StopsStay`), and that a success decided without a stop remains one
  (`SuccessStays`). For the event file (`Order`) lines come from a running process
  only and are settled before the task goes on to its completion
  (`EventsEndWithCompletion`). For its subscribers (`FollowInv`) numbers are given
  once, what is written is kept, and each event of the file has been sent, or waits in
  the queue, or is in what the replay has still to hand out, in one of these only; a
  terminal event is the last of a queue.
* `PackagesComeBack`, `FormIsRun`, `ReportsEarned` (`RpaExecutionProofs`, about
  `RpaWorkbench`), for any scenes, parameters, values of the form, executions, edits and
  reconnections, with at most one deletion (`Budget`); edits are those of `EditZip`,
  which do not forge checksums. The invariant `PageInv` has seven parts. The export
  under way (`DownloadInv`): what it has read is what is there, until the flow is
  replaced; from then on its sums are those of the old flow, or all it still reads is of
  the new one. Packages (`ZipInv`): one that nobody edited, that was not torn and is not
  too large passes every check of an import (`WholeIsAccepted`, from what an export
  looks at and leaves out); the sums in any other are those of a directory some scene
  had, or its files are. The directory (`DirInv`): its required files are those of one
  scene, as an import compares every one with its sum (`ImportIsWhole`), so that a torn
  package is refused or is one flow after all; once a verification has marked the flow
  it stays cleared until a deletion, because an import finds it there. The form,
  requests and executions (`ViewInv`, `RequestsInv`, `ExecsInv`): a value of the form is
  nothing, the default or what its control takes (`FormValues`), so that what a control
  shows is what it holds (`ShownIsHeld`) or nothing; what was sent is what the form made
  of the values, and `ServerTakesTheForm` says what `normalizeOneParam` makes of its own
  result, for any type of parameter: the same text, or a refusal of the default. Reports
  (`ReportsInv`): `run.completed` is the last event of an execution, and a stream that
  has reported it has read to the end of what there will ever be, so that no replay is
  new to it (`DeliverKeeps`).
* `TypeCorrect`, `EachBlockIsToldOnce`, `RowsFollow`, `TerminalMessagesAreWhole`
  (`RunMessagesProofs`), for any number of messages and blocks. The invariant has
  two halves. What is told (`ToldInv`): every block in a message is one Claude has
  come to, in its own message, and whatever the parser remembers as told is there,
  so that repeating it in the final object adds nothing. What is stored (`StoreInv`):
  each queued write holds a beginning of its message that reaches at least as far as
  the row and every write before it, what `updateRunMessage` has read and will write
  back is a beginning too, and the last write of a message or its dirty flag covers
  all of it. The end event is stored because `finishRun` waits for the writes that
  were queued when it flushed (`waitFor`). The two exceptions of
  `EndedMessagesAreWhole` are hypotheses of just these parts (`~early`, `~late`).
* `OneRunPerKey`, `TurnsInOrder` (`RunCreationProofs`), for any set of calls, any pool
  and queue sizes, failing statements and crashes. For the key (`KeysTaken`): of the
  calls whose row is stored, or inserted with only the COMMIT to come, no two have a
  workspace and a key in common, which is what the unique index waits for; `Replays`
  and `Retries` keep what a call that was told of a run may have found. For the turns
  a call that makes a run in the default conversation holds the advisory lock from
  there to its COMMIT (`LockHeld`), and the number it was given lies beyond all that
  are committed (`NumbersGrow`).
* `NobodyWaitsForEver` (`RunCreationProofs`): `Spec => []NoCircularWait`, for any calls
  and any pool of at least one connection. Who has the advisory lock has taken it in its
  transaction and is past it (`HolderInserts`), so it waits for its key at most; who
  waits for a key waits for a transaction that has inserted and has only statements on
  its own connection to come; and when no transaction is open the pool is not empty.
* `ContextHolds` (`RunCreationProofs`): `ContextIsNewestPart`, and the same for every
  policy there is, not only those of `Policies`. The history can be sorted
  (`SortedExists`, from the invariant that messages are finitely many and numbered);
  the loop keeps a newest part within the limit that would exceed it with one more
  (`KeepsNewest`, by induction over the loop); the sums of newest parts grow
  (`TotalGrows`), so nothing longer fits either (`KeepsAllThatFit`).
* `UploadsAreCleaned`, `SuccessHasFiles`, `LogsAreWhole`, `BundleIsFinal`
  (`RunFilesProofs`), for any limits, output, rules, priorities, patterns and files. A
  success is shown (`EndInv`) from the choice between rules on: of the rules that match
  a file the selection keeps one no other outranks (`BestIsSelected`, from the
  greatest element of a finite set). For the logs (`InOrder`) a file is the output from
  its first byte on, its queue goes on from there without a gap, and the operation
  that close waits for carries the last byte the output had then (`Passes`); a failed
  write ends the claim and is what makes the warning. Between the opening of the logs
  and the spawn nothing is put out (`SinkInv`), which is why a close that comes before
  the sink does not lose anything. The bundle (`BundleRead`): once it has read the run
  as ended, nothing it reads later changes (`EndedStays`), so that what it has read
  is final. Its size settles within five attempts (`FiveAttempts`): the number of
  digits grows with the size, by at most one where the size grows by nine
  (`DigitsFacts`), so attempts after the first two move between two sizes and cannot
  swing.
* `TypeCorrect`, `OneRun`, `ImportsWait`, `FlowIsKept` (`RpaSessionsProofs`), for any
  sessions, writers, imports, executions and bounds. For the directory (`FlowInv`):
  what is in it or kept as a backup is sound, or was written late or left by a deletion
  (`stale` has who wrote it), a writer that has
  moved in still has its own flow there unless it was taken away, and a flow nobody has
  begun to delete is there or with a publication that will put it back (`FlowHeld`). For a
  session (`Whole`) status, tasks and runs belong together: which task is at work in
  which status, that only the last run can be active, and that a run whose creation is
  under way has no active one before it.

The assumptions are those the modules name: finite sets of runs; limits that are natural
numbers, positive where the code needs them to be (`MaxTasks`, the limits of the queue);
`RunCreationAssumption` (calls are a finite set of positive numbers, a prompt has a
positive length, the value for no key is not a key, and the pool has a connection, which
`profiles.ts:163` sees to); `RpaWorkbenchAssumption` (a scene is a state the server can
leave a flow in: parameters are those of the DSL, an import is whole, tidy and not yet
cleared, and what the user holds is an export or put together by hand);
`RpaFlowsAssumption` (a writer, an import and an execution are different things, and
none of them is the value for no flow).

Induction over data is done with sets: `Induction` says that a set of numbers with 0
and all successors has every number, which follows from the library's well-founded
orders, where its own induction theorems take an operator the provers cannot
instantiate. For the same reason `Among` in `RunEvents`, the walk in `RunQueueLoop` and
the loop of the context in `RunCreation` are recursive functions, and a sorted sequence
is chosen by what makes it sorted: of `SelectSeq`, `SortSeq` and the folds the prover
knows nothing.

Only model-checked: `NothingElseIsAwaited`, which says with ENABLED that the waits
`NoCircularWait` counts are all there are, and every liveness property. Out of reach of
the prover: liveness under fairness and ENABLED, theorems that take an operator as
parameter, and RECURSIVE operators (none is used). The domains that modules name in
`TypeOK` are proved of the specifications they belong to; the invariants of
`RunCreationProofs` and `RunFilesProofs` and `PageInv` have the domains their arguments
need.

## 6. Not modelled

* Text: of prompts and their snapshots, events, logs, errors, webhook payloads and
  signatures, zip and multipart formats, the views of both front ends. It has no
  state, and no property depends on it.
* Plain reads: listings, downloads, log and artifact routes, observability, the
  RPA server's thin routes. They change nothing.
* Startup and one-shot code: configuration (its limits are the constants), the
  schema, the SQLite to PostgreSQL tools.
* Staging of skills and workspaces beyond success and failure, glob matching
  (`Pattern` is a constant), the DSL normalizer, the artifact validator's Python
  checks.
* Several daemons on one database. Each module has one daemon with its crashes;
  a second one would reclaim a delivery whose lock timed out while the first still
  sends it, and its startup would interrupt the runs of the first, which the code
  does not try to prevent.
* Malformed webhook notifications: nothing in the repository sends one.
* Of the flow page the Cancel button and the refreshes of logs, artifacts and
  status; of the console file uploads and downloads; the other RPA views, which
  poll a session and show it.

## 7. Plan

Done, by importance: queue, lifecycle with its contract, runner and stream with
their composition, parser and messages, creation, files, webhook delivery, RPA
execution, sessions with flows, workbench, console.

Left:

1. `WebhookDelivery` with several workers: row locks by worker, a reclaim of a lock
   that timed out while its first owner is still sending.
2. The recording and session views of the RPA front end over `RpaSessions`.
