# A verification project for gOS-eye

gOS-eye is a monitor for Nextflow pipelines, one Go process. Nextflow posts
webhook events to it (`-with-weblog`), it keeps the runs in memory, logs every
event in SQLite so that a restart can rebuild them, and streams HTML fragments
to the browsers that are connected. This directory holds TLA+ models of the
parts of it that keep state or compute what is shown, the TLC runs that check
them on small instances, and proofs, checked by TLAPS, of what matters most.

Sources are cited as paths below `src/`; `PROJECT.json` maps every definition
to the lines it models.

## 1. Inventory

| Component | State | Operations | Interacts with |
|---|---|---|---|
| Run store, `internal/state/state.go` | `Runs`, `RouteBySource`, `LatestRunBySession`, `LatestRunByNextflowID`, `AttemptBySession`, `latestRunID`, all under one RWMutex; each `Run` has its own | `HandleEvent` (started, process_*, completed, error), `GetRun`, `GetLatestRun`, `GetAllRuns` | called by the webhook handler and by the replay; calls the trace import on completion; read by the renderers |
| Trace import, `internal/traceimport` | none (reads the file system) | `ResolvePath`, `ParseFile` | called by the store |
| Event log, `internal/db/eventstore.go` | tables `events`, `dag_dots`, `hidden_runs` | `Save`, `LoadAll`, `SaveDAG`, `LoadAllDAGs`, `HideRun`, `UnhideRun`, `LoadHiddenRuns` | called by handlers and at startup |
| Startup, `cmd/main.go` | none | `replayEvents`, `loadDAGs`, load of hidden runs, `ListenAndServe` | rebuilds store and server from the log |
| Webhook handler, `internal/server/server.go` | one goroutine per request; `layouts` | persist, handle, discover the DAG, persist it, render, publish | store, event log, DAG, broker |
| Hidden runs, `internal/server/server.go` | `hidden` under `hiddenMu` | `handleHideRun`, `handleUnhideRun`, `latestVisibleRunID` | event log, store, broker |
| Broker and feed, `internal/server/server.go` | `subscribers`, one channel of 16 per browser | `Subscribe`, `Unsubscribe`, `Publish`, `handleSSE` | all handlers publish; browsers read |
| One-shot handlers, `server.go`, `handletaskpanel.go` | none | `handleSelectRun`, `handleTaskPanel`, `handleTaskLogs`, `handleDashboard` | read store and layouts, answer one page |
| Views, `server.go`, `taskstatus.go` | none | groups by process, DAG nodes, progress bar, summary, task panel with filter and pages | read the store |
| Resume command, `server.go` | none | `tokenizeCommandLine`, `parseRuntimeFlags`, `buildResumeCommand`, `shellQuoteValue` | run detail page; its output is the next run's command line, which `ResolvePath` reads |
| DAG, `internal/dag/dag.go` | none | `ParseDOT` (edges through operators, topological order), `ComputeLayout` (layers) | webhook handler, startup |
| Browser, `web/index.html` and the attributes the renderers write | `selectedRun`, the dashboard, the run selector, expanded task panels, filter signals | clicks, requests, patches of messages and answers | external (Datastar), modelled from how `src/` uses it |

What is hard here:

* *Concurrency*: one goroutine per request, of which the steps interleave; the
  order in which events are persisted is not the order in which they are
  handled, and what is rendered first may be published last. A page has a
  stream and several requests under way at once.
* *Ordering and loss*: events are separate HTTP requests that may be lost,
  repeated or overtaken, over several attempts of one Nextflow session that
  share its runId. Nothing orders Nextflow's last write to the trace file and
  its "completed" event.
* *Crashes*: the process may end between any two steps; everything in memory is
  rebuilt by a replay through the same `HandleEvent`.
* *Partial failure*: every database error is logged and the request goes on.
* *Bounded channels*: a browser that does not keep up is skipped.
* *Loops that must agree*: four views count the same tasks, each on its own, and
  a command line is taken apart and quoted anew with every attempt.

`PROJECT.json` lists the hazards line by line. What makes each component correct:

* store: attempts stay apart; an event reaches its own attempt; indexes never
  dangle; finished attempts are not reopened; seen from outside it is one record
  per launch;
* trace import: live tasks survive it, its counters add up, and it takes over a
  file or nothing of it, though the file may still be growing;
* log, startup, webhook: a restart rebuilds what clients saw and forgets nothing,
  wherever the crash fell; a DAG is shown for the run it belongs to;
* hidden runs: an answered request is in force in memory and in the table; the
  settled selector sends browsers to a visible run;
* feed: no send on a closed channel; no update lost unless a channel was full or
  handlers overlapped; connected browsers come to show the final state;
* page: its dashboard is that of the run it has selected; only a click takes it
  away; it comes to show a run unless all are hidden, and that run's final state;
* views and task panel: all views count alike, the pages list each task once,
  polling keeps the user's place and catches up;
* resume command: it asks for the same trace, and resuming again changes nothing;
* locks: no data race on what handlers share, no handler blocked for ever;
* trace choice: the last `-with-trace` decides, the chosen file is unique and of
  this run if any file is;
* DAG: the edges are the direct dependencies between processes, the order and the
  layers respect them, and only a real cycle is reported as one.

## 2. Plan

Modules are written so that they can be proved about as well as checked:
parameters are CONSTANTS with named assumptions, one action per operation or
handler step, invariants are conjunctions of named parts, and nothing is
recursive. Proofs live in modules of their own.

| Step | Modules | State |
|---|---|---|
| 1 | **RunStore**: `HandleEvent` with everything it calls | done, with proofs |
| 2 | **AttemptLog**: what the store promises, implemented by RunStore | done, with the refinement proved |
| 3 | **Monitor** composes RunStore with the event log, the webhook handler's DAG steps, crashes and the replay | done, with proofs |
| 4 | **HiddenRuns**: hide and unhide between memory and table, and the selector | done, with proofs |
| 5 | **Feed**: publishers, broker, browsers | done, with liveness and proofs |
| 6 | **Dashboard** composes Feed with the page | done, with liveness and proofs |
| 7 | **TaskViews**, **TaskPanel**: what the pages count and list, and the panel | done, with liveness and proofs |
| 8 | **TraceFile**, and **TraceImport**, which composes it with RunStore | done, with proofs |
| 9 | **TraceChoice**: which trace file the import reads | done, with proofs |
| 10 | **CommandText**, and **ResumeCommand**, which composes it with TraceChoice | done, with proofs |
| 11 | **DagLayout**, and **TopologicalSort**, which it implements | done, with the refinement proved |
| 12 | **Locks**: what every handler locks, in which order | done, with liveness and proofs |
| 13 | **SequenceLemmas**: what the proofs need of sequences, folds and sums | done |

What is left:

* An abstract durable log that Monitor implements, in which a restart of a quiet
  monitor is a stutter.
* `handleTaskLogs` with `readLogTail`, against a log file that grows.

## 3. Modules and the code

### RunStore — `internal/state/state.go`

The variables are the store's fields. A monitor ID is a pair of base and attempt
number; the code makes a string of it, the base alone for the first attempt and
`base--attempt-N` for later ones, so a base must not itself end that way. `Started`, `Process`, `Completed` and
`Error` are the cases of `HandleEvent`, each a whole call under the store's lock:
`allocateMonitorRun` or `resolveMonitorRunID`, `ensureRun`, the case's
assignments, for a completion `importCachedTasksOnCompletion`, then
`registerRunRouting` and `latestRunID`.

A launch is one execution of Nextflow: what its events carry as runId, run name,
session and resume flag. Metadata strings (command line, directories) are
represented by the launch they describe, task figures are left out, and a trace
file is its rows' task, status and what `resolveCachedWorkdir` would find.
`launchRun` and `lastLaunch` are history variables: no action reads them.

### AttemptLog — what the store promises

One record per launch and no IDs, routes or counters. What a launch posts goes
to its record and to no other; only what it posts before its "started" event was
handled may end up elsewhere, because nothing tells it from other attempts'
events. `RunStore!ImplementsAttemptLog` maps each launch to what is shown of the
run it opened (`ShownOfLaunch`).

### Monitor — `cmd/main.go`, `handleWebhook`, `internal/db/eventstore.go`

EXTENDS RunStore. `Receive`, `Handle`, `DiscoverDAG`, `SaveDAG` are the steps of
`handleWebhook`; every one may be followed by a step of another request, and
`Save` and `SaveDAG` may fail. `Crash` clears memory and keeps the tables,
`ReplayEvent` feeds the log to the same `HandleEvent`, `LoadDAGs` restores the
layouts and starts serving; `LoadAllFails` is a log that cannot be read.
`before` remembers memory at the last crash. Trace files are external: `TraceOf`
says what a completion finds of a run's file, by the launch and the times that
its path and choice depend on, so that a replay finds the same (`FoundFor`).

### HiddenRuns — `handleHideRun`, `handleUnhideRun`, `latestVisibleRunID`

A request marks its run in memory, persists it, then selects the run to broadcast
in the separate reads `latestVisibleRunID` makes, then publishes; webhook
handlers join at the selection. `Restart` loads the table, or fails to. The store
is its set of runs and the latest one. Start times are read in one step, where
the code locks one run after the other: a start time is set once, so that only
the choice between two visible runs could differ.

### Feed — `Broker`, `handleSSE`, the end of each handler

The state is the sequence of changes, each by its run: events, and runs hidden and
shown again. A rendering is the number of the changes it shows (`version`), from
which follow the runs it lists (`Visible`) and the run its selector asks for
(`latestVisibleRunID`): the latest if it is visible, none if no run is visible,
else any visible run, because the start times that decide are in HiddenRuns. A
handler renders sidebar and selector, after an event also the dashboard of its
run, and publishes them in one message; `handleHideRun` and `handleUnhideRun`
(`Mark`) publish no dashboard. `Publish` visits
subscribers one by one under the read lock, so that two publishers interleave
and `Subscribe` and `Unsubscribe` wait. A full channel is skipped. A server may
start with changes that it has loaded (`Replayed`). Handlers are interchangeable,
so that of the idle ones a fixed one begins (`NextHandler`), which loses no
behaviour but their names. `skipped` and `overlapped` are history.

Sidebar and selector are rendered in one step. In the code the selector may be
read before a change that the sidebar shows, but the handler of that change
reads its own selector later, and the properties speak of the last change's.

### Dashboard — `handleSelectRun`, `renderRunList`, `renderRunSelector`, `web/index.html`

EXTENDS Feed with the pages. A click selects a run that the sidebar lists at once
and asks for its dashboard; the answer patches the dashboard, then the signal, in
two steps. A message patches the dashboard of a page that shows its run
(`Addressed`), and brings a run selector, which asks for its run while none is
selected, and for nothing if it names none. `raced` and `due` are history: `due`
are the browsers that the last event found connected and awaiting no older
rendering of its run, with no other handler of that run in progress, until they
disconnect or their channel is too full for the event's dashboard.

### TaskViews, TaskPanel — `groupProcesses`, `renderDAG`, `handletaskpanel.go`

TaskViews has the pure part, one operator per loop of the code: `Group`,
`NodeStatus`, `Progress`, `Summary` count the same tasks, `mergeDAGGroups` makes
the rows, `renderTaskPanelHTML` a page of the panel. TaskPanel has the page's
expanded panel, its filter and page buttons, the poll of every second and the
answers, with two runs to switch between. The filter signals are shared by all
panels, and neither the filter bar nor a filled panel is patched by what comes
later (`data-ignore-morph`).

### TraceFile, TraceImport — `ParseFile`, `importCachedTasksOnCompletion`

TraceFile reads header and records, each cell by what its text reads as; blank
records are skipped, and one refused record fails the file. TraceImport composes
it with RunStore: Nextflow appends records, the last possibly cut off in a cell,
while the completion event reads what is there. Rows are known by the places of their
records.

### TraceChoice — `ResolvePath`

`ScanToken` reads the command line token by token, `ResolveExplicit` takes a
path, `Discover` and `Compare` go through the directory listing with
`betterTraceCandidate`. Paths are numbers in the order of their strings.

### CommandText, ResumeCommand — `tokenizeCommandLine`, `buildResumeCommand`

CommandText reads and writes shell quoting, character by character where quotes,
spaces and backslashes matter; an option name is one symbol. ResumeCommand EXTENDS
TraceChoice: once a run is done, the command that its page offers is the command
line of the next, which is scanned for its trace file again. Words are written
over any letters, of any length; `-f` and `--k` stand for the options and params
that mean nothing to the monitor.

### DagLayout, TopologicalSort — `internal/dag/dag.go`

From the nodes and edges of a dot file on. Searches start in any order, because
the code ranges over a map; every queue operation of the breadth-first search is
a step. `Pick` is an iteration of Kahn's algorithm, `AssignLayer` one of
`assignLayers`. The regular expressions that read the text are left out.
TopologicalSort says what the sort promises in terms of the file alone: each
process after all it depends on, through any operators, until all are listed or
none of those left can be; `DagLayout!ImplementsTopologicalSort` forgets the
searches, the in-degrees and the ready processes.

### Locks — all handlers

Each handler is the sequence of its lock operations and accesses to shared
data. The RWMutex is the one Go documents: a waiting writer keeps new readers
out, so that taking a read lock twice can block for ever.

`MC*.tla` hold the instances; definitions called mutants beside an operation are
its plausible wrong forms, used to see that a property can fail.

## 4. Runs

| Run | Shows | Bounds, and why they are enough |
|---|---|---|
| `routing` | types; indexes resolve; events reach their launch; launches do not share runs; finished attempts stay; AttemptLog is implemented | a session with a first launch and its `-resume`, two attempts: every event may be lost, repeated, or come in any order, and both attempts may be opened by "started" events of one launch |
| `import` | live tasks survive the import; counters add up; the file is taken over or nothing of it | two tasks of which one id is the beginning of the other, seven files (every provenance, a repeated task, a refused record, missing columns, none), each cut off after any cell or in it, at any time before the completion |
| `restart` | a restart rebuilds runs, routes and layouts; forgets nothing wherever it crashed; DAGs stay with their launch | three launches of two sessions, four events, one crash at any step, any database call failing (that a second crash, during the replay, loses nothing is proved: `RestartsRestore`, `RestartsForgetNothing`) |
| `hidden` | an answered request is in force in memory and table; the settled selector is visible | two runs, two handlers at a time, four hide or unhide requests, two events, one restart: enough for an overlap, a request that settles it, and a fallback while the runs change |
| `hidden_overlap` | `HiddenRunsStayHidden` fails | one run, two requests |
| `feed` | no send on a closed channel; no update lost; browsers catch up | two handlers, two browsers with three connections, so that one may come back, channels of 1 instead of 16 (they fill), three changes, one of them a run hidden |
| `dashboard` | a settled page is consistent; only clicks take it away; it catches up; it comes to show a run | two runs, one of them loaded at the start, hidden or not; two handlers, up to two more changes that may hide and show either run; one browser that connects twice, or connects and clicks, a channel of 1: pages do not see one another, a click races the selector's request, the latest run may be hidden or the only one visible, and events may be of the run not shown |
| `panel` | pages list each task once; views agree; the panel keeps its place and catches up | two runs of two processes, one in the DAG; four tasks in every status, pages of 2 instead of the code's size, so that pages fill and vanish; three gestures, one update |
| `dag` | exact dependencies; stability; layers; TopologicalSort is implemented | four nodes of six kinds of lists (operators, unlabelled nodes, a label carried twice, fewer declarations than edges), up to four edges, also repeated |
| `resume` | last request decides; choice unique and of this run; resuming keeps the trace and is stable | command lines of up to four words of nine kinds, or three characters with quotes and backslashes; three files, three times; two resumes: the second shows whether the first settled |
| `locks` | no race on guarded data; every handler ends | every pair of kinds of requests on one and on two runs, and three that write everything; a deadlock of RWMutexes needs two goroutines and a writer |
| `locks_race` | `SnapshotsDoNotRace` fails | any two requests |

Deadlock checking is on where the code goes on for ever (`routing`, `import`) or
the model says when it is done (`dag`, `resume`). It is off elsewhere because the
bounds on changes, requests, clicks or crashes end the behaviours, and in `locks`
the handlers end; that they all can end there is `EveryHandlerEnds`.

**Fairness.** `FeedFairness`: weak fairness of each handler that has begun, because
the Go scheduler runs every goroutine that can run and a publisher never waits
for a browser; weak fairness of each connected browser's `handleSSE`.
`DashboardFairness` adds that requests are answered and answers read.
`PanelFairness`: the interval timer of an expanded panel goes off and requests
are answered. Events, hide and unhide requests, connections, disconnections, clicks and other gestures
need not happen. `Locks`: weak fairness of the whole next-state relation only.
Handlers take no lock in a loop, so that any step brings some handler nearer to
its end, and all that is assumed is that the process does not stop while a
goroutine can go on.

**Assumptions of properties**, stated in their formulas:

* Restart: no database call failed (`lost = 0`), the launches of one session do
  not post at the same time (`SerialSessions`; Nextflow locks a session), and
  trace files did not change. `RestartRestoresRuns` speaks of crashes with no
  request in progress, `RestartForgetsNothing` of all.
* `ImportsTheFileOrNothing`: `FilesAreRegular`, each column is there once, a record
  has a cell for each column or is blank, no other status reads as CACHED when it
  is cut off, and task_id comes before status, as in Nextflow's default columns;
  with the other order a record cut off in its task id could make another task
  cached. `NothingElseIsRead`: the rows are those of the modelled file. The
  instance states both as assumptions, which TLC evaluates.
* `ResumeKeepsTrace`, `ResumeIsStable`: parameters have no empty values
  (`HasSoundParams`). `ResumeKeepsTrace` also that no value is itself an option
  (`HasPlainParams`) and that the words are ones that can be written back
  (`IsSound`): none empty, options only after the project and without special
  characters, a value for each param, and no other stray words. `ResumeIsStable`
  that no option of the launches needs quotes (`OptionsArePlain`). The proofs for
  the trace take every number of a word for that of a path (`NumbersArePaths`);
  the instance states it of words of up to four characters, which is as far as
  its numbers tell them apart.

### What the code says and does not do

* `HiddenRunsStayHidden`: overlapping hide and unhide requests of one run leave
  memory and table different; a restart shows it (main.go:112).
* `SnapshotsDoNotRace`: `ensureRun` writes a run's name and identity under the
  store's lock only, while server.go:679 says the snapshot under the run's lock
  avoids races with `HandleEvent`.

### What else a reader of the properties should know

Properties that hold do so under conditions that say where the code is loose:

* A handler that is overtaken between rendering and publishing publishes an older
  sidebar or selector last; `NoUpdateLost` and `SettledSelectorIsVisible` exclude
  exactly that. A browser whose channel is full misses an update until the next.
* A replay may handle two concurrent events in the other order than the monitor
  did, and then has another latest run; runs and routes are the same.
* An event without runId makes a run with the empty ID, for which `GetLatestRun`
  returns nil and the handlers render no dashboard. `DistinctSources` excludes it.
* Two `select-run` requests under way race: a page may end with the run clicked
  first. A page that reconnects is sent the sidebar but not the dashboard, and an
  answer rendered before an event may arrive after its message: both show an
  older dashboard until the run's next event (`due`).
* While every run is hidden the selector asks for nothing, and a page without a
  dashboard stays so, until a run is shown again or another posts an event;
  `EveryPageShowsARun` excepts that, and a last message lost at a full channel or
  overlapped by another handler's.
* An expanded panel outlives a switch of runs and goes on polling the run before,
  and its filter bar names the run it was first filled for. If the other run has
  no such row, the panel loses its content and is not filled again (`disturbed`).
* A trace file that was still growing at the completion is not read again until
  a restart.
* The resume command writes an empty value as nothing, a null parameter as
  `<nil>`, and an option with special characters without quotes; `--param`
  without a value swallows the token that follows it; a stray word after
  `-with-trace` becomes its value. Options before the project are not kept, as
  `parseRuntimeFlags` starts at the fourth token (server.go:1720).

## 5. Proofs

Theorems hold for every value of the constants that satisfies the modules'
named assumptions; TLC evaluates those assumptions on the instances.

**RunStoreProofs.** Assumptions: `LaunchAssumption`, `DataAssumption`; and, as
hypotheses of the theorems that need them, `DistinctSources` (launches have a
runId and a name, and no two have both in common) and `SessionPerBase` (runs
that share an ID base share the attempt counter). All actions are first shown
to be one of two steps, an allocating or a resolving one, which store one run
and register it (`NextIsStep`); each invariant is then proved for those two.
* `TypeCorrect`: `TypeOK` is inductive.
* `RoutesCorrect`: `RoutesResolve` is inductive with `TypeOK`.
* `EventsReachLaunch`: needs `RouteOfLaunch`, that the exact route of a started
  launch is its run. An event registers only the source it names itself, even
  when it renames the run it falls into, and sources are distinct.
* `LaunchesOwnRuns`, `NoAttemptReopened`: from `FreshInv`, which adds to the
  property that no started run has a number above its session's counter
  (`CountedAttempts`) and that an unstarted run has no metadata. From the counter
  follows that an allocated ID is new or unstarted (`AllocatedIsFresh`).

* `StoreImplementsAttemptLog`, under the same hypotheses: every step of the store
  is a step of AttemptLog on what is shown of each launch. An allocating step
  opens a launch's record, possibly over what an unstarted run had received; a
  resolving step writes to the record of the launch that its run belongs to,
  which for a started launch is its own (`RouteOfLaunch`).

TraceImport, in the same module. Assumptions: those of RunStore, `CellAssumption`,
`FileAssumption`. `ImportInv` is `TypeOK` with `FileInv`, that what is written is the
start of the file, the last record cut off between two cells or in one. A step
keeps a run's tasks and counters, or adds a live task, or imports what is found
(`ImportAffects`); an import is what `RowsImported` says of the rows or leaves the
tasks alone.
* `LiveTasksAreKept`: only replaceable tasks are imported over.
* `ImportCountsAgree`: each imported row has one provenance, so that the counters
  are the sizes of disjoint sets (`ProvenancesAddUp`), and there is a row for each
  task that becomes cached (`CachedAreCounted`, by a surjection).
* `FilesAreImportedWhole`, with `FilesAreRegular` and `NothingElseIsRead` as hypotheses:
  every complete record that says CACHED becomes a row (`CompleteAreFound`). A row
  that says CACHED is of a complete record or of one that was cut off after its
  status, hence after its task id, and both read as in the file
  (`FoundAreReported`).

**MonitorProofs.** Assumptions: `PostsAssumption` and those of RunStore; hypotheses:
`DistinctSources`, `SessionPerBase` and `SerialSessions`. Handling an event is a
function from stores to stores (`After`, `HandleEventIsAfter`), and all that it reads
and changes belongs to the event's runId: stores that agree on a runId agree on it
after any event (`AfterAgrees`), and other runIds keep what they had
(`OthersUntouched`). `IInv` says, besides types and that at most one request of a
runId is in progress, that while no database call has failed there are stores
`g`, one for each prefix of the log, each the one before after the next event
(`Chain`). Replaying, the store is the one of the prefix replayed. Serving, it may
differ from all of them, as events are persisted in one order and handled in
another; but on each runId it agrees with the last one, once the event which a
request of that runId has yet to handle is applied (`Serving`). A layout, in memory,
in the table or on its way there, is that of the launch whose metadata its run
has (`LayoutsOwned`), which no event changes. So the end of the log keeps every
started run's launch, start and end and every task that the store shows
(`FinalKeeps`), and with no request in progress it is the store (`QuietRemembers`).
That an invariant about the runs alone does not do is due to concurrent sessions:
without `g` there is nothing to compare the replay with.
* `RestartsRestore`, `RestartsForgetNothing`: what a crash left is compared with the
  end of the log while the log is replayed (`Remembered`), also by a second crash.
* `LayoutsBelong`.

**DashboardProofs.** Assumption: `FeedAssumption` (what a server loads are changes, within
the bound). Handlers of events and of hide and unhide requests begin alike (`Begin`). `VisitsUnderLock` adds to
`NoSendOnClosedChannel` that only a handler that holds the lock has browsers to
visit (`OpenChannels`). `UpdatesArrive` is the inductive form of `NoUpdateLost`: while
handlers do not overlap there is at most one, it renders the current state, and
every browser that it has visited and not skipped is up to date, by the last
message in its channel or by its view (`UpdatesAreNotLost`).
On top of the feed, `InTurn`, for each page whose requests did not race: at most one
request is under way, it asks for the selected run if there is one, and once it
has patched the dashboard the dashboard is that of its run. Messages only replace
a dashboard by one of the same run. From it `PageIsConsistent` and
`SelectionStays`, whatever the feed sends and whichever run a selector names.

**DagLayoutProofs.** Assumption: `DotAssumption` (finitely many indices and labels; no
bound on how many). `DagInv` has four parts. `Base`: types and what has not begun.
`SearchInv`: visited and queued nodes are reachable, and the targets of a visited
operator are visited or queued, so that with an empty queue the visited nodes are
a closed set, which holds everything reachable. `SortInv`: in-degrees count the
unsorted parents, the ready processes are those whose count is 0, each sorted
process came after its parents. `LayerInv`: a process has a layer after its
parents, one below the lowest of them. The sort ends well exactly if the number
of sorted processes is that of all (`SortedCount`, by a bijection). From `DagInv`:
`DagTypeCorrect`, `DependenciesCorrect`, `OrderCorrect`, `StableCorrect`,
`CycleCorrect`, `LayersCorrect`, and `LayoutImplementsSort`, the refinement of
TopologicalSort.

**ResumeProofs.** TraceChoice. Assumption: `TraceAssumption` (the files of a directory have
different paths). `Basics` are the types and indices, `ScanInv` says what the
tokens read so far ask for, `ChoiceInv` that the best candidate so far is better
than every one before it; `betterTraceCandidate` is shown to be total and
transitive between candidates on which it is used. From them:
`TraceTypeCorrect`, `LastRequestCorrect`, `ChoiceCorrect`, `ChoiceOfThisRun`.

ResumeCommand, in the same module. Assumptions: `TraceAssumption`, `ResumeAssumption`;
hypotheses: `OptionsArePlain` for the stability, `NumbersArePaths` for the trace. The
folds over the symbols of a text and the words of a command line are taken one
member at a time (`ReadAppend`, `KeepAppend`). A text `Adds` words if reading it after
a space adds just them, wherever it stands; so the words of a command are those of
its parts, and the parts are written params, flags, directory and session
(`CommandIsRead`). What is quoted is read as it was (`QuotingIsUndone`).
* `CommandsAreRemade`: a resumed run's line is the resume command of the line before.
* `ResumeStable`: the flags of a resume command are exactly the words that it keeps
  (`CommandFlags`), which may be kept again, and `-work-dir` is among them.
* `TraceIsKept`: the words after the project and the flags that are kept of them
  ask for the same, word by word (`FlagsAskAlike`). That needs to know what the last
  word was from what it may still take along (`Taking`): a flag that is kept was the
  last word of both, so both or neither have a `-with-trace` waiting for its value.
  Params, directory and session ask for nothing, and the words ask for one thing
  only (`AsksUnique`). What a line's words ask for is what the scan finds in its
  tokens, in every run of the chain (`RequestsAreKept`).
* `ResumedChoice`: `TraceTypeOK`, `LastRequestDecides`, `ChoiceIsBest` and
  `ChoiceIsOfThisRun` hold in resumed runs too.

**HandlerProofs.** HiddenRuns. Assumption: `HiddenAssumption`. `Agreement` is the inductive
form of `AnsweredRequestsLast`: a run whose requests did not overlap is hidden in
memory as its last request wants it, and in the table as well, or exactly one
request for it is still to write its row (`AnswersLast`). `LastChoice` follows the
selection that began last through its reads: when no handler has yet to begin
one, neither runs nor marks change any more, so what it has read stays true
until it is broadcast (`SelectorIsVisible`). That a fallback exists is a lemma on
finite sets (`OneComesFirst`).

Locks, in the same module. Assumption: `LocksAssumption`. The programs are put together from
sections, each of which accesses data under the lock that guards it and releases
what it takes (`Protected`, `Balanced`), and takes locks in their order, store and
hidden before a run's before layouts and broker (`Nested`); sections in a row and
sections between a lock and its release are sections again (`SectionsConcat`,
`SectionsNest`), so every handler's program is one (`ProgramSection`). `LockInv` reads
off a handler's place in its program which locks it holds, with a writer alone
and a waiting writer announced (`LocksHeldByProgram`). Two handlers that access the
same guarded data, one of them writing, would both hold its lock
(`SharedDataAreGuarded`). If nobody could go on, each handler that waits would wait
for one that waits for a lock further in the order, and the order ends
(`HandlersNeverDeadlock`).

**TaskPanelProofs.** Assumptions: `ViewAssumption`, `PanelAssumption`. The place of a
task in a listing is one more than the number of those before it, and in a finite
totally ordered set that fills the places without a gap (`PlacesAreFilled`); the
pages cut the listing at multiples of the page size, and put together are the
listing (`PanelsListTasksOnce`, by `FlattenCuts`). `PanelInv`: an undisturbed panel
has at most one request under way, which asks for what the user did, or shows
it; an answer is one to its request; a panel is filled exactly if its filter bar
is (`PanelsAreConsistent`, and from it `PanelsAreTyped` and `PanelsKeepThePlace`).
`PagesAgree`: counting row by row counts the tasks (`SumByPlace`), as every task is
of one process, which has one row (`RowsListed`), and a row's dot is a matter of
which of its tasks' statuses occur, as its node's is (`DotsAgree`).

**SequenceLemmas** has what these proofs share: induction over the numbers, stated
for a set instead of a predicate (`SetInduction`), and over sequences
(`AppendInduction`), flattening of sequences of sequences, sums over finite sets.

**Only model-checked.** Liveness (`BrowsersCatchUp`, `DashboardCatchesUp`,
`EveryPageShowsARun`, `PanelCatchesUp`, `EveryHandlerEnds`) cannot be proved with these
provers, which handle neither fairness nor ENABLED; `HandlersNeverDeadlock` is the
part of `EveryHandlerEnds` that is safety.

## 6. Not modelled

* The text level: HTML, JSON, the regular expressions of the dot parser, the
  units of durations, dates and sizes in trace files, the formatting of times
  and figures, resource bars, samplesheet and notices.
* `handleIndex`, `handleDashboard`, `handleTaskLogs` and `readLogTail`: read-only
  pages; their locking is in Locks.
* SQLite: a table is a map or a sequence, a call takes effect or fails.
* In the browser: highlighting in the DAG, the clock, the undo toast; the
  Datastar library but for how it orders requests and patches.
* Flags and listen address in `main`.
* Events of unknown type: `HandleEvent` ignores them.
