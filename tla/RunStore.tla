------------------------------ MODULE RunStore ------------------------------
(***************************************************************************)
(* The in-memory run store of the monitor (internal/state/state.go): every *)
(* Nextflow webhook event is handled by Store.HandleEvent, which finds or  *)
(* creates the monitor run the event belongs to, updates it, re-registers  *)
(* its routes and returns its monitor ID.                                  *)
(*                                                                         *)
(* The environment is a fixed set of Nextflow launches.  Any event of any  *)
(* launch may be handled at any time and any number of times: the events   *)
(* of a launch are separate HTTP requests, so they may be lost, repeated   *)
(* or overtaken by one another, and every such order is a behaviour.       *)
(*                                                                         *)
(* HandleEvent runs under the store's write lock, so one call is one step  *)
(* (Monitor.tla puts the rest of the request handler around it).           *)
(*                                                                         *)
(* Data.  A monitor ID "base" or "base--attempt-N" is the pair <<base, N>>.*)
(* The metadata of a "started" event (command line, directories, params)   *)
(* is represented by the launch it describes.  The outcome of reading the  *)
(* trace file on completion is chosen by the environment from Traces.      *)
(***************************************************************************)
EXTENDS Integers, FiniteSets, Sequences

CONSTANTS
    Ids,          \* raw Nextflow run and session ids; "" is the absent one
    Names,        \* Nextflow run names
    Launches,     \* the executions of Nextflow that post events
    TaskIds,      \* task ids of the webhook traces and of the trace rows
    Statuses,     \* statuses a webhook trace carries ("" when it has none)
    Times,        \* utcTime stamps of events; 0 stands for the empty string
    Traces,       \* outcomes of resolving and parsing a run's trace file
    MaxAttempts   \* bound on the attempts of one session

NoId == ""
EmptyRunBase == "__nextflow-monitor-empty-run__"

NoLaunch == [runId |-> NoId, runName |-> NoId, session |-> NoId, resume |-> FALSE]

(* The empty monitor ID, which HandleEvent also returns for ignored events. *)
NoRun == <<NoId, 1>>

MonitorIds == (Ids \cup {NoId, EmptyRunBase}) \X (Nat \ {0})

RunStatuses == {"", "running", "completed", "failed"}

(* ErrorMessage: empty, the generic text, or the one Nextflow reported. *)
ErrorMessages == {"", "generic", "reported"}

CachedProvenances == {"trace_workdir", "hash_resolved", "unresolved", "ambiguous_hash"}

Task == [status: Statuses \cup {"CACHED"}, source: {"live_webhook", "cached_trace"},
         provenance: CachedProvenances \cup {"live_webhook"}]

(* A missing entry of Run.Tasks (a nil *Task). *)
NoTask == [status |-> "nil", source |-> "nil", provenance |-> "nil"]

(* A trace row; matches is how many directories its hash prefix denotes. *)
Row == [task: TaskIds, status: Statuses \cup {"CACHED"}, workdir: BOOLEAN, matches: Nat]

TraceOutcome == [warning: BOOLEAN, resolved: BOOLEAN, readable: BOOLEAN, rows: Seq(Row)]

(* No -with-trace on the command line: nothing is looked for. *)
NoTrace == [warning |-> FALSE, resolved |-> FALSE, readable |-> FALSE, rows |-> <<>>]

TraceImportState == [warning: BOOLEAN, resolved: BOOLEAN, imported: BOOLEAN,
                     cachedTasks: Nat, workdirs: [CachedProvenances -> Nat]]

NoImport == [warning |-> FALSE, resolved |-> FALSE, imported |-> FALSE,
             cachedTasks |-> 0, workdirs |-> [p \in CachedProvenances |-> 0]]

Run == [attempt: Nat \ {0}, runName: Names \cup {NoId}, nextflowRunId: Ids \cup {NoId},
        sessionId: Ids \cup {NoId}, isResume: BOOLEAN, metadata: Launches \cup {NoLaunch},
        status: RunStatuses, startTime: Times \cup {0}, completeTime: Times \cup {0},
        errorMessage: ErrorMessages, tasks: [TaskIds -> Task \cup {NoTask}],
        traceImport: TraceImportState]

(* Events: who posted them and whether they carry workflow metadata. *)
Event == [launch: Launches, meta: BOOLEAN, time: Times]

ASSUME LaunchAssumption ==
    /\ NoId \notin Names
    /\ NoLaunch \notin Launches
    /\ Launches \subseteq [runId: Ids \cup {NoId}, runName: Names \cup {NoId},
                           session: Ids \cup {NoId}, resume: BOOLEAN]

ASSUME DataAssumption ==
    /\ Times \subseteq Nat \ {0}
    /\ Traces \subseteq TraceOutcome
    /\ NoTrace \in Traces
    /\ MaxAttempts \in Nat

-----------------------------------------------------------------------------
VARIABLES
    runs,                   \* Runs: monitor ID -> Run
    routeBySource,          \* (raw runId, runName) -> monitor ID
    latestRunBySession,     \* session key -> monitor ID
    latestRunByNextflowID,  \* raw runId -> monitor ID
    attemptBySession,       \* session key -> last attempt number
    latestRunID,            \* the most recently updated run
    (* History variables: no action reads them. *)
    launchRun,              \* launch -> the run its last "started" event got
    lastLaunch              \* the launch whose event was handled last

storeVars == <<runs, routeBySource, latestRunBySession, latestRunByNextflowID,
               attemptBySession, latestRunID>>
historyVars == <<launchRun, lastLaunch>>
vars == <<storeVars, historyVars>>

NoEntries == [k \in {} |-> NoRun]

InitStore ==
    /\ runs = NoEntries
    /\ routeBySource = NoEntries
    /\ latestRunBySession = NoEntries
    /\ latestRunByNextflowID = NoEntries
    /\ attemptBySession = [k \in Ids \cup {NoId} |-> 0]
    /\ latestRunID = NoRun

Init ==
    /\ InitStore
    /\ launchRun = [l \in Launches |-> NoRun]
    /\ lastLaunch = NoLaunch

-----------------------------------------------------------------------------
(* Assignment to an entry of a Go map. *)
Put(map, key, value) ==
    [k \in DOMAIN map \cup {key} |-> IF k = key THEN value ELSE map[k]]

NonEmpty(new, old) == IF new # NoId THEN new ELSE old

RunIdOf(e) == e.launch.runId
SessionOf(e) == IF e.meta THEN e.launch.session ELSE NoId
ResumeOf(e) == e.meta /\ e.launch.resume
sourceKey(e) == <<e.launch.runId, e.launch.runName>>

(* nextAttemptNumber and allocateMonitorRun: the counter belongs to the     *)
(* session (to the runId without metadata), the ID's base to the runId.     *)
AttemptKey(e) == NonEmpty(SessionOf(e), RunIdOf(e))
BaseId(e) == NonEmpty(RunIdOf(e), NonEmpty(SessionOf(e), EmptyRunBase))

(* Mutants: the number is read before it is incremented; it is not used.    *)
allocateBeforeIncrement(e) == <<BaseId(e), attemptBySession[AttemptKey(e)]>>
allocateBaseOnly(e) == <<BaseId(e), 1>>

allocateMonitorRun(e) == <<BaseId(e), attemptBySession[AttemptKey(e)] + 1>>

(* Mutant: the exact route of the event is not consulted.                   *)
resolveLatestOnly(e) ==
    IF RunIdOf(e) \in DOMAIN latestRunByNextflowID
    THEN latestRunByNextflowID[RunIdOf(e)] ELSE <<RunIdOf(e), 1>>

(* resolveMonitorRunID: the first index that knows the event, else the raw runId. *)
resolveMonitorRunID(e) ==
    IF sourceKey(e) \in DOMAIN routeBySource THEN routeBySource[sourceKey(e)]
    ELSE IF SessionOf(e) # NoId /\ SessionOf(e) \in DOMAIN latestRunBySession
         THEN latestRunBySession[SessionOf(e)]
    ELSE IF RunIdOf(e) \in DOMAIN latestRunByNextflowID
         THEN latestRunByNextflowID[RunIdOf(e)]
    ELSE IF RunIdOf(e) \in DOMAIN latestRunBySession
         THEN latestRunBySession[RunIdOf(e)]
    ELSE <<RunIdOf(e), 1>>

(* Mutant: every created run is a first attempt.                            *)
newFirstAttempt(e, attempt) ==
    [attempt |-> 1, runName |-> e.launch.runName, nextflowRunId |-> RunIdOf(e),
     sessionId |-> NoId, isResume |-> ResumeOf(e), metadata |-> NoLaunch, status |-> "",
     startTime |-> 0, completeTime |-> 0, errorMessage |-> "",
     tasks |-> [t \in TaskIds |-> NoTask], traceImport |-> NoImport]

newRun(e, attempt) ==
    [attempt |-> attempt, runName |-> e.launch.runName, nextflowRunId |-> RunIdOf(e),
     sessionId |-> NoId, isResume |-> ResumeOf(e), metadata |-> NoLaunch, status |-> "",
     startTime |-> 0, completeTime |-> 0, errorMessage |-> "",
     tasks |-> [t \in TaskIds |-> NoTask], traceImport |-> NoImport]

(* ensureRun: the run with this ID, created if absent, with the event's     *)
(* non-empty identity fields copied over what it had.                       *)
ensureRun(e, id, attempt) ==
    LET run == IF id \in DOMAIN runs THEN runs[id] ELSE newRun(e, attempt)
    IN  [run EXCEPT !.runName = NonEmpty(e.launch.runName, @),
                    !.nextflowRunId = NonEmpty(RunIdOf(e), @),
                    !.isResume = @ \/ ResumeOf(e)]

sessionKey(run) == NonEmpty(run.sessionId, run.nextflowRunId)

(* Mutant: a run is registered under its raw ids, not under its source.     *)
registerLatestOnly(id, run) ==
    /\ UNCHANGED routeBySource
    /\ latestRunByNextflowID' = IF run.nextflowRunId # NoId
                            THEN Put(latestRunByNextflowID, run.nextflowRunId, id)
                            ELSE latestRunByNextflowID
    /\ latestRunBySession' = IF sessionKey(run) # NoId
                            THEN Put(latestRunBySession, sessionKey(run), id)
                            ELSE latestRunBySession

(* registerRunRouting: the run becomes the target of its own source, raw    *)
(* runId and session.                                                       *)
registerRunRouting(id, run) ==
    LET source == <<run.nextflowRunId, run.runName>>
    IN  /\ routeBySource' = IF source # <<NoId, NoId>>
                            THEN Put(routeBySource, source, id) ELSE routeBySource
        /\ latestRunByNextflowID' = IF run.nextflowRunId # NoId
                            THEN Put(latestRunByNextflowID, run.nextflowRunId, id)
                            ELSE latestRunByNextflowID
        /\ latestRunBySession' = IF sessionKey(run) # NoId
                            THEN Put(latestRunBySession, sessionKey(run), id)
                            ELSE latestRunBySession

(* The common end of every handler: store the run, register it, make it the *)
(* latest.                                                                  *)
Update(id, run) ==
    /\ runs' = Put(runs, id, run)
    /\ registerRunRouting(id, run)
    /\ latestRunID' = id

-----------------------------------------------------------------------------
(* Import of cached tasks from the trace file when a run completes.         *)

(* resolveCachedWorkdir: the explicit column wins; otherwise the hash must  *)
(* denote exactly one directory under the run's workDir.                    *)
resolveCachedWorkdir(run, row) ==
    CASE row.workdir -> "trace_workdir"
      [] ~row.workdir /\ (run.metadata = NoLaunch \/ row.matches = 0) -> "unresolved"
      [] ~row.workdir /\ run.metadata # NoLaunch /\ row.matches = 1 -> "hash_resolved"
      [] OTHER -> "ambiguous_hash"

(* Mutant: rows found ambiguous are not counted.                            *)
recordUnambiguousOnly(run, rows, imported) ==
    [p \in CachedProvenances |->
        Cardinality({i \in imported : resolveCachedWorkdir(run, rows[i]) = p
                                      /\ p # "ambiguous_hash"})]

(* recordCachedWorkdirResolution: how many imported rows had each outcome.  *)
recordCachedWorkdirResolution(run, rows, imported) ==
    [p \in CachedProvenances |->
        Cardinality({i \in imported : resolveCachedWorkdir(run, rows[i]) = p})]

(* Mutant: a task that exists may always be overwritten.                    *)
ReplaceableAlways(task) == TRUE

Replaceable(task) == task = NoTask \/ task.status \in {"", "CACHED"}

(* mergeCachedTraceRows: every CACHED row is imported unless a live task    *)
(* with a status of its own holds its id; of several rows with one id the   *)
(* last stays, and each is counted.                                         *)
mergeCachedTraceRows(run, rows) ==
    LET imported == {i \in DOMAIN rows : /\ rows[i].status = "CACHED"
                                         /\ Replaceable(run.tasks[rows[i].task])}
        rowsOf(t) == {i \in imported : rows[i].task = t}
        lastRow(t) == CHOOSE i \in rowsOf(t) : \A j \in rowsOf(t) : j <= i
    IN  [run EXCEPT
           !.tasks = [t \in TaskIds |->
                        IF rowsOf(t) = {} THEN @[t]
                        ELSE [status |-> "CACHED", source |-> "cached_trace",
                              provenance |-> resolveCachedWorkdir(run, rows[lastRow(t)])]],
           !.traceImport = [@ EXCEPT
                !.imported = TRUE,
                !.cachedTasks = Cardinality(imported),
                !.workdirs = recordCachedWorkdirResolution(run, rows, imported)]]

(* importCachedTasksOnCompletion: best effort; a path that does not resolve *)
(* or a file that does not parse leaves a warning and the tasks as they are.*)
importCachedTasksOnCompletion(run, trace) ==
    LET unreadable == trace.resolved /\ ~trace.readable
        reset == [run EXCEPT !.traceImport =
                     [NoImport EXCEPT !.warning = trace.warning \/ unreadable,
                                      !.resolved = trace.resolved]]
    IN  IF trace.resolved /\ trace.readable THEN mergeCachedTraceRows(reset, trace.rows)
        ELSE reset

-----------------------------------------------------------------------------
(* HandleEvent, one operator per case of its switch.                        *)

(* Mutant: a "started" event goes to the run its source already has.        *)
HandleStartedInPlace(e) ==
    LET id == resolveMonitorRunID(e)
    IN  /\ attemptBySession' = [attemptBySession EXCEPT ![AttemptKey(e)] = @ + 1]
        /\ Update(id, [ensureRun(e, id, 1) EXCEPT !.status = "running", !.startTime = e.time])

(* The assignments of each case to the event's run.                         *)
startedRun(run, e) ==
    LET running == [run EXCEPT !.status = "running", !.startTime = e.time]
    IN  IF e.meta
        THEN [running EXCEPT !.metadata = e.launch, !.sessionId = e.launch.session,
                             !.isResume = e.launch.resume]
        ELSE running

(* A task event names its work directory, as Nextflow's do.                 *)
processedRun(run, task, status) ==
    [run EXCEPT !.tasks[task] = [status |-> status, source |-> "live_webhook",
                                 provenance |-> "live_webhook"]]

completedRun(run, e, failed, trace) ==
    LET closed == IF e.meta /\ failed
                  THEN [run EXCEPT !.completeTime = e.time, !.status = "failed",
                                   !.errorMessage = "reported"]
                  ELSE [run EXCEPT !.completeTime = e.time, !.status = "completed"]
    IN  importCachedTasksOnCompletion(closed, trace)

failedRun(run, e, reported) ==
    [run EXCEPT !.completeTime = e.time, !.status = "failed",
                !.errorMessage = IF e.meta /\ reported THEN "reported" ELSE "generic"]

(* The run of an event that opens no attempt.                               *)
resolvedRun(e) == ensureRun(e, resolveMonitorRunID(e), 1)

HandleStarted(e) ==
    LET id == allocateMonitorRun(e)
    IN  /\ attemptBySession' = [attemptBySession EXCEPT ![AttemptKey(e)] = @ + 1]
        /\ Update(id, startedRun(ensureRun(e, id, id[2]), e))

HandleProcess(e, task, status) ==
    /\ Update(resolveMonitorRunID(e), processedRun(resolvedRun(e), task, status))
    /\ UNCHANGED attemptBySession

HandleCompleted(e, failed, trace) ==
    /\ resolvedRun(e).metadata = NoLaunch => trace = NoTrace
    /\ Update(resolveMonitorRunID(e), completedRun(resolvedRun(e), e, failed, trace))
    /\ UNCHANGED attemptBySession

HandleError(e, reported) ==
    /\ Update(resolveMonitorRunID(e), failedRun(resolvedRun(e), e, reported))
    /\ UNCHANGED attemptBySession

-----------------------------------------------------------------------------
(* The state machine.  An event of a type the store does not know, or a     *)
(* process event without a trace, changes nothing and is a stuttering step. *)

Started(e) ==
    /\ attemptBySession[AttemptKey(e)] < MaxAttempts
    /\ HandleStarted(e)
    /\ launchRun' = [launchRun EXCEPT ![e.launch] = allocateMonitorRun(e)]
    /\ lastLaunch' = e.launch

Process(e, task, status) ==
    /\ HandleProcess(e, task, status)
    /\ lastLaunch' = e.launch
    /\ UNCHANGED launchRun

Completed(e, failed, trace) ==
    /\ HandleCompleted(e, failed, trace)
    /\ lastLaunch' = e.launch
    /\ UNCHANGED launchRun

Error(e, reported) ==
    /\ HandleError(e, reported)
    /\ lastLaunch' = e.launch
    /\ UNCHANGED launchRun

Next ==
    \E e \in Event :
        \/ Started(e)
        \/ \E task \in TaskIds, status \in Statuses : Process(e, task, status)
        \/ \E failed \in BOOLEAN, trace \in Traces : Completed(e, failed, trace)
        \/ \E reported \in BOOLEAN : Error(e, reported)

Spec == Init /\ [][Next]_vars

-----------------------------------------------------------------------------
(* Properties. *)

IsMap(map, keys, values) == DOMAIN map \subseteq keys /\ map \in [DOMAIN map -> values]

RawIds == Ids \cup {NoId}

(* Every field of the store and of its runs keeps its type; monitor IDs are *)
(* only ever built from a known base and a positive attempt number.         *)
TypeOK ==
    /\ IsMap(runs, MonitorIds, Run)
    /\ IsMap(routeBySource, RawIds \X (Names \cup {NoId}), MonitorIds)
    /\ IsMap(latestRunBySession, RawIds, MonitorIds)
    /\ IsMap(latestRunByNextflowID, RawIds, MonitorIds)
    /\ attemptBySession \in [RawIds -> Nat]
    /\ latestRunID \in MonitorIds
    /\ launchRun \in [Launches -> MonitorIds]
    /\ lastLaunch \in Launches \cup {NoLaunch}

(* No index of the store ever points at a run that does not exist: whatever *)
(* order events arrive in, resolveMonitorRunID never makes ensureRun create *)
(* a run under an ID that an index handed out, the latest run is a stored   *)
(* one after any event, and each run carries the attempt number of its ID.  *)
RoutesResolve ==
    /\ \A k \in DOMAIN routeBySource : routeBySource[k] \in DOMAIN runs
    /\ \A k \in DOMAIN latestRunBySession : latestRunBySession[k] \in DOMAIN runs
    /\ \A k \in DOMAIN latestRunByNextflowID : latestRunByNextflowID[k] \in DOMAIN runs
    /\ lastLaunch # NoLaunch => latestRunID \in DOMAIN runs
    /\ \A id \in DOMAIN runs : runs[id].attempt = id[2]

(* What the environment must respect for the store to keep launches apart:  *)
(* a launch has a runId and a run name, and no other launch has both ...    *)
DistinctSources ==
    /\ \A l \in Launches : l.runId # NoId /\ l.runName # NoId
    /\ \A l, m \in Launches : l.runId = m.runId /\ l.runName = m.runName => l = m

(* ... and launches that share an ID base share the attempt counter (as     *)
(* they do with Nextflow, whose runId is the session's id).                 *)
SessionPerBase ==
    \A e, f \in Event : BaseId(e) = BaseId(f) => AttemptKey(e) = AttemptKey(f)

(* Once the "started" event of a launch was handled, every later event of   *)
(* the launch is routed to the run it was given, whatever events of other   *)
(* attempts of the session come in between, or were lost, and even though   *)
(* an event renames the run it lands in and re-registers it                 *)
(* (resolveMonitorRunID, registerRunRouting).  Assumes DistinctSources.     *)
EventsReachTheirLaunch ==
    lastLaunch # NoLaunch /\ launchRun[lastLaunch] # NoRun =>
        latestRunID = launchRun[lastLaunch]

(* The run a "started" event was given belongs to that launch alone: no two *)
(* launches share one, and it shows the metadata of its own launch, so the  *)
(* resume command and the trace path are those of the launch.  Assumes      *)
(* SessionPerBase (allocateMonitorRun, nextAttemptNumber).                  *)
LaunchesHaveTheirOwnRun ==
    \A l \in Launches : launchRun[l] # NoRun =>
        /\ launchRun[l] \in DOMAIN runs
        /\ runs[launchRun[l]].startTime # 0
        /\ runs[launchRun[l]].metadata \in {l, NoLaunch}
        /\ \A m \in Launches : launchRun[m] = launchRun[l] => m = l

(* A repeated or a new "started" event opens a new attempt and never takes  *)
(* over a run that was started before: such a run keeps its start time and  *)
(* metadata, and is not "running" again once it has finished.               *)
(* Assumes SessionPerBase (allocateMonitorRun, HandleEvent "started").      *)
AttemptsAreNotReopened ==
    [][\A id \in DOMAIN runs : runs[id].startTime # 0 =>
          /\ id \in DOMAIN runs'
          /\ runs'[id].startTime = runs[id].startTime
          /\ runs'[id].metadata = runs[id].metadata
          /\ runs[id].status \in {"completed", "failed"} => runs'[id].status # "running"]_vars

(* The import of cached tasks never replaces what a live webhook reported:  *)
(* a live task with a status of its own changes only into a live task, in   *)
(* whichever order the task's event and the completion are handled          *)
(* (mergeCachedTraceRows).                                                  *)
LiveTasksSurviveImport ==
    [][\A id \in DOMAIN runs, t \in TaskIds :
          /\ runs[id].tasks[t].source = "live_webhook"
          /\ runs[id].tasks[t].status \notin {"", "CACHED"}
          => runs'[id].tasks[t].source = "live_webhook"]_vars

(* The counters the trace notice shows agree with one another and with the  *)
(* tasks of the run: each counted row has exactly one provenance, and at    *)
(* the completion that imports it no cached task is left uncounted unless   *)
(* it stems from an earlier import (mergeCachedTraceRows).                  *)
CachedIn(run) == {t \in TaskIds : run.tasks[t].source = "cached_trace"}

ImportCountsAddUp ==
    [][\A id \in DOMAIN runs : id \in DOMAIN runs' /\ runs'[id].traceImport # runs[id].traceImport =>
          LET import == runs'[id].traceImport
              new == CachedIn(runs'[id]) \ CachedIn(runs[id])
          IN  /\ import.cachedTasks =
                   import.workdirs["trace_workdir"] + import.workdirs["hash_resolved"]
                   + import.workdirs["unresolved"] + import.workdirs["ambiguous_hash"]
              /\ Cardinality(new) <= import.cachedTasks
              /\ import.cachedTasks > 0 => CachedIn(runs'[id]) # {} /\ import.imported]_vars

-----------------------------------------------------------------------------
(* The store implements AttemptLog: what the pages show of a launch is the  *)
(* run its last "started" event was given.                                  *)

Shown(run) == [status |-> run.status, startTime |-> run.startTime,
               completeTime |-> run.completeTime, metadata |-> run.metadata,
               tasks |-> run.tasks]

NothingShown == [status |-> "", startTime |-> 0, completeTime |-> 0, metadata |-> NoLaunch,
                 tasks |-> [t \in TaskIds |-> NoTask]]

ShownOfLaunch ==
    [l \in Launches |-> IF launchRun[l] = NoRun THEN NothingShown ELSE Shown(runs[launchRun[l]])]

(* Only events that precede every start of their runId make a run of it     *)
(* that was not started, the first attempt.                                 *)
Unclaimed ==
    [b \in Ids |-> IF <<b, 1>> \in DOMAIN runs /\ runs[<<b, 1>>].startTime = 0
                   THEN Shown(runs[<<b, 1>>]) ELSE NothingShown]

LiveTasks == {t \in Task : t.source = "live_webhook"}
CachedTasks == {t \in Task : t.source = "cached_trace"}
ReplaceableTasks == {t \in Task \cup {NoTask} : t = NoTask \/ t.status \in {"", "CACHED"}}

Log == INSTANCE AttemptLog WITH
    record <- ShownOfLaunch, inbox <- Unclaimed, speaker <- lastLaunch,
    Bases <- Ids, Overwritable <- ReplaceableTasks

(* Each launch has a record of its own, and after its start whatever it     *)
(* posts is written there, completely and nowhere else, in any order of     *)
(* events of all the attempts, repeated or lost (HandleEvent with           *)
(* resolveMonitorRunID and registerRunRouting).  Assumes DistinctSources    *)
(* and SessionPerBase.                                                      *)
ImplementsAttemptLog == Log!LogSpec

=============================================================================
