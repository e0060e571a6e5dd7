-------------------------- MODULE RunStoreProofs ----------------------------
(***************************************************************************)
(* Proofs about RunStore, for every set of launches, ids, names, tasks,    *)
(* statuses and trace outcomes.  TypeOK and RoutesResolve hold as they     *)
(* stand.  What is said of launches needs what the environment respects    *)
(* (DistinctSources, SessionPerBase), and is an assumption of each theorem *)
(* that uses it.                                                           *)
(*                                                                         *)
(* Then, the store implements AttemptLog: every step of the store is a     *)
(* step of AttemptLog on what is shown of each launch.                     *)
(*                                                                         *)
(* Last, what an import takes over of the trace file and what it may not   *)
(* touch, for any trace files and any place where the file may be cut off  *)
(* (TraceImport).                                                          *)
(***************************************************************************)
EXTENDS TraceImport, TLAPS, FiniteSetTheorems, SequenceTheorems

-----------------------------------------------------------------------------
(* Events and monitor IDs. *)

(* What a started or another event names is of the expected type.           *)
LEMMA EventFields ==
    ASSUME NEW e \in Event
    PROVE  /\ e.launch \in Launches /\ e.meta \in BOOLEAN
           /\ e.time \in Times /\ e.time \in Nat /\ e.time # 0
           /\ e.launch.runName \in Names \cup {NoId}
           /\ RunIdOf(e) \in RawIds /\ SessionOf(e) \in RawIds
           /\ e.launch.session \in RawIds
           /\ e.launch.resume \in BOOLEAN /\ ResumeOf(e) \in BOOLEAN
           /\ AttemptKey(e) \in RawIds
           /\ BaseId(e) \in Ids \cup {NoId, EmptyRunBase}
           /\ sourceKey(e) \in RawIds \X (Names \cup {NoId})
<1>1. e.launch \in Launches /\ e.meta \in BOOLEAN /\ e.time \in Times
  BY DEF Event
<1>2. e.launch \in [runId: Ids \cup {NoId}, runName: Names \cup {NoId},
                    session: Ids \cup {NoId}, resume: BOOLEAN]
  BY <1>1, LaunchAssumption
<1>3. e.time \in Nat /\ e.time # 0
  BY <1>1, DataAssumption
<1>4. RunIdOf(e) \in RawIds /\ SessionOf(e) \in RawIds /\ ResumeOf(e) \in BOOLEAN
  BY <1>1, <1>2 DEF RunIdOf, SessionOf, ResumeOf, RawIds
<1>5. AttemptKey(e) \in RawIds /\ BaseId(e) \in Ids \cup {NoId, EmptyRunBase}
  BY <1>4 DEF AttemptKey, BaseId, NonEmpty, RawIds
<1>6. sourceKey(e) \in RawIds \X (Names \cup {NoId})
  BY <1>2 DEF sourceKey, RawIds
<1>7. QED BY <1>1, <1>2, <1>3, <1>4, <1>5, <1>6 DEF RawIds

(* The ID given to a "started" event, and the one any other event resolves  *)
(* to, are monitor IDs.                                                     *)
LEMMA AllocateType ==
    ASSUME TypeOK, NEW e \in Event
    PROVE  /\ allocateMonitorRun(e) \in MonitorIds
           /\ allocateMonitorRun(e)[1] = BaseId(e)
           /\ allocateMonitorRun(e)[2] = attemptBySession[AttemptKey(e)] + 1
           /\ allocateMonitorRun(e)[2] \in Nat \ {0}
           /\ attemptBySession[AttemptKey(e)] \in Nat
<1>1. AttemptKey(e) \in RawIds /\ BaseId(e) \in Ids \cup {NoId, EmptyRunBase}
  BY EventFields
<1>2. attemptBySession[AttemptKey(e)] \in Nat
  BY <1>1 DEF TypeOK
<1>3. QED BY <1>1, <1>2 DEF allocateMonitorRun, MonitorIds

(* resolveMonitorRunID returns a monitor ID for every event.                *)
LEMMA ResolveType ==
    ASSUME TypeOK, NEW e \in Event
    PROVE  resolveMonitorRunID(e) \in MonitorIds
<1>1. sourceKey(e) \in DOMAIN routeBySource => routeBySource[sourceKey(e)] \in MonitorIds
  BY DEF TypeOK, IsMap
<1>2. SessionOf(e) \in DOMAIN latestRunBySession
        => latestRunBySession[SessionOf(e)] \in MonitorIds
  BY DEF TypeOK, IsMap
<1>3. RunIdOf(e) \in DOMAIN latestRunByNextflowID
        => latestRunByNextflowID[RunIdOf(e)] \in MonitorIds
  BY DEF TypeOK, IsMap
<1>4. RunIdOf(e) \in DOMAIN latestRunBySession
        => latestRunBySession[RunIdOf(e)] \in MonitorIds
  BY DEF TypeOK, IsMap
<1>5. <<RunIdOf(e), 1>> \in MonitorIds
  BY EventFields DEF MonitorIds, RawIds
<1>6. QED BY <1>1, <1>2, <1>3, <1>4, <1>5 DEF resolveMonitorRunID

-----------------------------------------------------------------------------
(* Runs. *)

(* The import state of a new run is well typed.                             *)
LEMMA NoImportType == NoImport \in TraceImportState
  BY DEF NoImport, TraceImportState

(* A run created by ensureRun is well typed, not started and without metadata.*)
LEMMA NewRunType ==
    ASSUME NEW e \in Event, NEW attempt \in Nat \ {0}
    PROVE  /\ newRun(e, attempt) \in Run
           /\ newRun(e, attempt).attempt = attempt
           /\ newRun(e, attempt).startTime = 0
           /\ newRun(e, attempt).metadata = NoLaunch
<1>1. RunIdOf(e) \in RawIds /\ e.launch.runName \in Names \cup {NoId} /\ ResumeOf(e) \in BOOLEAN
  BY EventFields
<1>2. [t \in TaskIds |-> NoTask] \in [TaskIds -> Task \cup {NoTask}]
  OBVIOUS
<1>3. QED BY <1>1, <1>2, NoImportType DEF newRun, Run, RawIds, RunStatuses, ErrorMessages

(* ensureRun returns a well-typed run: the stored one but for its identity  *)
(* fields, or a new one with the given attempt number.                      *)
LEMMA EnsureRunType ==
    ASSUME TypeOK, NEW e \in Event, NEW id \in MonitorIds, NEW attempt \in Nat \ {0}
    PROVE  /\ ensureRun(e, id, attempt) \in Run
           /\ ensureRun(e, id, attempt).runName = NonEmpty(e.launch.runName,
                 IF id \in DOMAIN runs THEN runs[id].runName ELSE e.launch.runName)
           /\ ensureRun(e, id, attempt).nextflowRunId = NonEmpty(RunIdOf(e),
                 IF id \in DOMAIN runs THEN runs[id].nextflowRunId ELSE RunIdOf(e))
           /\ id \in DOMAIN runs =>
                /\ ensureRun(e, id, attempt).attempt = runs[id].attempt
                /\ ensureRun(e, id, attempt).startTime = runs[id].startTime
                /\ ensureRun(e, id, attempt).metadata = runs[id].metadata
                /\ ensureRun(e, id, attempt).status = runs[id].status
           /\ id \notin DOMAIN runs =>
                /\ ensureRun(e, id, attempt).attempt = attempt
                /\ ensureRun(e, id, attempt).startTime = 0
                /\ ensureRun(e, id, attempt).metadata = NoLaunch
<1>1. RunIdOf(e) \in RawIds /\ e.launch.runName \in Names \cup {NoId} /\ ResumeOf(e) \in BOOLEAN
  BY EventFields
<1> DEFINE run == IF id \in DOMAIN runs THEN runs[id] ELSE newRun(e, attempt)
<1>2. run \in Run
  BY NewRunType DEF TypeOK, IsMap
<1>3. ensureRun(e, id, attempt) =
        [run EXCEPT !.runName = NonEmpty(e.launch.runName, @),
                    !.nextflowRunId = NonEmpty(RunIdOf(e), @),
                    !.isResume = @ \/ ResumeOf(e)]
  BY DEF ensureRun
<1>4. /\ NonEmpty(e.launch.runName, run.runName) \in Names \cup {NoId}
      /\ NonEmpty(RunIdOf(e), run.nextflowRunId) \in Ids \cup {NoId}
      /\ (run.isResume \/ ResumeOf(e)) \in BOOLEAN
  BY <1>1, <1>2 DEF Run, NonEmpty, RawIds
<1>5. ensureRun(e, id, attempt) \in Run
  BY <1>2, <1>3, <1>4 DEF Run
<1>6. /\ ensureRun(e, id, attempt).runName = NonEmpty(e.launch.runName, run.runName)
      /\ ensureRun(e, id, attempt).nextflowRunId = NonEmpty(RunIdOf(e), run.nextflowRunId)
      /\ ensureRun(e, id, attempt).attempt = run.attempt
      /\ ensureRun(e, id, attempt).startTime = run.startTime
      /\ ensureRun(e, id, attempt).metadata = run.metadata
      /\ ensureRun(e, id, attempt).status = run.status
  BY <1>2, <1>3 DEF Run
<1>7. id \notin DOMAIN runs => run.attempt = attempt /\ run.startTime = 0 /\ run.metadata = NoLaunch
  BY NewRunType
<1>8. id \notin DOMAIN runs => run.runName = e.launch.runName /\ run.nextflowRunId = RunIdOf(e)
  BY DEF newRun
<1>9. QED BY <1>5, <1>6, <1>7, <1>8

-----------------------------------------------------------------------------
(* The import of cached tasks changes only a run's tasks and its import     *)
(* state, and keeps their types.                                            *)

(* resolveCachedWorkdir has one of the four outcomes.                       *)
LEMMA ProvenanceType ==
    ASSUME NEW run, NEW row
    PROVE  resolveCachedWorkdir(run, row) \in CachedProvenances
  BY DEF resolveCachedWorkdir, CachedProvenances

(* What an import leaves alone. *)
SameButImport(new, run) ==
    /\ new \in Run
    /\ new.attempt = run.attempt /\ new.startTime = run.startTime
    /\ new.metadata = run.metadata /\ new.status = run.status
    /\ new.runName = run.runName /\ new.nextflowRunId = run.nextflowRunId
    /\ new.sessionId = run.sessionId

(* mergeCachedTraceRows changes the tasks and the import state only, whatever*)
(* rows the trace file holds.                                               *)
LEMMA MergeType ==
    ASSUME NEW run \in Run, NEW rows, IsFiniteSet(DOMAIN rows)
    PROVE  SameButImport(mergeCachedTraceRows(run, rows), run)
<1> DEFINE imported == {i \in DOMAIN rows : /\ rows[i].status = "CACHED"
                                            /\ Replaceable(run.tasks[rows[i].task])}
           rowsOf(t) == {i \in imported : rows[i].task = t}
           lastRow(t) == CHOOSE i \in rowsOf(t) : \A j \in rowsOf(t) : j <= i
           cached(t) == [status |-> "CACHED", source |-> "cached_trace",
                         provenance |-> resolveCachedWorkdir(run, rows[lastRow(t)])]
           tasks == [t \in TaskIds |-> IF rowsOf(t) = {} THEN run.tasks[t] ELSE cached(t)]
           import == [run.traceImport EXCEPT
                         !.imported = TRUE,
                         !.cachedTasks = Cardinality(imported),
                         !.workdirs = recordCachedWorkdirResolution(run, rows, imported)]
<1>1. IsFiniteSet(imported)
  <2>1. imported \subseteq DOMAIN rows
    OBVIOUS
  <2>2. QED BY <2>1, FS_Subset
<1>2. Cardinality(imported) \in Nat
  BY <1>1, FS_CardinalityType
<1>3. recordCachedWorkdirResolution(run, rows, imported) \in [CachedProvenances -> Nat]
  <2>1. ASSUME NEW p \in CachedProvenances
        PROVE  Cardinality({i \in imported : resolveCachedWorkdir(run, rows[i]) = p}) \in Nat
    <3>1. IsFiniteSet({i \in imported : resolveCachedWorkdir(run, rows[i]) = p})
      <4>1. {i \in imported : resolveCachedWorkdir(run, rows[i]) = p} \subseteq imported
        OBVIOUS
      <4>2. QED BY <4>1, <1>1, FS_Subset
    <3>2. QED BY <3>1, FS_CardinalityType
  <2>2. QED BY <2>1 DEF recordCachedWorkdirResolution
<1>4. tasks \in [TaskIds -> Task \cup {NoTask}]
  <2>1. ASSUME NEW t \in TaskIds PROVE cached(t) \in Task
    BY ProvenanceType DEF Task
  <2>2. \A t \in TaskIds : run.tasks[t] \in Task \cup {NoTask}
    BY DEF Run
  <2>3. QED BY <2>1, <2>2
<1>5. import \in TraceImportState
  <2>1. run.traceImport \in TraceImportState
    BY DEF Run
  <2>2. QED BY <2>1, <1>2, <1>3 DEF TraceImportState
<1>6. mergeCachedTraceRows(run, rows) = [run EXCEPT !.tasks = tasks, !.traceImport = import]
  BY DEF mergeCachedTraceRows
<1> HIDE DEF tasks, import
<1>7. QED BY <1>4, <1>5, <1>6 DEF SameButImport, Run

(* All that these proofs need of what is found of the trace file.           *)
Importable(trace) ==
    trace.warning \in BOOLEAN /\ trace.resolved \in BOOLEAN /\ IsFiniteSet(DOMAIN trace.rows)

(* The outcomes of RunStore are of that kind.                               *)
LEMMA TracesImportable == ASSUME NEW trace \in Traces PROVE Importable(trace)
<1>1. trace \in TraceOutcome
  BY DataAssumption
<1>2. trace.rows \in Seq(Row)
  BY <1>1 DEF TraceOutcome
<1>3. DOMAIN trace.rows = 1 .. Len(trace.rows) /\ Len(trace.rows) \in Nat
  BY <1>2
<1>4. IsFiniteSet(DOMAIN trace.rows)
  BY <1>3, FS_Interval
<1>5. QED BY <1>1, <1>4 DEF TraceOutcome, Importable

(* importCachedTasksOnCompletion changes no more than that either.          *)
LEMMA ImportType ==
    ASSUME NEW run \in Run, NEW trace, Importable(trace)
    PROVE  SameButImport(importCachedTasksOnCompletion(run, trace), run)
<1> DEFINE unreadable == trace.resolved /\ ~trace.readable
           import == [NoImport EXCEPT !.warning = trace.warning \/ unreadable,
                                      !.resolved = trace.resolved]
           reset == [run EXCEPT !.traceImport = import]
<1>2. import \in TraceImportState
  <2>1. (trace.warning \/ unreadable) \in BOOLEAN /\ trace.resolved \in BOOLEAN
    BY DEF Importable
  <2>2. QED BY <2>1, NoImportType DEF TraceImportState
<1>3. SameButImport(reset, run)
  <2> HIDE DEF import
  <2>1. QED BY <1>2 DEF SameButImport, Run
<1>4. IsFiniteSet(DOMAIN trace.rows)
  BY DEF Importable
<1>5. SameButImport(mergeCachedTraceRows(reset, trace.rows), reset)
  BY <1>3, <1>4, MergeType DEF SameButImport
<1>6. importCachedTasksOnCompletion(run, trace) =
        IF trace.resolved /\ trace.readable THEN mergeCachedTraceRows(reset, trace.rows)
        ELSE reset
  BY DEF importCachedTasksOnCompletion
<1> HIDE DEF reset
<1>7. QED BY <1>3, <1>5, <1>6 DEF SameButImport

-----------------------------------------------------------------------------
(* Steps.  Every handler stores one run and registers it; the ones for      *)
(* events other than "started" store it under the resolved ID.              *)

(* The run a step stores: what ensureRun returned, with other fields set.   *)
Stores(e, id, attempt, run) ==
    LET ensured == ensureRun(e, id, attempt)
    IN  /\ run \in Run
        /\ run.attempt = ensured.attempt
        /\ run.runName = ensured.runName
        /\ run.nextflowRunId = ensured.nextflowRunId

ResolvedStep(e, run) ==
    LET ensured == ensureRun(e, resolveMonitorRunID(e), 1)
    IN  /\ Stores(e, resolveMonitorRunID(e), 1, run)
        /\ run.startTime = ensured.startTime
        /\ run.metadata = ensured.metadata
        /\ run.status \in {ensured.status, "completed", "failed"}
        /\ Update(resolveMonitorRunID(e), run)
        /\ UNCHANGED <<attemptBySession, launchRun>>
        /\ lastLaunch' = e.launch

StartedStep(e, run) ==
    LET ensured == ensureRun(e, allocateMonitorRun(e), allocateMonitorRun(e)[2])
    IN  /\ Stores(e, allocateMonitorRun(e), allocateMonitorRun(e)[2], run)
        /\ run.startTime = e.time
        /\ run.metadata \in {e.launch, ensured.metadata}
        /\ Update(allocateMonitorRun(e), run)
        /\ attemptBySession' = [attemptBySession EXCEPT ![AttemptKey(e)] = @ + 1]
        /\ launchRun' = [launchRun EXCEPT ![e.launch] = allocateMonitorRun(e)]
        /\ lastLaunch' = e.launch

(* A "started" event stores a well-typed run under the allocated ID.        *)
LEMMA StartedIsStartedStep ==
    ASSUME TypeOK, NEW e \in Event, Started(e)
    PROVE  \E run \in Run : StartedStep(e, run)
<1> DEFINE id == allocateMonitorRun(e)
           ensured == ensureRun(e, id, id[2])
           running == [ensured EXCEPT !.status = "running", !.startTime = e.time]
           run == IF e.meta
                  THEN [running EXCEPT !.metadata = e.launch, !.sessionId = e.launch.session,
                                       !.isResume = e.launch.resume]
                  ELSE running
<1>1. id \in MonitorIds /\ id[2] \in Nat \ {0}
  BY AllocateType
<1>2. ensured \in Run
  BY <1>1, EnsureRunType
<1>3. /\ e.time \in Times /\ e.launch \in Launches /\ e.launch.session \in Ids \cup {NoId}
      /\ e.launch.resume \in BOOLEAN
  BY EventFields DEF RawIds
<1>4. /\ Update(id, run)
      /\ attemptBySession' = [attemptBySession EXCEPT ![AttemptKey(e)] = @ + 1]
      /\ launchRun' = [launchRun EXCEPT ![e.launch] = id]
      /\ lastLaunch' = e.launch
  BY DEF Started, HandleStarted, startedRun
<1> HIDE DEF ensured
<1>5. /\ running \in Run
      /\ running.attempt = ensured.attempt /\ running.runName = ensured.runName
      /\ running.nextflowRunId = ensured.nextflowRunId /\ running.startTime = e.time
      /\ running.metadata = ensured.metadata
  BY <1>2, <1>3 DEF Run, RunStatuses
<1> HIDE DEF running
<1>6. /\ run \in Run
      /\ run.attempt = ensured.attempt /\ run.runName = ensured.runName
      /\ run.nextflowRunId = ensured.nextflowRunId /\ run.startTime = e.time
      /\ run.metadata \in {e.launch, ensured.metadata}
  BY <1>3, <1>5 DEF Run
<1> HIDE DEF run
<1>7. StartedStep(e, run)
  BY <1>4, <1>6 DEF StartedStep, Stores, ensured
<1>8. QED BY <1>6, <1>7

(* A task event keeps what StartedStep is about of the run it resolves to.  *)
LEMMA ProcessIsResolvedStep ==
    ASSUME TypeOK, NEW e \in Event, NEW task \in TaskIds, NEW status \in Statuses,
           Process(e, task, status)
    PROVE  \E run \in Run : ResolvedStep(e, run)
<1> DEFINE id == resolveMonitorRunID(e)
           ensured == ensureRun(e, id, 1)
           live == [status |-> status, source |-> "live_webhook", provenance |-> "live_webhook"]
           run == [ensured EXCEPT !.tasks[task] = live]
<1>1. ensured \in Run
  BY ResolveType, EnsureRunType
<1>2. Update(id, run) /\ UNCHANGED <<attemptBySession, launchRun>> /\ lastLaunch' = e.launch
  BY DEF Process, HandleProcess, processedRun, resolvedRun
<1>3. live \in Task
  BY DEF Task
<1> HIDE DEF ensured, live
<1>4. /\ run \in Run
      /\ run.attempt = ensured.attempt /\ run.runName = ensured.runName
      /\ run.nextflowRunId = ensured.nextflowRunId /\ run.startTime = ensured.startTime
      /\ run.metadata = ensured.metadata /\ run.status = ensured.status
  BY <1>1, <1>3 DEF Run
<1> HIDE DEF run
<1>5. ResolvedStep(e, run)
  BY <1>2, <1>4 DEF ResolvedStep, Stores, ensured
<1>6. QED BY <1>4, <1>5

(* So does a completion, with its import of cached tasks.                   *)
LEMMA CompletedIsResolvedStep ==
    ASSUME TypeOK, NEW e \in Event, NEW failed \in BOOLEAN, NEW trace, Importable(trace),
           Completed(e, failed, trace)
    PROVE  \E run \in Run : ResolvedStep(e, run)
<1> DEFINE id == resolveMonitorRunID(e)
           ensured == ensureRun(e, id, 1)
           closed == IF e.meta /\ failed
                     THEN [ensured EXCEPT !.completeTime = e.time, !.status = "failed",
                                          !.errorMessage = "reported"]
                     ELSE [ensured EXCEPT !.completeTime = e.time, !.status = "completed"]
           run == importCachedTasksOnCompletion(closed, trace)
<1>1. ensured \in Run
  BY ResolveType, EnsureRunType
<1>2. Update(id, run) /\ UNCHANGED <<attemptBySession, launchRun>> /\ lastLaunch' = e.launch
  BY DEF Completed, HandleCompleted, completedRun, resolvedRun
<1>3. e.time \in Times
  BY EventFields
<1> HIDE DEF ensured
<1>4. /\ closed \in Run
      /\ closed.attempt = ensured.attempt /\ closed.runName = ensured.runName
      /\ closed.nextflowRunId = ensured.nextflowRunId /\ closed.startTime = ensured.startTime
      /\ closed.metadata = ensured.metadata /\ closed.status \in {"completed", "failed"}
  BY <1>1, <1>3 DEF Run, RunStatuses, ErrorMessages
<1> HIDE DEF closed
<1>5. SameButImport(run, closed)
  BY <1>4, ImportType
<1> HIDE DEF run
<1>6. ResolvedStep(e, run)
  BY <1>2, <1>4, <1>5 DEF ResolvedStep, Stores, SameButImport, ensured
<1>7. QED BY <1>5, <1>6 DEF SameButImport

(* So does an error.                                                        *)
LEMMA ErrorIsResolvedStep ==
    ASSUME TypeOK, NEW e \in Event, NEW reported \in BOOLEAN, Error(e, reported)
    PROVE  \E run \in Run : ResolvedStep(e, run)
<1> DEFINE id == resolveMonitorRunID(e)
           ensured == ensureRun(e, id, 1)
           message == IF e.meta /\ reported THEN "reported" ELSE "generic"
           run == [ensured EXCEPT !.completeTime = e.time, !.status = "failed",
                                  !.errorMessage = message]
<1>1. ensured \in Run
  BY ResolveType, EnsureRunType
<1>2. Update(id, run) /\ UNCHANGED <<attemptBySession, launchRun>> /\ lastLaunch' = e.launch
  BY DEF Error, HandleError, failedRun, resolvedRun
<1>3. e.time \in Times /\ message \in ErrorMessages
  BY EventFields DEF ErrorMessages
<1> HIDE DEF ensured, message
<1>4. /\ run \in Run
      /\ run.attempt = ensured.attempt /\ run.runName = ensured.runName
      /\ run.nextflowRunId = ensured.nextflowRunId /\ run.startTime = ensured.startTime
      /\ run.metadata = ensured.metadata /\ run.status = "failed"
  BY <1>1, <1>3 DEF Run, RunStatuses
<1> HIDE DEF run
<1>5. ResolvedStep(e, run)
  BY <1>2, <1>4 DEF ResolvedStep, Stores, ensured
<1>6. QED BY <1>4, <1>5

(* A step of the store is one of the two, so the invariants below need two  *)
(* cases and the stuttering one.                                            *)
LEMMA NextIsStep ==
    ASSUME TypeOK, Next
    PROVE  \E e \in Event, run \in Run : StartedStep(e, run) \/ ResolvedStep(e, run)
<1>1. PICK e \in Event :
        \/ Started(e)
        \/ \E task \in TaskIds, status \in Statuses : Process(e, task, status)
        \/ \E failed \in BOOLEAN, trace \in Traces : Completed(e, failed, trace)
        \/ \E reported \in BOOLEAN : Error(e, reported)
  BY DEF Next
<1>2. CASE Started(e)
  BY <1>2, StartedIsStartedStep
<1>3. CASE \E task \in TaskIds, status \in Statuses : Process(e, task, status)
  BY <1>3, ProcessIsResolvedStep
<1>4. CASE \E failed \in BOOLEAN, trace \in Traces : Completed(e, failed, trace)
  BY <1>4, TracesImportable, CompletedIsResolvedStep
<1>5. CASE \E reported \in BOOLEAN : Error(e, reported)
  BY <1>5, ErrorIsResolvedStep
<1>6. QED BY <1>1, <1>2, <1>3, <1>4, <1>5

-----------------------------------------------------------------------------
(* What storing and registering a run does to the maps. *)

(* Update keeps the types of the maps and stores the run under its ID.      *)
LEMMA UpdateMaps ==
    ASSUME TypeOK, NEW id \in MonitorIds, NEW run \in Run, Update(id, run)
    PROVE  /\ IsMap(runs', MonitorIds, Run)
           /\ IsMap(routeBySource', RawIds \X (Names \cup {NoId}), MonitorIds)
           /\ IsMap(latestRunBySession', RawIds, MonitorIds)
           /\ IsMap(latestRunByNextflowID', RawIds, MonitorIds)
           /\ latestRunID' = id
           /\ DOMAIN runs' = DOMAIN runs \cup {id}
           /\ runs'[id] = run
           /\ \A other \in DOMAIN runs : other # id => runs'[other] = runs[other]
<1>1. run.nextflowRunId \in RawIds /\ run.runName \in Names \cup {NoId}
      /\ sessionKey(run) \in RawIds
  BY DEF Run, RawIds, sessionKey, NonEmpty
<1>2. <<run.nextflowRunId, run.runName>> \in RawIds \X (Names \cup {NoId})
  BY <1>1
<1>3. /\ runs' = Put(runs, id, run)
      /\ latestRunID' = id
      /\ \/ routeBySource' = Put(routeBySource, <<run.nextflowRunId, run.runName>>, id)
         \/ routeBySource' = routeBySource
      /\ \/ latestRunByNextflowID' = Put(latestRunByNextflowID, run.nextflowRunId, id)
         \/ latestRunByNextflowID' = latestRunByNextflowID
      /\ \/ latestRunBySession' = Put(latestRunBySession, sessionKey(run), id)
         \/ latestRunBySession' = latestRunBySession
  BY DEF Update, registerRunRouting
<1>4. IsMap(routeBySource', RawIds \X (Names \cup {NoId}), MonitorIds)
  BY <1>2, <1>3 DEF TypeOK, IsMap, Put
<1>5. IsMap(latestRunByNextflowID', RawIds, MonitorIds)
  BY <1>1, <1>3 DEF TypeOK, IsMap, Put
<1>6. IsMap(latestRunBySession', RawIds, MonitorIds)
  BY <1>1, <1>3 DEF TypeOK, IsMap, Put
<1>7. /\ IsMap(runs', MonitorIds, Run)
      /\ DOMAIN runs' = DOMAIN runs \cup {id}
      /\ runs'[id] = run
      /\ \A other \in DOMAIN runs : other # id => runs'[other] = runs[other]
  BY <1>3 DEF TypeOK, IsMap, Put
<1>8. QED BY <1>3, <1>4, <1>5, <1>6, <1>7

(* Every entry of an index is an old one or the run just registered.        *)
LEMMA UpdateRoutes ==
    ASSUME NEW id, NEW run, Update(id, run)
    PROVE  /\ \A k \in DOMAIN routeBySource' :
                \/ routeBySource'[k] = id
                \/ k \in DOMAIN routeBySource /\ routeBySource'[k] = routeBySource[k]
           /\ \A k \in DOMAIN latestRunBySession' :
                \/ latestRunBySession'[k] = id
                \/ k \in DOMAIN latestRunBySession
                   /\ latestRunBySession'[k] = latestRunBySession[k]
           /\ \A k \in DOMAIN latestRunByNextflowID' :
                \/ latestRunByNextflowID'[k] = id
                \/ k \in DOMAIN latestRunByNextflowID
                   /\ latestRunByNextflowID'[k] = latestRunByNextflowID[k]
  BY DEF Update, registerRunRouting, Put

-----------------------------------------------------------------------------
(* Type correctness. *)

(* A step of either kind keeps the types of the fields.                     *)
LEMMA StepKeepsTypes ==
    ASSUME TypeOK, NEW e \in Event, NEW run \in Run, StartedStep(e, run) \/ ResolvedStep(e, run)
    PROVE  TypeOK'
<1>1. e.launch \in Launches /\ AttemptKey(e) \in RawIds
  BY EventFields
<1>2. CASE StartedStep(e, run)
  <2>1. allocateMonitorRun(e) \in MonitorIds /\ Update(allocateMonitorRun(e), run)
    BY <1>2, AllocateType DEF StartedStep
  <2>2. attemptBySession' \in [RawIds -> Nat]
    BY <1>1, <1>2 DEF StartedStep, TypeOK
  <2>3. launchRun' \in [Launches -> MonitorIds] /\ lastLaunch' \in Launches \cup {NoLaunch}
    BY <1>1, <1>2, <2>1 DEF StartedStep, TypeOK
  <2>4. QED BY <2>1, <2>2, <2>3, UpdateMaps DEF TypeOK
<1>3. CASE ResolvedStep(e, run)
  <2>1. resolveMonitorRunID(e) \in MonitorIds /\ Update(resolveMonitorRunID(e), run)
    BY <1>3, ResolveType DEF ResolvedStep
  <2>2. /\ attemptBySession' = attemptBySession /\ launchRun' = launchRun
        /\ lastLaunch' \in Launches \cup {NoLaunch}
    BY <1>1, <1>3 DEF ResolvedStep
  <2>3. QED BY <2>1, <2>2, UpdateMaps DEF TypeOK
<1>4. QED BY <1>2, <1>3

(* The fields have their types when the store is empty.                     *)
LEMMA TypesStart == Init => TypeOK
<1> SUFFICES ASSUME Init PROVE TypeOK
  OBVIOUS
<1>1. NoRun \in MonitorIds
  BY DEF NoRun, MonitorIds
<1>2. \A K, V : IsMap(NoEntries, K, V)
  BY DEF NoEntries, IsMap
<1>3. attemptBySession \in [RawIds -> Nat]
  BY DEF Init, InitStore, RawIds
<1>4. QED BY <1>1, <1>2, <1>3 DEF Init, InitStore, TypeOK

(* Nothing handled: the types stay.                                         *)
LEMMA TypesUntouched == TypeOK /\ UNCHANGED vars => TypeOK'
  BY DEF vars, storeVars, historyVars, TypeOK

(* The store's fields keep their types in every behaviour.                  *)
THEOREM TypeCorrect == Spec => []TypeOK
<1>1. TypeOK /\ [Next]_vars => TypeOK'
  BY NextIsStep, StepKeepsTypes, TypesUntouched
<1>2. QED BY TypesStart, <1>1, PTL DEF Spec

-----------------------------------------------------------------------------
(* Routing. *)

(* A non-"started" event goes to a run that exists or to the raw runId's.   *)
LEMMA ResolveTarget ==
    ASSUME TypeOK, RoutesResolve, NEW e \in Event
    PROVE  \/ resolveMonitorRunID(e) \in DOMAIN runs
           \/ resolveMonitorRunID(e) = <<RunIdOf(e), 1>>
  BY DEF RoutesResolve, resolveMonitorRunID

(* No index of the store ever points at a run that does not exist.          *)
THEOREM RoutesCorrect == Spec => []RoutesResolve
<1>1. Init => RoutesResolve
  BY DEF Init, InitStore, NoEntries, RoutesResolve
<1>2. TypeOK /\ RoutesResolve /\ [Next]_vars => RoutesResolve'
  <2> SUFFICES ASSUME TypeOK, RoutesResolve, [Next]_vars PROVE RoutesResolve'
    OBVIOUS
  <2>1. CASE Next
    <3>1. PICK e \in Event, run \in Run : StartedStep(e, run) \/ ResolvedStep(e, run)
      BY <2>1, NextIsStep
    <3>2. ASSUME NEW id \in MonitorIds, Update(id, run), run.attempt = id[2]
          PROVE  RoutesResolve'
      <4>1. DOMAIN runs' = DOMAIN runs \cup {id} /\ runs'[id] = run /\ latestRunID' = id
            /\ \A other \in DOMAIN runs : other # id => runs'[other] = runs[other]
        BY <3>2, UpdateMaps
      <4>2. \A other \in DOMAIN runs' : runs'[other].attempt = other[2]
        BY <3>2, <4>1 DEF RoutesResolve
      <4>3. QED BY <3>2, <4>1, <4>2, UpdateRoutes DEF RoutesResolve
    <3>3. CASE StartedStep(e, run)
      <4> DEFINE id == allocateMonitorRun(e)
      <4>1. id \in MonitorIds /\ id[2] \in Nat \ {0}
        BY AllocateType
      <4>2. Update(id, run) /\ run.attempt = ensureRun(e, id, id[2]).attempt
        BY <3>3 DEF StartedStep, Stores
      <4>3. run.attempt = id[2]
        BY <4>1, <4>2, EnsureRunType DEF RoutesResolve
      <4>4. QED BY <3>2, <4>1, <4>2, <4>3
    <3>4. CASE ResolvedStep(e, run)
      <4> DEFINE id == resolveMonitorRunID(e)
      <4>1. id \in MonitorIds
        BY ResolveType
      <4>2. Update(id, run) /\ run.attempt = ensureRun(e, id, 1).attempt
        BY <3>4 DEF ResolvedStep, Stores
      <4>3. id \in DOMAIN runs => run.attempt = id[2]
        BY <4>1, <4>2, EnsureRunType DEF RoutesResolve
      <4>4. id \notin DOMAIN runs => run.attempt = 1 /\ id[2] = 1
        BY <4>1, <4>2, EnsureRunType, ResolveTarget
      <4>5. QED BY <3>2, <4>1, <4>2, <4>3, <4>4
    <3>5. QED BY <3>1, <3>3, <3>4
  <2>2. CASE UNCHANGED vars
    BY <2>2 DEF vars, storeVars, historyVars, RoutesResolve
  <2>3. QED BY <2>1, <2>2
<1>3. QED BY <1>1, <1>2, TypeCorrect, PTL DEF Spec

-----------------------------------------------------------------------------
(* Events of a launch reach its run.  Inductive strengthening: the exact    *)
(* route of a started launch is its run, because an event only ever         *)
(* registers the source it names itself.                                    *)

RouteOfLaunch ==
    \A l \in Launches : launchRun[l] # NoRun =>
        /\ <<l.runId, l.runName>> \in DOMAIN routeBySource
        /\ routeBySource[<<l.runId, l.runName>>] = launchRun[l]

(* A stored run is registered under the source of the event that updated it.*)
LEMMA RegistersOwnSource ==
    ASSUME DistinctSources, TypeOK, NEW e \in Event, NEW id \in MonitorIds,
           NEW attempt \in Nat \ {0}, NEW run, Stores(e, id, attempt, run), Update(id, run)
    PROVE  routeBySource' = Put(routeBySource, sourceKey(e), id)
<1>1. e.launch \in Launches /\ RunIdOf(e) = e.launch.runId
  BY EventFields DEF RunIdOf
<1>2. e.launch.runId # NoId /\ e.launch.runName # NoId
  BY <1>1 DEF DistinctSources
<1>3. run.runName = e.launch.runName /\ run.nextflowRunId = e.launch.runId
  BY <1>1, <1>2, EnsureRunType DEF Stores, NonEmpty
<1>4. QED BY <1>2, <1>3 DEF Update, registerRunRouting, sourceKey

(* Once "started" was handled for a launch, its later events go to its run. *)
THEOREM EventsReachLaunch ==
    ASSUME DistinctSources PROVE Spec => []EventsReachTheirLaunch
<1> DEFINE IInv == RouteOfLaunch /\ EventsReachTheirLaunch
<1>1. Init => IInv
  BY DEF Init, RouteOfLaunch, EventsReachTheirLaunch
<1>2. TypeOK /\ IInv /\ [Next]_vars => IInv'
  <2> SUFFICES ASSUME TypeOK, IInv, [Next]_vars PROVE IInv'
    OBVIOUS
  <2>1. CASE Next
    <3>1. PICK e \in Event, run \in Run : StartedStep(e, run) \/ ResolvedStep(e, run)
      BY <2>1, NextIsStep
    <3> DEFINE m == e.launch
    <3>2. m \in Launches /\ sourceKey(e) = <<m.runId, m.runName>>
      BY EventFields DEF sourceKey
    <3>3. \A l \in Launches : l # m => <<l.runId, l.runName>> # sourceKey(e)
      BY <3>2 DEF DistinctSources
    <3> HIDE DEF m
    <3>4. ASSUME NEW id, routeBySource' = Put(routeBySource, sourceKey(e), id),
                 launchRun' \in [Launches -> MonitorIds],
                 \A l \in Launches : l # m => launchRun'[l] = launchRun[l],
                 launchRun'[m] # NoRun => launchRun'[m] = id,
                 latestRunID' = id, lastLaunch' = m
          PROVE  IInv'
      <4>1. sourceKey(e) \in DOMAIN routeBySource' /\ routeBySource'[sourceKey(e)] = id
        BY <3>4 DEF Put
      <4>2. ASSUME NEW l \in Launches, l # m, launchRun'[l] # NoRun
            PROVE  /\ <<l.runId, l.runName>> \in DOMAIN routeBySource'
                   /\ routeBySource'[<<l.runId, l.runName>>] = launchRun'[l]
        BY <3>3, <3>4, <4>2 DEF RouteOfLaunch, Put
      <4>3. RouteOfLaunch'
        BY <3>2, <3>4, <4>1, <4>2 DEF RouteOfLaunch
      <4>4. EventsReachTheirLaunch'
        BY <3>4 DEF EventsReachTheirLaunch
      <4>5. QED BY <4>3, <4>4
    <3>5. CASE StartedStep(e, run)
      <4> DEFINE id == allocateMonitorRun(e)
      <4>1. id \in MonitorIds /\ id[2] \in Nat \ {0}
        BY AllocateType
      <4>2. /\ Stores(e, id, id[2], run) /\ Update(id, run) /\ lastLaunch' = m
            /\ launchRun' = [launchRun EXCEPT ![m] = id]
        BY <3>5 DEF StartedStep, m
      <4> HIDE DEF id
      <4>3. routeBySource' = Put(routeBySource, sourceKey(e), id)
        BY <4>1, <4>2, RegistersOwnSource
      <4>4. latestRunID' = id
        BY <4>2 DEF Update
      <4>5. /\ launchRun' \in [Launches -> MonitorIds]
            /\ launchRun'[m] = id
            /\ \A l \in Launches : l # m => launchRun'[l] = launchRun[l]
        BY <3>2, <4>1, <4>2 DEF TypeOK
      <4>6. QED BY <3>4, <4>2, <4>3, <4>4, <4>5
    <3>6. CASE ResolvedStep(e, run)
      <4> DEFINE id == resolveMonitorRunID(e)
      <4>1. id \in MonitorIds
        BY ResolveType
      <4>2. /\ Stores(e, id, 1, run) /\ Update(id, run) /\ lastLaunch' = m
            /\ launchRun' = launchRun
        BY <3>6 DEF ResolvedStep, m
      <4>3. launchRun[m] # NoRun => id = launchRun[m]
        BY <3>2 DEF RouteOfLaunch, resolveMonitorRunID
      <4> HIDE DEF id
      <4>4. routeBySource' = Put(routeBySource, sourceKey(e), id)
        BY <4>1, <4>2, RegistersOwnSource
      <4>5. latestRunID' = id
        BY <4>2 DEF Update
      <4>6. launchRun' \in [Launches -> MonitorIds]
        BY <4>2 DEF TypeOK
      <4>7. QED BY <3>4, <4>2, <4>3, <4>4, <4>5, <4>6
    <3>7. QED BY <3>1, <3>5, <3>6
  <2>2. CASE UNCHANGED vars
    BY <2>2 DEF vars, storeVars, historyVars, RouteOfLaunch, EventsReachTheirLaunch
  <2>3. QED BY <2>1, <2>2
<1>3. IInv => EventsReachTheirLaunch
  OBVIOUS
<1>4. QED BY <1>1, <1>2, <1>3, TypeCorrect, PTL DEF Spec

-----------------------------------------------------------------------------
(* Attempts are fresh.  Inductive strengthening: a started run's number is  *)
(* covered by the counter of every launch that could be given its base, and *)
(* a run that was not started has no launch's metadata.                     *)

CountedAttempts ==
    \A id \in DOMAIN runs, e \in Event :
        runs[id].startTime # 0 /\ id[1] = BaseId(e) => id[2] <= attemptBySession[AttemptKey(e)]

UnstartedHasNoMetadata ==
    \A id \in DOMAIN runs : runs[id].startTime = 0 => runs[id].metadata = NoLaunch

FreshInv == TypeOK /\ CountedAttempts /\ UnstartedHasNoMetadata /\ LaunchesHaveTheirOwnRun

(* The ID allocated to a "started" event is not that of a started run.      *)
LEMMA AllocatedIsFresh ==
    ASSUME TypeOK, CountedAttempts, NEW e \in Event, allocateMonitorRun(e) \in DOMAIN runs
    PROVE  runs[allocateMonitorRun(e)].startTime = 0
<1> DEFINE id == allocateMonitorRun(e)
<1>1. /\ id[1] = BaseId(e) /\ id[2] = attemptBySession[AttemptKey(e)] + 1
      /\ attemptBySession[AttemptKey(e)] \in Nat
  BY AllocateType
<1>2. runs[id].startTime # 0 => id[2] <= attemptBySession[AttemptKey(e)]
  BY <1>1 DEF CountedAttempts
<1> HIDE DEF id
<1>3. QED BY <1>1, <1>2 DEF id

(* A "started" event keeps the strengthened invariant.                      *)
LEMMA StartedKeepsFresh ==
    ASSUME SessionPerBase, FreshInv, NEW e \in Event, NEW run \in Run, StartedStep(e, run)
    PROVE  CountedAttempts' /\ UnstartedHasNoMetadata' /\ LaunchesHaveTheirOwnRun'
<1> DEFINE id == allocateMonitorRun(e)
           m == e.launch
<1>1. /\ id \in MonitorIds /\ id[1] = BaseId(e) /\ id[2] \in Nat \ {0}
      /\ id[2] = attemptBySession[AttemptKey(e)] + 1
  BY AllocateType DEF FreshInv
<1>2. /\ run.startTime = e.time
      /\ run.metadata \in {m, ensureRun(e, id, id[2]).metadata}
      /\ attemptBySession' = [attemptBySession EXCEPT ![AttemptKey(e)] = @ + 1]
      /\ launchRun' = [launchRun EXCEPT ![m] = id]
      /\ Update(id, run)
  BY DEF StartedStep
<1>3. /\ DOMAIN runs' = DOMAIN runs \cup {id} /\ runs'[id] = run
      /\ \A other \in DOMAIN runs : other # id => runs'[other] = runs[other]
  BY <1>1, <1>2, UpdateMaps DEF FreshInv
<1>4. id \in DOMAIN runs => runs[id].startTime = 0
  BY AllocatedIsFresh DEF FreshInv
<1>5. ensureRun(e, id, id[2]).metadata = NoLaunch
  BY <1>1, <1>4, EnsureRunType DEF FreshInv, UnstartedHasNoMetadata
<1>6. e.time # 0 /\ m \in Launches /\ AttemptKey(e) \in RawIds
  BY EventFields
<1>7. \A f \in Event : /\ AttemptKey(f) \in RawIds
                       /\ BaseId(f) = BaseId(e) => AttemptKey(f) = AttemptKey(e)
  BY EventFields DEF SessionPerBase
<1> HIDE DEF id, m
<1>8. CountedAttempts'
  <2>1. \A k \in RawIds : attemptBySession[k] \in Nat
    BY DEF FreshInv, TypeOK
  <2>2. \A k \in RawIds : attemptBySession'[k] = IF k = AttemptKey(e) THEN attemptBySession[k] + 1
                                                ELSE attemptBySession[k]
    BY <1>2, <1>6 DEF FreshInv, TypeOK
  <2>3. SUFFICES ASSUME NEW other \in DOMAIN runs', NEW f \in Event,
                        runs'[other].startTime # 0, other[1] = BaseId(f)
                 PROVE  other[2] <= attemptBySession'[AttemptKey(f)]
    BY DEF CountedAttempts
  <2>4. CASE other = id
    BY <1>1, <1>6, <1>7, <2>1, <2>2, <2>3, <2>4
  <2>5. CASE other # id
    <3>1. other \in DOMAIN runs /\ other \in MonitorIds /\ runs[other].startTime # 0
      BY <1>3, <2>3, <2>5 DEF FreshInv, TypeOK, IsMap
    <3>2. other[2] <= attemptBySession[AttemptKey(f)] /\ other[2] \in Nat
      BY <2>3, <3>1 DEF FreshInv, CountedAttempts, MonitorIds
    <3>3. QED BY <1>7, <2>1, <2>2, <3>2
  <2>6. QED BY <2>4, <2>5
<1>9. UnstartedHasNoMetadata'
  BY <1>2, <1>3, <1>6 DEF FreshInv, UnstartedHasNoMetadata
<1>10. LaunchesHaveTheirOwnRun'
  <2>1. \A l \in Launches : launchRun[l] # NoRun => launchRun[l] # id
    BY <1>4 DEF FreshInv, LaunchesHaveTheirOwnRun
  <2>2. /\ launchRun'[m] = id
        /\ \A l \in Launches : l # m => launchRun'[l] = launchRun[l]
    BY <1>2, <1>6 DEF FreshInv, TypeOK
  <2>3. id # NoRun => \A l \in Launches : l # m => launchRun'[l] # id
    BY <2>1, <2>2
  <2>4. id \in DOMAIN runs' /\ runs'[id].startTime # 0 /\ runs'[id].metadata \in {m, NoLaunch}
    BY <1>2, <1>3, <1>5, <1>6
  <2>5. SUFFICES ASSUME NEW l \in Launches, launchRun'[l] # NoRun
                 PROVE  /\ launchRun'[l] \in DOMAIN runs'
                        /\ runs'[launchRun'[l]].startTime # 0
                        /\ runs'[launchRun'[l]].metadata \in {l, NoLaunch}
                        /\ \A o \in Launches : launchRun'[o] = launchRun'[l] => o = l
    BY DEF LaunchesHaveTheirOwnRun
  <2>6. CASE l = m
    BY <2>2, <2>3, <2>4, <2>5, <2>6
  <2>7. CASE l # m
    <3>1. launchRun'[l] = launchRun[l] /\ launchRun[l] # NoRun /\ launchRun[l] # id
      BY <2>1, <2>2, <2>5, <2>7
    <3>2. /\ launchRun[l] \in DOMAIN runs
          /\ runs[launchRun[l]].startTime # 0
          /\ runs[launchRun[l]].metadata \in {l, NoLaunch}
          /\ \A o \in Launches : launchRun[o] = launchRun[l] => o = l
      BY <3>1 DEF FreshInv, LaunchesHaveTheirOwnRun
    <3>3. QED BY <1>3, <2>2, <3>1, <3>2
  <2>8. QED BY <2>6, <2>7
<1>11. QED BY <1>8, <1>9, <1>10

(* Every other event keeps it, and what was recorded of started runs.       *)
LEMMA ResolvedKeepsFresh ==
    ASSUME FreshInv, NEW e \in Event, NEW run \in Run, ResolvedStep(e, run)
    PROVE  /\ CountedAttempts' /\ UnstartedHasNoMetadata' /\ LaunchesHaveTheirOwnRun'
           /\ \A id \in DOMAIN runs :
                /\ id \in DOMAIN runs'
                /\ runs'[id].startTime = runs[id].startTime
                /\ runs'[id].metadata = runs[id].metadata
                /\ runs'[id].status \in {runs[id].status, "completed", "failed"}
<1> DEFINE id == resolveMonitorRunID(e)
<1>1. id \in MonitorIds
  BY ResolveType DEF FreshInv
<1>2. /\ run.startTime = ensureRun(e, id, 1).startTime
      /\ run.metadata = ensureRun(e, id, 1).metadata
      /\ run.status \in {ensureRun(e, id, 1).status, "completed", "failed"}
      /\ Update(id, run) /\ attemptBySession' = attemptBySession /\ launchRun' = launchRun
  BY DEF ResolvedStep
<1>3. /\ DOMAIN runs' = DOMAIN runs \cup {id} /\ runs'[id] = run
      /\ \A other \in DOMAIN runs : other # id => runs'[other] = runs[other]
  BY <1>1, <1>2, UpdateMaps DEF FreshInv
<1>4. id \in DOMAIN runs => /\ run.startTime = runs[id].startTime
                            /\ run.metadata = runs[id].metadata
                            /\ run.status \in {runs[id].status, "completed", "failed"}
  BY <1>1, <1>2, EnsureRunType DEF FreshInv
<1>5. id \notin DOMAIN runs => run.startTime = 0 /\ run.metadata = NoLaunch
  BY <1>1, <1>2, EnsureRunType DEF FreshInv
<1> HIDE DEF id
<1>6. CountedAttempts'
  BY <1>2, <1>3, <1>4, <1>5 DEF FreshInv, CountedAttempts
<1>7. UnstartedHasNoMetadata'
  BY <1>3, <1>4, <1>5 DEF FreshInv, UnstartedHasNoMetadata
<1>8. \A other \in DOMAIN runs :
         /\ other \in DOMAIN runs'
         /\ runs'[other].startTime = runs[other].startTime
         /\ runs'[other].metadata = runs[other].metadata
         /\ runs'[other].status \in {runs[other].status, "completed", "failed"}
  BY <1>3, <1>4
<1>9. LaunchesHaveTheirOwnRun'
  BY <1>2, <1>8 DEF FreshInv, LaunchesHaveTheirOwnRun
<1>10. QED BY <1>6, <1>7, <1>8, <1>9

(* The strengthened invariant holds in every behaviour.                     *)
LEMMA FreshInvariant == ASSUME SessionPerBase PROVE Spec => []FreshInv
<1>1. Init => CountedAttempts /\ UnstartedHasNoMetadata /\ LaunchesHaveTheirOwnRun
  BY DEF Init, InitStore, NoEntries, CountedAttempts, UnstartedHasNoMetadata,
         LaunchesHaveTheirOwnRun
<1>2. FreshInv /\ [Next]_vars
        => CountedAttempts' /\ UnstartedHasNoMetadata' /\ LaunchesHaveTheirOwnRun'
  <2> SUFFICES ASSUME FreshInv, [Next]_vars
               PROVE  CountedAttempts' /\ UnstartedHasNoMetadata' /\ LaunchesHaveTheirOwnRun'
    OBVIOUS
  <2>1. CASE Next
    BY <2>1, NextIsStep, StartedKeepsFresh, ResolvedKeepsFresh DEF FreshInv
  <2>2. CASE UNCHANGED vars
    BY <2>2 DEF vars, storeVars, historyVars, FreshInv, CountedAttempts,
                UnstartedHasNoMetadata, LaunchesHaveTheirOwnRun
  <2>3. QED BY <2>1, <2>2
<1>3. TypeOK /\ CountedAttempts /\ UnstartedHasNoMetadata /\ LaunchesHaveTheirOwnRun <=> FreshInv
  BY DEF FreshInv
<1>4. QED BY <1>1, <1>2, <1>3, TypeCorrect, PTL DEF Spec

(* The run a "started" event was given belongs to that launch alone.        *)
THEOREM LaunchesOwnRuns ==
    ASSUME SessionPerBase PROVE Spec => []LaunchesHaveTheirOwnRun
<1>1. FreshInv => LaunchesHaveTheirOwnRun
  BY DEF FreshInv
<1>2. QED BY <1>1, FreshInvariant, PTL

(* A "started" event never takes over a run that was started before.        *)
THEOREM NoAttemptReopened ==
    ASSUME SessionPerBase PROVE Spec => AttemptsAreNotReopened
<1> DEFINE Kept == \A id \in DOMAIN runs : runs[id].startTime # 0 =>
                     /\ id \in DOMAIN runs'
                     /\ runs'[id].startTime = runs[id].startTime
                     /\ runs'[id].metadata = runs[id].metadata
                     /\ runs[id].status \in {"completed", "failed"} => runs'[id].status # "running"
<1>1. FreshInv /\ [Next]_vars => [Kept]_vars
  <2> SUFFICES ASSUME FreshInv, Next PROVE Kept
    OBVIOUS
  <2>1. PICK e \in Event, run \in Run : StartedStep(e, run) \/ ResolvedStep(e, run)
    BY NextIsStep DEF FreshInv
  <2>2. CASE StartedStep(e, run)
    <3>1. allocateMonitorRun(e) \in MonitorIds /\ Update(allocateMonitorRun(e), run)
      BY <2>2, AllocateType DEF StartedStep, FreshInv
    <3>2. /\ DOMAIN runs' = DOMAIN runs \cup {allocateMonitorRun(e)}
          /\ \A other \in DOMAIN runs :
               other # allocateMonitorRun(e) => runs'[other] = runs[other]
      BY <3>1, UpdateMaps DEF FreshInv
    <3>3. allocateMonitorRun(e) \in DOMAIN runs
            => runs[allocateMonitorRun(e)].startTime = 0
      BY AllocatedIsFresh DEF FreshInv
    <3>4. QED BY <3>2, <3>3
  <2>3. CASE ResolvedStep(e, run)
    BY <2>3, ResolvedKeepsFresh
  <2>4. QED BY <2>1, <2>2, <2>3
<1>2. QED BY <1>1, FreshInvariant, PTL DEF Spec, AttemptsAreNotReopened

-----------------------------------------------------------------------------
(* What a handler does to what is shown of a run. *)

(* ensureRun does not change what is shown: identity fields are not.        *)
LEMMA EnsureShown ==
    ASSUME TypeOK, NEW e \in Event, NEW id \in MonitorIds, NEW attempt \in Nat \ {0}
    PROVE  Shown(ensureRun(e, id, attempt)) =
             IF id \in DOMAIN runs THEN Shown(runs[id]) ELSE NothingShown
<1> DEFINE run == IF id \in DOMAIN runs THEN runs[id] ELSE newRun(e, attempt)
<1>1. run \in Run
  BY NewRunType DEF TypeOK, IsMap
<1>2. ensureRun(e, id, attempt) =
        [run EXCEPT !.runName = NonEmpty(e.launch.runName, @),
                    !.nextflowRunId = NonEmpty(RunIdOf(e), @),
                    !.isResume = @ \/ ResumeOf(e)]
  BY DEF ensureRun
<1>3. Shown(ensureRun(e, id, attempt)) = Shown(run)
  <2> HIDE DEF run
  <2>1. QED BY <1>1, <1>2 DEF Shown, Run
<1>4. id \notin DOMAIN runs => Shown(run) = NothingShown
  BY DEF newRun, Shown, NothingShown
<1>5. QED BY <1>3, <1>4

(* An update stores its run under the ID.                                   *)
LEMMA UpdateStores ==
    ASSUME NEW id, NEW run, Update(id, run)
    PROVE  runs'[id] = run
  BY DEF Update, Put

(* A "started" event opens the record it is given.                          *)
LEMMA StartedOpens ==
    ASSUME TypeOK, NEW e \in Event, Started(e),
           ensureRun(e, allocateMonitorRun(e), allocateMonitorRun(e)[2]).metadata = NoLaunch
    PROVE  Log!Opened(e.launch,
                      Shown(ensureRun(e, allocateMonitorRun(e), allocateMonitorRun(e)[2])),
                      Shown(runs'[allocateMonitorRun(e)]))
<1> DEFINE id == allocateMonitorRun(e)
           ensured == ensureRun(e, id, id[2])
           running == [ensured EXCEPT !.status = "running", !.startTime = e.time]
           run == IF e.meta
                  THEN [running EXCEPT !.metadata = e.launch, !.sessionId = e.launch.session,
                                       !.isResume = e.launch.resume]
                  ELSE running
           metadata == IF e.meta THEN e.launch ELSE NoLaunch
<1>1. ensured \in Run
  BY AllocateType, EnsureRunType
<1>2. Update(id, run)
  BY DEF Started, HandleStarted, startedRun
<1>3. runs'[id] = run
  BY <1>2, UpdateStores
<1>4. ensured.metadata = NoLaunch
  OBVIOUS
<1> HIDE DEF ensured
<1>5. /\ run.status = "running" /\ run.startTime = e.time /\ run.metadata = metadata
      /\ run.completeTime = ensured.completeTime /\ run.tasks = ensured.tasks
  BY <1>1, <1>4 DEF Run
<1> HIDE DEF run, metadata
<1>6. Shown(run) = [status |-> "running", startTime |-> e.time,
                    completeTime |-> Shown(ensured).completeTime,
                    metadata |-> metadata, tasks |-> Shown(ensured).tasks]
  BY <1>5 DEF Shown
<1>7. e.time \in Times /\ metadata \in {e.launch, NoLaunch}
  BY EventFields DEF metadata
<1>8. QED BY <1>3, <1>6, <1>7 DEF Log!Opened, ensured

(* A task event reports a task of the run it resolves to.                   *)
LEMMA ProcessTells ==
    ASSUME TypeOK, NEW e \in Event, NEW task \in TaskIds, NEW status \in Statuses,
           Process(e, task, status)
    PROVE  Log!Told(Shown(ensureRun(e, resolveMonitorRunID(e), 1)),
                    Shown(runs'[resolveMonitorRunID(e)]))
<1> DEFINE id == resolveMonitorRunID(e)
           ensured == ensureRun(e, id, 1)
           live == [status |-> status, source |-> "live_webhook", provenance |-> "live_webhook"]
           run == [ensured EXCEPT !.tasks[task] = live]
<1>1. ensured \in Run
  BY ResolveType, EnsureRunType
<1>2. runs'[id] = run
  BY UpdateStores DEF Process, HandleProcess, processedRun, resolvedRun
<1>3. live \in LiveTasks
  BY DEF LiveTasks, Task
<1> HIDE DEF ensured, live
<1>4. Shown(run) = [Shown(ensured) EXCEPT !.tasks[task] = live]
  BY <1>1 DEF Shown, Run
<1>5. QED BY <1>2, <1>3, <1>4 DEF Log!Told, Log!Reported, ensured

(* An import overwrites no task but those it may, with cached ones.         *)
ImportedOver(new, old) ==
    \A t \in TaskIds : \/ new[t] = old[t]
                       \/ old[t] \in ReplaceableTasks /\ new[t] \in CachedTasks

(* mergeCachedTraceRows does, for whatever rows.                            *)
LEMMA MergeImports ==
    ASSUME NEW run \in Run, NEW rows
    PROVE  /\ ImportedOver(mergeCachedTraceRows(run, rows).tasks, run.tasks)
           /\ mergeCachedTraceRows(run, rows).completeTime = run.completeTime
<1> DEFINE imported == {i \in DOMAIN rows : /\ rows[i].status = "CACHED"
                                            /\ Replaceable(run.tasks[rows[i].task])}
           rowsOf(t) == {i \in imported : rows[i].task = t}
           lastRow(t) == CHOOSE i \in rowsOf(t) : \A j \in rowsOf(t) : j <= i
           cached(t) == [status |-> "CACHED", source |-> "cached_trace",
                         provenance |-> resolveCachedWorkdir(run, rows[lastRow(t)])]
           tasks == [t \in TaskIds |-> IF rowsOf(t) = {} THEN run.tasks[t] ELSE cached(t)]
           import == [run.traceImport EXCEPT
                         !.imported = TRUE,
                         !.cachedTasks = Cardinality(imported),
                         !.workdirs = recordCachedWorkdirResolution(run, rows, imported)]
<1>1. mergeCachedTraceRows(run, rows) = [run EXCEPT !.tasks = tasks, !.traceImport = import]
  BY DEF mergeCachedTraceRows
<1>2. ASSUME NEW t \in TaskIds, rowsOf(t) # {}
      PROVE  run.tasks[t] \in ReplaceableTasks
  <2>1. PICK i \in imported : rows[i].task = t
    BY <1>2
  <2>2. Replaceable(run.tasks[t])
    BY <2>1
  <2>3. run.tasks[t] \in Task \cup {NoTask}
    BY DEF Run
  <2>4. QED BY <2>2, <2>3 DEF Replaceable, ReplaceableTasks
<1>3. ASSUME NEW t \in TaskIds PROVE cached(t) \in CachedTasks
  <2>1. cached(t) \in Task
    BY ProvenanceType DEF Task
  <2>2. QED BY <2>1 DEF CachedTasks
<1>4. ASSUME NEW t \in TaskIds
      PROVE  \/ tasks[t] = run.tasks[t]
             \/ run.tasks[t] \in ReplaceableTasks /\ tasks[t] \in CachedTasks
  BY <1>2, <1>3
<1> HIDE DEF tasks, import
<1>5. /\ mergeCachedTraceRows(run, rows).tasks = tasks
      /\ mergeCachedTraceRows(run, rows).completeTime = run.completeTime
  BY <1>1 DEF Run
<1>6. QED BY <1>4, <1>5 DEF ImportedOver

(* So does importCachedTasksOnCompletion, and without metadata it imports   *)
(* nothing.                                                                 *)
LEMMA CompletionImports ==
    ASSUME NEW run \in Run, NEW trace, Importable(trace)
    PROVE  LET new == importCachedTasksOnCompletion(run, trace)
           IN  /\ ImportedOver(new.tasks, run.tasks)
               /\ trace = NoTrace => new.tasks = run.tasks
               /\ new.completeTime = run.completeTime
<1> DEFINE unreadable == trace.resolved /\ ~trace.readable
           import == [NoImport EXCEPT !.warning = trace.warning \/ unreadable,
                                      !.resolved = trace.resolved]
           reset == [run EXCEPT !.traceImport = import]
<1>2. import \in TraceImportState
  <2>1. (trace.warning \/ unreadable) \in BOOLEAN /\ trace.resolved \in BOOLEAN
    BY DEF Importable
  <2>2. QED BY <2>1, NoImportType DEF TraceImportState
<1>3. reset \in Run /\ reset.tasks = run.tasks /\ reset.completeTime = run.completeTime
  <2> HIDE DEF import
  <2>1. QED BY <1>2 DEF Run
<1>5. importCachedTasksOnCompletion(run, trace) =
        IF trace.resolved /\ trace.readable THEN mergeCachedTraceRows(reset, trace.rows)
        ELSE reset
  BY DEF importCachedTasksOnCompletion
<1>6. trace = NoTrace => ~trace.resolved
  BY DEF NoTrace
<1> HIDE DEF reset
<1>7. /\ ImportedOver(mergeCachedTraceRows(reset, trace.rows).tasks, reset.tasks)
      /\ mergeCachedTraceRows(reset, trace.rows).completeTime = reset.completeTime
  BY <1>3, MergeImports
<1>8. ImportedOver(reset.tasks, run.tasks)
  BY <1>3 DEF ImportedOver
<1>9. CASE trace.resolved /\ trace.readable
  BY <1>3, <1>5, <1>6, <1>7, <1>9
<1>10. CASE ~(trace.resolved /\ trace.readable)
  BY <1>3, <1>5, <1>8, <1>10
<1>11. QED BY <1>9, <1>10

(* A completion ends the record of the run it resolves to.                  *)
LEMMA CompletedTells ==
    ASSUME TypeOK, NEW e \in Event, NEW failed \in BOOLEAN, NEW trace, Importable(trace),
           Completed(e, failed, trace)
    PROVE  Log!Told(Shown(ensureRun(e, resolveMonitorRunID(e), 1)),
                    Shown(runs'[resolveMonitorRunID(e)]))
<1> DEFINE id == resolveMonitorRunID(e)
           ensured == ensureRun(e, id, 1)
           closed == IF e.meta /\ failed
                     THEN [ensured EXCEPT !.completeTime = e.time, !.status = "failed",
                                          !.errorMessage = "reported"]
                     ELSE [ensured EXCEPT !.completeTime = e.time, !.status = "completed"]
           run == importCachedTasksOnCompletion(closed, trace)
<1>1. ensured \in Run
  BY ResolveType, EnsureRunType
<1>2. runs'[id] = run /\ (ensured.metadata = NoLaunch => trace = NoTrace)
  BY UpdateStores DEF Completed, HandleCompleted, completedRun, resolvedRun
<1>3. e.time \in Times
  BY EventFields
<1> HIDE DEF ensured
<1>4. /\ closed \in Run
      /\ closed.startTime = ensured.startTime /\ closed.metadata = ensured.metadata
      /\ closed.status \in {"completed", "failed"} /\ closed.completeTime = e.time
      /\ closed.tasks = ensured.tasks
  BY <1>1, <1>3 DEF Run, RunStatuses, ErrorMessages
<1> HIDE DEF closed
<1>5. /\ SameButImport(run, closed)
      /\ ImportedOver(run.tasks, closed.tasks)
      /\ trace = NoTrace => run.tasks = closed.tasks
      /\ run.completeTime = closed.completeTime
  BY <1>4, ImportType, CompletionImports
<1> HIDE DEF run
<1>6. Shown(run) = [status |-> closed.status, startTime |-> ensured.startTime,
                    completeTime |-> e.time, metadata |-> ensured.metadata, tasks |-> run.tasks]
  <2>1. /\ run.status = closed.status /\ run.startTime = ensured.startTime
        /\ run.completeTime = e.time /\ run.metadata = ensured.metadata
    BY <1>4, <1>5 DEF SameButImport
  <2>2. QED BY <2>1 DEF Shown
<1>7. Shown(run).tasks = run.tasks /\ Shown(ensured).tasks = ensured.tasks
      /\ Shown(ensured).metadata = ensured.metadata
      /\ Shown(ensured).startTime = ensured.startTime
  BY DEF Shown
<1>8. ASSUME NEW t \in TaskIds
      PROVE  \/ Shown(run).tasks[t] = Shown(ensured).tasks[t]
             \/ /\ Shown(ensured).metadata # NoLaunch
                /\ Shown(ensured).tasks[t] \in ReplaceableTasks
                /\ Shown(run).tasks[t] \in CachedTasks
  BY <1>2, <1>4, <1>5, <1>7 DEF ImportedOver
<1>9. Log!Closed(Shown(ensured), Shown(run))
  BY <1>3, <1>4, <1>6, <1>7, <1>8 DEF Log!Closed
<1>10. QED BY <1>2, <1>9 DEF Log!Told, ensured

(* So does an error, without an import.                                     *)
LEMMA ErrorTells ==
    ASSUME TypeOK, NEW e \in Event, NEW reported \in BOOLEAN, Error(e, reported)
    PROVE  Log!Told(Shown(ensureRun(e, resolveMonitorRunID(e), 1)),
                    Shown(runs'[resolveMonitorRunID(e)]))
<1> DEFINE id == resolveMonitorRunID(e)
           ensured == ensureRun(e, id, 1)
           message == IF e.meta /\ reported THEN "reported" ELSE "generic"
           run == [ensured EXCEPT !.completeTime = e.time, !.status = "failed",
                                  !.errorMessage = message]
<1>1. ensured \in Run
  BY ResolveType, EnsureRunType
<1>2. runs'[id] = run
  BY UpdateStores DEF Error, HandleError, failedRun, resolvedRun
<1>3. e.time \in Times
  BY EventFields
<1> HIDE DEF ensured, message
<1>4. /\ run.status = "failed" /\ run.completeTime = e.time
      /\ run.startTime = ensured.startTime /\ run.metadata = ensured.metadata
      /\ run.tasks = ensured.tasks
  BY <1>1 DEF Run
<1> HIDE DEF run
<1>5. /\ Shown(run) = [status |-> "failed", startTime |-> Shown(ensured).startTime,
                       completeTime |-> e.time, metadata |-> Shown(ensured).metadata,
                       tasks |-> run.tasks]
      /\ Shown(run).tasks = run.tasks /\ Shown(ensured).tasks = run.tasks
  BY <1>4 DEF Shown
<1>6. Log!Closed(Shown(ensured), Shown(run))
  BY <1>3, <1>5 DEF Log!Closed
<1>7. QED BY <1>2, <1>6 DEF Log!Told, ensured

-----------------------------------------------------------------------------
(* What storing a run does to the records of AttemptLog. *)

(* Storing a run under an ID changes what is shown of the launch that has   *)
(* the ID and of the inbox with the ID, if any, and of no other.            *)
LEMMA ShownAfterUpdate ==
    ASSUME TypeOK, LaunchesHaveTheirOwnRun, NEW id \in MonitorIds, NEW run \in Run,
           Update(id, run)
    PROVE  /\ \A l \in Launches :
                /\ launchRun'[l] = launchRun[l]
                /\ launchRun[l] = NoRun \/ launchRun[l] # id
                => ShownOfLaunch'[l] = ShownOfLaunch[l]
           /\ \A l \in Launches : launchRun'[l] = id /\ id # NoRun => ShownOfLaunch'[l] = Shown(run)
           /\ \A b \in Ids : <<b, 1>> # id => Unclaimed'[b] = Unclaimed[b]
           /\ \A b \in Ids : <<b, 1>> = id =>
                Unclaimed'[b] = IF run.startTime = 0 THEN Shown(run) ELSE NothingShown
           /\ runs'[id] = run
<1>1. /\ DOMAIN runs' = DOMAIN runs \cup {id} /\ runs'[id] = run
      /\ \A other \in DOMAIN runs : other # id => runs'[other] = runs[other]
  BY UpdateMaps
<1>2. \A l \in Launches : launchRun[l] # NoRun => launchRun[l] \in DOMAIN runs
  BY DEF LaunchesHaveTheirOwnRun
<1>3. ASSUME NEW l \in Launches, launchRun'[l] = launchRun[l],
             launchRun[l] = NoRun \/ launchRun[l] # id
      PROVE  ShownOfLaunch'[l] = ShownOfLaunch[l]
  BY <1>1, <1>2, <1>3 DEF ShownOfLaunch, Shown, NothingShown
<1>4. ASSUME NEW l \in Launches, launchRun'[l] = id, id # NoRun
      PROVE  ShownOfLaunch'[l] = Shown(run)
  BY <1>1, <1>4 DEF ShownOfLaunch, Shown, NothingShown
<1>5. ASSUME NEW b \in Ids, <<b, 1>> # id
      PROVE  Unclaimed'[b] = Unclaimed[b]
  <2>1. <<b, 1>> \in DOMAIN runs' <=> <<b, 1>> \in DOMAIN runs
    BY <1>1, <1>5
  <2>2. <<b, 1>> \in DOMAIN runs => runs'[<<b, 1>>] = runs[<<b, 1>>]
    BY <1>1, <1>5
  <2>3. QED BY <2>1, <2>2 DEF Unclaimed, Shown, NothingShown
<1>6. ASSUME NEW b \in Ids, <<b, 1>> = id
      PROVE  Unclaimed'[b] = IF run.startTime = 0 THEN Shown(run) ELSE NothingShown
  BY <1>1, <1>6 DEF Unclaimed, Shown, NothingShown
<1>7. QED BY <1>1, <1>3, <1>4, <1>5, <1>6

(* Runs that were not started are first attempts of a launch's runId.       *)
UnstartedIsFirst ==
    \A id \in DOMAIN runs : runs[id].startTime = 0 => \E b \in Ids : id = <<b, 1>>

RefinementInv == FreshInv /\ RoutesResolve /\ UnstartedIsFirst

(* The source of an event is one of a launch, which has an ID and a name.   *)
LEMMA EventIds ==
    ASSUME DistinctSources, NEW e \in Event
    PROVE  /\ RunIdOf(e) = e.launch.runId /\ RunIdOf(e) \in Ids
           /\ BaseId(e) = e.launch.runId
           /\ RunIdOf(e) # NoId
<1>1. e.launch \in Launches /\ RunIdOf(e) \in Ids \cup {NoId}
  BY EventFields DEF RawIds
<1>2. RunIdOf(e) = e.launch.runId /\ RunIdOf(e) # NoId
  BY <1>1 DEF DistinctSources, RunIdOf
<1>3. QED BY <1>1, <1>2 DEF BaseId, NonEmpty

(* Only events before the first start of a runId make unstarted runs.       *)
LEMMA UnstartedStaysFirst ==
    ASSUME DistinctSources, SessionPerBase, RefinementInv, [Next]_vars
    PROVE  UnstartedIsFirst'
<1>1. CASE Next
  <2>1. PICK e \in Event, run \in Run : StartedStep(e, run) \/ ResolvedStep(e, run)
    BY <1>1, NextIsStep DEF RefinementInv, FreshInv
  <2>2. ASSUME NEW id \in MonitorIds, Update(id, run),
               run.startTime = 0 => \E b \in Ids : id = <<b, 1>>
        PROVE  UnstartedIsFirst'
    <3>1. /\ DOMAIN runs' = DOMAIN runs \cup {id} /\ runs'[id] = run
          /\ \A other \in DOMAIN runs : other # id => runs'[other] = runs[other]
      BY <2>2, UpdateMaps DEF RefinementInv, FreshInv
    <3>2. QED BY <2>2, <3>1 DEF UnstartedIsFirst, RefinementInv
  <2>3. CASE StartedStep(e, run)
    <3>1. allocateMonitorRun(e) \in MonitorIds /\ e.time # 0
      BY AllocateType, EventFields DEF RefinementInv, FreshInv
    <3>2. Update(allocateMonitorRun(e), run) /\ run.startTime = e.time
      BY <2>3 DEF StartedStep
    <3>3. QED BY <2>2, <3>1, <3>2
  <2>4. CASE ResolvedStep(e, run)
    <3> DEFINE id == resolveMonitorRunID(e)
    <3>1. id \in MonitorIds /\ (id \in DOMAIN runs \/ id = <<RunIdOf(e), 1>>)
      BY ResolveType, ResolveTarget DEF RefinementInv, FreshInv
    <3>2. Update(id, run) /\ run.startTime = ensureRun(e, id, 1).startTime
      BY <2>4 DEF ResolvedStep
    <3>3. id \in DOMAIN runs => run.startTime = runs[id].startTime
      BY <3>1, <3>2, EnsureRunType DEF RefinementInv, FreshInv
    <3>4. run.startTime = 0 => \E b \in Ids : id = <<b, 1>>
      BY <3>1, <3>3, EventIds DEF RefinementInv, UnstartedIsFirst
    <3>5. QED BY <2>2, <3>1, <3>2, <3>4
  <2>5. QED BY <2>1, <2>3, <2>4
<1>2. CASE UNCHANGED vars
  BY <1>2 DEF vars, storeVars, RefinementInv, UnstartedIsFirst
<1>3. QED BY <1>1, <1>2

(* A "started" event of the store starts its launch in AttemptLog.          *)
LEMMA StartedImplementsStart ==
    ASSUME DistinctSources, RefinementInv, NEW e \in Event, Started(e)
    PROVE  Log!Start(e.launch)
<1> DEFINE m == e.launch
           id == allocateMonitorRun(e)
           ensured == ensureRun(e, id, id[2])
<1> USE DEF RefinementInv, FreshInv
<1>1. /\ id \in MonitorIds /\ id[1] = m.runId /\ id[2] \in Nat \ {0} /\ id # NoRun
      /\ m \in Launches /\ m.runId \in Ids
  BY AllocateType, EventIds, EventFields DEF NoRun
<1>2. PICK run \in Run : StartedStep(e, run)
  BY StartedIsStartedStep
<1>3. /\ Update(id, run) /\ run.startTime = e.time /\ e.time # 0
      /\ launchRun' = [launchRun EXCEPT ![m] = id] /\ lastLaunch' = m
  BY <1>2, EventFields DEF StartedStep
<1>4. id \in DOMAIN runs => runs[id].startTime = 0
  BY AllocatedIsFresh
<1>5. ensured.metadata = NoLaunch
  BY <1>1, <1>4, EnsureRunType DEF UnstartedHasNoMetadata
<1>6. Shown(ensured) = IF id \in DOMAIN runs THEN Shown(runs[id]) ELSE NothingShown
  BY <1>1, EnsureShown
<1>7. Log!Opened(m, Shown(ensured), Shown(runs'[id]))
  BY <1>5, StartedOpens
<1>8. /\ launchRun'[m] = id
      /\ \A l \in Launches : l # m => launchRun'[l] = launchRun[l]
  BY <1>1, <1>3 DEF TypeOK
<1>9. \A l \in Launches : launchRun[l] = NoRun \/ launchRun[l] # id
  BY <1>4 DEF LaunchesHaveTheirOwnRun
<1> HIDE DEF m, ensured
<1>10. /\ \A l \in Launches : l # m => ShownOfLaunch'[l] = ShownOfLaunch[l]
       /\ ShownOfLaunch'[m] = Shown(runs'[id])
       /\ \A b \in Ids : <<b, 1>> # id => Unclaimed'[b] = Unclaimed[b]
       /\ \A b \in Ids : <<b, 1>> = id => Unclaimed'[b] = NothingShown
  BY <1>1, <1>3, <1>8, <1>9, ShownAfterUpdate
<1>11. ShownOfLaunch' = [ShownOfLaunch EXCEPT ![m] = ShownOfLaunch'[m]]
  BY <1>1, <1>10 DEF ShownOfLaunch
<1>12. CASE id[2] = 1
  <2>1. id = <<m.runId, 1>>
    BY <1>1, <1>12 DEF MonitorIds
  <2>2. Unclaimed[m.runId] = Shown(ensured)
    BY <1>1, <1>4, <1>6, <2>1 DEF Unclaimed
  <2>3. \A b \in Ids : b # m.runId => Unclaimed'[b] = Unclaimed[b]
    BY <1>10, <2>1
  <2>4. Unclaimed' = [Unclaimed EXCEPT ![m.runId] = NothingShown]
    <3>1. m.runId \in Ids /\ Unclaimed'[m.runId] = NothingShown
      BY <1>1, <1>10, <2>1
    <3>2. /\ Unclaimed = [b \in Ids |-> Unclaimed[b]]
          /\ Unclaimed' = [b \in Ids |-> Unclaimed'[b]]
      BY DEF Unclaimed
    <3>3. QED BY ONLY <2>3, <3>1, <3>2
  <2>5. Log!Blank = NothingShown
    BY DEF Log!Blank, NothingShown
  <2>6. QED BY <1>3, <1>7, <1>10, <1>11, <2>2, <2>4, <2>5 DEF Log!Start, m
<1>13. CASE id[2] # 1
  <2>1. \A b \in Ids : <<b, 1>> # id
    BY <1>13
  <2>2. id \notin DOMAIN runs
    BY <1>4, <2>1 DEF UnstartedIsFirst
  <2>3. Shown(ensured) = Log!Blank
    BY <1>6, <2>2 DEF Log!Blank, NothingShown
  <2>4. Unclaimed' = Unclaimed
    BY <1>10, <2>1 DEF Unclaimed
  <2>5. QED BY <1>3, <1>7, <1>10, <1>11, <2>3, <2>4 DEF Log!Start, m
<1>14. QED BY <1>12, <1>13

(* Any other event is heard: in the record of its launch if that was        *)
(* started, otherwise as a stray.                                           *)
LEMMA ResolvedImplementsHear ==
    ASSUME DistinctSources, RefinementInv, NEW e \in Event, NEW run \in Run,
           ResolvedStep(e, run), EventsReachTheirLaunch',
           Log!Told(Shown(ensureRun(e, resolveMonitorRunID(e), 1)),
                    Shown(runs'[resolveMonitorRunID(e)]))
    PROVE  Log!Hear(e.launch) \/ Log!HearStray(e.launch)
<1> DEFINE m == e.launch
           id == resolveMonitorRunID(e)
           old == Shown(ensureRun(e, id, 1))
<1> USE DEF RefinementInv, FreshInv
<1>1. /\ id \in MonitorIds /\ m \in Launches
      /\ id \in DOMAIN runs \/ (id = <<RunIdOf(e), 1>> /\ RunIdOf(e) \in Ids)
  BY ResolveType, ResolveTarget, EventIds, EventFields
<1>2. /\ Update(id, run) /\ run.startTime = ensureRun(e, id, 1).startTime
      /\ launchRun' = launchRun /\ lastLaunch' = m /\ latestRunID' = id
  BY DEF ResolvedStep, Update
<1>3. /\ old = IF id \in DOMAIN runs THEN Shown(runs[id]) ELSE NothingShown
      /\ id \in DOMAIN runs => run.startTime = runs[id].startTime
      /\ id \notin DOMAIN runs => run.startTime = 0
  BY <1>1, <1>2, EnsureShown, EnsureRunType
<1> HIDE DEF m, id, old
<1>4. /\ \A l \in Launches :
           launchRun[l] = NoRun \/ launchRun[l] # id => ShownOfLaunch'[l] = ShownOfLaunch[l]
      /\ \A l \in Launches : launchRun[l] = id /\ id # NoRun => ShownOfLaunch'[l] = Shown(run)
      /\ \A b \in Ids : <<b, 1>> # id => Unclaimed'[b] = Unclaimed[b]
      /\ \A b \in Ids : <<b, 1>> = id =>
           Unclaimed'[b] = IF run.startTime = 0 THEN Shown(run) ELSE NothingShown
      /\ runs'[id] = run
  BY <1>1, <1>2, ShownAfterUpdate
<1>5. Log!Told(old, Shown(run))
  BY <1>4 DEF id, old
<1>6. \A l \in Launches : launchRun[l] # NoRun =>
         /\ launchRun[l] \in DOMAIN runs /\ runs[launchRun[l]].startTime # 0
         /\ ShownOfLaunch[l] = Shown(runs[launchRun[l]])
         /\ \A o \in Launches : launchRun[o] = launchRun[l] => o = l
  BY DEF LaunchesHaveTheirOwnRun, ShownOfLaunch
<1>7. \A l \in Launches : Log!Launched(l) <=> launchRun[l] # NoRun
  <2>1. ASSUME NEW l \in Launches, launchRun[l] # NoRun PROVE Log!Launched(l)
    <3>1. ShownOfLaunch[l].startTime = runs[launchRun[l]].startTime
      <4>1. ShownOfLaunch[l] = Shown(runs[launchRun[l]])
        BY <1>6, <2>1
      <4>2. Shown(runs[launchRun[l]]).startTime = runs[launchRun[l]].startTime
        BY DEF Shown
      <4>3. QED BY <4>1, <4>2
    <3>2. runs[launchRun[l]].startTime # 0
      BY <1>6, <2>1
    <3>3. QED BY <3>1, <3>2 DEF Log!Launched
  <2>2. ASSUME NEW l \in Launches, launchRun[l] = NoRun PROVE ~Log!Launched(l)
    BY <2>2 DEF Log!Launched, ShownOfLaunch, NothingShown
  <2>3. QED BY <2>1, <2>2
<1>8. ASSUME id \in DOMAIN runs, runs[id].startTime # 0
      PROVE  Unclaimed' = Unclaimed
  <2>1. \A b \in Ids : <<b, 1>> = id => Unclaimed[b] = NothingShown
    BY <1>8 DEF Unclaimed
  <2>2. QED BY <1>3, <1>4, <1>8, <2>1 DEF Unclaimed
<1>9. ASSUME NEW l \in Launches, launchRun[l] = id, id # NoRun
      PROVE  Log!WriteTo(l)
  <2>1. /\ ShownOfLaunch[l] = old /\ ShownOfLaunch'[l] = Shown(run)
        /\ id \in DOMAIN runs /\ runs[id].startTime # 0
    BY <1>3, <1>4, <1>6, <1>9
  <2>2. \A o \in Launches : o # l => ShownOfLaunch'[o] = ShownOfLaunch[o]
    BY <1>4, <1>6, <1>9
  <2>3. ShownOfLaunch' = [ShownOfLaunch EXCEPT ![l] = ShownOfLaunch'[l]]
    BY <2>2 DEF ShownOfLaunch
  <2>4. QED BY <1>5, <1>8, <2>1, <2>3 DEF Log!WriteTo
<1>10. CASE launchRun[m] # NoRun
  <2>1. id = launchRun[m]
    <3>1. lastLaunch' # NoLaunch
      BY <1>1, <1>2, LaunchAssumption
    <3>2. QED BY <1>2, <1>10, <3>1 DEF EventsReachTheirLaunch
  <2>2. Log!WriteTo(m) /\ Log!Launched(m)
    BY <1>1, <1>7, <1>9, <1>10, <2>1
  <2>3. QED BY <1>2, <2>2 DEF Log!Hear, m
<1>11. CASE launchRun[m] = NoRun
  <2>1. ~Log!Launched(m)
    BY <1>1, <1>7, <1>11
  <2>2. CASE \E o \in Launches : launchRun[o] = id /\ id # NoRun
    <3>1. \E o \in Launches : Log!Launched(o) /\ Log!WriteTo(o)
      BY <1>7, <1>9, <2>2
    <3>2. QED BY <1>2, <2>1, <3>1 DEF Log!HearStray, m
  <2>3. CASE ~(\E o \in Launches : launchRun[o] = id /\ id # NoRun)
    <3>1. \A l \in Launches : ShownOfLaunch'[l] = ShownOfLaunch[l]
      BY <1>4, <2>3
    <3>2. ShownOfLaunch' = ShownOfLaunch
      BY <3>1 DEF ShownOfLaunch
    <3>3. CASE id \in DOMAIN runs /\ runs[id].startTime # 0
      BY <1>2, <1>8, <2>1, <3>2, <3>3 DEF Log!HearStray, m
    <3>4. CASE ~(id \in DOMAIN runs /\ runs[id].startTime # 0)
      <4>1. PICK b \in Ids : id = <<b, 1>>
        BY <1>1, <3>4 DEF UnstartedIsFirst
      <4>2. Unclaimed[b] = old /\ Unclaimed'[b] = Shown(run)
        BY <1>3, <1>4, <3>4, <4>1 DEF Unclaimed
      <4>3. \A c \in Ids : c # b => Unclaimed'[c] = Unclaimed[c]
        BY <1>4, <4>1
      <4>4. Unclaimed' = [Unclaimed EXCEPT ![b] = Unclaimed'[b]]
        BY <4>3 DEF Unclaimed
      <4>5. QED BY <1>2, <1>5, <2>1, <3>2, <4>2, <4>4 DEF Log!HearStray, m
    <3>5. QED BY <3>3, <3>4
  <2>4. QED BY <2>2, <2>3
<1>12. QED BY <1>10, <1>11 DEF m

(* Every behaviour of the store, seen through what is shown of the launches,*)
(* is one of AttemptLog.                                                    *)
THEOREM StoreImplementsAttemptLog ==
    ASSUME DistinctSources, SessionPerBase PROVE Spec => ImplementsAttemptLog
<1>1. Init => UnstartedIsFirst
  BY DEF Init, InitStore, NoEntries, UnstartedIsFirst
<1>2. RefinementInv /\ [Next]_vars => UnstartedIsFirst'
  BY UnstartedStaysFirst
<1>3. FreshInv /\ RoutesResolve /\ UnstartedIsFirst <=> RefinementInv
  BY DEF RefinementInv
<1>4. Spec => []RefinementInv
  BY <1>1, <1>2, <1>3, FreshInvariant, RoutesCorrect, PTL DEF Spec
<1>5. Init => Log!LogInit
  <2> SUFFICES ASSUME Init PROVE Log!LogInit
    OBVIOUS
  <2>1. ShownOfLaunch = [l \in Launches |-> NothingShown]
    BY DEF Init, ShownOfLaunch
  <2>2. Unclaimed = [b \in Ids |-> NothingShown]
    BY DEF Init, InitStore, NoEntries, Unclaimed
  <2>3. Log!Blank = NothingShown
    BY DEF Log!Blank, NothingShown
  <2>4. QED BY <2>1, <2>2, <2>3 DEF Log!LogInit, Init
<1>6. RefinementInv /\ EventsReachTheirLaunch' /\ [Next]_vars => [Log!LogNext]_(Log!logVars)
  <2> SUFFICES ASSUME RefinementInv, EventsReachTheirLaunch', [Next]_vars
               PROVE  [Log!LogNext]_(Log!logVars)
    OBVIOUS
  <2>1. CASE Next
    <3>1. PICK e \in Event :
            \/ Started(e)
            \/ \E task \in TaskIds, status \in Statuses : Process(e, task, status)
            \/ \E failed \in BOOLEAN, trace \in Traces : Completed(e, failed, trace)
            \/ \E reported \in BOOLEAN : Error(e, reported)
      BY <2>1 DEF Next
    <3>2. e.launch \in Launches /\ TypeOK
      BY EventFields DEF RefinementInv, FreshInv
    <3>3. CASE Started(e)
      BY <3>2, <3>3, StartedImplementsStart DEF Log!LogNext
    <3>4. CASE \E task \in TaskIds, status \in Statuses : Process(e, task, status)
      BY <3>2, <3>4, ProcessIsResolvedStep, ProcessTells, ResolvedImplementsHear DEF Log!LogNext
    <3>5. CASE \E failed \in BOOLEAN, trace \in Traces : Completed(e, failed, trace)
      <4>1. PICK failed \in BOOLEAN, trace \in Traces : Completed(e, failed, trace)
        BY <3>5
      <4>2. Importable(trace)
        BY TracesImportable
      <4>3. QED BY <3>2, <4>1, <4>2, CompletedIsResolvedStep, CompletedTells, ResolvedImplementsHear
                DEF Log!LogNext
    <3>6. CASE \E reported \in BOOLEAN : Error(e, reported)
      BY <3>2, <3>6, ErrorIsResolvedStep, ErrorTells, ResolvedImplementsHear DEF Log!LogNext
    <3>7. QED BY <3>1, <3>3, <3>4, <3>5, <3>6
  <2>2. CASE UNCHANGED vars
    BY <2>2 DEF vars, storeVars, historyVars, Log!logVars, ShownOfLaunch, Unclaimed
  <2>3. QED BY <2>1, <2>2
<1>7. QED BY <1>4, <1>5, <1>6, EventsReachLaunch, PTL DEF Spec, ImplementsAttemptLog, Log!LogSpec

-----------------------------------------------------------------------------
(* What an import does to a run. *)

(* The places of the rows that are imported over these tasks.               *)
Imported(tasks, rows) ==
    {i \in DOMAIN rows : rows[i].status = "CACHED" /\ Replaceable(tasks[rows[i].task])}

(* The import of these rows, or of none, leads from one run to the next.    *)
RowsImported(old, new, rows) ==
    LET imported == Imported(old.tasks, rows)
    IN  /\ new.traceImport.imported
        /\ new.traceImport.cachedTasks = Cardinality(imported)
        /\ \E run : new.traceImport.workdirs = recordCachedWorkdirResolution(run, rows, imported)
        /\ \A t \in TaskIds :
             IF \E i \in imported : rows[i].task = t
             THEN new.tasks[t].source = "cached_trace" ELSE new.tasks[t] = old.tasks[t]

NothingImported(old, new) ==
    /\ new.tasks = old.tasks
    /\ ~new.traceImport.imported
    /\ new.traceImport.cachedTasks = 0
    /\ new.traceImport.workdirs = [p \in CachedProvenances |-> 0]

ImportedFrom(old, new, trace) ==
    IF trace.resolved /\ trace.readable THEN RowsImported(old, new, trace.rows)
    ELSE NothingImported(old, new)

(* mergeCachedTraceRows imports the rows.                                   *)
LEMMA MergeImportsRows ==
    ASSUME NEW run \in Run, NEW rows
    PROVE  RowsImported(run, mergeCachedTraceRows(run, rows), rows)
<1> DEFINE imported == Imported(run.tasks, rows)
           rowsOf(t) == {i \in imported : rows[i].task = t}
           lastRow(t) == CHOOSE i \in rowsOf(t) : \A j \in rowsOf(t) : j <= i
           cached(t) == [status |-> "CACHED", source |-> "cached_trace",
                         provenance |-> resolveCachedWorkdir(run, rows[lastRow(t)])]
           tasks == [t \in TaskIds |-> IF rowsOf(t) = {} THEN run.tasks[t] ELSE cached(t)]
           import == [run.traceImport EXCEPT
                         !.imported = TRUE,
                         !.cachedTasks = Cardinality(imported),
                         !.workdirs = recordCachedWorkdirResolution(run, rows, imported)]
           new == mergeCachedTraceRows(run, rows)
<1>1. new = [run EXCEPT !.tasks = tasks, !.traceImport = import]
  BY DEF mergeCachedTraceRows, Imported
<1>2. \A t \in TaskIds : IF \E i \in imported : rows[i].task = t
                         THEN tasks[t].source = "cached_trace" ELSE tasks[t] = run.tasks[t]
  <2> TAKE t \in TaskIds
  <2>1. rowsOf(t) # {} <=> \E i \in imported : rows[i].task = t
    OBVIOUS
  <2>2. cached(t).source = "cached_trace"
    OBVIOUS
  <2>3. tasks[t] = IF rowsOf(t) = {} THEN run.tasks[t] ELSE cached(t)
    OBVIOUS
  <2> HIDE DEF tasks, rowsOf, cached, imported
  <2>4. QED BY <2>1, <2>2, <2>3
<1>3. /\ import.imported
      /\ import.cachedTasks = Cardinality(imported)
      /\ import.workdirs = recordCachedWorkdirResolution(run, rows, imported)
  <2>1. run.traceImport \in TraceImportState
    BY DEF Run
  <2> HIDE DEF imported
  <2>2. QED BY <2>1 DEF TraceImportState
<1> HIDE DEF tasks, import
<1>4. new.tasks = tasks /\ new.traceImport = import
  BY <1>1 DEF Run
<1> HIDE DEF new
<1>5. QED BY <1>2, <1>3, <1>4 DEF RowsImported, new

(* importCachedTasksOnCompletion imports all rows or none.                  *)
LEMMA CompletionImportsRows ==
    ASSUME NEW run \in Run, NEW trace, Importable(trace)
    PROVE  ImportedFrom(run, importCachedTasksOnCompletion(run, trace), trace)
<1> DEFINE unreadable == trace.resolved /\ ~trace.readable
           import == [NoImport EXCEPT !.warning = trace.warning \/ unreadable,
                                      !.resolved = trace.resolved]
           reset == [run EXCEPT !.traceImport = import]
           new == importCachedTasksOnCompletion(run, trace)
<1>1. import \in TraceImportState
  <2>1. (trace.warning \/ unreadable) \in BOOLEAN /\ trace.resolved \in BOOLEAN
    BY DEF Importable
  <2>2. QED BY <2>1, NoImportType DEF TraceImportState
<1>2. ~import.imported /\ import.cachedTasks = 0 /\ import.workdirs = [p \in CachedProvenances |-> 0]
  BY DEF NoImport
<1>3. new = IF trace.resolved /\ trace.readable THEN mergeCachedTraceRows(reset, trace.rows) ELSE reset
  BY DEF importCachedTasksOnCompletion
<1> HIDE DEF import
<1>4. reset \in Run /\ reset.tasks = run.tasks /\ reset.traceImport = import
  BY <1>1 DEF Run
<1> HIDE DEF reset, new
<1>5. CASE trace.resolved /\ trace.readable
  <2>1. RowsImported(reset, new, trace.rows)
    BY <1>3, <1>4, <1>5, MergeImportsRows
  <2>2. RowsImported(run, new, trace.rows)
    BY <1>4, <2>1 DEF RowsImported
  <2>3. QED BY <1>5, <2>2 DEF ImportedFrom, new
<1>6. CASE ~(trace.resolved /\ trace.readable)
  <2>1. NothingImported(run, new)
    BY <1>2, <1>3, <1>4, <1>6 DEF NothingImported
  <2>2. QED BY <1>6, <2>1 DEF ImportedFrom, new
<1>7. QED BY <1>5, <1>6

-----------------------------------------------------------------------------
(* What a step does to each run. *)

Kept(old, new) == new.tasks = old.tasks /\ new.traceImport = old.traceImport

LiveTold(old, new) ==
    /\ \A t \in TaskIds : new.tasks[t] = old.tasks[t] \/ new.tasks[t].source = "live_webhook"
    /\ new.traceImport = old.traceImport

(* ensureRun keeps the tasks and the import state.                          *)
LEMMA EnsureKeeps ==
    ASSUME TypeOK, NEW e \in Event, NEW id \in DOMAIN runs, NEW attempt
    PROVE  Kept(runs[id], ensureRun(e, id, attempt))
<1>1. runs[id] \in Run
  BY DEF TypeOK, IsMap
<1>2. ensureRun(e, id, attempt) =
        [runs[id] EXCEPT !.runName = NonEmpty(e.launch.runName, @),
                         !.nextflowRunId = NonEmpty(RunIdOf(e), @),
                         !.isResume = @ \/ ResumeOf(e)]
  BY DEF ensureRun
<1>3. QED BY <1>1, <1>2 DEF Run, Kept

(* A stored run is the only one that changes.                               *)
LEMMA PutChanges ==
    ASSUME NEW id, NEW run, runs' = Put(runs, id, run), NEW other \in DOMAIN runs
    PROVE  other \in DOMAIN runs' /\ runs'[other] = IF other = id THEN run ELSE runs[other]
  BY DEF Put

(* Each run is as before, but for a live task or an import.                 *)
Affected(old, new, outcomes) ==
    Kept(old, new) \/ LiveTold(old, new) \/ \E trace \in outcomes : ImportedFrom(old, new, trace)

(* A "started" event.                                                       *)
LEMMA StartedAffects ==
    ASSUME TypeOK, NEW e \in Event, Started(e), NEW other \in DOMAIN runs
    PROVE  other \in DOMAIN runs' /\ Kept(runs[other], runs'[other])
<1> DEFINE id == allocateMonitorRun(e)
           ensured == ensureRun(e, id, id[2])
           running == [ensured EXCEPT !.status = "running", !.startTime = e.time]
           run == IF e.meta
                  THEN [running EXCEPT !.metadata = e.launch, !.sessionId = e.launch.session,
                                       !.isResume = e.launch.resume]
                  ELSE running
<1>1. runs' = Put(runs, id, run)
  BY DEF Started, HandleStarted, startedRun, Update
<1>2. ensured \in Run
  BY AllocateType, EnsureRunType
<1>3. id = other => Kept(runs[other], ensured)
  BY EnsureKeeps
<1> HIDE DEF ensured, id
<1>4. Kept(ensured, run)
  BY <1>2 DEF Kept, Run
<1> HIDE DEF run
<1>5. QED BY <1>1, <1>3, <1>4, PutChanges DEF Kept

(* A task event.                                                            *)
LEMMA ProcessAffects ==
    ASSUME TypeOK, NEW e \in Event, NEW task \in TaskIds, NEW status \in Statuses,
           Process(e, task, status), NEW other \in DOMAIN runs
    PROVE  other \in DOMAIN runs' /\ LiveTold(runs[other], runs'[other])
<1> DEFINE id == resolveMonitorRunID(e)
           ensured == ensureRun(e, id, 1)
           live == [status |-> status, source |-> "live_webhook", provenance |-> "live_webhook"]
           run == [ensured EXCEPT !.tasks[task] = live]
<1>1. runs' = Put(runs, id, run)
  BY DEF Process, HandleProcess, processedRun, resolvedRun, Update
<1>2. ensured \in Run
  BY ResolveType, EnsureRunType
<1>3. id = other => Kept(runs[other], ensured)
  BY EnsureKeeps
<1>4. live.source = "live_webhook"
  OBVIOUS
<1> HIDE DEF ensured, id, live
<1>5. run.traceImport = ensured.traceImport
      /\ \A t \in TaskIds : run.tasks[t] = IF t = task THEN live ELSE ensured.tasks[t]
  BY <1>2 DEF Run
<1> HIDE DEF run
<1>6. QED BY <1>1, <1>3, <1>4, <1>5, PutChanges DEF Kept, LiveTold

(* A completion.                                                            *)
LEMMA CompletedAffects ==
    ASSUME TypeOK, NEW e \in Event, NEW failed \in BOOLEAN, NEW trace, Importable(trace),
           Completed(e, failed, trace), NEW other \in DOMAIN runs
    PROVE  /\ other \in DOMAIN runs'
           /\ Kept(runs[other], runs'[other]) \/ ImportedFrom(runs[other], runs'[other], trace)
<1> DEFINE id == resolveMonitorRunID(e)
           ensured == ensureRun(e, id, 1)
           closed == IF e.meta /\ failed
                     THEN [ensured EXCEPT !.completeTime = e.time, !.status = "failed",
                                          !.errorMessage = "reported"]
                     ELSE [ensured EXCEPT !.completeTime = e.time, !.status = "completed"]
           run == importCachedTasksOnCompletion(closed, trace)
<1>1. runs' = Put(runs, id, run)
  BY DEF Completed, HandleCompleted, completedRun, resolvedRun, Update
<1>2. ensured \in Run
  BY ResolveType, EnsureRunType
<1>3. id = other => Kept(runs[other], ensured)
  BY EnsureKeeps
<1>4. e.time \in Times
  BY EventFields
<1> HIDE DEF ensured, id
<1>5. closed \in Run /\ Kept(ensured, closed)
  BY <1>2, <1>4 DEF Run, Kept, RunStatuses, ErrorMessages
<1> HIDE DEF closed
<1>6. ImportedFrom(closed, run, trace)
  BY <1>5, CompletionImportsRows
<1> HIDE DEF run
<1>7. id = other => closed.tasks = runs[other].tasks
  BY <1>3, <1>5 DEF Kept
<1>8. id = other => ImportedFrom(runs[other], run, trace)
  BY <1>6, <1>7 DEF ImportedFrom, RowsImported, NothingImported
<1>9. other # id => Kept(runs[other], runs[other])
  BY DEF Kept
<1>10. QED BY <1>1, <1>8, <1>9, PutChanges

(* An error.                                                                *)
LEMMA ErrorAffects ==
    ASSUME TypeOK, NEW e \in Event, NEW reported \in BOOLEAN, Error(e, reported),
           NEW other \in DOMAIN runs
    PROVE  other \in DOMAIN runs' /\ Kept(runs[other], runs'[other])
<1> DEFINE id == resolveMonitorRunID(e)
           ensured == ensureRun(e, id, 1)
           message == IF e.meta /\ reported THEN "reported" ELSE "generic"
           run == [ensured EXCEPT !.completeTime = e.time, !.status = "failed",
                                  !.errorMessage = message]
<1>1. runs' = Put(runs, id, run)
  BY DEF Error, HandleError, failedRun, resolvedRun, Update
<1>2. ensured \in Run
  BY ResolveType, EnsureRunType
<1>3. id = other => Kept(runs[other], ensured)
  BY EnsureKeeps
<1> HIDE DEF ensured, id, message
<1>4. Kept(ensured, run)
  BY <1>2 DEF Kept, Run
<1> HIDE DEF run
<1>5. QED BY <1>1, <1>3, <1>4, PutChanges DEF Kept

-----------------------------------------------------------------------------
(* The file. *)

(* The records written so far, and the start of the next one.               *)
FileInv ==
    /\ file \in Files
    /\ lines \in 0 .. Len(file.records)
    /\ tail # <<>> => lines < Len(file.records) /\ tail \in CutOff(file.records[lines + 1])

ImportInv == TypeOK /\ FileInv

(* A file that is not regular is still a sequence of records.               *)
LEMMA FileFields ==
    ASSUME FileInv
    PROVE  /\ file.header \in Seq(STRING) /\ file.records \in Seq(Seq(STRING))
           /\ lines \in Nat /\ lines <= Len(file.records) /\ Len(file.records) \in Nat
<1>1. file \in [header: Seq(STRING), records: Seq(Seq(STRING))]
  BY FileAssumption DEF FileInv
<1>2. QED BY <1>1 DEF FileInv

(* What is written are whole records, then one that is cut off.             *)
LEMMA WrittenRecords ==
    ASSUME FileInv
    PROVE  LET n == lines + (IF tail = <<>> THEN 0 ELSE 1)
           IN  /\ Written.header = file.header
               /\ DOMAIN Written.records = 1 .. n
               /\ \A i \in 1 .. n : Written.records[i] = IF i <= lines THEN file.records[i] ELSE tail
<1> DEFINE whole == SubSeq(file.records, 1, lines)
           rest == IF tail = <<>> THEN <<>> ELSE <<tail>>
           n == lines + (IF tail = <<>> THEN 0 ELSE 1)
<1>1. /\ file.records \in Seq(Seq(STRING)) /\ lines \in Nat /\ lines <= Len(file.records)
      /\ Len(file.records) \in Nat
  BY FileFields
<1>2. DOMAIN whole = 1 .. lines /\ Len(whole) = lines /\ whole \in Seq(Seq(STRING))
      /\ \A i \in 1 .. lines : whole[i] = file.records[i]
  BY <1>1
<1>3. Written.header = file.header /\ Written.records = whole \o rest
  BY DEF Written
<1>4. CASE tail = <<>>
  <2>1. whole \o rest = whole
    <3>1. rest = <<>>
      BY <1>4
    <3> HIDE DEF whole, rest
    <3>2. QED BY <1>2, <3>1
  <2> HIDE DEF whole, rest
  <2>2. QED BY <1>1, <1>2, <1>3, <1>4, <2>1
<1>5. CASE tail # <<>>
  <2>1. rest = <<tail>>
    BY <1>5
  <2> HIDE DEF whole, rest
  <2>2. whole \in Seq(Seq(STRING) \cup {tail}) /\ rest \in Seq(Seq(STRING) \cup {tail})
        /\ Len(rest) = 1 /\ rest[1] = tail
    <3>1. whole \in Seq(Seq(STRING) \cup {tail})
      BY <1>2
    <3>2. QED BY <2>1, <3>1
  <2> DEFINE both == whole \o rest
  <2>3. /\ both \in Seq(Seq(STRING) \cup {tail})
        /\ Len(both) = Len(whole) + Len(rest)
        /\ \A i \in 1 .. Len(both) : both[i] = IF i <= Len(whole) THEN whole[i] ELSE rest[i - Len(whole)]
    BY ONLY <2>2, ConcatProperties, SMTT(30)
  <2>4. DOMAIN both = 1 .. Len(both)
    BY <2>3
  <2> HIDE DEF both
  <2>5. Len(both) = lines + 1
    BY <1>2, <2>2, <2>3
  <2>6. \A i \in 1 .. lines + 1 : both[i] = IF i <= lines THEN file.records[i] ELSE tail
    <3> TAKE i \in 1 .. lines + 1
    <3>1. CASE i <= lines
      BY <1>1, <1>2, <2>3, <2>5, <3>1
    <3>2. CASE i = lines + 1
      <4>1. i - Len(whole) = 1 /\ ~(i <= Len(whole)) /\ ~(i <= lines)
        BY <1>1, <1>2, <3>2
      <4>2. both[i] = rest[1]
        BY <1>1, <2>3, <2>5, <3>2, <4>1
      <4>3. QED BY <2>2, <4>1, <4>2
    <3>3. QED BY <1>1, <3>1, <3>2
  <2>7. QED BY <1>3, <1>5, <2>4, <2>5, <2>6 DEF both
<1>6. QED BY <1>4, <1>5

(* What is found of the file can be imported, rows or none.                 *)
LEMMA OutcomesImportable ==
    ASSUME FileInv, NEW trace \in Outcomes
    PROVE  Importable(trace)
<1>1. CASE trace \in Traces
  BY <1>1, TracesImportable
<1>2. ASSUME NEW parsed, trace = Found(parsed), IsFiniteSet(DOMAIN parsed.rows)
      PROVE  Importable(trace)
  BY <1>2 DEF Importable, Found
<1>3. IsFiniteSet(DOMAIN <<>>)
  <2>1. DOMAIN <<>> = {}
    OBVIOUS
  <2>2. QED BY <2>1, FS_EmptySet
<1>4. IsFiniteSet(DOMAIN Failure.rows)
  BY <1>3 DEF Failure
<1>5. IsFiniteSet(DOMAIN ParseFile(Written).rows)
  <2> DEFINE filled == Filled(Written.records)
  <2>1. IsFiniteSet(filled)
    <3>1. filled \subseteq DOMAIN Written.records
      BY DEF Filled
    <3>2. IsFiniteSet(DOMAIN Written.records)
      BY WrittenRecords, FileFields, FS_Interval
    <3>3. QED BY <3>1, <3>2, FS_Subset
  <2>2. ParseFile(Written).rows \in {<<>>, Rows(Written, filled), Failure.rows}
    BY DEF ParseFile
  <2>3. DOMAIN Rows(Written, filled) = filled
    BY DEF Rows
  <2>4. QED BY <1>3, <1>4, <2>1, <2>2, <2>3
<1>6. QED BY <1>1, <1>2, <1>4, <1>5 DEF Outcomes

(* Handling an event is a step of the store.                                *)
LEMMA HandleIsStep ==
    ASSUME ImportInv, NEW e \in Event, Deliver(e)
    PROVE  \E run \in Run : StartedStep(e, run) \/ ResolvedStep(e, run)
<1>1. TypeOK /\ \A trace \in Outcomes : Importable(trace)
  BY OutcomesImportable DEF ImportInv
<1>2. CASE Started(e)
  BY <1>1, <1>2, StartedIsStartedStep
<1>3. CASE \E task \in TaskIds, status \in Statuses : Process(e, task, status)
  BY <1>1, <1>3, ProcessIsResolvedStep
<1>4. CASE \E failed \in BOOLEAN, trace \in Outcomes : Completed(e, failed, trace)
  BY <1>1, <1>4, CompletedIsResolvedStep
<1>5. CASE \E reported \in BOOLEAN : Error(e, reported)
  BY <1>1, <1>5, ErrorIsResolvedStep
<1>6. QED BY <1>2, <1>3, <1>4, <1>5 DEF Deliver

(* The types stay, and what is written stays the start of the file.         *)
LEMMA ImportInvariant == ImportSpec => []ImportInv
<1>1. ImportInit => ImportInv
  <2> SUFFICES ASSUME ImportInit PROVE ImportInv
    OBVIOUS
  <2>1. file \in [header: Seq(STRING), records: Seq(Seq(STRING))]
    BY FileAssumption DEF ImportInit
  <2>2. Len(file.records) \in Nat
    BY <2>1
  <2>3. FileInv
    BY <2>2 DEF ImportInit, FileInv
  <2>4. QED BY <2>3, TypesStart DEF ImportInit, ImportInv
<1>2. ImportInv /\ [ImportNext]_<<vars, fileVars>> => ImportInv'
  <2> SUFFICES ASSUME ImportInv, [ImportNext]_<<vars, fileVars>> PROVE ImportInv'
    OBVIOUS
  <2>1. UNCHANGED fileVars => FileInv'
    BY DEF ImportInv, FileInv, fileVars
  <2>2. CASE Write
    <3>1. TypeOK'
      BY <2>2, TypesUntouched DEF ImportInv, Write
    <3>2. file' = file /\ lines \in Nat /\ lines < Len(file.records) /\ Len(file.records) \in Nat
      BY <2>2, FileFields DEF ImportInv, Write
    <3>3. \/ lines' = lines + 1 /\ tail' = <<>>
          \/ lines' = lines /\ tail' \in CutOff(file.records[lines + 1])
      BY <2>2 DEF Write
    <3>4. FileInv'
      BY <3>2, <3>3 DEF ImportInv, FileInv
    <3>5. QED BY <3>1, <3>4 DEF ImportInv
  <2>3. CASE \E e \in Event : Deliver(e)
    <3>1. PICK e \in Event : Deliver(e)
      BY <2>3
    <3>2. TypeOK'
      BY <3>1, HandleIsStep, StepKeepsTypes DEF ImportInv
    <3>3. QED BY <2>1, <3>1, <3>2 DEF ImportInv, Deliver
  <2>4. CASE UNCHANGED <<vars, fileVars>>
    BY <2>1, <2>4, TypesUntouched DEF ImportInv
  <2>5. QED BY <2>2, <2>3, <2>4 DEF ImportNext
<1>3. QED BY <1>1, <1>2, PTL DEF ImportSpec

(* Handling an event affects the runs as described.                         *)
LEMMA HandleAffects ==
    ASSUME ImportInv, NEW e \in Event, Deliver(e), NEW id \in DOMAIN runs
    PROVE  id \in DOMAIN runs' /\ Affected(runs[id], runs'[id], Outcomes)
<1>1. TypeOK /\ \A trace \in Outcomes : Importable(trace)
  BY OutcomesImportable DEF ImportInv
<1>2. CASE Started(e)
  BY <1>1, <1>2, StartedAffects DEF Affected
<1>3. CASE \E task \in TaskIds, status \in Statuses : Process(e, task, status)
  BY <1>1, <1>3, ProcessAffects DEF Affected
<1>4. CASE \E failed \in BOOLEAN, trace \in Outcomes : Completed(e, failed, trace)
  BY <1>1, <1>4, CompletedAffects DEF Affected
<1>5. CASE \E reported \in BOOLEAN : Error(e, reported)
  BY <1>1, <1>5, ErrorAffects DEF Affected
<1>6. QED BY <1>2, <1>3, <1>4, <1>5 DEF Deliver

(* So does any step.                                                        *)
LEMMA ImportAffects ==
    ASSUME ImportInv, [ImportNext]_<<vars, fileVars>>, NEW id \in DOMAIN runs
    PROVE  id \in DOMAIN runs' /\ Affected(runs[id], runs'[id], Outcomes)
<1>1. CASE \E e \in Event : Deliver(e)
  BY <1>1, HandleAffects
<1>2. CASE Write \/ UNCHANGED <<vars, fileVars>>
  BY <1>2 DEF Write, vars, storeVars, Affected, Kept
<1>3. QED BY <1>1, <1>2 DEF ImportNext

-----------------------------------------------------------------------------
(* Live tasks survive. *)

(* No import replaces a live task that has a status of its own.             *)
THEOREM LiveTasksAreKept == ImportSpec => LiveTasksSurviveImport
<1> DEFINE Survive == \A id \in DOMAIN runs, t \in TaskIds :
                         /\ runs[id].tasks[t].source = "live_webhook"
                         /\ runs[id].tasks[t].status \notin {"", "CACHED"}
                         => runs'[id].tasks[t].source = "live_webhook"
<1>1. ImportInv /\ [ImportNext]_<<vars, fileVars>> => Survive
  <2> SUFFICES ASSUME ImportInv, [ImportNext]_<<vars, fileVars>>, NEW id \in DOMAIN runs, NEW t \in TaskIds,
                      runs[id].tasks[t].source = "live_webhook",
                      runs[id].tasks[t].status \notin {"", "CACHED"}
               PROVE  runs'[id].tasks[t].source = "live_webhook"
    OBVIOUS
  <2> DEFINE old == runs[id]
             new == runs'[id]
  <2>1. Affected(old, new, Outcomes)
    BY ImportAffects
  <2>3. old.tasks[t].source = "live_webhook" /\ old.tasks[t].status \notin {"", "CACHED"}
    OBVIOUS
  <2> HIDE DEF old, new
  <2>2. ~Replaceable(old.tasks[t])
    <3>1. NoTask.source = "nil"
      BY DEF NoTask
    <3>2. QED BY <2>3, <3>1 DEF Replaceable
  <2>4. CASE Kept(old, new) \/ LiveTold(old, new)
    BY <2>3, <2>4 DEF Kept, LiveTold, new
  <2>5. CASE \E trace \in Outcomes : ImportedFrom(old, new, trace)
    <3>1. PICK trace \in Outcomes : ImportedFrom(old, new, trace)
      BY <2>5
    <3>2. ~(\E i \in Imported(old.tasks, trace.rows) : trace.rows[i].task = t)
      BY <2>2 DEF Imported
    <3>3. new.tasks[t] = old.tasks[t]
      BY <3>1, <3>2 DEF ImportedFrom, RowsImported, NothingImported
    <3>4. QED BY <2>3, <3>3 DEF new
  <2>6. QED BY <2>1, <2>4, <2>5 DEF Affected
<1>2. Survive => [Survive]_vars
  OBVIOUS
<1>3. QED BY ImportInvariant, <1>1, <1>2, PTL DEF ImportSpec, LiveTasksSurviveImport

-----------------------------------------------------------------------------
(* The counters of an import. *)

(* What a row takes of its record.                                          *)
LEMMA RowFields ==
    ASSUME NEW header, NEW record
    PROVE  /\ ParseRow(header, record).task = traceField(header, record, "task_id")
           /\ ParseRow(header, record).status = traceText(traceField(header, record, "status"))
  BY DEF ParseRow

(* Rows that are found are rows of tasks.                                   *)
LEMMA RowsAreOfTasks ==
    ASSUME FileInv, NEW trace \in Outcomes, NEW i \in DOMAIN trace.rows
    PROVE  trace.rows[i].task \in TaskIds
<1>1. CASE trace \in Traces
  <2>1. trace.rows \in Seq(Row)
    BY <1>1, DataAssumption DEF TraceOutcome
  <2>2. trace.rows[i] \in Row
    BY <2>1
  <2>3. QED BY <2>2 DEF Row
<1>2. CASE trace \in {Found(ParseFile(Written)), Found(Failure)}
  <2>1. trace.rows \in {<<>>, Rows(Written, Filled(Written.records))}
        /\ (trace.rows # <<>> =>
              \A k \in Filled(Written.records) : Parses(Written.header, Written.records[k]))
    BY <1>2 DEF Found, ParseFile, Failure
  <2>2. trace.rows # <<>>
    OBVIOUS
  <2>3. i \in Filled(Written.records)
        /\ trace.rows[i] = ParseRow(Written.header, Written.records[i])
    BY <2>1, <2>2 DEF Rows
  <2>4. trace.rows[i].task \in IdCells
    <3>1. traceField(Written.header, Written.records[i], "task_id") \in IdCells
      BY <2>1, <2>2, <2>3 DEF Parses, FieldsParse
    <3>2. trace.rows[i].task = traceField(Written.header, Written.records[i], "task_id")
      BY <2>3, RowFields, Zenon
    <3>3. QED BY <3>1, <3>2
  <2>5. QED BY <2>4, FileAssumption
<1>3. QED BY <1>1, <1>2 DEF Outcomes

(* Two sets without a common member.                                        *)
LEMMA DisjointUnion ==
    ASSUME NEW S, NEW T, IsFiniteSet(S), IsFiniteSet(T), S \cap T = {}
    PROVE  /\ IsFiniteSet(S \cup T)
           /\ Cardinality(S \cup T) = Cardinality(S) + Cardinality(T)
<1>1. Cardinality(S \cup T) = Cardinality(S) + Cardinality(T) - Cardinality(S \cap T)
      /\ IsFiniteSet(S \cup T)
  BY FS_Union
<1>2. Cardinality(S \cap T) = 0
  BY FS_EmptySet
<1>3. Cardinality(S) \in Nat /\ Cardinality(T) \in Nat
  BY FS_CardinalityType
<1>4. QED BY <1>1, <1>2, <1>3

(* Every row has one provenance.                                            *)
LEMMA ProvenancesAddUp ==
    ASSUME NEW run, NEW rows, NEW imported, IsFiniteSet(imported)
    PROVE  LET counts == recordCachedWorkdirResolution(run, rows, imported)
           IN  Cardinality(imported) = counts["trace_workdir"] + counts["hash_resolved"]
                                       + counts["unresolved"] + counts["ambiguous_hash"]
<1> DEFINE of(p) == {i \in imported : resolveCachedWorkdir(run, rows[i]) = p}
           A == of("trace_workdir")
           B == of("hash_resolved")
           C == of("unresolved")
           D == of("ambiguous_hash")
           counts == recordCachedWorkdirResolution(run, rows, imported)
<1>1. imported = ((A \cup B) \cup C) \cup D
  BY ProvenanceType DEF CachedProvenances
<1>2. A \cap B = {} /\ (A \cup B) \cap C = {} /\ ((A \cup B) \cup C) \cap D = {}
  OBVIOUS
<1>3. A \subseteq imported /\ B \subseteq imported /\ C \subseteq imported /\ D \subseteq imported
  OBVIOUS
<1>4. /\ counts["trace_workdir"] = Cardinality(A) /\ counts["hash_resolved"] = Cardinality(B)
      /\ counts["unresolved"] = Cardinality(C) /\ counts["ambiguous_hash"] = Cardinality(D)
  BY DEF recordCachedWorkdirResolution, CachedProvenances
<1> HIDE DEF A, B, C, D, counts
<1>5. IsFiniteSet(A) /\ IsFiniteSet(B) /\ IsFiniteSet(C) /\ IsFiniteSet(D)
  BY <1>3, FS_Subset
<1>6. IsFiniteSet(A \cup B) /\ Cardinality(A \cup B) = Cardinality(A) + Cardinality(B)
  BY <1>2, <1>5, DisjointUnion
<1>7. IsFiniteSet((A \cup B) \cup C)
      /\ Cardinality((A \cup B) \cup C) = Cardinality(A \cup B) + Cardinality(C)
  BY <1>2, <1>5, <1>6, DisjointUnion
<1>8. Cardinality(((A \cup B) \cup C) \cup D) = Cardinality((A \cup B) \cup C) + Cardinality(D)
  BY <1>2, <1>5, <1>7, DisjointUnion
<1>9. QED BY <1>1, <1>4, <1>6, <1>7, <1>8 DEF counts

(* There are no more tasks that become cached than rows imported.           *)
LEMMA CachedAreCounted ==
    ASSUME NEW old \in Run, NEW new \in Run, NEW rows, IsFiniteSet(DOMAIN rows), RowsImported(old, new, rows)
    PROVE  /\ Cardinality(CachedIn(new) \ CachedIn(old)) <= new.traceImport.cachedTasks
           /\ new.traceImport.cachedTasks =
                new.traceImport.workdirs["trace_workdir"] + new.traceImport.workdirs["hash_resolved"]
                + new.traceImport.workdirs["unresolved"] + new.traceImport.workdirs["ambiguous_hash"]
<1> DEFINE imported == Imported(old.tasks, rows)
           taskOf == [i \in imported |-> rows[i].task]
           T == {rows[i].task : i \in imported}
           cached == CachedIn(new) \ CachedIn(old)
<1>1. IsFiniteSet(imported)
  <2>1. imported \subseteq DOMAIN rows
    BY DEF Imported
  <2>2. QED BY <2>1, FS_Subset
<1>2. new.traceImport.cachedTasks = Cardinality(imported)
      /\ \E run : new.traceImport.workdirs = recordCachedWorkdirResolution(run, rows, imported)
  BY DEF RowsImported
<1>3. cached \subseteq T
  <2> SUFFICES ASSUME NEW t \in cached PROVE t \in T
    OBVIOUS
  <2>1. t \in TaskIds /\ new.tasks[t] # old.tasks[t]
    BY DEF CachedIn
  <2>2. \E i \in imported : rows[i].task = t
    BY <2>1 DEF RowsImported
  <2>3. QED BY <2>2
<1>4. taskOf \in Surjection(imported, T)
  BY DEF Surjection
<1> HIDE DEF imported, taskOf, T, cached
<1>5. IsFiniteSet(T) /\ Cardinality(T) <= Cardinality(imported)
  BY <1>1, <1>4, FS_Surjection
<1>6. IsFiniteSet(cached) /\ Cardinality(cached) <= Cardinality(T)
  BY <1>3, <1>5, FS_Subset
<1>7. Cardinality(T) \in Nat /\ Cardinality(imported) \in Nat /\ Cardinality(cached) \in Nat
  BY <1>1, <1>5, <1>6, FS_CardinalityType
<1>8. Cardinality(cached) <= Cardinality(imported)
  BY <1>5, <1>6, <1>7
<1>9. QED BY <1>1, <1>2, <1>8, ProvenancesAddUp DEF cached

(* The counters of an import agree with one another and with the tasks.     *)
THEOREM ImportCountsAgree == ImportSpec => ImportCountsAddUp
<1> DEFINE Agree == \A id \in DOMAIN runs : id \in DOMAIN runs' /\ runs'[id].traceImport # runs[id].traceImport =>
                      LET import == runs'[id].traceImport
                          new == CachedIn(runs'[id]) \ CachedIn(runs[id])
                      IN  /\ import.cachedTasks =
                               import.workdirs["trace_workdir"] + import.workdirs["hash_resolved"]
                               + import.workdirs["unresolved"] + import.workdirs["ambiguous_hash"]
                          /\ Cardinality(new) <= import.cachedTasks
                          /\ import.cachedTasks > 0 => CachedIn(runs'[id]) # {} /\ import.imported
<1>1. ImportInv /\ ImportInv' /\ [ImportNext]_<<vars, fileVars>> => Agree
  <2> SUFFICES ASSUME ImportInv, ImportInv', [ImportNext]_<<vars, fileVars>>, NEW id \in DOMAIN runs,
                      id \in DOMAIN runs', runs'[id].traceImport # runs[id].traceImport
               PROVE  LET import == runs'[id].traceImport
                          new == CachedIn(runs'[id]) \ CachedIn(runs[id])
                      IN  /\ import.cachedTasks =
                               import.workdirs["trace_workdir"] + import.workdirs["hash_resolved"]
                               + import.workdirs["unresolved"] + import.workdirs["ambiguous_hash"]
                          /\ Cardinality(new) <= import.cachedTasks
                          /\ import.cachedTasks > 0 => CachedIn(runs'[id]) # {} /\ import.imported
    OBVIOUS
  <2> DEFINE old == runs[id]
             new == runs'[id]
             import == new.traceImport
  <2>1. old \in Run /\ new \in Run
    BY DEF ImportInv, TypeOK, IsMap
  <2>2. PICK trace \in Outcomes : ImportedFrom(old, new, trace)
    BY ImportAffects DEF Affected, Kept, LiveTold
  <2>3. Importable(trace) /\ \A i \in DOMAIN trace.rows : trace.rows[i].task \in TaskIds
    BY OutcomesImportable, RowsAreOfTasks DEF ImportInv
  <2> HIDE DEF old, new
  <2>4. CASE RowsImported(old, new, trace.rows)
    <3> DEFINE imported == Imported(old.tasks, trace.rows)
    <3>1. /\ Cardinality(CachedIn(new) \ CachedIn(old)) <= import.cachedTasks
          /\ import.cachedTasks =
               import.workdirs["trace_workdir"] + import.workdirs["hash_resolved"]
               + import.workdirs["unresolved"] + import.workdirs["ambiguous_hash"]
      BY <2>1, <2>3, <2>4, CachedAreCounted DEF Importable
    <3>2. ASSUME import.cachedTasks > 0 PROVE CachedIn(new) # {}
      <4>1. imported # {}
        <5>1. import.cachedTasks = Cardinality(imported)
          BY <2>4 DEF RowsImported
        <5>2. QED BY <3>2, <5>1, FS_EmptySet
      <4>2. PICK i \in imported : TRUE
        BY <4>1
      <4>3. trace.rows[i].task \in TaskIds
        BY <2>3 DEF Imported
      <4>4. new.tasks[trace.rows[i].task].source = "cached_trace"
        BY <2>4, <4>3 DEF RowsImported
      <4>5. QED BY <4>3, <4>4 DEF CachedIn
    <3>3. import.imported
      BY <2>4 DEF RowsImported
    <3>4. QED BY <3>1, <3>2, <3>3 DEF old, new
  <2>5. CASE NothingImported(old, new)
    <3>1. /\ import.cachedTasks = 0 /\ import.workdirs["trace_workdir"] = 0
          /\ import.workdirs["hash_resolved"] = 0
          /\ import.workdirs["unresolved"] = 0 /\ import.workdirs["ambiguous_hash"] = 0
      BY <2>5 DEF NothingImported, CachedProvenances
    <3>2. CachedIn(new) \ CachedIn(old) = {}
      BY <2>5 DEF NothingImported, CachedIn
    <3>3. Cardinality(CachedIn(new) \ CachedIn(old)) = 0
      BY <3>2, FS_EmptySet
    <3>4. QED BY <3>1, <3>3 DEF old, new
  <2>6. QED BY <2>2, <2>4, <2>5 DEF ImportedFrom
<1>2. Agree => [Agree]_vars
  OBVIOUS
<1>3. QED BY ImportInvariant, <1>1, <1>2, PTL DEF ImportSpec, ImportCountsAddUp

-----------------------------------------------------------------------------
(* What is taken over of the file. *)

Place(column) == CHOOSE i \in DOMAIN file.header : file.header[i] = column

(* Each column has one place.                                               *)
LEMMA PlaceOfColumn ==
    ASSUME FileInv, FilesAreRegular, NEW column, column \in ToSet(file.header)
    PROVE  /\ Place(column) \in 1 .. Len(file.header)
           /\ {i \in DOMAIN file.header : file.header[i] = column} = {Place(column)}
           /\ Max({i \in DOMAIN file.header : file.header[i] = column}) = Place(column)
<1>1. PICK q \in DOMAIN file.header : file.header[q] = column
  BY DEF ToSet
<1>2. \A i \in DOMAIN file.header : file.header[i] = column => i = q
  BY <1>1 DEF FileInv, FilesAreRegular
<1>3. Place(column) = q
  BY <1>1, <1>2 DEF Place
<1>4. DOMAIN file.header = 1 .. Len(file.header) /\ Len(file.header) \in Nat
  BY FileFields
<1>5. {i \in DOMAIN file.header : file.header[i] = column} = {q}
  BY <1>1, <1>2
<1>6. Max({q}) = q
  <2>1. q >= q
    BY <1>1, <1>4
  <2>2. \A x \in {q} : (\A y \in {q} : x >= y) <=> x = q
    BY <2>1
  <2>3. QED BY <2>2 DEF Max
<1>7. QED BY <1>1, <1>3, <1>4, <1>5, <1>6

(* A field is the cell at the place of its column.                          *)
LEMMA FieldOfRecord ==
    ASSUME FileInv, FilesAreRegular, NEW column, NEW record
    PROVE  traceField(file.header, record, column) =
             IF column \in ToSet(file.header) /\ Place(column) <= Len(record)
             THEN record[Place(column)] ELSE ""
<1> DEFINE places == {i \in DOMAIN file.header : file.header[i] = column}
<1>1. traceField(file.header, record, column) =
        IF places # {} /\ Max(places) <= Len(record) THEN record[Max(places)] ELSE ""
  BY DEF traceField
<1>2. CASE column \in ToSet(file.header)
  <2>1. places # {} /\ Max(places) = Place(column)
    BY <1>2, PlaceOfColumn
  <2> HIDE DEF places
  <2>2. QED BY <1>1, <1>2, <2>1
<1>3. CASE column \notin ToSet(file.header)
  <2>1. places = {}
    BY <1>3 DEF ToSet
  <2> HIDE DEF places
  <2>2. QED BY <1>1, <1>3, <2>1
<1>4. QED BY <1>2, <1>3

(* A record reports a task as cached.                                       *)
Reports(record, t) ==
    /\ ~traceRecordBlank(record)
    /\ "status" \in ToSet(file.header)
    /\ record[Place("status")] = "CACHED"
    /\ record[Place("task_id")] = t

(* The ids reported as cached, by their records.                            *)
LEMMA ReportedIds ==
    ASSUME NEW records, NEW t
    PROVE  t \in CachedIds(records) <=> \E k \in DOMAIN records : Reports(records[k], t)
<1>1. \A record : traceRecordBlank(record) \in BOOLEAN
  BY DEF traceRecordBlank
<1>2. CachedIds(records) =
        {records[k][Place("task_id")] :
           k \in {k \in DOMAIN records :
                    /\ traceRecordBlank(records[k]) = FALSE
                    /\ "status" \in ToSet(file.header)
                    /\ records[k][Place("status")] = "CACHED"}}
  BY DEF CachedIds, Place
<1>3. QED BY <1>1, <1>2 DEF Reports

(* A row that is found is of a record that parses.                          *)
LEMMA FoundRows ==
    ASSUME FileInv, NEW i \in DOMAIN ParseFile(Written).rows
    PROVE  /\ i \in Filled(Written.records) /\ Parses(file.header, Written.records[i])
           /\ "task_id" \in ToSet(file.header)
           /\ ParseFile(Written).rows[i] = ParseRow(file.header, Written.records[i])
<1> DEFINE parsed == ParseFile(Written)
<1>1. Written.header = file.header
  BY WrittenRecords
<1>2. parsed.rows # <<>>
  OBVIOUS
<1>3. /\ parsed.rows = Rows(Written, Filled(Written.records))
      /\ "task_id" \in ToSet(Written.header)
      /\ \A k \in Filled(Written.records) : Parses(Written.header, Written.records[k])
  BY <1>2 DEF ParseFile, Failure
<1>4. i \in Filled(Written.records) /\ parsed.rows[i] = ParseRow(Written.header, Written.records[i])
  BY <1>3 DEF Rows
<1>5. QED BY <1>1, <1>3, <1>4

(* All records that are not blank are found, or none.                       *)
LEMMA FoundAll ==
    ASSUME FileInv, ParseFile(Written).ok, file.header # <<>>, NEW i \in Filled(Written.records)
    PROVE  i \in DOMAIN ParseFile(Written).rows
<1>1. Written.header = file.header
  BY WrittenRecords
<1>2. ParseFile(Written).rows = Rows(Written, Filled(Written.records))
  BY <1>1 DEF ParseFile, Failure
<1>3. QED BY <1>2 DEF Rows

(* A row reports a task as cached as its record does.                       *)
LEMMA RowReports ==
    ASSUME FileInv, FilesAreRegular, NEW record, FieldsParse(file.header, record),
           "task_id" \in ToSet(file.header),
           traceText(traceField(file.header, record, "status")) = "CACHED"
    PROVE  /\ "status" \in ToSet(file.header)
           /\ Place("status") <= Len(record) /\ Place("task_id") <= Len(record)
           /\ record[Place("status")] = "CACHED"
           /\ record[Place("task_id")] = traceField(file.header, record, "task_id")
<1>1. traceField(file.header, record, "status") = "CACHED"
  BY DEF traceText
<1>2. /\ "status" \in ToSet(file.header) /\ Place("status") <= Len(record)
      /\ record[Place("status")] = "CACHED"
  BY <1>1, FieldOfRecord
<1>3. traceField(file.header, record, "task_id") # ""
  BY CellAssumption DEF FieldsParse, Blank
<1>4. Place("task_id") <= Len(record)
      /\ record[Place("task_id")] = traceField(file.header, record, "task_id")
  BY <1>3, FieldOfRecord
<1>5. QED BY <1>2, <1>4

(* Every complete record that reports a task as cached becomes a row.       *)
LEMMA CompleteAreFound ==
    ASSUME FileInv, FilesAreRegular, ParseFile(Written).ok,
           NEW t \in CachedIds(SubSeq(file.records, 1, lines))
    PROVE  /\ t \in TaskIds
           /\ \E i \in DOMAIN ParseFile(Written).rows :
                /\ ParseFile(Written).rows[i].task = t
                /\ ParseFile(Written).rows[i].status = "CACHED"
<1>1. /\ file.records \in Seq(Seq(STRING)) /\ lines \in Nat /\ lines <= Len(file.records)
      /\ Len(file.records) \in Nat /\ file.header \in Seq(STRING)
  BY FileFields
<1>2. PICK k \in 1 .. lines : Reports(file.records[k], t)
  <2>1. DOMAIN SubSeq(file.records, 1, lines) = 1 .. lines
        /\ \A k \in 1 .. lines : SubSeq(file.records, 1, lines)[k] = file.records[k]
    BY <1>1
  <2>2. QED BY <2>1, ReportedIds
<1> DEFINE record == file.records[k]
<1>3. k \in DOMAIN file.records /\ record \in Seq(STRING)
  BY <1>1
<1>4. Written.records[k] = record /\ k \in DOMAIN Written.records /\ Written.header = file.header
  BY <1>1, WrittenRecords
<1>5. k \in Filled(Written.records)
  BY <1>2, <1>4 DEF Filled, Reports
<1>6. file.header # <<>>
  BY <1>2 DEF Reports, ToSet
<1>7. k \in DOMAIN ParseFile(Written).rows
  BY <1>5, <1>6, FoundAll
<1>8. /\ Parses(file.header, record) /\ "task_id" \in ToSet(file.header)
      /\ ParseFile(Written).rows[k] = ParseRow(file.header, record)
  BY <1>4, <1>7, FoundRows
<1>9. Len(record) = Len(file.header)
  BY <1>2, <1>3 DEF FileInv, FilesAreRegular, Reports
<1>10. /\ traceField(file.header, record, "task_id") = t
       /\ traceField(file.header, record, "status") = "CACHED"
  <2>1. /\ "status" \in ToSet(file.header) /\ "task_id" \in ToSet(file.header)
        /\ record[Place("status")] = "CACHED" /\ record[Place("task_id")] = t
    BY <1>2, <1>8 DEF Reports
  <2>2. Place("status") \in DOMAIN file.header /\ Place("task_id") \in DOMAIN file.header
    BY <2>1, PlaceOfColumn
  <2>3. Place("status") <= Len(record) /\ Place("task_id") <= Len(record)
    BY <1>1, <1>9, <2>2
  <2> HIDE DEF record
  <2>4. QED BY <2>1, <2>3, FieldOfRecord, Zenon
<1>11. t \in TaskIds
  BY <1>8, <1>10, FileAssumption DEF Parses, FieldsParse
<1>12. traceText("CACHED") = "CACHED"
  BY DEF traceText, Blank
<1>13. QED BY <1>7, <1>8, <1>10, <1>11, <1>12, RowFields

(* A record that is cut off after its status was a complete one up to there.*)
LEMMA CutOffTail ==
    ASSUME FileInv, FilesAreRegular, tail # <<>>, NEW q \in Nat \ {0}, q <= Len(tail), tail[q] = "CACHED"
    PROVE  /\ lines + 1 \in DOMAIN file.records
           /\ q \in DOMAIN file.records[lines + 1]
           /\ \A p \in 1 .. q : file.records[lines + 1][p] = tail[p]
<1> DEFINE record == file.records[lines + 1]
<1>1. /\ file.records \in Seq(Seq(STRING)) /\ lines \in Nat /\ lines < Len(file.records)
      /\ Len(file.records) \in Nat
  BY FileFields DEF FileInv
<1>2. lines + 1 \in DOMAIN file.records /\ record \in Seq(STRING)
  BY <1>1
<1>3. PICK j \in DOMAIN record :
        \/ tail = SubSeq(record, 1, j - 1)
        \/ \E cell \in TornCells(record[j]) : tail = Append(SubSeq(record, 1, j - 1), cell)
  BY DEF FileInv, CutOff
<1>4. j \in Nat /\ j >= 1 /\ j <= Len(record) /\ Len(record) \in Nat
  BY <1>2
<1> DEFINE start == SubSeq(record, 1, j - 1)
<1>5. start \in Seq(STRING) /\ Len(start) = j - 1 /\ \A p \in 1 .. j - 1 : start[p] = record[p]
  BY <1>2, <1>4
<1> HIDE DEF start, record
<1>6. CASE tail = start
  BY <1>2, <1>4, <1>5, <1>6 DEF record
<1>7. CASE \E cell \in TornCells(record[j]) : tail = Append(start, cell)
  <2>1. PICK cell \in TornCells(record[j]) : tail = Append(start, cell)
    BY <1>7
  <2>2. cell # "CACHED"
    BY DEF TornCells, FilesAreRegular
  <2>3. start \in Seq(STRING \cup {cell})
    BY <1>5
  <2>4. Len(tail) = j /\ tail[j] = cell /\ \A p \in 1 .. j - 1 : tail[p] = start[p]
    BY <1>4, <1>5, <2>1, <2>3
  <2>5. q <= j - 1
    BY <1>4, <2>2, <2>4
  <2>6. QED BY <1>2, <1>4, <1>5, <2>4, <2>5 DEF record
<1>8. QED BY <1>3, <1>6, <1>7 DEF start, record

(* What is found as cached, the file reports as cached.                     *)
LEMMA FoundAreReported ==
    ASSUME FileInv, FilesAreRegular, NEW i \in DOMAIN ParseFile(Written).rows,
           ParseFile(Written).rows[i].status = "CACHED"
    PROVE  ParseFile(Written).rows[i].task \in CachedIds(file.records)
<1> DEFINE record == Written.records[i]
           t == traceField(file.header, record, "task_id")
           p == Place("task_id")
           q == Place("status")
<1>1. /\ i \in Filled(Written.records) /\ Parses(file.header, record)
      /\ "task_id" \in ToSet(file.header)
      /\ ParseFile(Written).rows[i] = ParseRow(file.header, record)
  BY FoundRows
<1>2. ParseFile(Written).rows[i].task = t
  BY <1>1, RowFields, Zenon
<1>3. traceText(traceField(file.header, record, "status")) = "CACHED"
  BY <1>1, RowFields, Zenon
<1>4. /\ "status" \in ToSet(file.header) /\ q <= Len(record) /\ p <= Len(record)
      /\ record[q] = "CACHED" /\ record[p] = t
  BY <1>1, <1>3, RowReports DEF Parses
<1>5. p \in 1 .. Len(file.header) /\ q \in 1 .. Len(file.header) /\ Len(file.header) \in Nat
  <2>1. p \in DOMAIN file.header /\ q \in DOMAIN file.header
    BY <1>1, <1>4, PlaceOfColumn
  <2>2. file.header \in Seq(STRING)
    BY FileFields
  <2> HIDE DEF p, q
  <2>3. QED BY <2>1, <2>2
<1>6. i \in DOMAIN Written.records /\ ~traceRecordBlank(record)
  BY <1>1 DEF Filled
<1>7. lines \in Nat /\ file.records \in Seq(Seq(STRING)) /\ lines <= Len(file.records)
  BY FileFields
<1>8. CASE i <= lines
  <2>1. record = file.records[i] /\ i \in DOMAIN file.records
    BY <1>6, <1>7, <1>8, WrittenRecords
  <2>2. Reports(file.records[i], t)
    BY <1>4, <1>6, <2>1 DEF Reports
  <2>3. QED BY <1>2, <2>1, <2>2, ReportedIds
<1>9. CASE ~(i <= lines)
  <2>1. record = tail /\ tail # <<>>
    BY <1>6, <1>7, <1>9, WrittenRecords
  <2>2. p < q
    <3>1. p \in DOMAIN file.header /\ q \in DOMAIN file.header
          /\ file.header[p] = "task_id" /\ file.header[q] = "status"
      BY <1>1, <1>4, PlaceOfColumn
    <3>2. QED BY <3>1 DEF FileInv, FilesAreRegular
  <2>3. /\ lines + 1 \in DOMAIN file.records
        /\ file.records[lines + 1][q] = "CACHED" /\ file.records[lines + 1][p] = t
    <3>1. q \in Nat \ {0} /\ q <= Len(tail) /\ tail[q] = "CACHED" /\ p \in 1 .. q /\ q \in 1 .. q /\ tail[p] = t
      BY <1>4, <1>5, <2>1, <2>2
    <3> HIDE DEF p, q, t, record
    <3>2. QED BY <2>1, <3>1, CutOffTail
  <2>4. ~traceRecordBlank(file.records[lines + 1])
    <3>1. q \in DOMAIN file.records[lines + 1]
      <4>1. q \in Nat \ {0} /\ q <= Len(tail) /\ tail[q] = "CACHED"
        BY <1>4, <1>5, <2>1
      <4> HIDE DEF q
      <4>2. QED BY <2>1, <4>1, CutOffTail
    <3>2. QED BY <2>3, <3>1 DEF traceRecordBlank
  <2>5. Reports(file.records[lines + 1], t)
    BY <1>4, <2>3, <2>4 DEF Reports
  <2>6. QED BY <1>2, <2>3, <2>5, ReportedIds
<1>10. QED BY <1>8, <1>9

(* What is found of the file is taken over.                                 *)
LEMMA FoundIsTakenOver ==
    ASSUME FileInv, FilesAreRegular, ParseFile(Written).ok, NEW old, NEW new,
           RowsImported(old, new, ParseFile(Written).rows)
    PROVE  /\ \A t \in CachedIds(SubSeq(file.records, 1, lines)) :
                Replaceable(old.tasks[t]) => t \in CachedIn(new)
           /\ CachedIn(new) \ CachedIn(old) \subseteq CachedIds(file.records)
<1> DEFINE rows == ParseFile(Written).rows
           imported == Imported(old.tasks, rows)
<1>1. \A t \in TaskIds :
        IF \E i \in imported : rows[i].task = t
        THEN new.tasks[t].source = "cached_trace" ELSE new.tasks[t] = old.tasks[t]
  BY DEF RowsImported
<1>2. ASSUME NEW t \in CachedIds(SubSeq(file.records, 1, lines)), Replaceable(old.tasks[t])
      PROVE  t \in CachedIn(new)
  <2>1. t \in TaskIds /\ \E i \in DOMAIN rows : rows[i].task = t /\ rows[i].status = "CACHED"
    BY CompleteAreFound
  <2> HIDE DEF rows
  <2>2. \E i \in imported : rows[i].task = t
    BY <1>2, <2>1 DEF Imported
  <2> HIDE DEF imported
  <2>3. QED BY <1>1, <2>1, <2>2 DEF CachedIn
<1>3. ASSUME NEW t \in CachedIn(new) \ CachedIn(old)
      PROVE  t \in CachedIds(file.records)
  <2>1. t \in TaskIds /\ new.tasks[t] # old.tasks[t]
    BY <1>3 DEF CachedIn
  <2>2. PICK i \in imported : rows[i].task = t
    BY <1>1, <2>1
  <2>3. i \in DOMAIN rows /\ rows[i].status = "CACHED"
    BY DEF Imported
  <2>4. rows[i].task \in CachedIds(file.records)
    BY <2>3, FoundAreReported
  <2>5. QED BY <2>2, <2>4
<1>4. QED BY <1>2, <1>3

(* An import takes over the file or nothing of it.                          *)
THEOREM FilesAreImportedWhole ==
    ASSUME FilesAreRegular, NothingElseIsRead
    PROVE  ImportSpec => ImportsTheFileOrNothing
<1> DEFINE Taken == \A id \in DOMAIN runs : id \in DOMAIN runs' /\ runs'[id].traceImport # runs[id].traceImport =>
          LET before == runs[id]
              after == runs'[id]
              complete == {t \in CachedIds(SubSeq(file.records, 1, lines)) :
                             Replaceable(before.tasks[t])}
          IN  IF after.traceImport.imported
              THEN /\ complete \subseteq CachedIn(after)
                   /\ CachedIn(after) \ CachedIn(before) \subseteq CachedIds(file.records)
              ELSE after.tasks = before.tasks
<1>1. ImportInv /\ [ImportNext]_<<vars, fileVars>> => Taken
  <2> SUFFICES ASSUME ImportInv, [ImportNext]_<<vars, fileVars>>, NEW id \in DOMAIN runs,
                      id \in DOMAIN runs', runs'[id].traceImport # runs[id].traceImport
               PROVE  IF runs'[id].traceImport.imported
                      THEN /\ \A t \in CachedIds(SubSeq(file.records, 1, lines)) :
                                Replaceable(runs[id].tasks[t]) => t \in CachedIn(runs'[id])
                           /\ CachedIn(runs'[id]) \ CachedIn(runs[id]) \subseteq CachedIds(file.records)
                      ELSE runs'[id].tasks = runs[id].tasks
    OBVIOUS
  <2> DEFINE old == runs[id]
             new == runs'[id]
             parsed == ParseFile(Written)
  <2>1. PICK trace \in Outcomes : ImportedFrom(old, new, trace)
    BY ImportAffects DEF Affected, Kept, LiveTold
  <2> HIDE DEF old, new
  <2>2. CASE trace.resolved /\ trace.readable
    <3>1. trace \notin Traces
      BY <2>2 DEF NothingElseIsRead
    <3>2. trace # Found(Failure)
      BY <2>2 DEF Found, Failure
    <3>3. trace = Found(parsed)
      BY <3>1, <3>2 DEF Outcomes
    <3>4. trace.readable = parsed.ok /\ trace.rows = parsed.rows
      BY <3>3 DEF Found
    <3>5. RowsImported(old, new, parsed.rows) /\ parsed.ok
      BY <2>1, <2>2, <3>4 DEF ImportedFrom
    <3>6. new.traceImport.imported
      BY <3>5 DEF RowsImported
    <3>7. QED BY <3>5, <3>6, FoundIsTakenOver DEF ImportInv, old, new
  <2>3. CASE ~(trace.resolved /\ trace.readable)
    BY <2>1, <2>3 DEF ImportedFrom, NothingImported, old, new
  <2>4. QED BY <2>2, <2>3
<1>2. Taken => [Taken]_vars
  OBVIOUS
<1>3. QED BY ImportInvariant, <1>1, <1>2, PTL DEF ImportSpec, ImportsTheFileOrNothing

=============================================================================
