---------------------------- MODULE MonitorProofs ---------------------------
(***************************************************************************)
(* Proofs about Monitor.                                                   *)
(*                                                                         *)
(* Handling an event is a function, After, from stores to stores, and what *)
(* it changes belongs to the event's runId: stores that agree on a runId   *)
(* agree on it after any event (AfterAgrees).  The invariant follows the   *)
(* store along the log.  Replaying, it is the store g[replayed] that the   *)
(* log led to; serving, it is on its way to g's last store, one event per  *)
(* request behind it (FinalKeeps, QuietRemembers).                         *)
(***************************************************************************)
EXTENDS Monitor, RunStoreProofs

-----------------------------------------------------------------------------
(* Handling an event as a function from stores to stores. *)

(* The store without the latest run, which no handler reads.                *)
Store == [runs |-> runs, routeBySource |-> routeBySource,
          latestRunBySession |-> latestRunBySession,
          latestRunByNextflowID |-> latestRunByNextflowID,
          attemptBySession |-> attemptBySession]

EmptyStore == [runs |-> NoEntries, routeBySource |-> NoEntries,
               latestRunBySession |-> NoEntries, latestRunByNextflowID |-> NoEntries,
               attemptBySession |-> [k \in Ids \cup {NoId} |-> 0]]

(* With launches that have a runId, a run name and one session per runId:   *)
(* the run an event is for, what ensureRun makes of it, and what the case   *)
(* of HandleEvent makes of that.                                            *)
Target(S, ev) ==
    LET b == ev.launch.runId
    IN  IF ev.kind = "started" THEN <<b, S.attemptBySession[b] + 1>>
        ELSE IF sourceKey(ev) \in DOMAIN S.routeBySource THEN S.routeBySource[sourceKey(ev)]
        ELSE IF SessionOf(ev) # NoId /\ b \in DOMAIN S.latestRunBySession
             THEN S.latestRunBySession[b]
        ELSE IF b \in DOMAIN S.latestRunByNextflowID THEN S.latestRunByNextflowID[b]
        ELSE IF b \in DOMAIN S.latestRunBySession THEN S.latestRunBySession[b]
        ELSE <<b, 1>>

FoundRun(S, ev) ==
    LET id == Target(S, ev)
    IN  IF id \in DOMAIN S.runs THEN S.runs[id]
        ELSE newRun(ev, IF ev.kind = "started" THEN id[2] ELSE 1)

Named(run, ev) ==
    [run EXCEPT !.runName = ev.launch.runName, !.nextflowRunId = ev.launch.runId,
                !.isResume = @ \/ ResumeOf(ev)]

TraceFor(run, ev) ==
    IF run.metadata = NoLaunch THEN NoTrace ELSE TraceOf[run.metadata, run.startTime, ev.time]

Result(run, ev) ==
    CASE ev.kind = "started" -> startedRun(run, ev)
      [] ev.kind = "process" -> processedRun(run, ev.task, ev.status)
      [] ev.kind = "completed" -> completedRun(run, ev, ev.failed, TraceFor(run, ev))
      [] ev.kind = "error" -> failedRun(run, ev, ev.failed)

(* The run is stored and every route of the event leads to it.              *)
Handled(S, ev) ==
    LET id == Target(S, ev)
        b == ev.launch.runId
    IN  [runs |-> Put(S.runs, id, Result(Named(FoundRun(S, ev), ev), ev)),
         routeBySource |-> Put(S.routeBySource, sourceKey(ev), id),
         latestRunBySession |-> Put(S.latestRunBySession, b, id),
         latestRunByNextflowID |-> Put(S.latestRunByNextflowID, b, id),
         attemptBySession |-> IF ev.kind = "started"
                              THEN [S.attemptBySession EXCEPT ![b] = @ + 1]
                              ELSE S.attemptBySession]

After(S, ev) == IF ev.kind = "invalid" THEN S ELSE Handled(S, ev)

NumberedIds == RawIds \X (Nat \ {0})

StoreTypes(S) ==
    /\ IsMap(S.runs, NumberedIds, Run)
    /\ IsMap(S.routeBySource, RawIds \X (Names \cup {NoId}), NumberedIds)
    /\ IsMap(S.latestRunBySession, RawIds, NumberedIds)
    /\ IsMap(S.latestRunByNextflowID, RawIds, NumberedIds)
    /\ S.attemptBySession \in [RawIds -> Nat]

(* Nothing is shared between runIds: a route leads to a run of its own      *)
(* runId, and a run's session is its runId.                                 *)
StoreLocal(S) ==
    /\ \A k \in DOMAIN S.routeBySource : S.routeBySource[k][1] = k[1]
    /\ \A k \in DOMAIN S.latestRunBySession : S.latestRunBySession[k][1] = k
    /\ \A k \in DOMAIN S.latestRunByNextflowID : S.latestRunByNextflowID[k][1] = k
    /\ \A id \in DOMAIN S.runs : S.runs[id].sessionId \in {NoId, id[1]}

(* A started run's number has been counted.                                 *)
StoreCounted(S) ==
    \A id \in DOMAIN S.runs :
        S.runs[id].startTime # 0 => id[2] <= S.attemptBySession[id[1]]

StoreInv(S) == StoreTypes(S) /\ StoreLocal(S) /\ StoreCounted(S)

(* Two maps agree at a key; two stores agree on a runId.                    *)
Same(f, g, k) == (k \in DOMAIN f <=> k \in DOMAIN g) /\ (k \in DOMAIN f => f[k] = g[k])

Agree(S, T, b) ==
    /\ \A id \in DOMAIN S.runs \cup DOMAIN T.runs : id[1] = b => Same(S.runs, T.runs, id)
    /\ \A k \in DOMAIN S.routeBySource \cup DOMAIN T.routeBySource :
         k[1] = b => Same(S.routeBySource, T.routeBySource, k)
    /\ Same(S.latestRunBySession, T.latestRunBySession, b)
    /\ Same(S.latestRunByNextflowID, T.latestRunByNextflowID, b)
    /\ S.attemptBySession[b] = T.attemptBySession[b]

(* What a later store keeps of an earlier one's runs.                       *)
KeptRun(old, new) ==
    /\ old.startTime # 0 =>
         /\ new.startTime = old.startTime
         /\ new.metadata = old.metadata
         /\ old.status # "running" => new.status # "running"
    /\ \A t \in TaskIds : old.tasks[t] # NoTask => new.tasks[t] # NoTask

Keeps(S, T) == \A id \in DOMAIN S.runs : id \in DOMAIN T.runs /\ KeptRun(S.runs[id], T.runs[id])

-----------------------------------------------------------------------------
(* The inductive invariant.  While no call of the database has failed, the  *)
(* log leads from the empty store through the stores g, one per event.      *)

Requests == [pc: {"idle"}] \cup [pc: {"handle"}, event: Posts]
            \cup [pc: {"discover", "saveDAG"}, run: NumberedIds]

MonitorTypes ==
    /\ StoreInv(Store)
    /\ request \in [Launches -> Requests]
    /\ \A l \in Launches : request[l].pc = "handle" =>
         request[l].event.launch = l /\ request[l].event.kind # "invalid"
    /\ events \in Seq(Posts)
    /\ replayed \in 0 .. Len(events)
    /\ phase \in {"serving", "replaying"}
    /\ crashes \in Nat /\ lost \in Nat
    /\ phase = "replaying" => crashes > 0
    /\ layouts \in [DOMAIN layouts -> Launches] /\ dagDots \in [DOMAIN dagDots -> Launches]

(* SerialSessions: at most one request of a runId is in progress.           *)
OneAtATime ==
    \A l, m \in Launches : l # m /\ l.runId = m.runId =>
        request[l].pc = "idle" \/ request[m].pc = "idle"

Chain(g) ==
    /\ DOMAIN g = 0 .. Len(events)
    /\ g[0] = EmptyStore
    /\ \A n \in 1 .. Len(events) : g[n] = After(g[n - 1], events[n])
    /\ \A n \in 0 .. Len(events) : StoreInv(g[n])

Final(g) == g[Len(events)]

Replaying(g) ==
    phase = "replaying" => Quiet /\ DOMAIN layouts = {} /\ Store = g[replayed]

(* While serving, the store is where the log leads but for the event that   *)
(* each request has yet to handle.                                          *)
Unhandled(b) == \E l \in Launches : request[l].pc = "handle" /\ l.runId = b

Serving(g) ==
    phase = "serving" =>
        /\ \A l \in Launches : request[l].pc = "handle" =>
             Agree(After(Store, request[l].event), Final(g), l.runId)
        /\ \A b \in RawIds : ~Unhandled(b) => Agree(Store, Final(g), b)
        /\ replayed = Len(events) => Quiet

(* A layout, or one on its way, is that of its run's launch.                *)
Owned(S, id, l) == id \in DOMAIN S.runs /\ S.runs[id].startTime # 0 /\ S.runs[id].metadata = l

LayoutsOwned(g) ==
    /\ \A id \in DOMAIN layouts : Owned(Store, id, layouts[id])
    /\ \A id \in DOMAIN dagDots : Owned(Final(g), id, dagDots[id])
    /\ \A l \in Launches : request[l].pc \in {"discover", "saveDAG"} =>
         Owned(Store, request[l].run, l)

LayoutsSaved ==
    phase = "serving" =>
        /\ \A l \in Launches : request[l].pc = "saveDAG" =>
             request[l].run \in DOMAIN layouts /\ layouts[request[l].run] = l
        /\ \A id \in DOMAIN layouts \cup DOMAIN dagDots :
             \/ Same(layouts, dagDots, id)
             \/ \E l \in Launches : request[l].pc = "saveDAG" /\ request[l].run = id

(* What a crash left in memory is where the log leads, until events follow. *)
Remembers(memory, S) ==
    memory = [runs |-> S.runs, routeBySource |-> S.routeBySource,
              latestRunBySession |-> S.latestRunBySession,
              latestRunByNextflowID |-> S.latestRunByNextflowID,
              attemptBySession |-> S.attemptBySession,
              latestRunID |-> memory.latestRunID, layouts |-> dagDots]

Remembered(g) ==
    crashes > 0 /\ (phase = "replaying" \/ replayed = Len(events)) =>
        /\ Keeps(before.memory, Final(g))
        /\ before.quiet => Remembers(before.memory, Final(g))

NothingLost(g) ==
    /\ Chain(g) /\ Replaying(g) /\ Serving(g)
    /\ LayoutsOwned(g) /\ LayoutsSaved /\ Remembered(g)

IInv == MonitorTypes /\ OneAtATime /\ (lost = 0 => \E g : NothingLost(g))

-----------------------------------------------------------------------------
(* What a posted event names. *)

PostFacts(ev) ==
    LET b == ev.launch.runId
    IN  /\ ev.launch \in Launches /\ ev.kind \in Kinds
        /\ ev.meta \in BOOLEAN /\ ev.failed \in BOOLEAN
        /\ ev.time \in Times /\ ev.time \in Nat /\ ev.time # 0
        /\ ev.task \in TaskIds /\ ev.status \in Statuses
        /\ b \in RawIds /\ b # NoId
        /\ ev.launch.runName \in Names \cup {NoId} /\ ev.launch.runName # NoId
        /\ ev.launch.session \in RawIds /\ ev.launch.resume \in BOOLEAN
        /\ ev.meta => ev.launch.session \in {NoId, b}
        /\ RunIdOf(ev) = b /\ BaseId(ev) = b /\ AttemptKey(ev) = b
        /\ SessionOf(ev) \in {NoId, b}
        /\ sourceKey(ev) = <<b, ev.launch.runName>>
        /\ ResumeOf(ev) \in BOOLEAN

(* An event's runId is also its session key and the base of its attempts.   *)
LEMMA PostsAreLocal ==
    ASSUME DistinctSources, SessionPerBase, NEW ev \in Posts
    PROVE  PostFacts(ev)
<1> DEFINE b == ev.launch.runId
           e == [launch |-> ev.launch, meta |-> ev.meta, time |-> ev.time]
           plain == [launch |-> ev.launch, meta |-> FALSE, time |-> ev.time]
<1>1. ev \in PostedEvent
  BY PostsAssumption
<1>2. /\ ev.launch \in Launches /\ ev.kind \in Kinds
      /\ ev.meta \in BOOLEAN /\ ev.failed \in BOOLEAN
      /\ ev.time \in Times /\ ev.task \in TaskIds /\ ev.status \in Statuses
  BY <1>1 DEF PostedEvent
<1>3. e \in Event /\ plain \in Event
  BY <1>2 DEF Event
<1>4. /\ ev.time \in Nat /\ ev.time # 0
      /\ b \in RawIds /\ b # NoId
      /\ ev.launch.runName \in Names \cup {NoId} /\ ev.launch.runName # NoId
      /\ ev.launch.session \in RawIds /\ ev.launch.resume \in BOOLEAN
      /\ ResumeOf(e) \in BOOLEAN
  BY <1>2, <1>3, EventFields DEF RunIdOf, DistinctSources
<1>5. BaseId(e) = b /\ BaseId(plain) = b /\ AttemptKey(plain) = b
  BY <1>4 DEF BaseId, AttemptKey, RunIdOf, SessionOf, NonEmpty
<1>6. AttemptKey(e) = b
  BY <1>3, <1>5 DEF SessionPerBase
<1>7. SessionOf(e) \in {NoId, b}
  BY <1>6 DEF AttemptKey, NonEmpty
<1>8. /\ RunIdOf(ev) = b /\ BaseId(ev) = BaseId(e) /\ AttemptKey(ev) = AttemptKey(e)
      /\ SessionOf(ev) = SessionOf(e) /\ ResumeOf(ev) = ResumeOf(e)
      /\ sourceKey(ev) = <<b, ev.launch.runName>>
  BY DEF RunIdOf, BaseId, AttemptKey, SessionOf, ResumeOf, sourceKey
<1>9. ev.meta => ev.launch.session \in {NoId, b}
  BY <1>7, <1>8 DEF SessionOf
<1>10. QED BY <1>2, <1>4, <1>5, <1>6, <1>7, <1>8, <1>9 DEF PostFacts

-----------------------------------------------------------------------------
(* The run an event is for. *)

(* The run is one of the event's runId.                                     *)
LEMMA TargetIsLocal ==
    ASSUME NEW S, StoreInv(S), NEW ev, PostFacts(ev)
    PROVE  Target(S, ev) \in NumberedIds /\ Target(S, ev)[1] = ev.launch.runId
<1> DEFINE b == ev.launch.runId
<1>1. b \in RawIds /\ b # NoId /\ S.attemptBySession[b] \in Nat
  BY DEF PostFacts, StoreInv, StoreTypes
<1>2. <<b, 1>> \in NumberedIds /\ <<b, S.attemptBySession[b] + 1>> \in NumberedIds
  BY <1>1 DEF NumberedIds
<1>3. sourceKey(ev) \in DOMAIN S.routeBySource =>
        /\ S.routeBySource[sourceKey(ev)] \in NumberedIds
        /\ S.routeBySource[sourceKey(ev)][1] = b
  <2>1. sourceKey(ev)[1] = b
    BY DEF PostFacts
  <2>2. QED BY <2>1 DEF StoreInv, StoreTypes, StoreLocal, IsMap, NumberedIds
<1>4. b \in DOMAIN S.latestRunBySession =>
        S.latestRunBySession[b] \in NumberedIds /\ S.latestRunBySession[b][1] = b
  BY DEF StoreInv, StoreTypes, StoreLocal, IsMap, NumberedIds
<1>5. b \in DOMAIN S.latestRunByNextflowID =>
        S.latestRunByNextflowID[b] \in NumberedIds /\ S.latestRunByNextflowID[b][1] = b
  BY DEF StoreInv, StoreTypes, StoreLocal, IsMap, NumberedIds
<1>6. QED BY <1>2, <1>3, <1>4, <1>5 DEF Target

(* What ensureRun finds or creates, and what it makes of it.                *)
LEMMA NamedFields ==
    ASSUME NEW run \in Run, NEW ev, PostFacts(ev)
    PROVE  /\ Named(run, ev) \in Run
           /\ Named(run, ev).runName = ev.launch.runName
           /\ Named(run, ev).nextflowRunId = ev.launch.runId
           /\ Named(run, ev).sessionId = run.sessionId
           /\ Named(run, ev).startTime = run.startTime
           /\ Named(run, ev).metadata = run.metadata
           /\ Named(run, ev).status = run.status
           /\ Named(run, ev).tasks = run.tasks
<1>1. /\ ev.launch.runName \in Names \cup {NoId} /\ ev.launch.runId \in Ids \cup {NoId}
      /\ (run.isResume \/ ResumeOf(ev)) \in BOOLEAN
  BY DEF PostFacts, RawIds, Run
<1>2. QED BY <1>1, ZenonT(60) DEF Named, Run

(* A new run is not started and belongs to no session.                      *)
LEMMA FoundFields ==
    ASSUME NEW S, StoreInv(S), NEW ev, PostFacts(ev)
    PROVE  /\ FoundRun(S, ev) \in Run
           /\ FoundRun(S, ev).sessionId \in {NoId, ev.launch.runId}
           /\ Target(S, ev) \in DOMAIN S.runs => FoundRun(S, ev) = S.runs[Target(S, ev)]
           /\ Target(S, ev) \notin DOMAIN S.runs =>
                FoundRun(S, ev).startTime = 0 /\ FoundRun(S, ev).metadata = NoLaunch
<1> DEFINE id == Target(S, ev)
           attempt == IF ev.kind = "started" THEN id[2] ELSE 1
           e == [launch |-> ev.launch, meta |-> ev.meta, time |-> ev.time]
<1>1. id \in NumberedIds /\ id[1] = ev.launch.runId
  BY TargetIsLocal
<1>2. attempt \in Nat \ {0}
  BY <1>1 DEF NumberedIds
<1>3. e \in Event
  BY DEF Event, PostFacts
<1>4. newRun(ev, attempt) = newRun(e, attempt)
  BY DEF newRun, RunIdOf, ResumeOf
<1> HIDE DEF id, attempt, e
<1>5. /\ newRun(ev, attempt) \in Run /\ newRun(ev, attempt).startTime = 0
      /\ newRun(ev, attempt).metadata = NoLaunch
  BY <1>2, <1>3, <1>4, NewRunType
<1>6. newRun(ev, attempt).sessionId = NoId
  BY DEF newRun
<1>7. FoundRun(S, ev) = IF id \in DOMAIN S.runs THEN S.runs[id] ELSE newRun(ev, attempt)
  BY DEF FoundRun, id, attempt
<1>8. id \in DOMAIN S.runs => S.runs[id] \in Run /\ S.runs[id].sessionId \in {NoId, id[1]}
  BY DEF StoreInv, StoreTypes, StoreLocal, IsMap
<1>9. QED BY <1>1, <1>5, <1>6, <1>7, <1>8 DEF id

-----------------------------------------------------------------------------
(* What HandleEvent makes of the run. *)

TasksKept(new, old) == \A t \in TaskIds : old.tasks[t] # NoTask => new.tasks[t] # NoTask

(* A "started" event gives the run its start time, launch and session.      *)
StartedFrom(new, run, ev) ==
    /\ new.startTime = ev.time
    /\ ev.meta => new.metadata = ev.launch
    /\ new.sessionId \in {run.sessionId, NoId, ev.launch.runId}

(* The other events leave them alone, and no run runs again.                *)
UpdatedFrom(new, run) ==
    /\ new.startTime = run.startTime
    /\ new.metadata = run.metadata
    /\ new.sessionId = run.sessionId
    /\ new.status \in {run.status, "completed", "failed"}

ResultOf(new, run, ev) ==
    /\ new \in Run
    /\ new.runName = run.runName /\ new.nextflowRunId = run.nextflowRunId
    /\ TasksKept(new, run)
    /\ IF ev.kind = "started" THEN StartedFrom(new, run, ev) ELSE UpdatedFrom(new, run)

(* The assignments of a "started" event.                                    *)
LEMMA StartedResult ==
    ASSUME NEW run \in Run, NEW ev, PostFacts(ev), ev.kind = "started"
    PROVE  ResultOf(startedRun(run, ev), run, ev)
<1> DEFINE running == [run EXCEPT !.status = "running", !.startTime = ev.time]
           claimed == [running EXCEPT !.metadata = ev.launch, !.sessionId = ev.launch.session,
                                      !.isResume = ev.launch.resume]
<1>1. /\ ev.time \in Times /\ ev.launch \in Launches /\ ev.launch.resume \in BOOLEAN
      /\ ev.meta \in BOOLEAN
      /\ ev.meta => ev.launch.session \in {NoId, ev.launch.runId}
      /\ ev.launch.session \in Ids \cup {NoId}
  BY DEF PostFacts, RawIds
<1>2. /\ running \in Run /\ running.startTime = ev.time /\ running.metadata = run.metadata
      /\ running.sessionId = run.sessionId /\ running.runName = run.runName
      /\ running.nextflowRunId = run.nextflowRunId /\ running.tasks = run.tasks
  BY <1>1 DEF Run, RunStatuses
<1>3. startedRun(run, ev) = IF ev.meta THEN claimed ELSE running
  BY DEF startedRun
<1> HIDE DEF running
<1>4. /\ claimed \in Run /\ claimed.startTime = ev.time /\ claimed.metadata = ev.launch
      /\ claimed.sessionId = ev.launch.session /\ claimed.runName = run.runName
      /\ claimed.nextflowRunId = run.nextflowRunId /\ claimed.tasks = run.tasks
  BY <1>1, <1>2 DEF Run
<1> HIDE DEF claimed
<1>5. QED BY <1>1, <1>2, <1>3, <1>4 DEF ResultOf, StartedFrom, TasksKept

(* Those of a task's event.                                                 *)
LEMMA ProcessResult ==
    ASSUME NEW run \in Run, NEW ev, PostFacts(ev), ev.kind = "process"
    PROVE  ResultOf(processedRun(run, ev.task, ev.status), run, ev)
<1> DEFINE live == [status |-> ev.status, source |-> "live_webhook",
                    provenance |-> "live_webhook"]
           new == [run EXCEPT !.tasks[ev.task] = live]
<1>1. live \in Task
  BY DEF Task, PostFacts
<1>2. live # NoTask
  BY DEF NoTask
<1>3. ev.task \in TaskIds
  BY DEF PostFacts
<1> HIDE DEF live
<1>4. /\ new \in Run
      /\ new.runName = run.runName /\ new.nextflowRunId = run.nextflowRunId
      /\ UpdatedFrom(new, run)
      /\ new.tasks = [run.tasks EXCEPT ![ev.task] = live]
  BY <1>1, <1>3 DEF Run, UpdatedFrom
<1>5. TasksKept(new, run)
  BY <1>2, <1>3, <1>4 DEF TasksKept, Run
<1>6. QED BY <1>4, <1>5 DEF ResultOf, processedRun, live

(* Those of a completion, which imports cached tasks.                       *)
LEMMA CompletedResult ==
    ASSUME NEW run \in Run, NEW ev, PostFacts(ev), ev.kind = "completed",
           NEW trace, Importable(trace)
    PROVE  ResultOf(completedRun(run, ev, ev.failed, trace), run, ev)
<1> DEFINE closed == IF ev.meta /\ ev.failed
                     THEN [run EXCEPT !.completeTime = ev.time, !.status = "failed",
                                      !.errorMessage = "reported"]
                     ELSE [run EXCEPT !.completeTime = ev.time, !.status = "completed"]
           new == importCachedTasksOnCompletion(closed, trace)
<1>1. ev.time \in Times
  BY DEF PostFacts
<1>2. /\ closed \in Run
      /\ closed.runName = run.runName /\ closed.nextflowRunId = run.nextflowRunId
      /\ closed.startTime = run.startTime /\ closed.metadata = run.metadata
      /\ closed.sessionId = run.sessionId /\ closed.status \in {"completed", "failed"}
      /\ closed.tasks = run.tasks
  BY <1>1 DEF Run, RunStatuses, ErrorMessages
<1> HIDE DEF closed
<1>3. SameButImport(new, closed) /\ ImportedOver(new.tasks, closed.tasks)
  BY <1>2, ImportType, CompletionImports
<1> HIDE DEF new
<1>4. \A t \in CachedTasks : t # NoTask
  BY DEF CachedTasks, Task, NoTask
<1>5. TasksKept(new, run)
  BY <1>2, <1>3, <1>4 DEF TasksKept, ImportedOver
<1>6. ResultOf(new, run, ev)
  BY <1>2, <1>3, <1>5 DEF ResultOf, UpdatedFrom, SameButImport
<1>7. QED BY <1>6 DEF completedRun, closed, new

(* Those of an error.                                                       *)
LEMMA ErrorResult ==
    ASSUME NEW run \in Run, NEW ev, PostFacts(ev), ev.kind = "error"
    PROVE  ResultOf(failedRun(run, ev, ev.failed), run, ev)
<1> DEFINE message == IF ev.meta /\ ev.failed THEN "reported" ELSE "generic"
           new == [run EXCEPT !.completeTime = ev.time, !.status = "failed",
                              !.errorMessage = message]
<1>1. ev.time \in Times /\ message \in ErrorMessages
  BY DEF PostFacts, ErrorMessages
<1> HIDE DEF message
<1>2. /\ new \in Run
      /\ new.runName = run.runName /\ new.nextflowRunId = run.nextflowRunId
      /\ new.tasks = run.tasks
      /\ UpdatedFrom(new, run)
  BY <1>1 DEF Run, RunStatuses, UpdatedFrom
<1>3. QED BY <1>2 DEF ResultOf, TasksKept, failedRun, message

(* What a completion finds of a run's trace file can be imported.           *)
LEMMA TraceForImportable ==
    ASSUME NEW run \in Run, NEW ev, PostFacts(ev)
    PROVE  Importable(TraceFor(run, ev))
<1>1. TraceFor(run, ev) \in Traces
  <2>1. CASE run.metadata = NoLaunch
    BY <2>1, DataAssumption DEF TraceFor
  <2>2. CASE run.metadata # NoLaunch
    <3>1. /\ run.metadata \in Launches
          /\ run.startTime \in Times \cup {0}
          /\ ev.time \in Times
      BY <2>2 DEF Run, PostFacts
    <3>2. TraceOf \in [Launches \X (Times \cup {0}) \X Times -> Traces]
      BY PostsAssumption
    <3>3. TraceOf[run.metadata, run.startTime, ev.time] \in Traces
      <4>1. <<run.metadata, run.startTime, ev.time>>
              \in Launches \X (Times \cup {0}) \X Times
        BY ONLY <3>1
      <4>2. QED BY ONLY <3>2, <4>1, Zenon
    <3>4. QED BY <2>2, <3>3 DEF TraceFor
  <2>3. QED BY <2>1, <2>2
<1>2. QED BY <1>1, TracesImportable

(* The result of every event.                                               *)
LEMMA ResultFields ==
    ASSUME NEW run \in Run, NEW ev, PostFacts(ev), ev.kind # "invalid"
    PROVE  ResultOf(Result(run, ev), run, ev)
<1>1. ev.kind \in {"started", "process", "completed", "error"}
  BY DEF PostFacts, Kinds
<1>2. QED BY <1>1, StartedResult, ProcessResult, CompletedResult, ErrorResult,
             TraceForImportable DEF Result

-----------------------------------------------------------------------------
(* What an event does to a store. *)

NewRunOf(S, ev) == Result(Named(FoundRun(S, ev), ev), ev)

(* The number of a new attempt was not given to a started run.              *)
LEMMA NewAttemptIsFresh ==
    ASSUME NEW S, StoreInv(S), NEW ev, PostFacts(ev), ev.kind = "started",
           Target(S, ev) \in DOMAIN S.runs
    PROVE  S.runs[Target(S, ev)].startTime = 0
<1> DEFINE b == ev.launch.runId
           n == S.attemptBySession[b]
<1>1. n \in Nat
  BY DEF PostFacts, StoreInv, StoreTypes
<1>2. Target(S, ev) = <<b, n + 1>>
  BY DEF Target
<1>3. S.runs[Target(S, ev)].startTime # 0 => n + 1 <= n
  BY <1>2 DEF StoreInv, StoreCounted
<1> HIDE DEF n
<1>4. QED BY <1>1, <1>3

(* The run that is stored: of the event's source and session, and keeping   *)
(* what was recorded of the run it was.                                     *)
LEMMA NewRunFields ==
    ASSUME NEW S, StoreInv(S), NEW ev, PostFacts(ev), ev.kind # "invalid"
    PROVE  /\ NewRunOf(S, ev) \in Run
           /\ NewRunOf(S, ev).runName = ev.launch.runName
           /\ NewRunOf(S, ev).nextflowRunId = ev.launch.runId
           /\ NewRunOf(S, ev).sessionId \in {NoId, ev.launch.runId}
           /\ Target(S, ev) \in DOMAIN S.runs => KeptRun(S.runs[Target(S, ev)], NewRunOf(S, ev))
           /\ ev.kind # "started" /\ NewRunOf(S, ev).startTime # 0 =>
                /\ Target(S, ev) \in DOMAIN S.runs
                /\ S.runs[Target(S, ev)].startTime # 0
           /\ ev.kind = "started" =>
                /\ NewRunOf(S, ev).startTime = ev.time
                /\ ev.meta => NewRunOf(S, ev).metadata = ev.launch
<1> DEFINE id == Target(S, ev)
           found == FoundRun(S, ev)
           named == Named(found, ev)
           new == NewRunOf(S, ev)
<1>1. /\ found \in Run /\ found.sessionId \in {NoId, ev.launch.runId}
      /\ id \in DOMAIN S.runs => found = S.runs[id]
      /\ id \notin DOMAIN S.runs => found.startTime = 0
  BY FoundFields
<1>2. /\ named \in Run
      /\ named.runName = ev.launch.runName /\ named.nextflowRunId = ev.launch.runId
      /\ named.sessionId = found.sessionId /\ named.startTime = found.startTime
      /\ named.metadata = found.metadata /\ named.status = found.status
      /\ named.tasks = found.tasks
  <2> HIDE DEF found
  <2>1. QED BY <1>1, NamedFields
<1>3. ResultOf(new, named, ev)
  <2> HIDE DEF named
  <2>1. ResultOf(Result(named, ev), named, ev)
    BY <1>2, ResultFields
  <2>2. QED BY <2>1 DEF NewRunOf, named, found
<1>4. ev.kind = "started" /\ id \in DOMAIN S.runs => S.runs[id].startTime = 0
  BY NewAttemptIsFresh
<1> HIDE DEF id, found, named, new
<1>5. CASE ev.kind = "started"
  <2>1. StartedFrom(new, named, ev)
    BY <1>3, <1>5 DEF ResultOf
  <2>2. new.sessionId \in {NoId, ev.launch.runId}
    BY <1>1, <1>2, <2>1 DEF StartedFrom
  <2>3. id \in DOMAIN S.runs => KeptRun(S.runs[id], new)
    BY <1>1, <1>2, <1>3, <1>4, <1>5 DEF ResultOf, TasksKept, KeptRun
  <2>4. QED BY <1>2, <1>3, <1>5, <2>1, <2>2, <2>3 DEF ResultOf, StartedFrom, id, new
<1>6. CASE ev.kind # "started"
  <2>1. UpdatedFrom(new, named)
    BY <1>3, <1>6 DEF ResultOf
  <2>2. id \in DOMAIN S.runs => KeptRun(S.runs[id], new)
    BY <1>1, <1>2, <1>3, <2>1 DEF ResultOf, UpdatedFrom, TasksKept, KeptRun
  <2>3. QED BY <1>1, <1>2, <1>3, <1>6, <2>1, <2>2 DEF ResultOf, UpdatedFrom, id, new
<1>7. QED BY <1>5, <1>6

(* An event keeps the invariant of the stores.                              *)
LEMMA AfterInv ==
    ASSUME NEW S, StoreInv(S), NEW ev, PostFacts(ev)
    PROVE  StoreInv(After(S, ev))
<1> DEFINE id == Target(S, ev)
           b == ev.launch.runId
           new == NewRunOf(S, ev)
           T == Handled(S, ev)
<1>1. CASE ev.kind = "invalid"
  BY <1>1 DEF After
<1>2. CASE ev.kind # "invalid"
  <2>1. id \in NumberedIds /\ id[1] = b /\ b \in RawIds /\ S.attemptBySession[b] \in Nat
    BY TargetIsLocal DEF PostFacts, StoreInv, StoreTypes
  <2>2. /\ new \in Run /\ new.sessionId \in {NoId, b}
        /\ ev.kind # "started" /\ new.startTime # 0 =>
             id \in DOMAIN S.runs /\ S.runs[id].startTime # 0
    BY <1>2, NewRunFields
  <2>3. sourceKey(ev) \in RawIds \X (Names \cup {NoId}) /\ sourceKey(ev)[1] = b
    BY DEF PostFacts
  <2>4. /\ T.runs = Put(S.runs, id, new)
        /\ T.routeBySource = Put(S.routeBySource, sourceKey(ev), id)
        /\ T.latestRunBySession = Put(S.latestRunBySession, b, id)
        /\ T.latestRunByNextflowID = Put(S.latestRunByNextflowID, b, id)
        /\ T.attemptBySession = IF ev.kind = "started"
                                THEN [S.attemptBySession EXCEPT ![b] = @ + 1]
                                ELSE S.attemptBySession
    BY DEF Handled, NewRunOf
  <2>5. ev.kind = "started" => id = <<b, S.attemptBySession[b] + 1>>
    BY DEF Target
  <2> HIDE DEF id, b, new, T
  <2>6. StoreTypes(T)
    <3>1. /\ IsMap(T.runs, NumberedIds, Run)
          /\ IsMap(T.routeBySource, RawIds \X (Names \cup {NoId}), NumberedIds)
          /\ IsMap(T.latestRunBySession, RawIds, NumberedIds)
          /\ IsMap(T.latestRunByNextflowID, RawIds, NumberedIds)
      BY <2>1, <2>2, <2>3, <2>4 DEF StoreInv, StoreTypes, IsMap, Put, NumberedIds
    <3>2. T.attemptBySession \in [RawIds -> Nat]
      BY <2>1, <2>4 DEF StoreInv, StoreTypes
    <3>3. QED BY <3>1, <3>2 DEF StoreTypes, NumberedIds
  <2>7. StoreLocal(T)
    BY <2>1, <2>2, <2>3, <2>4 DEF StoreInv, StoreLocal, Put
  <2>8. StoreCounted(T)
    <3>1. \A c \in RawIds : /\ S.attemptBySession[c] \in Nat
                            /\ T.attemptBySession[c] \in Nat
                            /\ S.attemptBySession[c] <= T.attemptBySession[c]
      BY <2>1, <2>4 DEF StoreInv, StoreTypes
    <3>2. ev.kind = "started" => T.attemptBySession[b] = S.attemptBySession[b] + 1
      BY <2>1, <2>4 DEF StoreInv, StoreTypes
    <3>3. SUFFICES ASSUME NEW o \in DOMAIN T.runs, T.runs[o].startTime # 0
                   PROVE  o[2] <= T.attemptBySession[o[1]]
      BY DEF StoreCounted
    <3>4. CASE o = id /\ ev.kind = "started"
      BY <2>1, <2>5, <3>2, <3>4
    <3>5. CASE ~(o = id /\ ev.kind = "started")
      <4>1. o \in DOMAIN S.runs /\ S.runs[o].startTime # 0
        BY <2>2, <2>4, <3>3, <3>5 DEF Put
      <4>2. o \in NumberedIds /\ o[2] <= S.attemptBySession[o[1]]
        BY <4>1 DEF StoreInv, StoreTypes, StoreCounted, IsMap, NumberedIds
      <4>3. o[1] \in RawIds /\ o[2] \in Nat
        BY <4>2 DEF NumberedIds
      <4>4. QED BY <3>1, <4>2, <4>3
    <3>6. QED BY <3>4, <3>5
  <2>9. QED BY <1>2, <2>6, <2>7, <2>8 DEF StoreInv, After, T
<1>3. QED BY <1>1, <1>2

(* An event keeps what was recorded of every run.                           *)
LEMMA AfterKeeps ==
    ASSUME NEW S, StoreInv(S), NEW ev, PostFacts(ev)
    PROVE  Keeps(S, After(S, ev))
<1> DEFINE id == Target(S, ev)
           new == NewRunOf(S, ev)
<1>1. \A o \in DOMAIN S.runs : KeptRun(S.runs[o], S.runs[o])
  BY DEF KeptRun
<1>2. CASE ev.kind = "invalid"
  BY <1>1, <1>2 DEF After, Keeps
<1>3. CASE ev.kind # "invalid"
  <2>1. id \in DOMAIN S.runs => KeptRun(S.runs[id], new)
    BY <1>3, NewRunFields
  <2>2. After(S, ev).runs = Put(S.runs, id, new)
    BY <1>3 DEF After, Handled, NewRunOf
  <2> HIDE DEF id, new
  <2>3. QED BY <1>1, <2>1, <2>2 DEF Keeps, Put
<1>4. QED BY <1>2, <1>3

(* What is kept twice is kept.                                              *)
LEMMA KeepsTransitive ==
    ASSUME NEW S, NEW T, NEW U, Keeps(S, T), Keeps(T, U)
    PROVE  Keeps(S, U)
<1>1. SUFFICES ASSUME NEW id \in DOMAIN S.runs
               PROVE  id \in DOMAIN U.runs /\ KeptRun(S.runs[id], U.runs[id])
  BY DEF Keeps
<1>2. /\ id \in DOMAIN T.runs /\ KeptRun(S.runs[id], T.runs[id])
      /\ id \in DOMAIN U.runs /\ KeptRun(T.runs[id], U.runs[id])
  BY <1>1 DEF Keeps
<1>3. QED BY <1>2 DEF KeptRun

-----------------------------------------------------------------------------
(* Stores that agree on a runId. *)

(* Agreement is an equivalence.                                             *)
LEMMA AgreeEquivalence ==
    ASSUME NEW S, NEW T, NEW U, NEW b
    PROVE  /\ Agree(S, S, b)
           /\ Agree(S, T, b) => Agree(T, S, b)
           /\ Agree(S, T, b) /\ Agree(T, U, b) => Agree(S, U, b)
<1>1. Agree(S, S, b)
  BY DEF Agree, Same
<1>2. Agree(S, T, b) => Agree(T, S, b)
  BY DEF Agree, Same
<1>3. Agree(S, T, b) /\ Agree(T, U, b) => Agree(S, U, b)
  BY DEF Agree, Same
<1>4. QED BY <1>1, <1>2, <1>3

(* An event changes nothing of another runId.                               *)
LEMMA OthersUntouched ==
    ASSUME NEW S, StoreInv(S), NEW ev, PostFacts(ev), NEW b \in RawIds, b # ev.launch.runId
    PROVE  Agree(After(S, ev), S, b)
<1> DEFINE id == Target(S, ev)
           c == ev.launch.runId
           new == NewRunOf(S, ev)
           T == Handled(S, ev)
<1>1. CASE ev.kind = "invalid"
  BY <1>1, AgreeEquivalence DEF After
<1>2. CASE ev.kind # "invalid"
  <2>1. id[1] = c /\ sourceKey(ev)[1] = c /\ c \in RawIds /\ S.attemptBySession \in [RawIds -> Nat]
    <3>1. id[1] = c
      BY TargetIsLocal
    <3>2. sourceKey(ev)[1] = c /\ c \in RawIds
      BY DEF PostFacts
    <3>3. QED BY <3>1, <3>2 DEF StoreInv, StoreTypes
  <2>2. /\ T.runs = Put(S.runs, id, new)
        /\ T.routeBySource = Put(S.routeBySource, sourceKey(ev), id)
        /\ T.latestRunBySession = Put(S.latestRunBySession, c, id)
        /\ T.latestRunByNextflowID = Put(S.latestRunByNextflowID, c, id)
        /\ T.attemptBySession = IF ev.kind = "started"
                                THEN [S.attemptBySession EXCEPT ![c] = @ + 1]
                                ELSE S.attemptBySession
    BY DEF Handled, NewRunOf
  <2>3. b # c
    OBVIOUS
  <2> HIDE DEF id, c, new, T
  <2>4. T.attemptBySession[b] = S.attemptBySession[b]
    BY <2>1, <2>2, <2>3
  <2>5. Agree(T, S, b)
    BY <2>1, <2>2, <2>3, <2>4 DEF Agree, Same, Put
  <2>6. QED BY <1>2, <2>5 DEF After, T
<1>3. QED BY <1>1, <1>2

(* Handled by stores that agree on its runId, an event goes to the same run.*)
LEMMA SameTarget ==
    ASSUME NEW S, StoreInv(S), NEW T, StoreInv(T), NEW ev, PostFacts(ev),
           Agree(S, T, ev.launch.runId)
    PROVE  Target(S, ev) = Target(T, ev) /\ NewRunOf(S, ev) = NewRunOf(T, ev)
<1> DEFINE b == ev.launch.runId
<1>1. sourceKey(ev)[1] = b
  BY DEF PostFacts
<1>2. /\ Same(S.routeBySource, T.routeBySource, sourceKey(ev))
      /\ Same(S.latestRunBySession, T.latestRunBySession, b)
      /\ Same(S.latestRunByNextflowID, T.latestRunByNextflowID, b)
      /\ S.attemptBySession[b] = T.attemptBySession[b]
  BY <1>1 DEF Agree, Same
<1>3. Target(S, ev) = Target(T, ev)
  BY <1>2 DEF Target, Same
<1>4. Target(S, ev)[1] = b
  BY TargetIsLocal
<1>5. Same(S.runs, T.runs, Target(S, ev))
  BY <1>4 DEF Agree, Same
<1>6. FoundRun(S, ev) = FoundRun(T, ev)
  BY <1>3, <1>5 DEF FoundRun, Same
<1>7. QED BY <1>3, <1>6 DEF NewRunOf

(* They still agree afterwards.                                             *)
LEMMA AfterAgrees ==
    ASSUME NEW S, StoreInv(S), NEW T, StoreInv(T), NEW ev, PostFacts(ev),
           Agree(S, T, ev.launch.runId)
    PROVE  Agree(After(S, ev), After(T, ev), ev.launch.runId)
<1> DEFINE id == Target(S, ev)
           b == ev.launch.runId
           new == NewRunOf(S, ev)
           U == Handled(S, ev)
           V == Handled(T, ev)
<1>1. CASE ev.kind = "invalid"
  BY <1>1 DEF After
<1>2. CASE ev.kind # "invalid"
  <2>1. id = Target(T, ev) /\ new = NewRunOf(T, ev)
    BY SameTarget
  <2>2. /\ U.runs = Put(S.runs, id, new) /\ V.runs = Put(T.runs, id, new)
        /\ U.routeBySource = Put(S.routeBySource, sourceKey(ev), id)
        /\ V.routeBySource = Put(T.routeBySource, sourceKey(ev), id)
        /\ U.latestRunBySession = Put(S.latestRunBySession, b, id)
        /\ V.latestRunBySession = Put(T.latestRunBySession, b, id)
        /\ U.latestRunByNextflowID = Put(S.latestRunByNextflowID, b, id)
        /\ V.latestRunByNextflowID = Put(T.latestRunByNextflowID, b, id)
        /\ U.attemptBySession = IF ev.kind = "started"
                                THEN [S.attemptBySession EXCEPT ![b] = @ + 1]
                                ELSE S.attemptBySession
        /\ V.attemptBySession = IF ev.kind = "started"
                                THEN [T.attemptBySession EXCEPT ![b] = @ + 1]
                                ELSE T.attemptBySession
    BY <2>1 DEF Handled, NewRunOf
  <2>3. /\ S.attemptBySession \in [RawIds -> Nat] /\ T.attemptBySession \in [RawIds -> Nat]
        /\ b \in RawIds
    BY DEF StoreInv, StoreTypes, PostFacts
  <2>4. Agree(S, T, b)
    OBVIOUS
  <2> HIDE DEF id, b, new, U, V
  <2>5. U.attemptBySession[b] = V.attemptBySession[b]
    BY <2>2, <2>3, <2>4 DEF Agree
  <2>6. \A o \in DOMAIN U.runs \cup DOMAIN V.runs : o[1] = b => Same(U.runs, V.runs, o)
    BY <2>2, <2>4 DEF Agree, Same, Put
  <2>7. \A k \in DOMAIN U.routeBySource \cup DOMAIN V.routeBySource :
          k[1] = b => Same(U.routeBySource, V.routeBySource, k)
    BY <2>2, <2>4 DEF Agree, Same, Put
  <2>8. /\ Same(U.latestRunBySession, V.latestRunBySession, b)
        /\ Same(U.latestRunByNextflowID, V.latestRunByNextflowID, b)
    BY <2>2 DEF Same, Put
  <2>9. Agree(U, V, b)
    BY <2>5, <2>6, <2>7, <2>8 DEF Agree
  <2>10. QED BY <1>2, <2>9 DEF After, U, V, b
<1>3. QED BY <1>1, <1>2

(* Stores that agree everywhere hold the same.                              *)
LEMMA AgreeEverywhere ==
    ASSUME NEW S, StoreInv(S), NEW T, StoreInv(T), \A b \in RawIds : Agree(S, T, b)
    PROVE  /\ S.runs = T.runs /\ S.routeBySource = T.routeBySource
           /\ S.latestRunBySession = T.latestRunBySession
           /\ S.latestRunByNextflowID = T.latestRunByNextflowID
           /\ S.attemptBySession = T.attemptBySession
<1>1. S.runs = T.runs
  <2>1. \A id \in DOMAIN S.runs \cup DOMAIN T.runs : id[1] \in RawIds
    BY DEF StoreInv, StoreTypes, IsMap, NumberedIds
  <2>2. \A id \in DOMAIN S.runs \cup DOMAIN T.runs : Same(S.runs, T.runs, id)
    BY <2>1 DEF Agree
  <2>3. S.runs \in [DOMAIN S.runs -> Run] /\ T.runs \in [DOMAIN T.runs -> Run]
    BY DEF StoreInv, StoreTypes, IsMap
  <2>4. QED BY ONLY <2>2, <2>3 DEF Same
<1>2. S.routeBySource = T.routeBySource
  <2>1. \A k \in DOMAIN S.routeBySource \cup DOMAIN T.routeBySource : k[1] \in RawIds
    BY DEF StoreInv, StoreTypes, IsMap
  <2>2. \A k \in DOMAIN S.routeBySource \cup DOMAIN T.routeBySource :
          Same(S.routeBySource, T.routeBySource, k)
    BY <2>1 DEF Agree
  <2>3. /\ S.routeBySource \in [DOMAIN S.routeBySource -> NumberedIds]
        /\ T.routeBySource \in [DOMAIN T.routeBySource -> NumberedIds]
    BY DEF StoreInv, StoreTypes, IsMap, NumberedIds
  <2>4. QED BY ONLY <2>2, <2>3 DEF Same
<1>3. S.latestRunBySession = T.latestRunBySession
  <2>1. /\ S.latestRunBySession \in [DOMAIN S.latestRunBySession -> NumberedIds]
        /\ T.latestRunBySession \in [DOMAIN T.latestRunBySession -> NumberedIds]
        /\ DOMAIN S.latestRunBySession \subseteq RawIds
        /\ DOMAIN T.latestRunBySession \subseteq RawIds
    BY DEF StoreInv, StoreTypes, IsMap, NumberedIds
  <2>2. \A b \in RawIds : Same(S.latestRunBySession, T.latestRunBySession, b)
    BY DEF Agree
  <2>3. QED BY ONLY <2>1, <2>2 DEF Same
<1>4. S.latestRunByNextflowID = T.latestRunByNextflowID
  <2>1. /\ S.latestRunByNextflowID \in [DOMAIN S.latestRunByNextflowID -> NumberedIds]
        /\ T.latestRunByNextflowID \in [DOMAIN T.latestRunByNextflowID -> NumberedIds]
        /\ DOMAIN S.latestRunByNextflowID \subseteq RawIds
        /\ DOMAIN T.latestRunByNextflowID \subseteq RawIds
    BY DEF StoreInv, StoreTypes, IsMap, NumberedIds
  <2>2. \A b \in RawIds : Same(S.latestRunByNextflowID, T.latestRunByNextflowID, b)
    BY DEF Agree
  <2>3. QED BY ONLY <2>1, <2>2 DEF Same
<1>5. S.attemptBySession = T.attemptBySession
  BY DEF Agree, StoreInv, StoreTypes
<1>6. QED BY <1>1, <1>2, <1>3, <1>4, <1>5

-----------------------------------------------------------------------------
(* HandleEvent is that function. *)

(* Where the handlers put the run of an event.                              *)
LEMMA TargetOfStore ==
    ASSUME NEW ev, PostFacts(ev)
    PROVE  /\ ev.kind = "started" => allocateMonitorRun(ev) = Target(Store, ev)
           /\ ev.kind # "started" => resolveMonitorRunID(ev) = Target(Store, ev)
<1>1. ev.kind = "started" => allocateMonitorRun(ev) = Target(Store, ev)
  BY DEF allocateMonitorRun, Target, Store, PostFacts
<1>2. ev.kind # "started" => resolveMonitorRunID(ev) = Target(Store, ev)
  BY DEF resolveMonitorRunID, Target, Store, PostFacts
<1>3. QED BY <1>1, <1>2

(* What ensureRun returns to them.                                          *)
LEMMA EnsuredOfStore ==
    ASSUME NEW ev, PostFacts(ev)
    PROVE  ensureRun(ev, Target(Store, ev), IF ev.kind = "started" THEN Target(Store, ev)[2] ELSE 1)
             = Named(FoundRun(Store, ev), ev)
<1> DEFINE id == Target(Store, ev)
           attempt == IF ev.kind = "started" THEN id[2] ELSE 1
           run == IF id \in DOMAIN runs THEN runs[id] ELSE newRun(ev, attempt)
<1>1. FoundRun(Store, ev) = run
  BY DEF FoundRun, Store
<1>2. \A x : NonEmpty(ev.launch.runName, x) = ev.launch.runName
             /\ NonEmpty(RunIdOf(ev), x) = ev.launch.runId
  BY DEF PostFacts, NonEmpty
<1>3. ensureRun(ev, id, attempt) =
        [run EXCEPT !.runName = NonEmpty(ev.launch.runName, @),
                    !.nextflowRunId = NonEmpty(RunIdOf(ev), @),
                    !.isResume = @ \/ ResumeOf(ev)]
  BY DEF ensureRun
<1> HIDE DEF run
<1>4. QED BY <1>1, <1>2, <1>3 DEF Named

(* The handlers' common end sets all the routes of the event.               *)
LEMMA UpdateOfStore ==
    ASSUME NEW ev, PostFacts(ev), StoreInv(Store), ev.kind # "invalid",
           Update(Target(Store, ev), NewRunOf(Store, ev)),
           attemptBySession' = IF ev.kind = "started"
                               THEN [attemptBySession EXCEPT ![AttemptKey(ev)] = @ + 1]
                               ELSE attemptBySession
    PROVE  Store' = After(Store, ev) /\ latestRunID' = Target(Store, ev)
<1> DEFINE id == Target(Store, ev)
           b == ev.launch.runId
           new == NewRunOf(Store, ev)
<1>1. new.runName = ev.launch.runName /\ new.nextflowRunId = b /\ new.sessionId \in {NoId, b}
  BY NewRunFields
<1>2. b # NoId /\ sourceKey(ev) = <<b, ev.launch.runName>> /\ AttemptKey(ev) = b
  BY DEF PostFacts
<1>3. sessionKey(new) = b
  BY <1>1 DEF sessionKey, NonEmpty
<1>4. Update(id, new)
  OBVIOUS
<1>5. Handled(Store, ev) =
        [runs |-> Put(runs, id, new),
         routeBySource |-> Put(routeBySource, sourceKey(ev), id),
         latestRunBySession |-> Put(latestRunBySession, b, id),
         latestRunByNextflowID |-> Put(latestRunByNextflowID, b, id),
         attemptBySession |-> IF ev.kind = "started"
                              THEN [attemptBySession EXCEPT ![b] = @ + 1]
                              ELSE attemptBySession]
  BY DEF Handled, Store, NewRunOf
<1> HIDE DEF id, b, new
<1>6. /\ runs' = Put(runs, id, new)
      /\ routeBySource' = Put(routeBySource, sourceKey(ev), id)
      /\ latestRunBySession' = Put(latestRunBySession, b, id)
      /\ latestRunByNextflowID' = Put(latestRunByNextflowID, b, id)
      /\ latestRunID' = id
  BY <1>1, <1>2, <1>3, <1>4 DEF Update, registerRunRouting
<1>7. Store' = Handled(Store, ev)
  BY <1>2, <1>5, <1>6 DEF Store
<1>8. QED BY <1>6, <1>7 DEF After, id

(* HandleEvent, whichever its case.                                         *)
LEMMA HandleEventIsAfter ==
    ASSUME NEW ev, PostFacts(ev), StoreInv(Store), HandleEvent(ev)
    PROVE  Store' = After(Store, ev) /\ latestRunID' = Target(Store, ev)
<1> DEFINE id == Target(Store, ev)
           run == Named(FoundRun(Store, ev), ev)
<1>1. CASE ev.kind = "started"
  <2>1. Started(ev)
    BY <1>1 DEF HandleEvent
  <2>2. allocateMonitorRun(ev) = id /\ ensureRun(ev, id, id[2]) = run
    BY <1>1, TargetOfStore, EnsuredOfStore
  <2>3. NewRunOf(Store, ev) = startedRun(run, ev)
    BY <1>1 DEF NewRunOf, Result
  <2> HIDE DEF id, run
  <2>4. /\ Update(id, startedRun(run, ev))
        /\ attemptBySession' = [attemptBySession EXCEPT ![AttemptKey(ev)] = @ + 1]
    BY <2>1, <2>2 DEF Started, HandleStarted
  <2>5. QED BY <1>1, <2>3, <2>4, UpdateOfStore DEF id
<1>2. CASE ev.kind # "started"
  <2>1. resolveMonitorRunID(ev) = id /\ resolvedRun(ev) = run
    BY <1>2, TargetOfStore, EnsuredOfStore DEF resolvedRun
  <2> HIDE DEF id, run
  <2>2. CASE ev.kind = "process"
    <3>1. NewRunOf(Store, ev) = processedRun(run, ev.task, ev.status)
      BY <2>2 DEF NewRunOf, Result, run
    <3>2. /\ Update(id, processedRun(run, ev.task, ev.status))
          /\ attemptBySession' = attemptBySession
      BY <2>1, <2>2 DEF HandleEvent, Process, HandleProcess
    <3>3. QED BY <2>2, <3>1, <3>2, UpdateOfStore DEF id
  <2>3. CASE ev.kind = "completed"
    <3>1. FoundFor(ev) = TraceFor(run, ev)
      BY <2>1 DEF FoundFor, TraceFor
    <3>2. NewRunOf(Store, ev) = completedRun(run, ev, ev.failed, TraceFor(run, ev))
      BY <2>3 DEF NewRunOf, Result, run
    <3>3. /\ Update(id, completedRun(run, ev, ev.failed, TraceFor(run, ev)))
          /\ attemptBySession' = attemptBySession
      BY <2>1, <2>3, <3>1 DEF HandleEvent, Completed, HandleCompleted
    <3>4. QED BY <2>3, <3>2, <3>3, UpdateOfStore DEF id
  <2>4. CASE ev.kind = "error"
    <3>1. NewRunOf(Store, ev) = failedRun(run, ev, ev.failed)
      BY <2>4 DEF NewRunOf, Result, run
    <3>2. Update(id, failedRun(run, ev, ev.failed)) /\ attemptBySession' = attemptBySession
      BY <2>1, <2>4 DEF HandleEvent, Error, HandleError
    <3>3. QED BY <2>4, <3>1, <3>2, UpdateOfStore DEF id
  <2>5. QED BY <1>2, <2>2, <2>3, <2>4 DEF HandleEvent
<1>3. QED BY <1>1, <1>2

-----------------------------------------------------------------------------
(* Types, and one request at a time. *)

Environment == DistinctSources /\ SessionPerBase /\ SerialSessions

(* The store of a monitor that has just started.                            *)
LEMMA EmptyStoreInv == StoreInv(EmptyStore)
<1>1. \A K, V : IsMap(NoEntries, K, V)
  BY DEF NoEntries, IsMap
<1>2. DOMAIN NoEntries = {}
  BY DEF NoEntries
<1>3. [k \in Ids \cup {NoId} |-> 0] \in [RawIds -> Nat]
  BY DEF RawIds
<1>4. StoreTypes(EmptyStore)
  BY <1>1, <1>3 DEF StoreTypes, EmptyStore
<1>5. StoreLocal(EmptyStore) /\ StoreCounted(EmptyStore)
  BY <1>2 DEF StoreLocal, StoreCounted, EmptyStore
<1>6. QED BY <1>4, <1>5 DEF StoreInv

(* A request that goes on may end, but no other begins.                     *)
LEMMA GoingOn ==
    ASSUME MonitorTypes, OneAtATime, NEW l \in Launches, request[l].pc # "idle",
           NEW next, Goto(l, next)
    PROVE  OneAtATime'
<1>1. /\ request'[l] = next
      /\ \A m \in Launches : m # l => request'[m] = request[m]
  BY DEF MonitorTypes, Goto
<1>2. QED BY <1>1 DEF OneAtATime

(* A request's next stage.                                                  *)
LEMMA RequestTypes ==
    ASSUME MonitorTypes, NEW l \in Launches, NEW next \in Requests, Goto(l, next),
           next.pc = "handle" => next.event.launch = l /\ next.event.kind # "invalid"
    PROVE  /\ request' \in [Launches -> Requests]
           /\ \A m \in Launches : request'[m].pc = "handle" =>
                request'[m].event.launch = m /\ request'[m].event.kind # "invalid"
  BY DEF MonitorTypes, Goto

(* Handling a posted event keeps the store's invariant.                     *)
LEMMA HandlingKeepsStoreInv ==
    ASSUME Environment, StoreInv(Store), NEW ev \in Posts, HandleEvent(ev)
    PROVE  /\ PostFacts(ev)
           /\ Store' = After(Store, ev) /\ StoreInv(Store')
           /\ latestRunID' = Target(Store, ev) /\ latestRunID' \in NumberedIds
<1>1. PostFacts(ev)
  BY PostsAreLocal DEF Environment
<1>2. Store' = After(Store, ev) /\ latestRunID' = Target(Store, ev)
  BY <1>1, HandleEventIsAfter
<1>3. StoreInv(After(Store, ev)) /\ Target(Store, ev) \in NumberedIds
  BY <1>1, AfterInv, TargetIsLocal
<1>4. QED BY <1>1, <1>2, <1>3

(* Every step keeps the types, and one request at a time.                   *)
LEMMA TypesStep ==
    ASSUME Environment, MonitorTypes, OneAtATime, [MonitorNext]_monitorVars
    PROVE  MonitorTypes' /\ OneAtATime' /\ lost' >= lost
<1> USE DEF Idle
<1>1. ASSUME NEW ev \in Posts, Receive(ev)
      PROVE  MonitorTypes' /\ OneAtATime' /\ lost' >= lost
  <2> DEFINE l == ev.launch
             next == IF ev.kind = "invalid" THEN [pc |-> "idle"] ELSE [pc |-> "handle", event |-> ev]
  <2>1. l \in Launches
    BY PostsAreLocal DEF Environment, PostFacts
  <2>2. next \in Requests /\ (next.pc = "handle" => next.event.launch = l /\ next.event.kind # "invalid")
    BY DEF Requests
  <2>3. Goto(l, next)
    BY <1>1 DEF Receive
  <2>4. \A m \in Launches : m.runId = l.runId => request[m].pc = "idle"
    BY <1>1 DEF Receive, MayNotOverlap, Environment
  <2> HIDE DEF next, l
  <2>5. /\ request' \in [Launches -> Requests]
        /\ \A m \in Launches : request'[m].pc = "handle" =>
             request'[m].event.launch = m /\ request'[m].event.kind # "invalid"
    BY <2>1, <2>2, <2>3, RequestTypes
  <2>6. OneAtATime'
    <3>1. \A m \in Launches : m # l => request'[m] = request[m]
      BY <2>1, <2>3 DEF Goto, MonitorTypes
    <3>2. QED BY <2>1, <2>4, <3>1 DEF OneAtATime
  <2>7. events' \in Seq(Posts) /\ Len(events') >= Len(events) /\ lost' \in Nat /\ lost' >= lost
    <3>1. \/ events' = Append(events, ev) /\ lost' = lost
          \/ events' = events /\ lost' = lost + 1
      BY <1>1 DEF Receive, Save
    <3>2. events \in Seq(Posts) /\ lost \in Nat
      BY DEF MonitorTypes
    <3>3. QED BY ONLY <3>1, <3>2, ev \in Posts
  <2>8. /\ Store' = Store /\ dagDots' = dagDots /\ layouts' = layouts
        /\ phase' = phase /\ replayed' = replayed /\ crashes' = crashes
    BY <1>1 DEF Receive, vars, storeVars, Store
  <2>9. replayed' \in 0 .. Len(events')
    BY <2>7, <2>8 DEF MonitorTypes
  <2>10. QED BY <2>5, <2>6, <2>7, <2>8, <2>9 DEF MonitorTypes
<1>2. ASSUME NEW l \in Launches, Handle(l)
      PROVE  MonitorTypes' /\ OneAtATime' /\ lost' >= lost
  <2> DEFINE ev == request[l].event
             next == IF LooksForDAG(ev) THEN [pc |-> "discover", run |-> latestRunID'] ELSE [pc |-> "idle"]
  <2>1. request[l] \in Requests /\ request[l].pc = "handle"
    BY <1>2 DEF Handle, MonitorTypes
  <2>2. ev \in Posts
    BY <2>1 DEF Requests
  <2>3. HandleEvent(ev) /\ Goto(l, next)
    BY <1>2 DEF Handle, MonitorRunID
  <2> HIDE DEF ev
  <2>4. StoreInv(Store') /\ latestRunID' \in NumberedIds
    BY <2>2, <2>3, HandlingKeepsStoreInv DEF MonitorTypes
  <2>5. next \in Requests /\ next.pc # "handle"
    BY <2>4 DEF Requests
  <2> HIDE DEF next
  <2>6. /\ request' \in [Launches -> Requests]
        /\ \A m \in Launches : request'[m].pc = "handle" =>
             request'[m].event.launch = m /\ request'[m].event.kind # "invalid"
    BY <2>3, <2>5, RequestTypes
  <2>7. OneAtATime'
    BY <2>1, <2>3, GoingOn
  <2>8. UNCHANGED <<events, dagDots, layouts, phase, replayed, crashes, lost>>
    BY <1>2 DEF Handle
  <2>9. QED BY <2>4, <2>6, <2>7, <2>8 DEF MonitorTypes
<1>3. ASSUME NEW l \in Launches, DiscoverDAG(l)
      PROVE  MonitorTypes' /\ OneAtATime' /\ lost' >= lost
  <2> DEFINE next == IF l \in Dags THEN [request[l] EXCEPT !.pc = "saveDAG"] ELSE [pc |-> "idle"]
  <2>1. request[l] \in Requests /\ request[l].pc = "discover"
    BY <1>3 DEF DiscoverDAG, MonitorTypes
  <2>2. next \in Requests /\ next.pc # "handle"
    BY <2>1 DEF Requests
  <2>3. Goto(l, next)
    BY <1>3 DEF DiscoverDAG
  <2> HIDE DEF next
  <2>4. /\ request' \in [Launches -> Requests]
        /\ \A m \in Launches : request'[m].pc = "handle" =>
             request'[m].event.launch = m /\ request'[m].event.kind # "invalid"
    BY <2>2, <2>3, RequestTypes
  <2>5. OneAtATime'
    BY <2>1, <2>3, GoingOn
  <2>6. layouts' \in [DOMAIN layouts' -> Launches]
    BY <1>3 DEF DiscoverDAG, MonitorTypes, Put
  <2>7. Store' = Store /\ UNCHANGED <<events, dagDots, phase, replayed, crashes, lost>>
    BY <1>3 DEF DiscoverDAG, vars, storeVars, Store
  <2>8. QED BY <2>4, <2>5, <2>6, <2>7 DEF MonitorTypes
<1>4. ASSUME NEW l \in Launches, SaveDAG(l)
      PROVE  MonitorTypes' /\ OneAtATime' /\ lost' >= lost
  <2> DEFINE next == [pc |-> "idle"]
  <2>1. request[l].pc = "saveDAG" /\ Goto(l, next)
    BY <1>4 DEF SaveDAG
  <2>2. next \in Requests /\ next.pc # "handle"
    BY DEF Requests
  <2> HIDE DEF next
  <2>3. /\ request' \in [Launches -> Requests]
        /\ \A m \in Launches : request'[m].pc = "handle" =>
             request'[m].event.launch = m /\ request'[m].event.kind # "invalid"
    BY <2>1, <2>2, RequestTypes
  <2>4. OneAtATime'
    BY <2>1, GoingOn
  <2>5. dagDots' \in [DOMAIN dagDots' -> Launches] /\ lost' \in Nat /\ lost' >= lost
    BY <1>4 DEF SaveDAG, MonitorTypes, Put
  <2>6. Store' = Store /\ UNCHANGED <<events, layouts, phase, replayed, crashes>>
    BY <1>4 DEF SaveDAG, vars, storeVars, Store
  <2>7. QED BY <2>3, <2>4, <2>5, <2>6 DEF MonitorTypes
<1>5. ASSUME Crash
      PROVE  MonitorTypes' /\ OneAtATime' /\ lost' >= lost
  <2>1. Store' = EmptyStore
    BY <1>5 DEF Crash, Store, EmptyStore
  <2>2. request' = [l \in Launches |-> [pc |-> "idle"]]
    BY <1>5 DEF Crash
  <2>3. [pc |-> "idle"] \in Requests
    BY DEF Requests
  <2>4. layouts' \in [DOMAIN layouts' -> Launches]
    BY <1>5 DEF Crash, NoEntries
  <2>5. /\ phase' = "replaying" /\ replayed' = 0 /\ crashes' = crashes + 1
        /\ UNCHANGED <<events, dagDots, lost>>
    BY <1>5 DEF Crash
  <2>6. StoreInv(Store')
    BY <2>1, EmptyStoreInv
  <2>7. MonitorTypes'
    BY <2>2, <2>3, <2>4, <2>5, <2>6 DEF MonitorTypes
  <2>8. OneAtATime'
    BY <2>2 DEF OneAtATime
  <2>9. QED BY <2>5, <2>7, <2>8 DEF MonitorTypes
<1>6. ASSUME ReplayEvent
      PROVE  MonitorTypes' /\ OneAtATime' /\ lost' >= lost
  <2>1. StoreInv(Store')
    <3> DEFINE ev == events[replayed + 1]
    <3>1. ev \in Posts
      BY <1>6 DEF ReplayEvent, MonitorTypes
    <3>2. CASE ev.kind = "invalid"
      BY <1>6, <3>2 DEF ReplayEvent, MonitorTypes, vars, storeVars, Store
    <3>3. CASE ev.kind # "invalid"
      <4>1. HandleEvent(ev)
        BY <1>6, <3>3 DEF ReplayEvent
      <4> HIDE DEF ev
      <4>2. QED BY <3>1, <4>1, HandlingKeepsStoreInv DEF MonitorTypes
    <3>4. QED BY <3>2, <3>3
  <2>2. /\ replayed' \in 0 .. Len(events)
        /\ UNCHANGED <<events, dagDots, layouts, request, phase, crashes, lost>>
    BY <1>6 DEF ReplayEvent, MonitorTypes
  <2>3. QED BY <2>1, <2>2 DEF MonitorTypes, OneAtATime
<1>7. ASSUME LoadAllFails
      PROVE  MonitorTypes' /\ OneAtATime' /\ lost' >= lost
  <2>1. /\ Store' = Store /\ replayed' = Len(events) /\ lost' = lost + 1
        /\ UNCHANGED <<events, dagDots, layouts, request, phase, crashes>>
    BY <1>7 DEF LoadAllFails, vars, storeVars, Store
  <2>2. QED BY <2>1 DEF MonitorTypes, OneAtATime
<1>8. ASSUME LoadDAGs
      PROVE  MonitorTypes' /\ OneAtATime' /\ lost' >= lost
  <2>1. /\ Store' = Store /\ phase' = "serving" /\ lost' \in Nat /\ lost' >= lost
        /\ UNCHANGED <<events, dagDots, request, replayed, crashes>>
    BY <1>8 DEF LoadDAGs, vars, storeVars, Store, MonitorTypes
  <2>2. layouts' \in [DOMAIN layouts' -> Launches]
    BY <1>8 DEF LoadDAGs, NoEntries, MonitorTypes
  <2>3. QED BY <2>1, <2>2 DEF MonitorTypes, OneAtATime
<1>9. CASE UNCHANGED monitorVars
  <2>1. Store' = Store /\ UNCHANGED <<events, dagDots, layouts, request, phase, replayed, crashes, lost>>
    BY <1>9 DEF monitorVars, serverVars, vars, storeVars, Store
  <2>2. QED BY <2>1 DEF MonitorTypes, OneAtATime
<1>10. QED BY <1>1, <1>2, <1>3, <1>4, <1>5, <1>6, <1>7, <1>8, <1>9 DEF MonitorNext

-----------------------------------------------------------------------------
(* While nothing is lost. *)

(* The stores the log leads through.                                        *)
LEMMA FinalInv ==
    ASSUME MonitorTypes, NEW g, Chain(g)
    PROVE  StoreInv(Final(g)) /\ Len(events) \in Nat
<1>1. Len(events) \in Nat
  BY DEF MonitorTypes
<1>2. QED BY <1>1 DEF Chain, Final

(* Requests are in progress only while serving, and then events followed    *)
(* the last start.                                                          *)
LEMMA RequestsServe ==
    ASSUME MonitorTypes, NEW g, NothingLost(g), NEW l \in Launches, request[l].pc # "idle"
    PROVE  phase = "serving" /\ replayed # Len(events)
  BY DEF MonitorTypes, NothingLost, Replaying, Serving, Quiet

(* What a later store keeps includes whose run it is.                       *)
LEMMA OwnedKept ==
    ASSUME NEW S, NEW T, Keeps(S, T), NEW id, NEW l, Owned(S, id, l)
    PROVE  Owned(T, id, l)
  BY DEF Keeps, KeptRun, Owned

(* Handling the pending event of a runId, if any, leads to the end of the   *)
(* log; so the end of the log keeps what the store has.                     *)
LEMMA FinalKeeps ==
    ASSUME Environment, MonitorTypes, NEW g, NothingLost(g), phase = "serving"
    PROVE  Keeps(Store, Final(g))
<1>1. SUFFICES ASSUME NEW id \in DOMAIN Store.runs
               PROVE  id \in DOMAIN Final(g).runs /\ KeptRun(Store.runs[id], Final(g).runs[id])
  BY DEF Keeps
<1>2. id[1] \in RawIds
  BY DEF MonitorTypes, StoreInv, StoreTypes, IsMap, NumberedIds
<1>3. CASE Unhandled(id[1])
  <2>1. PICK l \in Launches : request[l].pc = "handle" /\ l.runId = id[1]
    BY <1>3 DEF Unhandled
  <2> DEFINE ev == request[l].event
             T == After(Store, ev)
  <2>2. ev \in Posts
    BY <2>1 DEF MonitorTypes, Requests
  <2>3. Agree(T, Final(g), id[1])
    BY <2>1 DEF NothingLost, Serving
  <2> HIDE DEF ev
  <2>4. PostFacts(ev)
    BY <2>2, PostsAreLocal DEF Environment
  <2>5. Keeps(Store, T)
    BY <2>4, AfterKeeps DEF MonitorTypes
  <2> HIDE DEF T
  <2>6. id \in DOMAIN T.runs /\ KeptRun(Store.runs[id], T.runs[id])
    BY <2>5 DEF Keeps
  <2>7. Same(T.runs, Final(g).runs, id)
    BY <2>3, <2>6 DEF Agree
  <2>8. QED BY <2>6, <2>7 DEF Same
<1>4. CASE ~Unhandled(id[1])
  <2>1. Agree(Store, Final(g), id[1])
    BY <1>2, <1>4 DEF NothingLost, Serving
  <2>2. Same(Store.runs, Final(g).runs, id)
    BY <2>1 DEF Agree
  <2>3. KeptRun(Store.runs[id], Store.runs[id])
    BY DEF KeptRun
  <2>4. QED BY <2>2, <2>3 DEF Same
<1>5. QED BY <1>3, <1>4

(* One more event leads one store further.                                  *)
LEMMA ChainGrows ==
    ASSUME MonitorTypes, NEW g, Chain(g), NEW ev, PostFacts(ev), events' = Append(events, ev)
    PROVE  \E h : Chain(h)' /\ Final(h)' = After(Final(g), ev)
<1> DEFINE n == Len(events)
           h == [k \in 0 .. n + 1 |-> IF k = n + 1 THEN After(Final(g), ev) ELSE g[k]]
<1>1. n \in Nat /\ StoreInv(Final(g))
  BY FinalInv
<1>2. /\ Len(events') = n + 1 /\ events'[n + 1] = ev
      /\ \A k \in 1 .. n : events'[k] = events[k]
  BY DEF MonitorTypes
<1>3. StoreInv(After(Final(g), ev))
  BY <1>1, AfterInv
<1>4. /\ g[0] = EmptyStore
      /\ \A k \in 1 .. n : g[k] = After(g[k - 1], events[k])
      /\ \A k \in 0 .. n : StoreInv(g[k])
  BY DEF Chain
<1>5. Final(g) = g[n]
  BY DEF Final
<1> HIDE DEF n
<1>6. /\ DOMAIN h = 0 .. n + 1 /\ h[n + 1] = After(Final(g), ev)
      /\ \A k \in 0 .. n : h[k] = g[k]
  BY <1>1
<1> HIDE DEF h
<1>7. h[0] = EmptyStore
  BY <1>1, <1>4, <1>6
<1>8. \A k \in 1 .. n + 1 : h[k] = After(h[k - 1], events'[k])
  <2>1. SUFFICES ASSUME NEW k \in 1 .. n + 1 PROVE h[k] = After(h[k - 1], events'[k])
    OBVIOUS
  <2>2. CASE k = n + 1
    <3>1. k - 1 = n /\ n \in 0 .. n
      BY <1>1, <2>2
    <3>2. h[k - 1] = Final(g)
      BY <1>5, <1>6, <3>1
    <3>3. QED BY <1>2, <1>6, <2>2, <3>2
  <2>3. CASE k # n + 1
    <3>1. k \in 1 .. n /\ k \in 0 .. n /\ k - 1 \in 0 .. n
      BY <1>1, <2>3
    <3>2. QED BY <1>2, <1>4, <1>6, <3>1
  <2>4. QED BY <2>2, <2>3
<1>9. \A k \in 0 .. n + 1 : StoreInv(h[k])
  <2>1. SUFFICES ASSUME NEW k \in 0 .. n + 1 PROVE StoreInv(h[k])
    OBVIOUS
  <2>2. k = n + 1 \/ k \in 0 .. n
    BY <1>1
  <2>3. QED BY <1>3, <1>4, <1>6, <2>2
<1>10. Chain(h)'
  BY <1>2, <1>6, <1>7, <1>8, <1>9 DEF Chain
<1>11. Final(h)' = After(Final(g), ev)
  BY <1>2, <1>6 DEF Final
<1>12. QED BY <1>10, <1>11

(* Without a new event the log leads where it did.                          *)
LEMMA ChainStays ==
    ASSUME NEW g, Chain(g), UNCHANGED events
    PROVE  Chain(g)' /\ Final(g)' = Final(g)
  BY DEF Chain, Final

(* A post is persisted.                                                     *)
LEMMA ReceiveKeeps ==
    ASSUME Environment, MonitorTypes, OneAtATime, NEW g, NothingLost(g),
           NEW ev \in Posts, Receive(ev), lost' = lost
    PROVE  \E h : NothingLost(h)'
<1> DEFINE c == ev.launch
           F == Final(g)
<1>1. PostFacts(ev) /\ c \in Launches /\ c.runId \in RawIds
  BY PostsAreLocal DEF Environment, PostFacts
<1>2. /\ phase = "serving" /\ phase' = "serving" /\ replayed' = replayed
      /\ \A l \in Launches : l.runId = c.runId => request[l].pc = "idle"
      /\ Goto(c, IF ev.kind = "invalid" THEN [pc |-> "idle"] ELSE [pc |-> "handle", event |-> ev])
      /\ Store' = Store /\ dagDots' = dagDots /\ layouts' = layouts
  BY DEF Receive, MayNotOverlap, Environment, Idle, vars, storeVars, Store
<1>3. events' = Append(events, ev)
  BY DEF Receive, Save, MonitorTypes
<1>4. PICK h : Chain(h)' /\ Final(h)' = After(F, ev)
  BY <1>1, <1>3, ChainGrows DEF NothingLost
<1>5. /\ ev.kind = "invalid" => request'[c].pc = "idle"
      /\ ev.kind # "invalid" => request'[c].pc = "handle" /\ request'[c].event = ev
      /\ \A l \in Launches : l # c => request'[l] = request[l]
  BY <1>1, <1>2 DEF Goto, MonitorTypes
<1>6. StoreInv(Store) /\ StoreInv(F)
  BY FinalInv DEF MonitorTypes, NothingLost
<1>7. \A b \in RawIds : b # c.runId => Agree(F, After(F, ev), b)
  BY <1>1, <1>6, OthersUntouched, AgreeEquivalence
<1> HIDE DEF c, F
<1>8. Replaying(h)'
  BY <1>2 DEF Replaying
<1>9. Serving(h)'
  <2>1. Agree(Store, F, c.runId)
    BY <1>1, <1>2 DEF NothingLost, Serving, Unhandled, F
  <2>2. Agree(After(Store, ev), After(F, ev), c.runId)
    BY <1>1, <1>6, <2>1, AfterAgrees DEF c
  <2>3. ASSUME NEW l \in Launches, request'[l].pc = "handle"
        PROVE  Agree(After(Store, request'[l].event), After(F, ev), l.runId)
    <3>1. CASE l = c
      BY <1>5, <2>2, <2>3, <3>1
    <3>2. CASE l # c
      <4>1. request[l].pc = "handle" /\ request'[l] = request[l]
        BY <1>5, <2>3, <3>2
      <4>2. l.runId # c.runId
        BY <1>2, <4>1
      <4>3. Agree(After(Store, request[l].event), F, l.runId)
        BY <1>2, <4>1 DEF NothingLost, Serving, F
      <4>4. l.runId \in RawIds
        BY LaunchAssumption DEF RawIds
      <4>5. QED BY <1>7, <4>1, <4>2, <4>3, <4>4, AgreeEquivalence
    <3>3. QED BY <3>1, <3>2
  <2>4. ASSUME NEW b \in RawIds, ~Unhandled(b)'
        PROVE  Agree(Store, After(F, ev), b)
    <3>1. CASE b = c.runId
      <4>1. ev.kind = "invalid"
        BY <1>1, <1>5, <2>4, <3>1 DEF Unhandled
      <4>2. QED BY <2>1, <3>1, <4>1 DEF After
    <3>2. CASE b # c.runId
      <4>1. ~Unhandled(b)
        BY <1>5, <2>4, <3>2 DEF Unhandled
      <4>2. Agree(Store, F, b)
        BY <1>2, <4>1 DEF NothingLost, Serving, F
      <4>3. QED BY <1>7, <3>2, <4>2, AgreeEquivalence
    <3>3. QED BY <3>1, <3>2
  <2>5. replayed' # Len(events')
    BY <1>2, <1>3 DEF MonitorTypes
  <2>6. QED BY <1>2, <1>4, <2>3, <2>4, <2>5 DEF Serving
<1>10. LayoutsOwned(h)'
  <2>1. \A id \in DOMAIN dagDots : Owned(After(F, ev), id, dagDots[id])
    <3>1. \A id \in DOMAIN dagDots : Owned(F, id, dagDots[id])
      BY DEF NothingLost, LayoutsOwned, F
    <3>2. Keeps(F, After(F, ev))
      BY <1>1, <1>6, AfterKeeps
    <3>3. QED BY <3>1, <3>2, OwnedKept
  <2>2. \A l \in Launches : request'[l].pc \in {"discover", "saveDAG"} => request'[l] = request[l]
    BY <1>5
  <2>3. \A l \in Launches : request'[l].pc \in {"discover", "saveDAG"} => Owned(Store, request'[l].run, l)
    BY <2>2 DEF NothingLost, LayoutsOwned
  <2>4. \A id \in DOMAIN layouts : Owned(Store, id, layouts[id])
    BY DEF NothingLost, LayoutsOwned
  <2>5. QED BY <1>2, <1>4, <2>1, <2>3, <2>4 DEF LayoutsOwned, Owned
<1>11. LayoutsSaved'
  <2>1. \A l \in Launches : request[l].pc = "saveDAG" <=> request'[l].pc = "saveDAG"
    BY <1>1, <1>2, <1>5
  <2>2. \A l \in Launches : request'[l].pc = "saveDAG" => request'[l] = request[l]
    BY <1>5
  <2>3. LayoutsSaved
    BY DEF NothingLost
  <2>4. QED BY <1>2, <2>1, <2>2, <2>3 DEF LayoutsSaved, Same
<1>12. Remembered(h)'
  <2>1. replayed' # Len(events')
    BY <1>2, <1>3 DEF MonitorTypes
  <2>2. QED BY <1>2, <2>1 DEF Remembered
<1>13. QED BY <1>4, <1>8, <1>9, <1>10, <1>11, <1>12 DEF NothingLost

(* The run a "started" event with metadata was given is its launch's.       *)
LEMMA StartedOwns ==
    ASSUME NEW S, StoreInv(S), NEW ev, PostFacts(ev), LooksForDAG(ev)
    PROVE  Owned(After(S, ev), Target(S, ev), ev.launch)
<1>1. ev.kind = "started" /\ ev.meta
  BY DEF LooksForDAG
<1>2. /\ NewRunOf(S, ev).startTime = ev.time /\ NewRunOf(S, ev).metadata = ev.launch
      /\ ev.time # 0
  BY <1>1, NewRunFields DEF PostFacts
<1>3. After(S, ev).runs = Put(S.runs, Target(S, ev), NewRunOf(S, ev))
  BY <1>1 DEF After, Handled, NewRunOf
<1>4. QED BY <1>2, <1>3 DEF Owned, Put

(* A persisted event is handled.                                            *)
LEMMA HandleKeeps ==
    ASSUME Environment, MonitorTypes, OneAtATime, NEW g, NothingLost(g),
           NEW l \in Launches, Handle(l)
    PROVE  NothingLost(g)'
<1> DEFINE ev == request[l].event
           F == Final(g)
           b == l.runId
           T == After(Store, ev)
<1>1. request[l] \in Requests /\ request[l].pc = "handle" /\ ev.launch = l
  BY DEF Handle, MonitorTypes
<1>2. ev \in Posts /\ b \in RawIds
  BY <1>1, LaunchAssumption DEF Requests, RawIds
<1>3. /\ HandleEvent(ev)
      /\ Goto(l, IF LooksForDAG(ev) THEN [pc |-> "discover", run |-> latestRunID']
                 ELSE [pc |-> "idle"])
      /\ UNCHANGED <<events, dagDots, layouts, phase, replayed, crashes, before>>
  BY DEF Handle, MonitorRunID, Idle
<1>4. Chain(g)' /\ Final(g)' = F
  BY <1>3, ChainStays DEF NothingLost
<1>5. phase = "serving" /\ replayed # Len(events)
  BY <1>1, RequestsServe
<1>6. Agree(T, F, b)
  BY <1>1, <1>5 DEF NothingLost, Serving
<1> HIDE DEF ev
<1>7. PostFacts(ev) /\ Store' = T /\ latestRunID' = Target(Store, ev)
  BY <1>2, <1>3, HandlingKeepsStoreInv DEF MonitorTypes
<1>8. /\ request'[l].pc \in {"discover", "idle"}
      /\ request'[l].pc = "discover" => LooksForDAG(ev) /\ request'[l].run = Target(Store, ev)
      /\ \A m \in Launches : m # l => request'[m] = request[m]
  BY <1>3, <1>7 DEF Goto, MonitorTypes
<1>9. StoreInv(Store) /\ StoreInv(T)
  BY <1>7, AfterInv DEF MonitorTypes
<1>10. \A c \in RawIds : c # b => Agree(T, Store, c)
  BY <1>1, <1>7, <1>9, OthersUntouched
<1>11. Keeps(Store, T)
  BY <1>7, <1>9, AfterKeeps
<1>12. LooksForDAG(ev) => Owned(T, Target(Store, ev), l)
  BY <1>1, <1>7, <1>9, StartedOwns
<1> HIDE DEF F, T, b
<1>13. Replaying(g)'
  BY <1>3, <1>5 DEF Replaying
<1>14. Serving(g)'
  <2>1. ASSUME NEW m \in Launches, request'[m].pc = "handle"
        PROVE  Agree(After(T, request'[m].event), F, m.runId)
    <3> DEFINE e == request[m].event
    <3>1. m # l /\ request'[m] = request[m] /\ request[m].pc = "handle"
      BY <1>8, <2>1
    <3>2. m.runId # b
      BY <1>1, <3>1 DEF OneAtATime, b
    <3>3. e \in Posts /\ e.launch = m
      BY <3>1 DEF MonitorTypes, Requests
    <3>4. Agree(After(Store, e), F, m.runId)
      BY <1>5, <3>1 DEF NothingLost, Serving, F
    <3> HIDE DEF e
    <3>5. PostFacts(e) /\ m.runId \in RawIds
      BY <3>3, PostsAreLocal, LaunchAssumption DEF Environment, RawIds
    <3>6. Agree(T, Store, m.runId)
      BY <1>10, <3>2, <3>5
    <3>7. Agree(After(T, e), After(Store, e), m.runId)
      BY <1>9, <3>3, <3>5, <3>6, AfterAgrees
    <3>8. QED BY <3>1, <3>4, <3>7, AgreeEquivalence DEF e
  <2>2. ASSUME NEW c \in RawIds, ~Unhandled(c)'
        PROVE  Agree(T, F, c)
    <3>1. CASE c = b
      BY <1>6, <3>1
    <3>2. CASE c # b
      <4>1. ~Unhandled(c)
        BY <1>8, <2>2, <3>2 DEF Unhandled, b
      <4>2. Agree(Store, F, c)
        BY <1>5, <4>1 DEF NothingLost, Serving, F
      <4>3. QED BY <1>10, <3>2, <4>2, AgreeEquivalence
    <3>3. QED BY <3>1, <3>2
  <2>3. QED BY <1>3, <1>4, <1>5, <1>7, <2>1, <2>2 DEF Serving
<1>15. LayoutsOwned(g)'
  <2>1. \A id \in DOMAIN layouts : Owned(T, id, layouts[id])
    BY <1>11, OwnedKept DEF NothingLost, LayoutsOwned
  <2>2. \A id \in DOMAIN dagDots : Owned(F, id, dagDots[id])
    BY DEF NothingLost, LayoutsOwned, F
  <2>3. ASSUME NEW m \in Launches, request'[m].pc \in {"discover", "saveDAG"}
        PROVE  Owned(T, request'[m].run, m)
    <3>1. CASE m = l
      BY <1>8, <1>12, <2>3, <3>1
    <3>2. CASE m # l
      <4>1. request'[m] = request[m] /\ Owned(Store, request[m].run, m)
        BY <1>8, <2>3, <3>2 DEF NothingLost, LayoutsOwned
      <4>2. QED BY <1>11, <4>1, OwnedKept
    <3>3. QED BY <3>1, <3>2
  <2>4. QED BY <1>3, <1>4, <1>7, <2>1, <2>2, <2>3 DEF LayoutsOwned, Owned
<1>16. LayoutsSaved'
  <2>1. \A m \in Launches : /\ request[m].pc = "saveDAG" <=> request'[m].pc = "saveDAG"
                            /\ request'[m].pc = "saveDAG" => request'[m] = request[m]
    BY <1>1, <1>8
  <2>2. LayoutsSaved
    BY DEF NothingLost
  <2>3. QED BY <1>3, <2>1, <2>2 DEF LayoutsSaved, Same
<1>17. Remembered(g)'
  BY <1>3, <1>5 DEF Remembered
<1>18. QED BY <1>4, <1>13, <1>14, <1>15, <1>16, <1>17 DEF NothingLost

(* Steps of the DAG leave what is to be handled.                            *)
LEMMA ServingStays ==
    ASSUME NEW g, NothingLost(g), phase = "serving", replayed # Len(events),
           Store' = Store, UNCHANGED <<events, phase, replayed>>,
           \A m \in Launches : /\ request[m].pc = "handle" <=> request'[m].pc = "handle"
                               /\ request'[m].pc = "handle" => request'[m] = request[m]
    PROVE  Chain(g)' /\ Final(g)' = Final(g) /\ Replaying(g)' /\ Serving(g)' /\ Remembered(g)'
<1>1. Chain(g)' /\ Final(g)' = Final(g)
  BY ChainStays DEF NothingLost
<1>2. Replaying(g)' /\ Remembered(g)'
  BY DEF Replaying, Remembered
<1>3. \A b : Unhandled(b)' <=> Unhandled(b)
  BY DEF Unhandled
<1>4. Serving(g)
  BY DEF NothingLost
<1>5. Serving(g)'
  BY <1>1, <1>3, <1>4 DEF Serving
<1>6. QED BY <1>1, <1>2, <1>5

(* A DAG is discovered, or not.                                             *)
LEMMA DiscoverKeeps ==
    ASSUME Environment, MonitorTypes, OneAtATime, NEW g, NothingLost(g),
           NEW l \in Launches, DiscoverDAG(l)
    PROVE  NothingLost(g)'
<1> DEFINE id == request[l].run
<1>1. request[l].pc = "discover" /\ request[l] \in Requests /\ Owned(Store, id, l)
  BY DEF DiscoverDAG, MonitorTypes, NothingLost, LayoutsOwned
<1>2. /\ Store' = Store
      /\ UNCHANGED <<events, dagDots, phase, replayed>>
  BY DEF DiscoverDAG, vars, storeVars, Store
<1>3. \/ /\ layouts' = Put(layouts, id, l)
         /\ request'[l].pc = "saveDAG" /\ request'[l].run = id
      \/ /\ layouts' = layouts
         /\ request'[l].pc = "idle"
  BY <1>1 DEF DiscoverDAG, Goto, MonitorTypes, Idle, Requests
<1>4. \A m \in Launches : m # l => request'[m] = request[m]
  BY DEF DiscoverDAG, Goto, MonitorTypes
<1>5. phase = "serving" /\ replayed # Len(events)
  BY <1>1, RequestsServe
<1>6. Chain(g)' /\ Final(g)' = Final(g) /\ Replaying(g)' /\ Serving(g)' /\ Remembered(g)'
  BY <1>1, <1>2, <1>3, <1>4, <1>5, ServingStays
<1>7. \A m \in Launches : request[m].pc \in {"discover", "saveDAG"} => Owned(Store, request[m].run, m)
  BY DEF NothingLost, LayoutsOwned
<1>8. /\ \A o \in DOMAIN layouts : Owned(Store, o, layouts[o])
      /\ \A o \in DOMAIN dagDots : Owned(Final(g), o, dagDots[o])
  BY DEF NothingLost, LayoutsOwned
<1> HIDE DEF id
<1>9. LayoutsOwned(g)'
  <2>1. \A o \in DOMAIN layouts' : Owned(Store, o, layouts'[o])
    BY <1>1, <1>3, <1>8 DEF Put
  <2>2. \A m \in Launches : request'[m].pc \in {"discover", "saveDAG"} =>
          Owned(Store, request'[m].run, m)
    BY <1>1, <1>3, <1>4, <1>7
  <2>3. QED BY <1>2, <1>6, <1>8, <2>1, <2>2 DEF LayoutsOwned, Owned
<1>10. LayoutsSaved'
  <2>1. /\ \A m \in Launches : request[m].pc = "saveDAG" =>
             request[m].run \in DOMAIN layouts /\ layouts[request[m].run] = m
        /\ \A o \in DOMAIN layouts \cup DOMAIN dagDots :
             \/ Same(layouts, dagDots, o)
             \/ \E m \in Launches : request[m].pc = "saveDAG" /\ request[m].run = o
    BY <1>5 DEF NothingLost, LayoutsSaved
  <2>2. ASSUME NEW m \in Launches, request'[m].pc = "saveDAG"
        PROVE  request'[m].run \in DOMAIN layouts' /\ layouts'[request'[m].run] = m
    <3>1. CASE m = l
      BY <1>3, <2>2, <3>1 DEF Put
    <3>2. CASE m # l
      <4>1. request'[m] = request[m] /\ request[m].pc = "saveDAG"
        BY <1>4, <2>2, <3>2
      <4>2. request[m].run # id
        BY <1>1, <1>7, <3>2, <4>1 DEF Owned
      <4>3. QED BY <1>3, <2>1, <4>1, <4>2 DEF Put
    <3>3. QED BY <3>1, <3>2
  <2>3. ASSUME NEW o \in DOMAIN layouts' \cup DOMAIN dagDots
        PROVE  \/ Same(layouts', dagDots, o)
               \/ \E m \in Launches : request'[m].pc = "saveDAG" /\ request'[m].run = o
    <3>1. CASE o = id /\ request'[l].pc = "saveDAG"
      BY <1>3, <3>1
    <3>2. CASE ~(o = id /\ request'[l].pc = "saveDAG")
      <4>1. o \in DOMAIN layouts \cup DOMAIN dagDots /\ Same(layouts', layouts, o)
        BY <1>3, <2>3, <3>2 DEF Put, Same
      <4>2. CASE Same(layouts, dagDots, o)
        BY <4>1, <4>2 DEF Same
      <4>3. CASE \E m \in Launches : request[m].pc = "saveDAG" /\ request[m].run = o
        BY <1>1, <1>4, <4>3
      <4>4. QED BY <2>1, <4>1, <4>2, <4>3
    <3>3. QED BY <3>1, <3>2
  <2>4. QED BY <1>2, <2>2, <2>3 DEF LayoutsSaved
<1>11. QED BY <1>6, <1>9, <1>10 DEF NothingLost

(* A DAG is persisted.                                                      *)
LEMMA SaveDAGKeeps ==
    ASSUME Environment, MonitorTypes, OneAtATime, NEW g, NothingLost(g),
           NEW l \in Launches, SaveDAG(l), lost' = lost
    PROVE  NothingLost(g)'
<1> DEFINE id == request[l].run
<1>1. request[l].pc = "saveDAG" /\ Owned(Store, id, l)
  BY DEF SaveDAG, NothingLost, LayoutsOwned
<1>2. /\ Store' = Store /\ dagDots' = Put(dagDots, id, l)
      /\ UNCHANGED <<events, layouts, phase, replayed>>
  BY DEF SaveDAG, MonitorTypes, vars, storeVars, Store
<1>3. /\ request'[l].pc = "idle"
      /\ \A m \in Launches : m # l => request'[m] = request[m]
  BY DEF SaveDAG, Goto, MonitorTypes, Idle
<1>4. phase = "serving" /\ replayed # Len(events)
  BY <1>1, RequestsServe
<1>5. Chain(g)' /\ Final(g)' = Final(g) /\ Replaying(g)' /\ Serving(g)' /\ Remembered(g)'
  BY <1>1, <1>2, <1>3, <1>4, ServingStays
<1>6. Owned(Final(g), id, l)
  BY <1>1, <1>4, FinalKeeps, OwnedKept
<1>7. /\ \A o \in DOMAIN layouts : Owned(Store, o, layouts[o])
      /\ \A o \in DOMAIN dagDots : Owned(Final(g), o, dagDots[o])
      /\ \A m \in Launches : request[m].pc \in {"discover", "saveDAG"} =>
           Owned(Store, request[m].run, m)
  BY DEF NothingLost, LayoutsOwned
<1>8. /\ \A m \in Launches : request[m].pc = "saveDAG" =>
           request[m].run \in DOMAIN layouts /\ layouts[request[m].run] = m
      /\ \A o \in DOMAIN layouts \cup DOMAIN dagDots :
           \/ Same(layouts, dagDots, o)
           \/ \E m \in Launches : request[m].pc = "saveDAG" /\ request[m].run = o
  BY <1>4 DEF NothingLost, LayoutsSaved
<1> HIDE DEF id
<1>9. LayoutsOwned(g)'
  <2>1. \A o \in DOMAIN dagDots' : Owned(Final(g), o, dagDots'[o])
    BY <1>2, <1>6, <1>7 DEF Put
  <2>2. \A m \in Launches : request'[m].pc \in {"discover", "saveDAG"} =>
          Owned(Store, request'[m].run, m)
    BY <1>3, <1>7
  <2>3. QED BY <1>2, <1>5, <1>7, <2>1, <2>2 DEF LayoutsOwned, Owned
<1>10. LayoutsSaved'
  <2>1. \A m \in Launches : request'[m].pc = "saveDAG" =>
          request'[m].run \in DOMAIN layouts /\ layouts[request'[m].run] = m
    BY <1>3, <1>8
  <2>2. id \in DOMAIN layouts /\ layouts[id] = l
    BY <1>1, <1>8 DEF id
  <2>3. ASSUME NEW o \in DOMAIN layouts \cup DOMAIN dagDots'
        PROVE  \/ Same(layouts, dagDots', o)
               \/ \E m \in Launches : request'[m].pc = "saveDAG" /\ request'[m].run = o
    <3>1. CASE o = id
      BY <1>2, <2>2, <3>1 DEF Put, Same
    <3>2. CASE o # id
      <4>1. o \in DOMAIN layouts \cup DOMAIN dagDots /\ Same(dagDots', dagDots, o)
        BY <1>2, <2>3, <3>2 DEF Put, Same
      <4>2. CASE Same(layouts, dagDots, o)
        BY <4>1, <4>2 DEF Same
      <4>3. CASE \E m \in Launches : request[m].pc = "saveDAG" /\ request[m].run = o
        BY <1>3, <3>2, <4>3 DEF id
      <4>4. QED BY <1>8, <4>1, <4>2, <4>3
    <3>3. QED BY <3>1, <3>2
  <2>4. QED BY <1>2, <2>1, <2>3 DEF LayoutsSaved
<1>11. QED BY <1>5, <1>9, <1>10 DEF NothingLost

(* With no request in progress memory is where the log leads.               *)
LEMMA QuietRemembers ==
    ASSUME MonitorTypes, NEW g, NothingLost(g), phase = "serving", Quiet
    PROVE  Remembers(Memory, Final(g))
<1>1. \A b \in RawIds : Agree(Store, Final(g), b)
  BY DEF NothingLost, Serving, Unhandled, Quiet
<1>2. StoreInv(Store) /\ StoreInv(Final(g))
  BY FinalInv DEF MonitorTypes, NothingLost
<1>3. /\ Store.runs = Final(g).runs /\ Store.routeBySource = Final(g).routeBySource
      /\ Store.latestRunBySession = Final(g).latestRunBySession
      /\ Store.latestRunByNextflowID = Final(g).latestRunByNextflowID
      /\ Store.attemptBySession = Final(g).attemptBySession
  BY <1>1, <1>2, AgreeEverywhere
<1>4. layouts = dagDots
  <2>1. \A id \in DOMAIN layouts \cup DOMAIN dagDots : Same(layouts, dagDots, id)
    BY DEF NothingLost, LayoutsSaved, Quiet
  <2>2. layouts \in [DOMAIN layouts -> Launches] /\ dagDots \in [DOMAIN dagDots -> Launches]
    BY DEF MonitorTypes
  <2>3. QED BY ONLY <2>1, <2>2 DEF Same
<1>5. Memory = [runs |-> Store.runs, routeBySource |-> Store.routeBySource,
                latestRunBySession |-> Store.latestRunBySession,
                latestRunByNextflowID |-> Store.latestRunByNextflowID,
                attemptBySession |-> Store.attemptBySession,
                latestRunID |-> latestRunID, layouts |-> layouts]
  BY DEF Memory, Store
<1>6. Memory.latestRunID = latestRunID
  BY DEF Memory
<1>7. QED BY <1>3, <1>4, <1>5, <1>6 DEF Remembers

(* The process crashes.                                                     *)
LEMMA CrashKeeps ==
    ASSUME Environment, MonitorTypes, NEW g, NothingLost(g), Crash
    PROVE  NothingLost(g)'
<1>1. /\ Store' = EmptyStore
      /\ request' = [l \in Launches |-> [pc |-> "idle"]]
      /\ DOMAIN layouts' = {} /\ phase' = "replaying" /\ replayed' = 0
      /\ before' = IF phase = "serving" THEN [memory |-> Memory, quiet |-> Quiet] ELSE before
      /\ UNCHANGED <<events, dagDots>>
  BY DEF Crash, Store, EmptyStore, NoEntries, Idle
<1>2. Chain(g)' /\ Final(g)' = Final(g)
  BY <1>1, ChainStays DEF NothingLost
<1>3. Replaying(g)'
  BY <1>1 DEF Replaying, Quiet, NothingLost, Chain
<1>4. Serving(g)' /\ LayoutsSaved'
  BY <1>1 DEF Serving, LayoutsSaved
<1>5. LayoutsOwned(g)'
  BY <1>1, <1>2 DEF NothingLost, LayoutsOwned
<1>6. Keeps(before'.memory, Final(g)) /\ (before'.quiet => Remembers(before'.memory, Final(g)))
  <2>1. CASE phase = "serving"
    <3>1. before'.memory = Memory /\ before'.quiet = Quiet
      BY <1>1, <2>1
    <3>2. Keeps(Store, Final(g)) /\ Memory.runs = Store.runs
      BY <2>1, FinalKeeps DEF Memory, Store
    <3>3. Keeps(Memory, Final(g))
      BY <3>2 DEF Keeps
    <3>4. QED BY <2>1, <3>1, <3>3, QuietRemembers
  <2>2. CASE phase = "replaying"
    <3>1. before' = before /\ crashes > 0
      BY <1>1, <2>2 DEF MonitorTypes
    <3>2. QED BY <2>2, <3>1 DEF NothingLost, Remembered
  <2>3. QED BY <2>1, <2>2 DEF MonitorTypes
<1>7. Remembered(g)'
  BY <1>1, <1>2, <1>6 DEF Remembered, Remembers
<1>8. QED BY <1>2, <1>3, <1>4, <1>5, <1>7 DEF NothingLost

(* The next event of the log is replayed.                                   *)
LEMMA ReplayKeeps ==
    ASSUME Environment, MonitorTypes, NEW g, NothingLost(g), ReplayEvent
    PROVE  NothingLost(g)'
<1> DEFINE ev == events[replayed + 1]
<1>1. /\ phase = "replaying" /\ replayed' = replayed + 1
      /\ replayed + 1 \in 1 .. Len(events) /\ ev \in Posts
      /\ UNCHANGED <<events, dagDots, layouts, request, phase, crashes, before>>
  BY DEF ReplayEvent, MonitorTypes
<1>2. Store = g[replayed] /\ Quiet /\ DOMAIN layouts = {}
  BY <1>1 DEF NothingLost, Replaying
<1>3. Store' = After(Store, ev)
  <2>1. CASE ev.kind = "invalid"
    BY <2>1 DEF ReplayEvent, vars, storeVars, Store, After
  <2>2. CASE ev.kind # "invalid"
    <3>1. HandleEvent(ev)
      BY <2>2 DEF ReplayEvent
    <3> HIDE DEF ev
    <3>2. QED BY <1>1, <3>1, HandlingKeepsStoreInv DEF MonitorTypes
  <2>3. QED BY <2>1, <2>2
<1>4. g[replayed + 1] = After(g[replayed], ev)
  <2>1. g[replayed + 1] = After(g[(replayed + 1) - 1], ev)
    BY <1>1 DEF NothingLost, Chain
  <2>2. (replayed + 1) - 1 = replayed
    BY DEF MonitorTypes
  <2>3. QED BY <2>1, <2>2
<1> HIDE DEF ev
<1>5. Chain(g)' /\ Final(g)' = Final(g)
  BY <1>1, ChainStays DEF NothingLost
<1>6. Replaying(g)'
  BY <1>1, <1>2, <1>3, <1>4 DEF Replaying, Quiet
<1>7. Serving(g)' /\ LayoutsSaved'
  BY <1>1 DEF Serving, LayoutsSaved
<1>8. LayoutsOwned(g)'
  BY <1>1, <1>2, <1>5 DEF NothingLost, LayoutsOwned, Quiet
<1>9. Remembered(g)'
  BY <1>1, <1>5 DEF NothingLost, Remembered, Remembers
<1>10. QED BY <1>5, <1>6, <1>7, <1>8, <1>9 DEF NothingLost

(* The layouts are loaded and serving begins.                               *)
LEMMA LoadDAGsKeeps ==
    ASSUME Environment, MonitorTypes, NEW g, NothingLost(g), LoadDAGs, lost' = lost
    PROVE  NothingLost(g)'
<1>1. /\ phase = "replaying" /\ phase' = "serving" /\ replayed = Len(events)
      /\ layouts' = dagDots /\ Store' = Store
      /\ UNCHANGED <<events, dagDots, request, replayed, crashes, before>>
  BY DEF LoadDAGs, MonitorTypes, vars, storeVars, Store
<1>2. Store = Final(g) /\ Quiet
  BY <1>1 DEF NothingLost, Replaying, Final
<1>3. Chain(g)' /\ Final(g)' = Final(g)
  BY <1>1, ChainStays DEF NothingLost
<1>4. Replaying(g)'
  BY <1>1 DEF Replaying
<1>5. Serving(g)'
  BY <1>1, <1>2, <1>3, AgreeEquivalence DEF Serving, Quiet
<1>6. LayoutsOwned(g)'
  BY <1>1, <1>2, <1>3 DEF NothingLost, LayoutsOwned, Quiet
<1>7. LayoutsSaved'
  BY <1>1, <1>2 DEF LayoutsSaved, Quiet, Same
<1>8. Remembered(g)'
  BY <1>1, <1>3 DEF NothingLost, Remembered, Remembers
<1>9. QED BY <1>3, <1>4, <1>5, <1>6, <1>7, <1>8 DEF NothingLost

(* Nothing happens.                                                         *)
LEMMA StutterKeeps ==
    ASSUME NEW g, NothingLost(g), UNCHANGED monitorVars
    PROVE  NothingLost(g)'
<1>1. Store' = Store /\ UNCHANGED <<events, dagDots, layouts, request, phase, replayed, crashes, before>>
  BY DEF monitorVars, serverVars, vars, storeVars, Store
<1>2. Chain(g)' /\ Final(g)' = Final(g)
  BY <1>1, ChainStays DEF NothingLost
<1>3. Replaying(g)' /\ Serving(g)'
  BY <1>1, <1>2 DEF NothingLost, Replaying, Serving, Quiet, Unhandled
<1>4. LayoutsOwned(g)' /\ LayoutsSaved'
  BY <1>1, <1>2 DEF NothingLost, LayoutsOwned, LayoutsSaved
<1>5. Remembered(g)'
  BY <1>1, <1>2 DEF NothingLost, Remembered, Remembers
<1>6. QED BY <1>2, <1>3, <1>4, <1>5 DEF NothingLost

-----------------------------------------------------------------------------
(* The theorems. *)

(* The invariant holds at the first start ...                               *)
LEMMA InvariantStarts == MonitorInit => IInv
<1> SUFFICES ASSUME MonitorInit PROVE IInv
  OBVIOUS
<1> DEFINE g == [n \in 0 .. 0 |-> EmptyStore]
<1>1. /\ Store = EmptyStore /\ events = <<>> /\ dagDots = NoEntries /\ layouts = NoEntries
      /\ request = [l \in Launches |-> [pc |-> "idle"]]
      /\ phase = "serving" /\ replayed = 0 /\ crashes = 0 /\ lost = 0
  BY DEF MonitorInit, Init, InitStore, Store, EmptyStore, Idle
<1>2. DOMAIN NoEntries = {} /\ NoEntries \in [DOMAIN NoEntries -> Launches]
  BY DEF NoEntries
<1>3. [pc |-> "idle"] \in Requests
  BY DEF Requests
<1>4. Len(events) = 0 /\ events \in Seq(Posts)
  BY <1>1
<1>5. StoreInv(Store)
  BY <1>1, EmptyStoreInv
<1>6. MonitorTypes
  BY <1>1, <1>2, <1>3, <1>4, <1>5 DEF MonitorTypes
<1>7. OneAtATime /\ Quiet
  BY <1>1 DEF OneAtATime, Quiet
<1>8. Chain(g) /\ Final(g) = EmptyStore
  BY <1>4, EmptyStoreInv DEF Chain, Final
<1> HIDE DEF g
<1>9. Replaying(g) /\ Serving(g)
  BY <1>1, <1>7, <1>8, AgreeEquivalence DEF Replaying, Serving, Quiet
<1>10. LayoutsOwned(g) /\ LayoutsSaved /\ Remembered(g)
  BY <1>1, <1>2, <1>7 DEF LayoutsOwned, LayoutsSaved, Remembered, Quiet
<1>11. QED BY <1>6, <1>7, <1>8, <1>9, <1>10 DEF IInv, NothingLost

(* ... and every step keeps it.                                             *)
LEMMA InvariantStep ==
    ASSUME Environment, IInv, [MonitorNext]_monitorVars
    PROVE  IInv'
<1>1. MonitorTypes' /\ OneAtATime' /\ lost' >= lost
  BY TypesStep DEF IInv
<1>2. SUFFICES ASSUME lost' = 0 PROVE (\E g : NothingLost(g))'
  BY <1>1 DEF IInv
<1>3. lost = 0 /\ lost' = lost
  BY <1>1, <1>2 DEF IInv, MonitorTypes
<1>4. PICK g : NothingLost(g)
  BY <1>3 DEF IInv
<1>5. MonitorTypes /\ OneAtATime
  BY DEF IInv
<1>6. ASSUME NEW ev \in Posts, Receive(ev) PROVE (\E h : NothingLost(h))'
  BY <1>3, <1>4, <1>5, <1>6, ReceiveKeeps
<1>7. ASSUME NEW l \in Launches, Handle(l) \/ DiscoverDAG(l) \/ SaveDAG(l) PROVE NothingLost(g)'
  BY <1>3, <1>4, <1>5, <1>7, HandleKeeps, DiscoverKeeps, SaveDAGKeeps
<1>8. CASE Crash
  BY <1>4, <1>5, <1>8, CrashKeeps
<1>9. CASE ReplayEvent
  BY <1>4, <1>5, <1>9, ReplayKeeps
<1>10. CASE LoadAllFails
  BY <1>2, <1>3, <1>10 DEF LoadAllFails
<1>11. CASE LoadDAGs
  BY <1>3, <1>4, <1>5, <1>11, LoadDAGsKeeps
<1>12. CASE UNCHANGED monitorVars
  BY <1>4, <1>12, StutterKeeps
<1>13. QED BY <1>6, <1>7, <1>8, <1>9, <1>10, <1>11, <1>12 DEF MonitorNext

(* The invariant holds in every behaviour.                                  *)
LEMMA MonitorInvariant == ASSUME Environment PROVE MonitorSpec => []IInv
  BY InvariantStarts, InvariantStep, PTL DEF MonitorSpec

(* Just after a restart the store is where the log leads.                   *)
LEMMA AfterRestart ==
    ASSUME IInv, JustRestarted, lost = 0
    PROVE  \E g : /\ NothingLost(g) /\ Quiet
                  /\ Remembers(Memory, Final(g))
                  /\ Keeps(before.memory, Final(g))
                  /\ before.quiet => Remembers(before.memory, Final(g))
<1>1. PICK g : NothingLost(g)
  BY DEF IInv
<1>2. Quiet
  BY <1>1 DEF NothingLost, Serving, JustRestarted
<1>3. Remembers(Memory, Final(g))
  BY <1>1, <1>2, QuietRemembers DEF IInv, JustRestarted
<1>4. /\ Keeps(before.memory, Final(g))
      /\ before.quiet => Remembers(before.memory, Final(g))
  BY <1>1 DEF NothingLost, Remembered, JustRestarted
<1>5. QED BY <1>1, <1>2, <1>3, <1>4

(* A crash with no request in progress forgets nothing at all: replaying the*)
(* log and loading the DAGs rebuild the same runs, routes, counters and     *)
(* layouts.  For launches told apart by runId and run name, with the runId  *)
(* as session, whose requests do not overlap.                               *)
THEOREM RestartsRestore ==
    ASSUME DistinctSources, SessionPerBase, SerialSessions
    PROVE  MonitorSpec => []RestartRestoresRuns
<1>1. IInv => RestartRestoresRuns
  <2> SUFFICES ASSUME IInv, JustRestarted, before.quiet, lost = 0
               PROVE  Memory = [before.memory EXCEPT !.latestRunID = latestRunID]
    BY DEF RestartRestoresRuns
  <2>1. PICK g : Remembers(Memory, Final(g)) /\ Remembers(before.memory, Final(g))
    BY AfterRestart
  <2> DEFINE remembered(latest) ==
               [runs |-> Final(g).runs, routeBySource |-> Final(g).routeBySource,
                latestRunBySession |-> Final(g).latestRunBySession,
                latestRunByNextflowID |-> Final(g).latestRunByNextflowID,
                attemptBySession |-> Final(g).attemptBySession,
                latestRunID |-> latest, layouts |-> dagDots]
  <2>2. Memory = remembered(Memory.latestRunID)
    BY <2>1 DEF Remembers
  <2>3. before.memory = remembered(before.memory.latestRunID)
    BY <2>1 DEF Remembers
  <2>4. Memory.latestRunID = latestRunID
    BY DEF Memory
  <2>5. \A x, y : [remembered(x) EXCEPT !.latestRunID = y] = remembered(y)
    OBVIOUS
  <2> HIDE DEF remembered
  <2>6. QED BY <2>2, <2>3, <2>4, <2>5
<1>2. QED BY <1>1, MonitorInvariant, PTL DEF Environment

(* A crash at any other moment forgets no run that was seen, nor its launch,*)
(* start, end or tasks: the log is at most one event per request ahead of   *)
(* the store, and an event takes nothing of this back.                      *)
THEOREM RestartsForgetNothing ==
    ASSUME DistinctSources, SessionPerBase, SerialSessions
    PROVE  MonitorSpec => []RestartForgetsNothing
<1>1. IInv => RestartForgetsNothing
  <2> SUFFICES ASSUME IInv, JustRestarted, lost = 0, NEW id \in DOMAIN before.memory.runs
               PROVE  id \in DOMAIN runs /\ KeptRun(before.memory.runs[id], runs[id])
    BY DEF RestartForgetsNothing, KeptRun
  <2>1. PICK g : Remembers(Memory, Final(g)) /\ Keeps(before.memory, Final(g))
    BY AfterRestart
  <2>2. runs = Final(g).runs
    <3>1. Memory.runs = Final(g).runs
      BY <2>1 DEF Remembers
    <3>2. QED BY <3>1 DEF Memory
  <2>3. QED BY <2>1, <2>2 DEF Keeps
<1>2. QED BY <1>1, MonitorInvariant, PTL DEF Environment

(* No run ever shows the DAG of another launch, found now or loaded at a    *)
(* start: the replay hands out the run numbers the DAGs were saved under.   *)
THEOREM LayoutsBelong ==
    ASSUME DistinctSources, SessionPerBase, SerialSessions
    PROVE  MonitorSpec => []LayoutsBelongToTheirLaunch
<1>1. IInv => LayoutsBelongToTheirLaunch
  BY DEF IInv, NothingLost, LayoutsOwned, Owned, Store, LayoutsBelongToTheirLaunch
<1>2. QED BY <1>1, MonitorInvariant, PTL DEF Environment
=============================================================================
