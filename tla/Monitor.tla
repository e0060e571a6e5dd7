------------------------------- MODULE Monitor -------------------------------
(***************************************************************************)
(* The monitor process around the run store: POST /webhook persists the    *)
(* raw event, hands it to the store, discovers the pipeline's DAG and      *)
(* persists it (internal/server/server.go, handleWebhook); a restart       *)
(* rebuilds the store by replaying the persisted events and then loads the *)
(* DAGs (cmd/main.go), all over the SQLite tables of                       *)
(* internal/db/eventstore.go.                                              *)
(*                                                                         *)
(* Requests are handled by concurrent goroutines.  A launch posts its      *)
(* events one after the other; different launches post independently, so   *)
(* the steps of their handlers interleave.  The process may crash between  *)
(* any two steps, also while it replays; the database survives.            *)
(*                                                                         *)
(* Rendering and publishing read the state only and are modelled in        *)
(* Feed.tla; the hidden-run table in HiddenRuns.tla.                       *)
(***************************************************************************)
EXTENDS RunStore

CONSTANTS
    Posts,        \* the events the launches may post
    Dags,         \* launches whose script directory has a readable dag.dot
    TraceOf,      \* launch, start and completion time -> what is found of the trace file
    SerialSessions, \* launches of one session do not post at the same time
    MaxEvents,    \* bound on the events posted
    MaxCrashes    \* bound on the number of crashes

Kinds == {"started", "process", "completed", "error", "invalid"}

(* A posted event; "invalid" is a body that is not JSON.                    *)
PostedEvent == [kind: Kinds, launch: Launches, meta: BOOLEAN, time: Times,
                task: TaskIds, status: Statuses, failed: BOOLEAN]

ASSUME PostsAssumption ==
    /\ Posts \subseteq PostedEvent
    /\ Dags \subseteq Launches
    /\ TraceOf \in [Launches \X (Times \cup {0}) \X Times -> Traces]
    /\ SerialSessions \in BOOLEAN
    /\ MaxEvents \in Nat /\ MaxCrashes \in Nat

VARIABLES
    events,       \* table events: the log of posted events
    dagDots,      \* table dag_dots: monitor ID -> the launch whose DAG it is
    layouts,      \* Server.layouts: monitor ID -> the launch whose DAG it is
    request,      \* launch -> its request in progress
    phase,        \* "serving", or "replaying" the log at startup
    replayed,     \* events replayed since the last start
    (* History variables. *)
    crashes,      \* crashes so far
    lost,         \* calls of the database that failed
    before        \* memory at the last crash, and whether a request was in progress

Idle == [pc |-> "idle"]

serverVars == <<events, dagDots, layouts, request, phase, replayed>>
monitorVars == <<vars, serverVars, crashes, lost, before>>

Memory == [runs |-> runs, routeBySource |-> routeBySource,
           latestRunBySession |-> latestRunBySession,
           latestRunByNextflowID |-> latestRunByNextflowID,
           attemptBySession |-> attemptBySession,
           latestRunID |-> latestRunID, layouts |-> layouts]

Quiet == \A l \in Launches : request[l].pc = "idle"

MonitorInit ==
    /\ Init
    /\ events = <<>>
    /\ dagDots = NoEntries
    /\ layouts = NoEntries
    /\ request = [l \in Launches |-> Idle]
    /\ phase = "serving"
    /\ replayed = 0
    /\ crashes = 0
    /\ lost = 0
    /\ before = [memory |-> Memory, quiet |-> TRUE]

-----------------------------------------------------------------------------
(* External: trace files do not change, so that the replay of a completion  *)
(* finds what the completion found.                                         *)
FoundFor(ev) ==
    LET run == resolvedRun(ev)
    IN  IF run.metadata = NoLaunch THEN NoTrace
        ELSE TraceOf[run.metadata, run.startTime, ev.time]

(* Store.HandleEvent: the case for the event's type.                        *)
HandleEvent(ev) ==
    \/ ev.kind = "started" /\ Started(ev)
    \/ ev.kind = "process" /\ Process(ev, ev.task, ev.status)
    \/ ev.kind = "completed" /\ Completed(ev, ev.failed, FoundFor(ev))
    \/ ev.kind = "error" /\ Error(ev, ev.failed)

(* The ID HandleEvent returns is the run it made the latest.                *)
MonitorRunID == latestRunID'

(* Whether the handler looks for a DAG after handling the event.            *)
LooksForDAG(ev) == ev.kind = "started" /\ ev.meta

Goto(l, next) == request' = [request EXCEPT ![l] = next]

(* Mutant: the event is not persisted.                                      *)
SaveNothing(ev) == UNCHANGED <<events, lost>>

(* EventStore.Save appends to the log; on an error the handler goes on.     *)
Save(ev) ==
    \/ events' = Append(events, ev) /\ UNCHANGED lost
    \/ UNCHANGED events /\ lost' = lost + 1

(* A launch waits for the answer before it posts the next event.            *)
MayNotOverlap(l, m) == l = m \/ (SerialSessions /\ l.runId = m.runId)

(* The raw body is persisted first; a body that does not parse ends the     *)
(* request there.                                                           *)
Receive(ev) ==
    /\ phase = "serving"
    /\ \A l \in Launches : MayNotOverlap(l, ev.launch) => request[l].pc = "idle"
    /\ Len(events) + lost < MaxEvents
    /\ Save(ev)
    /\ Goto(ev.launch, IF ev.kind = "invalid" THEN Idle ELSE [pc |-> "handle", event |-> ev])
    /\ UNCHANGED <<vars, dagDots, layouts, phase, replayed, crashes, before>>

Handle(l) ==
    /\ request[l].pc = "handle"
    /\ HandleEvent(request[l].event)
    /\ Goto(l, IF LooksForDAG(request[l].event)
               THEN [pc |-> "discover", run |-> MonitorRunID] ELSE Idle)
    /\ UNCHANGED <<events, dagDots, layouts, phase, replayed, crashes, lost, before>>

(* Mutant: the layout is filed under the latest run, read again.            *)
DiscoverForLatest(l) ==
    /\ request[l].pc = "discover"
    /\ l \in Dags
    /\ layouts' = Put(layouts, latestRunID, l)
    /\ Goto(l, [pc |-> "saveDAG", run |-> latestRunID])
    /\ UNCHANGED <<vars, events, dagDots, phase, replayed, crashes, lost, before>>

(* discoverDAG: without a readable dag.dot the request ends.                *)
DiscoverDAG(l) ==
    /\ request[l].pc = "discover"
    /\ IF l \in Dags
       THEN /\ layouts' = Put(layouts, request[l].run, l)
            /\ Goto(l, [request[l] EXCEPT !.pc = "saveDAG"])
       ELSE /\ Goto(l, Idle)
            /\ UNCHANGED layouts
    /\ UNCHANGED <<vars, events, dagDots, phase, replayed, crashes, lost, before>>

(* EventStore.SaveDAG replaces the run's row; an error is logged.           *)
SaveDAG(l) ==
    /\ request[l].pc = "saveDAG"
    /\ \/ dagDots' = Put(dagDots, request[l].run, l) /\ UNCHANGED lost
       \/ UNCHANGED dagDots /\ lost' = lost + 1
    /\ Goto(l, Idle)
    /\ UNCHANGED <<vars, events, layouts, phase, replayed, crashes, before>>

-----------------------------------------------------------------------------
(* Crash and restart. *)

Crash ==
    /\ crashes < MaxCrashes
    /\ crashes' = crashes + 1
    /\ before' = IF phase = "serving" THEN [memory |-> Memory, quiet |-> Quiet] ELSE before
    /\ runs' = NoEntries
    /\ routeBySource' = NoEntries
    /\ latestRunBySession' = NoEntries
    /\ latestRunByNextflowID' = NoEntries
    /\ attemptBySession' = [k \in Ids \cup {NoId} |-> 0]
    /\ latestRunID' = NoRun
    /\ launchRun' = [l \in Launches |-> NoRun]
    /\ lastLaunch' = NoLaunch
    /\ layouts' = NoEntries
    /\ request' = [l \in Launches |-> Idle]
    /\ phase' = "replaying"
    /\ replayed' = 0
    /\ UNCHANGED <<events, dagDots, lost>>

(* replayEvents: the next event of the log, in insertion order; what does   *)
(* not parse is skipped.                                                    *)
ReplayEvent ==
    /\ phase = "replaying"
    /\ replayed < Len(events)
    /\ replayed' = replayed + 1
    /\ LET ev == events[replayed + 1]
       IN  IF ev.kind = "invalid" THEN UNCHANGED vars ELSE HandleEvent(ev)
    /\ UNCHANGED <<events, dagDots, layouts, request, phase, crashes, lost, before>>

(* EventStore.LoadAll fails: nothing is replayed and the start goes on.     *)
LoadAllFails ==
    /\ phase = "replaying"
    /\ replayed = 0 /\ events # <<>>
    /\ replayed' = Len(events)
    /\ lost' = lost + 1
    /\ UNCHANGED <<vars, events, dagDots, layouts, request, phase, crashes, before>>

(* Mutant: only the DAG of the latest run is restored.                      *)
LoadLatestDAG ==
    /\ phase = "replaying"
    /\ replayed = Len(events)
    /\ layouts' = [id \in DOMAIN dagDots \cap {latestRunID} |-> dagDots[id]]
    /\ phase' = "serving"
    /\ UNCHANGED <<vars, events, dagDots, request, replayed, crashes, lost, before>>

(* loadDAGs, which may fail and leave no layouts, then ListenAndServe.      *)
LoadDAGs ==
    /\ phase = "replaying"
    /\ replayed = Len(events)
    /\ \/ layouts' = dagDots /\ UNCHANGED lost
       \/ layouts' = NoEntries /\ lost' = lost + 1
    /\ phase' = "serving"
    /\ UNCHANGED <<vars, events, dagDots, request, replayed, crashes, before>>

MonitorNext ==
    \/ \E ev \in Posts : Receive(ev)
    \/ \E l \in Launches : Handle(l) \/ DiscoverDAG(l) \/ SaveDAG(l)
    \/ Crash
    \/ ReplayEvent
    \/ LoadAllFails
    \/ LoadDAGs

MonitorSpec == MonitorInit /\ [][MonitorNext]_monitorVars

-----------------------------------------------------------------------------
(* Properties. *)

(* The moment after a restart: the log was replayed and nothing was posted. *)
JustRestarted == crashes > 0 /\ phase = "serving" /\ replayed = Len(events)

(* "Events are stored write-ahead and replayed on startup to rebuild        *)
(* in-memory state" (eventstore.go:2), for a crash with no request in       *)
(* progress: runs, routes, attempt counters and layouts are what they were, *)
(* although events of different sessions may have been persisted in one     *)
(* order and handled in the other (the latest run is excepted).  Assumes    *)
(* DistinctSources, SessionPerBase and SerialSessions.                      *)
RestartRestoresRuns ==
    JustRestarted /\ before.quiet /\ lost = 0 =>
        Memory = [before.memory EXCEPT !.latestRunID = latestRunID]

(* A crash at any point, between the persisting, the handling and the DAG   *)
(* steps of any request, forgets no run that clients could have seen: after *)
(* the restart the run has its ID, launch and tasks and, once started, is   *)
(* not running again if it had finished (write-ahead in handleWebhook).     *)
(* Assumes the same.                                                        *)
RestartForgetsNothing ==
    JustRestarted /\ lost = 0 =>
        \A id \in DOMAIN before.memory.runs :
            LET old == before.memory.runs[id]
            IN  /\ id \in DOMAIN runs
                /\ old.startTime # 0 =>
                     /\ runs[id].startTime = old.startTime
                     /\ runs[id].metadata = old.metadata
                     /\ old.status # "running" => runs[id].status # "running"
                /\ \A t \in TaskIds : old.tasks[t] # NoTask => runs[id].tasks[t] # NoTask

(* A DAG is shown for the run of the launch it was discovered for, also     *)
(* when it was restored by an ID that a replay handed out again.  Assumes   *)
(* the same.                                                                *)
LayoutsBelongToTheirLaunch ==
    lost = 0 => \A id \in DOMAIN layouts :
                id \in DOMAIN runs /\ runs[id].metadata = layouts[id]

=============================================================================
