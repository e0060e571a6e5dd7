------------------------------ MODULE AttemptLog ------------------------------
(***************************************************************************)
(* What the run store promises to those who look at it, without monitor    *)
(* IDs, routes and attempt counters: every launch of Nextflow has a record *)
(* of its own, and what it posts is written to that record and to no other *)
(* one.  RunStore implements this specification (RunStore!Implements-      *)
(* AttemptLog).                                                            *)
(*                                                                         *)
(* What a launch posts before its "started" event was handled cannot be    *)
(* told from what other attempts of the session post: it may end up in an  *)
(* inbox that the launch takes over when it starts, in the record of some  *)
(* other launch, or in an attempt that is not shown any more.              *)
(***************************************************************************)
CONSTANTS
    Launches,     \* the executions of Nextflow that post events
    Bases,        \* the raw ids under which events without a record are kept
    TaskIds, Times,
    NoLaunch,     \* metadata of a record that was told none
    NoTask,       \* a task nothing was reported of
    LiveTasks,    \* what an event may report of a task
    CachedTasks,  \* what a trace file may report of a task
    Overwritable  \* what a trace file may overwrite

VARIABLES
    record,       \* launch -> its record
    inbox,        \* raw id -> what was posted under it before any start
    speaker       \* the launch that posted last

logVars == <<record, inbox, speaker>>

Blank == [status |-> "", startTime |-> 0, completeTime |-> 0, metadata |-> NoLaunch,
          tasks |-> [t \in TaskIds |-> NoTask]]

LogInit ==
    /\ record = [l \in Launches |-> Blank]
    /\ inbox = [b \in Bases |-> Blank]
    /\ speaker = NoLaunch

Launched(l) == record[l].startTime # 0

(* A started record: on top of what had been told of the launch before.     *)
Opened(l, old, new) ==
    \E time \in Times, metadata \in {l, NoLaunch} :
        new = [status |-> "running", startTime |-> time, completeTime |-> old.completeTime,
               metadata |-> metadata, tasks |-> old.tasks]

(* A task report changes that task alone ...                                *)
Reported(old, new) ==
    \E t \in TaskIds, task \in LiveTasks : new = [old EXCEPT !.tasks[t] = task]

(* ... and an end the status, the end time, and tasks from the trace file   *)
(* if the launch is known.                                                  *)
Closed(old, new) ==
    /\ \E time \in Times, status \in {"completed", "failed"} :
         new = [status |-> status, startTime |-> old.startTime, completeTime |-> time,
                metadata |-> old.metadata, tasks |-> new.tasks]
    /\ \A t \in TaskIds :
         \/ new.tasks[t] = old.tasks[t]
         \/ /\ old.metadata # NoLaunch
            /\ old.tasks[t] \in Overwritable
            /\ new.tasks[t] \in CachedTasks

Told(old, new) == Reported(old, new) \/ Closed(old, new)

Start(l) ==
    /\ speaker' = l
    /\ record' = [record EXCEPT ![l] = record'[l]]
    /\ \/ Opened(l, Blank, record'[l]) /\ UNCHANGED inbox
       \/ /\ Opened(l, inbox[l.runId], record'[l])
          /\ inbox' = [inbox EXCEPT ![l.runId] = Blank]

WriteTo(l) ==
    /\ record' = [record EXCEPT ![l] = record'[l]]
    /\ Told(record[l], record'[l])
    /\ UNCHANGED inbox

Hear(l) ==
    /\ Launched(l)
    /\ speaker' = l
    /\ WriteTo(l)

HearStray(l) ==
    /\ ~Launched(l)
    /\ speaker' = l
    /\ \/ \E m \in Launches : Launched(m) /\ WriteTo(m)
       \/ \E b \in Bases : /\ inbox' = [inbox EXCEPT ![b] = inbox'[b]]
                           /\ Told(inbox[b], inbox'[b])
                           /\ UNCHANGED record
       \/ UNCHANGED <<record, inbox>>

LogNext == \E l \in Launches : Start(l) \/ Hear(l) \/ HearStray(l)

LogSpec == LogInit /\ [][LogNext]_logVars

=============================================================================
