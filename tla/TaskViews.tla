------------------------------ MODULE TaskViews ------------------------------
(***************************************************************************)
(* What the pages make of the tasks of a run: the groups by process, the   *)
(* DAG nodes, the progress bar and the summary, which count the same tasks *)
(* in loops of their own (internal/server/server.go, taskstatus.go), and   *)
(* the pages of the task panel (internal/server/handletaskpanel.go).       *)
(*                                                                         *)
(* The tasks of a run are a function from task ids to statuses, NoTask for *)
(* an id that has not been reported.  A name is its place in alphabetical  *)
(* order.  A text filter is the set of the task ids it matches.            *)
(***************************************************************************)
EXTENDS Integers, Sequences, FiniteSets, FiniteSetsExt, SequencesExt

CONSTANTS
    TaskIds,      \* ids that tasks may have
    Processes,    \* processes of the pipeline
    ProcessOf,    \* task id -> its process
    NameOf,       \* task id -> place of its name in alphabetical order
    DagNodes,     \* processes in the order of the DAG layout
    PerPage       \* tasksPerPage (10 in the code)

NoTask == "none"

(* "" stands for every status the pages do not name. *)
Statuses == {"", "SUBMITTED", "RUNNING", "COMPLETED", "FAILED", "CACHED"}

Tasks == [TaskIds -> Statuses \cup {NoTask}]

ASSUME ViewAssumption ==
    /\ TaskIds \subseteq Nat /\ IsFiniteSet(TaskIds) /\ IsFiniteSet(Processes)
    /\ ProcessOf \in [TaskIds -> Processes] /\ NameOf \in [TaskIds -> Nat]
    /\ DagNodes \in Seq(Processes)
    /\ \A i, j \in DOMAIN DagNodes : DagNodes[i] = DagNodes[j] => i = j
    /\ PerPage \in Nat \ {0}

-----------------------------------------------------------------------------
(* Counting. *)

Reported(tasks) == {t \in TaskIds : tasks[t] # NoTask}
InProcess(tasks, p) == {t \in Reported(tasks) : ProcessOf[t] = p}
With(tasks, ids, status) == Cardinality({t \in ids : tasks[t] = status})

taskCountsAsDone(status) == status \in {"COMPLETED", "CACHED"}
Done(tasks, ids) == Cardinality({t \in ids : taskCountsAsDone(tasks[t])})

(* groupProcesses, the group of one process.                                *)
Group(tasks, p) ==
    LET ids == InProcess(tasks, p)
    IN  [name |-> p, total |-> Cardinality(ids), completed |-> Done(tasks, ids),
         running |-> With(tasks, ids, "RUNNING"), failed |-> With(tasks, ids, "FAILED"),
         submitted |-> With(tasks, ids, "SUBMITTED")]

(* renderGroupStatusDot.                                                    *)
GroupDot(g) ==
    CASE g.failed > 0 -> "failed"
      [] g.failed = 0 /\ g.running > 0 -> "running"
      [] g.failed = 0 /\ g.running = 0 /\ g.total > 0 /\ g.completed = g.total -> "completed"
      [] OTHER -> "pending"

(* deriveStatus of renderDAG, which tells "submitted" from "pending".       *)
NodeStatus(tasks, p) ==
    LET ids == InProcess(tasks, p)
    IN  CASE ids = {} -> "pending"
          [] \E t \in ids : tasks[t] = "FAILED" -> "failed"
          [] (\E t \in ids : tasks[t] = "RUNNING") /\ (\A t \in ids : tasks[t] # "FAILED") -> "running"
          [] ids # {} /\ \A t \in ids : taskCountsAsDone(tasks[t]) -> "completed"
          [] OTHER -> "submitted"

(* The progress bar of renderRunDetail: done and total.                     *)
Progress(tasks) == <<Done(tasks, Reported(tasks)), Cardinality(Reported(tasks))>>

(* The counts of renderRunSummary.                                          *)
Summary(tasks) ==
    [s \in {"COMPLETED", "CACHED", "FAILED", "RUNNING", "SUBMITTED"} |->
        With(tasks, Reported(tasks), s)]

(* Mutant: only the groups of the DAG's processes are listed.               *)
mergeNodesOnly(grouped) == DagNodes

(* mergeDAGGroups: the DAG's processes in its order, with or without tasks, *)
(* then the others that have tasks, in any fixed order (by name, in the     *)
(* code).                                                                   *)
mergeDAGGroups(grouped) == DagNodes \o SetToSeq(grouped \ ToSet(DagNodes))

(* groupProcesses, the processes that have a group.                         *)
GroupedProcesses(tasks) == {p \in Processes : InProcess(tasks, p) # {}}

-----------------------------------------------------------------------------
(* Pages. *)

Filter == [match: SUBSET TaskIds, status: Statuses]
NoFilter == [match |-> TaskIds, status |-> ""]

(* Failed first, then by name, then by id.                                  *)
Before(tasks, t, u) ==
    IF (tasks[t] = "FAILED") # (tasks[u] = "FAILED") THEN tasks[t] = "FAILED"
    ELSE NameOf[t] < NameOf[u] \/ (NameOf[t] = NameOf[u] /\ t < u)

(* filterTasks.                                                             *)
filterTasks(tasks, p, filter) ==
    {t \in InProcess(tasks, p) \cap filter.match :
        filter.status \in {"", tasks[t]}}

(* The i-th is the one that i - 1 others come before.                       *)
Listing(tasks, p, filter) ==
    LET found == filterTasks(tasks, p, filter)
        earlier(t) == {u \in found : Before(tasks, u, t)}
    IN  [i \in 1 .. Cardinality(found) |-> CHOOSE t \in found : Cardinality(earlier(t)) = i - 1]

(* Mutant: a page that is not full is not counted.                          *)
fullPagesOnly(total) == IF total < PerPage THEN 1 ELSE total \div PerPage

TotalPages(total) == IF total = 0 THEN 1 ELSE (total + PerPage - 1) \div PerPage

(* Mutant: a page past the last is not turned back.                         *)
ClampBelow(page, pages) == IF page < 1 THEN 1 ELSE page

Clamp(page, pages) == IF page < 1 THEN 1 ELSE IF page > pages THEN pages ELSE page

(* renderTaskPanelHTML, for the tasks of one run.                           *)
renderTaskPanelHTML(tasks, p, filter, page) ==
    LET total == Cardinality(filterTasks(tasks, p, filter))
        pages == TotalPages(total)
        shown == Clamp(page, pages)
        start == (shown - 1) * PerPage
    IN  [page |-> shown, pages |-> pages,
         tasks |-> SubSeq(Listing(tasks, p, filter), start + 1, Min({start + PerPage, total}))]

=============================================================================
