------------------------------ MODULE TaskPanel ------------------------------
(***************************************************************************)
(* The task panels of a page (internal/server/handletaskpanel.go and the   *)
(* rows, DAG nodes, filter bars and page buttons that fetch them): one     *)
(* panel per process, filled by answers of GET /tasks/{run}/{process}.     *)
(* A click on the row or the node of a process expands it and asks for its *)
(* first page; the filter bar and the page buttons ask for other tasks;    *)
(* and each second the expanded panel asks again for what it shows.        *)
(*                                                                         *)
(* The filter bar is bound to signals all panels share and is left alone   *)
(* by later answers (data-ignore-morph), and so is the whole panel by      *)
(* dashboards that come later, those of other runs included.               *)
(*                                                                         *)
(* External (the Datastar library): an element's new request cancels its   *)
(* earlier one, requests of different elements are answered in any order.  *)
(***************************************************************************)
EXTENDS TaskViews

CONSTANTS
    Runs,         \* runs the page may show
    Queries,      \* what may be typed in the search box, by what it matches
    FirstTasks,   \* the tasks the runs may have when the page is opened
    Reports,      \* statuses that task events bring
    MaxUpdates,   \* bound on the task events
    MaxGestures   \* bound on what the user does

(* The run of a panel that is not filled.                                   *)
None == ""

ASSUME PanelAssumption ==
    /\ None \notin Runs
    /\ TaskIds \in Queries /\ Queries \subseteq SUBSET TaskIds
    /\ FirstTasks \subseteq [Runs -> Tasks] /\ Reports \subseteq Statuses
    /\ MaxUpdates \in Nat /\ MaxGestures \in Nat

VARIABLES
    tasks,          \* run -> its tasks
    shownRun,       \* the run whose dashboard the page shows
    expandedGroup,  \* $expandedGroup, "" when all are collapsed
    signals,        \* $_taskFilter and $_statusFilter
    panel,          \* process -> what its panel shows
    bar,            \* process -> the run its filter bar asks for
    requests,       \* process -> element -> its request in flight
    (* History variables. *)
    asked,          \* process -> what the user asked to see last
    disturbed,      \* processes of which, since then, a request joined another
                    \*   or another run's dashboard took the row away
    updates, gestures

panelVars == <<tasks, shownRun, expandedGroup, signals, panel, bar, requests, asked,
               disturbed, updates, gestures>>

Buttons == {"first", "previous", "next", "last"}
Toggles == {"row", "node"}
Elements == Toggles \cup {"search", "select"} \cup Buttons \cup {"poll"}

Place(run, filter, page) == [run |-> run, filter |-> filter, page |-> page]
Nowhere == Place(None, NoFilter, 1)
Content(place, html) == [run |-> place.run, filter |-> place.filter, page |-> html.page,
                         pages |-> html.pages, tasks |-> html.tasks]
Empty == Content(Nowhere, [page |-> 1, pages |-> 1, tasks |-> <<>>])

NoRequest == [pc |-> "none", place |-> Nowhere, content |-> Empty]

Loaded(p) == panel[p].run # None

(* renderProcessTable: a process of the layout or with tasks has a row.     *)
HasRow(run, p) == p \in ToSet(DagNodes) \/ InProcess(tasks[run], p) # {}
InFlight(p) == {e \in Elements : requests[p][e].pc # "none"}

PanelInit ==
    /\ tasks \in FirstTasks
    /\ shownRun \in Runs
    /\ expandedGroup = None
    /\ signals = NoFilter
    /\ panel = [p \in Processes |-> Empty]
    /\ bar = [p \in Processes |-> None]
    /\ requests = [p \in Processes |-> [e \in Elements |-> NoRequest]]
    /\ asked = [p \in Processes |-> Nowhere]
    /\ disturbed = {}
    /\ updates = 0
    /\ gestures = 0

-----------------------------------------------------------------------------
(* A task event of the feed (RunStore.tla).                                 *)
Update(run, t, status) ==
    /\ updates < MaxUpdates
    /\ tasks[run][t] # status
    /\ tasks' = [tasks EXCEPT ![run][t] = status]
    /\ updates' = updates + 1
    /\ UNCHANGED <<shownRun, expandedGroup, signals, panel, bar, requests, asked, disturbed, gestures>>

Get(p, e, place) ==
    requests' = [requests EXCEPT ![p][e] = [pc |-> "sent", place |-> place, content |-> Empty]]

(* What the user does: each may ask for a place.                            *)
Gesture ==
    /\ gestures < MaxGestures
    /\ gestures' = gestures + 1
    /\ UNCHANGED <<tasks, updates>>

UserAsks(p, e, place) ==
    /\ Get(p, e, place)
    /\ asked' = [asked EXCEPT ![p] = place]
    /\ disturbed' = IF InFlight(p) \ {e} # {} THEN disturbed \cup {p} ELSE disturbed \ {p}

(* A click on a process row or DAG node, whose text names the run shown.    *)
Toggle(p, e) ==
    /\ Gesture
    /\ e \in Toggles
    /\ HasRow(shownRun, p) /\ (e = "node" => p \in ToSet(DagNodes))
    /\ IF expandedGroup = p
       THEN expandedGroup' = None /\ UNCHANGED <<requests, asked, disturbed>>
       ELSE expandedGroup' = p /\ UserAsks(p, e, Place(shownRun, NoFilter, 1))
    /\ UNCHANGED <<shownRun, signals, panel, bar>>

(* The filter bar of a panel, whose text names the run it was first drawn   *)
(* for: later answers leave the bar as it is.                               *)
ChooseFilter(p, e) ==
    /\ Gesture
    /\ expandedGroup = p /\ Loaded(p)
    /\ \/ e = "search" /\ \E q \in Queries : signals' = [signals EXCEPT !.match = q]
       \/ e = "select" /\ \E s \in {"", "FAILED", "RUNNING", "COMPLETED", "CACHED"} :
                             signals' = [signals EXCEPT !.status = s]
    /\ signals' # signals
    /\ UserAsks(p, e, Place(bar[p], signals', 1))
    /\ UNCHANGED <<shownRun, expandedGroup, panel, bar>>

(* renderPagination.                                                        *)
TargetPage(p, button) ==
    CASE button = "first" -> 1
      [] button = "previous" -> panel[p].page - 1
      [] button = "next" -> panel[p].page + 1
      [] button = "last" -> panel[p].pages

TurnPage(p, button) ==
    /\ Gesture
    /\ expandedGroup = p /\ Loaded(p)
    /\ button \in Buttons
    /\ IF button \in {"first", "previous"} THEN panel[p].page > 1
       ELSE panel[p].page < panel[p].pages
    /\ UserAsks(p, button, Place(panel[p].run, panel[p].filter, TargetPage(p, button)))
    /\ UNCHANGED <<shownRun, expandedGroup, signals, panel, bar>>

(* Another run's dashboard: its rows keep the content of the panels they    *)
(* have in common with those of the run before.                             *)
SelectRun(run) ==
    /\ Gesture
    /\ run # shownRun
    /\ shownRun' = run
    /\ panel' = [p \in Processes |-> IF HasRow(run, p) THEN panel[p] ELSE Empty]
    /\ bar' = [p \in Processes |-> IF HasRow(run, p) THEN bar[p] ELSE None]
    /\ disturbed' = disturbed \cup {p \in Processes : ~HasRow(run, p)}
    /\ UNCHANGED <<expandedGroup, signals, requests, asked>>

(* Mutant: a panel without tasks is not asked for again.                    *)
PollsIfListed(p) == expandedGroup = p /\ Loaded(p) /\ panel[p].tasks # <<>>

Polls(p) == expandedGroup = p /\ Loaded(p)

(* Mutant: the poll asks without the filter.                                *)
PollPlaceUnfiltered(p) == Place(panel[p].run, NoFilter, panel[p].page)

PollPlace(p) == Place(panel[p].run, panel[p].filter, panel[p].page)

(* data-on-interval of the results; answers are assumed to take less than   *)
(* the interval.                                                            *)
Poll(p) ==
    /\ Polls(p)
    /\ requests[p]["poll"].pc = "none"
    /\ Get(p, "poll", PollPlace(p))
    /\ disturbed' = disturbed \cup {q \in {p} : InFlight(q) # {}}
    /\ UNCHANGED <<tasks, shownRun, expandedGroup, signals, panel, bar, asked, updates, gestures>>

(* handleTaskPanel.                                                         *)
Reply(p, place) ==
    [pc |-> "answered", place |-> place, content |->
        Content(place, renderTaskPanelHTML(tasks[place.run], p, place.filter, place.page))]

Answer(p, e) ==
    /\ requests[p][e].pc = "sent"
    /\ requests' = [requests EXCEPT ![p][e] = Reply(p, requests[p][e].place)]
    /\ UNCHANGED <<tasks, shownRun, expandedGroup, signals, panel, bar, asked, disturbed, updates, gestures>>

Patch(p, e) ==
    /\ requests[p][e].pc = "answered"
    /\ IF HasRow(shownRun, p)
       THEN /\ panel' = [panel EXCEPT ![p] = requests[p][e].content]
            /\ bar' = [bar EXCEPT ![p] = IF Loaded(p) THEN @ ELSE requests[p][e].place.run]
       ELSE UNCHANGED <<panel, bar>>
    /\ requests' = [requests EXCEPT ![p][e] = NoRequest]
    /\ UNCHANGED <<tasks, shownRun, expandedGroup, signals, asked, disturbed, updates, gestures>>

PanelNext ==
    \/ \E run \in Runs, t \in TaskIds, status \in Reports : Update(run, t, status)
    \/ \E run \in Runs : SelectRun(run)
    \/ \E p \in Processes :
         \/ Poll(p)
         \/ \E e \in Elements :
              Toggle(p, e) \/ ChooseFilter(p, e) \/ TurnPage(p, e) \/ Answer(p, e) \/ Patch(p, e)

(* The interval of an expanded panel keeps firing and requests are answered.*)
PanelFairness ==
    \A p \in Processes :
        /\ WF_panelVars(Poll(p))
        /\ \A e \in Elements : WF_panelVars(Answer(p, e) \/ Patch(p, e))

PanelSpec == PanelInit /\ [][PanelNext]_panelVars /\ PanelFairness

-----------------------------------------------------------------------------
(* Properties. *)

Filters == [match: Queries, status: {"", "FAILED", "RUNNING", "COMPLETED", "CACHED"}]

ContentOK(content) ==
    /\ content.run \in Runs \cup {None}
    /\ content.filter \in Filters
    /\ content.page \in 1 .. content.pages
    /\ content.tasks \in Seq(TaskIds) /\ Len(content.tasks) <= PerPage

PanelTypeOK ==
    /\ tasks \in [Runs -> Tasks]
    /\ shownRun \in Runs
    /\ expandedGroup \in Processes \cup {None}
    /\ signals \in Filters
    /\ \A p \in Processes : ContentOK(panel[p])
    /\ \A p \in Processes, e \in Elements :
         /\ requests[p][e].pc \in {"none", "sent", "answered"}
         /\ ContentOK(requests[p][e].content)
    /\ bar \in [Processes -> Runs \cup {None}]
    /\ \A p \in Processes : Loaded(p) <=> bar[p] # None
    /\ disturbed \subseteq Processes

(* Whatever tasks there are and whatever filter is chosen, the pages one    *)
(* after the other list each matching task of the process once, failed ones *)
(* first, and a page number out of range shows a page that exists           *)
(* (renderTaskPanelHTML, filterTasks).                                      *)
PagesListEveryTaskOnce ==
    \A run \in Runs, p \in Processes, filter \in Filters :
        LET html(page) == renderTaskPanelHTML(tasks[run], p, filter, page)
            first == html(1)
            pages == first.pages
            listed == FlattenSeq([k \in 1 .. pages |-> html(k).tasks])
        IN  /\ ToSet(listed) = filterTasks(tasks[run], p, filter)
            /\ Len(listed) = Cardinality(ToSet(listed))
            /\ \A i, j \in DOMAIN listed :
                 i < j /\ tasks[run][listed[j]] = "FAILED" => tasks[run][listed[i]] = "FAILED"
            /\ html(0) = first /\ html(pages + 1) = html(pages)

(* Groups, DAG nodes, progress bar and summary agree with one another: they *)
(* count each task once, a node is drawn as its row's dot says ("submitted" *)
(* aside, which the dot shows as pending), and the table has one row per    *)
(* process of the layout and per process with tasks.                        *)
ViewsAgree ==
    \A run \in Runs :
        LET now == tasks[run]
            rows == mergeDAGGroups(GroupedProcesses(now))
            over(count) == SumFunction([p \in ToSet(rows) |-> Group(now, p)[count]])
        IN  /\ Len(rows) = Cardinality(ToSet(rows))
            /\ Progress(now) = <<over("completed"), over("total")>>
            /\ Progress(now)[1] = Summary(now)["COMPLETED"] + Summary(now)["CACHED"]
            /\ Summary(now)["FAILED"] = over("failed")
            /\ \A p \in ToSet(rows) :
                 LET dot == GroupDot(Group(now, p)) node == NodeStatus(now, p)
                 IN  dot = IF node = "submitted" THEN "pending" ELSE node

(* Polling keeps the user's place: once a panel awaits no answer, it shows  *)
(* the run, the filter and the page the user asked for last, or an earlier  *)
(* page because that one had vanished, unless requests of the panel were in *)
(* flight together ("the view stays on the same page across refreshes").    *)
PanelShowsWhatWasAsked ==
    \A p \in Processes :
        p \notin disturbed /\ Loaded(p) /\ InFlight(p) = {} =>
            /\ panel[p].run = asked[p].run
            /\ panel[p].filter = asked[p].filter
            /\ panel[p].page <= asked[p].page
            /\ panel[p].page = asked[p].page \/ updates > 0

(* A panel that stays expanded is filled, unless another run's dashboard    *)
(* took its row away, and comes to show the tasks as they are, at its       *)
(* place, without further clicks or events (data-on-interval).              *)
IsCurrent(p) ==
    LET html == renderTaskPanelHTML(tasks[panel[p].run], p, panel[p].filter, panel[p].page)
    IN  panel[p].page = html.page /\ panel[p].tasks = html.tasks

PanelCatchesUp ==
    \A p \in Processes :
        <>[](expandedGroup = p => IF Loaded(p) THEN IsCurrent(p) ELSE p \in disturbed)

=============================================================================
