------------------------------ MODULE Dashboard ------------------------------
(***************************************************************************)
(* The page in a browser, on top of Feed: which run it has selected, which *)
(* dashboard it shows, and how both follow clicks, answers of              *)
(* GET /select-run/{id} and the messages of the feed                       *)
(* (internal/server/server.go and web/index.html).                         *)
(*                                                                         *)
(* A message carries the dashboard of the run that changed, addressed to   *)
(* #dashboard[data-run="ID"], so a page that shows another run skips it.   *)
(* A click selects a run at once and asks for its dashboard; the answer    *)
(* patches the dashboard and then the selectedRun signal.  The run selector*)
(* of every sidebar asks for the latest visible run while none is selected,*)
(* and for nothing while every run is hidden.                              *)
(*                                                                         *)
(* External (the Datastar library): requests of different elements run at  *)
(* the same time and their answers may come in any order; a new request of *)
(* an element cancels its earlier one; data-init runs again when its text  *)
(* changes.  A run that a page knows stays known (Monitor.tla says when),  *)
(* so the "Run not found" answer is left out.                              *)
(***************************************************************************)
EXTENDS Feed

CONSTANT MaxActs    \* bound on the clicks of a browser and the connections

ASSUME ActsAssumption == MaxActs \in Nat

Selector == "run-selector"
Elements == Runs \cup {Selector}

VARIABLES
    selected,     \* browser -> $selectedRun
    dashboard,    \* browser -> data-run of #dashboard and its version
    selectorRun,  \* browser -> the run its run selector asks for
    requests,     \* browser -> element -> its request in flight
    (* History variables. *)
    raced,        \* browsers whose last request joined another
    due,          \* browsers to which the last event's dashboard is to come
    clicks        \* browser -> clicks so far

pageVars == <<selected, dashboard, selectorRun, requests, raced, due, clicks>>
dashboardVars == <<feedVars, pageVars>>

Request(run, pc, data) == [run |-> run, pc |-> pc, data |-> data]
NoRequest == Request(NoRun, "none", 0)
Shows(run, data) == [run |-> run, data |-> data]

DashboardInit ==
    /\ FeedInit
    /\ selected = [c \in Clients |-> NoRun]
    /\ dashboard = [c \in Clients |-> Shows(NoRun, 0)]
    /\ selectorRun = [c \in Clients |-> NoRun]
    /\ requests = [c \in Clients |-> [e \in Elements |-> NoRequest]]
    /\ raced = {}
    /\ due = {}
    /\ clicks = [c \in Clients |-> 0]

InFlight(c) == {e \in Elements : requests[c][e].pc # "none"}

-----------------------------------------------------------------------------
(* GET /select-run/{id}. *)

Ask(c, e, run) ==
    /\ requests' = [requests EXCEPT ![c][e] = Request(run, "sent", 0)]
    /\ raced' = IF InFlight(c) \ {e} = {} THEN raced \ {c} ELSE raced \cup {c}

(* A click on a run's entry in the sidebar.                                 *)
Click(c, run) ==
    /\ connects + clicks[c] < MaxActs
    /\ run \in Visible(view[c])
    /\ clicks' = [clicks EXCEPT ![c] = @ + 1]
    /\ selected' = [selected EXCEPT ![c] = run]
    /\ Ask(c, run, run)
    /\ UNCHANGED <<feedVars, dashboard, selectorRun, due>>

(* handleSelectRun renders the run ...                                      *)
Answer(c, e) ==
    /\ requests[c][e].pc = "sent"
    /\ requests' = [requests EXCEPT ![c][e] = Request(requests[c][e].run, "answered", version)]
    /\ UNCHANGED <<feedVars, selected, dashboard, selectorRun, raced, due, clicks>>

(* ... and the page patches its dashboard, then its signal.                 *)
PatchDashboard(c, e) ==
    /\ requests[c][e].pc = "answered"
    /\ dashboard' = [dashboard EXCEPT ![c] = Shows(requests[c][e].run, requests[c][e].data)]
    /\ requests' = [requests EXCEPT ![c][e] =
                        Request(requests[c][e].run, "patched", requests[c][e].data)]
    /\ UNCHANGED <<feedVars, selected, selectorRun, raced, due, clicks>>

(* Mutant: the answer patches no signal.                                    *)
PatchNoSignal(c, e) ==
    /\ requests[c][e].pc = "patched"
    /\ requests' = [requests EXCEPT ![c][e] = NoRequest]
    /\ UNCHANGED <<feedVars, selected, dashboard, selectorRun, raced, due, clicks>>

PatchSignal(c, e) ==
    /\ requests[c][e].pc = "patched"
    /\ selected' = [selected EXCEPT ![c] = requests[c][e].run]
    /\ requests' = [requests EXCEPT ![c][e] = NoRequest]
    /\ UNCHANGED <<feedVars, dashboard, selectorRun, raced, due, clicks>>

-----------------------------------------------------------------------------
(* Messages of the feed. *)

(* Mutant: the selector asks whether or not a run is selected.              *)
SelectorAlwaysAsks(c, latest) == latest \notin {NoRun, selectorRun[c]}

SelectorAsks(c, latest) ==
    /\ latest \notin {NoRun, selectorRun[c]}
    /\ selected[c] = NoRun

(* renderRunSelector. *)
PatchSelector(c, latest) ==
    /\ selectorRun' = [selectorRun EXCEPT ![c] = latest]
    /\ IF SelectorAsks(c, latest) THEN Ask(c, Selector, latest)
       ELSE UNCHANGED <<requests, raced>>

ReceiveInitial(c) ==
    /\ InitialSend(c)
    /\ \E latest \in latestVisibleRunID(version) : PatchSelector(c, latest)
    /\ UNCHANGED <<selected, dashboard, due, clicks>>

(* Mutant: the fragment goes to the pages that have its run selected.       *)
AddressedToSelected(c, message) == message.run # NoRun /\ selected[c] = message.run

(* A message about a run hidden or shown again has no dashboard.            *)
Addressed(c, message) == message.run # NoRun /\ dashboard[c].run = message.run

Receive(c) ==
    /\ Forward(c)
    /\ LET message == Head(channel[c])
       IN  /\ PatchSelector(c, message.selector)
           /\ dashboard' = IF Addressed(c, message)
                           THEN [dashboard EXCEPT ![c] = Shows(message.run, message.detail)]
                           ELSE dashboard
    /\ UNCHANGED <<selected, due, clicks>>

(* Those the event finds connected and awaiting no older rendering of the   *)
(* run; none if another handler is about to send one.                       *)
Event(p, run) ==
    /\ ChangeState(p, run)
    /\ due' = IF \E q \in Publishers : publisher[q].run = run THEN {}
              ELSE {c \in subscribers : \A e \in Elements :
                       requests[c][e] # Request(run, "answered", requests[c][e].data)}
    /\ UNCHANGED <<selected, dashboard, selectorRun, requests, raced, clicks>>

Disconnect(c) ==
    /\ Unsubscribe(c)
    /\ due' = due \ {c}
    /\ UNCHANGED <<selected, dashboard, selectorRun, requests, raced, clicks>>

(* A full channel loses the message, and the dashboard in it.               *)
Deliver(p, c) ==
    /\ Visit(p, c)
    /\ due' = IF HasRoom(c) \/ ~IsLatest(publisher[p].run, version) THEN due ELSE due \ {c}
    /\ UNCHANGED <<selected, dashboard, selectorRun, requests, raced, clicks>>

Broadcast(p) ==
    /\ RenderSidebar(p) \/ RenderDetail(p) \/ BeginPublish(p) \/ EndPublish(p)
    /\ UNCHANGED pageVars

(* The toast that handleHideRun sends to its own caller is left out.        *)
HideOrUnhide(p, kind, run) ==
    /\ Mark(p, kind, run)
    /\ UNCHANGED pageVars

(* The page asks for the feed, at first or after a lost connection.         *)
Connect(c) ==
    /\ connects + clicks[c] < MaxActs
    /\ Subscribe(c)
    /\ UNCHANGED pageVars

Browse(c, e) == Answer(c, e) \/ PatchDashboard(c, e) \/ PatchSignal(c, e)

DashboardNext ==
    \/ \E p \in Publishers :
         \/ \E run \in Runs : \/ Event(p, run)
                             \/ \E kind \in {"hide", "unhide"} : HideOrUnhide(p, kind, run)
         \/ Broadcast(p)
         \/ \E c \in Clients : Deliver(p, c)
    \/ \E c \in Clients :
         \/ Connect(c) \/ ReceiveInitial(c) \/ Receive(c) \/ Disconnect(c)
         \/ \E run \in Runs : Click(c, run)
         \/ \E e \in Elements : Browse(c, e)

(* In addition to what Feed assumes, requests are answered and their        *)
(* answers read.                                                            *)
DashboardFairness ==
    /\ \A p \in Publishers :
         WF_dashboardVars(Broadcast(p) \/ \E c \in Clients : Deliver(p, c))
    /\ \A c \in Clients : WF_dashboardVars(ReceiveInitial(c) \/ Receive(c))
    /\ \A c \in Clients, e \in Elements : WF_dashboardVars(Browse(c, e))

DashboardSpec == DashboardInit /\ [][DashboardNext]_dashboardVars /\ DashboardFairness

-----------------------------------------------------------------------------
(* Properties. *)

(* Once a page awaits no answer, the dashboard is that of the run its       *)
(* sidebar highlights, through all messages about other runs and later runs *)
(* becoming the latest, unless its last request was sent while another was  *)
(* in flight: then the answers may have come in either order (the click     *)
(* expression of renderRunList, handleSelectRun, renderRunSelector).        *)
SettledPageIsConsistent ==
    \A c \in Clients \ raced : InFlight(c) = {} => dashboard[c].run = selected[c]

(* A page leaves the run it shows only for one its user clicked: neither    *)
(* a message of another run nor a reconnection, whose sidebar brings a      *)
(* selector for the latest run, takes it away.                              *)
SelectionIsKept ==
    [][\A c \in Clients :
          selected[c] # NoRun /\ selected'[c] # selected[c] =>
             \/ clicks'[c] # clicks[c]
             \/ c \in raced]_dashboardVars

(* After the last change a page that shows the run of the last event comes  *)
(* to show a state that no event is missing from, runs hidden or shown      *)
(* again in between or not, unless the event's dashboard was lost at a full *)
(* channel, another handler of that run overlapped it, or it found the page *)
(* disconnected or with an older rendering of the run on its way.           *)
DashboardCatchesUp ==
    \A c \in Clients :
        version = MaxVersion ~>
            \/ connection[c] # "streaming" \/ c \notin due
            \/ ~IsLatest(dashboard[c].run, version)
            \/ \A i \in dashboard[c].data + 1 .. version : changes[i].kind # "event"

(* A page that stays connected comes to show a run, without a click, when   *)
(* some run is not hidden, whichever runs were hidden and shown again, and  *)
(* by whom.  Exceptions: the page's channel was full when the last change   *)
(* was published, or that change's handler overlapped another.  With every  *)
(* run hidden the selector asks for nothing (renderRunSelector), and the    *)
(* page stays without a dashboard until the next change.                    *)
EveryPageShowsARun ==
    \A c \in Clients :
        version = MaxVersion ~>
            \/ connection[c] # "streaming" \/ c \in skipped \/ overlapped
            \/ Visible(version) = {}
            \/ dashboard[c].run # NoRun

=============================================================================
