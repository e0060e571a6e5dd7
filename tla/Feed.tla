-------------------------------- MODULE Feed --------------------------------
(***************************************************************************)
(* The live feed: a handler that changed the state renders the sidebar     *)
(* with the selector of the latest visible run, after a webhook event also *)
(* the dashboard of the run it changed, and publishes them in one message  *)
(* through the Broker to one buffered channel per connected browser;       *)
(* handleSSE subscribes, sends an initial sidebar and then forwards what   *)
(* its channel receives until the browser goes away                        *)
(* (internal/server/server.go).  What the page makes of the messages is    *)
(* modelled in Dashboard.tla.                                              *)
(*                                                                         *)
(* The state is represented by the changes so far: events of runs, and     *)
(* runs hidden and shown again.  A rendering is represented by their number*)
(* at that time, its version.  Publishers are request handlers; the rest of*)
(* their work is modelled in Monitor.tla and HiddenRuns.tla, the reads that*)
(* latestVisibleRunID makes included.  Publish holds the broker's lock as a*)
(* reader while it visits the subscribers, so publishers interleave within *)
(* their visits, whereas Subscribe and Unsubscribe wait for the write lock.*)
(***************************************************************************)
EXTENDS Integers, Sequences, FiniteSets, SequencesExt

CONSTANTS
    Runs,         \* monitor IDs of the runs
    Publishers,   \* request handlers that may run at the same time
    Clients,      \* browsers; each has at most one connection
    Capacity,     \* of a subscriber's channel (16 in the code)
    Replayed,     \* the changes that a server may have loaded when it starts
    MaxVersion,   \* bound on the changes
    MaxHides,     \* bound on the requests to hide or unhide among them
    MaxConnects   \* bound on the browsers' connections

NoRun == ""

Change == [kind: {"event", "hide", "unhide"}, run: Runs]

ASSUME FeedAssumption ==
    /\ NoRun \notin Runs
    /\ \A history \in Replayed : history \in Seq(Change) /\ Len(history) <= MaxVersion
    /\ Capacity \in Nat \ {0}
    /\ MaxVersion \in Nat /\ MaxHides \in Nat /\ MaxConnects \in Nat

VARIABLES
    changes,      \* the events handled and the runs hidden or unhidden so far
    publisher,    \* handler -> its progress
    subscribers,  \* Broker.subscribers
    channel,      \* browser -> contents of its channel
    connection,   \* browser -> progress of its handleSSE
    view,         \* browser -> version of the sidebar it shows
    (* History variables. *)
    skipped,      \* browsers whose channel was full at the last publication
    overlapped,   \* whether the last handler to start overlapped another
    connects      \* connections so far

feedVars == <<changes, publisher, subscribers, channel, connection, view, skipped, overlapped, connects>>

Versions == 0 .. MaxVersion

version == Len(changes)

(* A message: the version of its sidebar, the run its selector asks for and *)
(* the run and version of its dashboard, if it has one.                     *)
Message == [run: Runs \cup {NoRun}, sidebar: Versions, selector: Runs \cup {NoRun},
            detail: Versions]

(* A handler: the run it had an event of, if any, what it rendered and the  *)
(* browsers it has still to visit.                                          *)
Publisher == [pc: {"idle", "sidebar", "detail", "publish", "visit"}, run: Runs \cup {NoRun},
              sidebar: Versions, selector: Runs \cup {NoRun}, detail: Versions,
              toVisit: SUBSET Clients]
IdlePublisher == [pc |-> "idle", run |-> NoRun, sidebar |-> 0, selector |-> NoRun,
                  detail |-> 0, toVisit |-> {}]

FeedInit ==
    /\ changes \in Replayed
    /\ publisher = [p \in Publishers |-> IdlePublisher]
    /\ subscribers = {}
    /\ channel = [c \in Clients |-> <<>>]
    /\ connection = [c \in Clients |-> "none"]
    /\ view = [c \in Clients |-> 0]
    /\ skipped = {}
    /\ overlapped = FALSE
    /\ connects = 0

-----------------------------------------------------------------------------
(* What a rendering shows. *)

Known(v) == {changes[i].run : i \in {j \in 1 .. v : changes[j].kind = "event"}}

Hidden(v) ==
    {r \in Runs : \E i \in 1 .. v :
        /\ changes[i] = [kind |-> "hide", run |-> r]
        /\ \A j \in i + 1 .. v : changes[j] # [kind |-> "unhide", run |-> r]}

(* The runs that the sidebar lists.                                         *)
Visible(v) == Known(v) \ Hidden(v)

(* The store's latest run is that of the last event.                        *)
IsLatest(r, v) ==
    \E i \in 1 .. v : /\ changes[i] = [kind |-> "event", run |-> r]
                      /\ \A j \in i + 1 .. v : changes[j].kind # "event"

(* Mutant: there is no fallback when the latest run is hidden.              *)
LatestOrNone(v) ==
    IF \E r \in Visible(v) : IsLatest(r, v) THEN {r \in Visible(v) : IsLatest(r, v)} ELSE {NoRun}

(* latestVisibleRunID: the latest run, or if it is hidden the visible run   *)
(* with the latest start time, which here may be any of them.               *)
latestVisibleRunID(v) ==
    LET latest == {r \in Runs : IsLatest(r, v)}
    IN  IF Visible(v) = {} THEN {NoRun}
        ELSE IF latest \subseteq Visible(v) THEN latest ELSE Visible(v)

-----------------------------------------------------------------------------
(* Handlers: change the state, render, publish.                             *)

(* Handlers are interchangeable, so an idle one, always the same, takes the *)
(* next request.                                                            *)
NextHandler == CHOOSE p \in Publishers : publisher[p].pc = "idle"

Begin(p, change, run) ==
    /\ publisher[p].pc = "idle"
    /\ p = NextHandler
    /\ version < MaxVersion
    /\ changes' = Append(changes, change)
    /\ publisher' = [publisher EXCEPT ![p] = [IdlePublisher EXCEPT !.pc = "sidebar", !.run = run]]
    /\ overlapped' = \E q \in Publishers \ {p} : publisher[q].pc # "idle"
    /\ UNCHANGED <<subscribers, channel, connection, view, skipped, connects>>

(* handleWebhook. *)
ChangeState(p, run) == Begin(p, [kind |-> "event", run |-> run], run)

(* handleHideRun and handleUnhideRun, for a run that some page lists, or    *)
(* offers to show again.                                                    *)
Mark(p, kind, run) ==
    /\ Cardinality({i \in 1 .. version : changes[i].kind # "event"}) < MaxHides
    /\ run \in IF kind = "hide" THEN Known(version) ELSE Hidden(version)
    /\ Begin(p, [kind |-> kind, run |-> run], NoRun)

(* Every handler renders the selector and the sidebar, that of an event     *)
(* then a dashboard.                                                        *)
RenderSidebar(p) ==
    /\ publisher[p].pc = "sidebar"
    /\ \E latest \in latestVisibleRunID(version) :
         publisher' = [publisher EXCEPT ![p] =
             [@ EXCEPT !.pc = IF publisher[p].run = NoRun THEN "publish" ELSE "detail",
                       !.sidebar = version, !.selector = latest]]
    /\ UNCHANGED <<changes, subscribers, channel, connection, view, skipped, overlapped, connects>>

RenderDetail(p) ==
    /\ publisher[p].pc = "detail"
    /\ publisher' = [publisher EXCEPT ![p] = [@ EXCEPT !.pc = "publish", !.detail = version]]
    /\ UNCHANGED <<changes, subscribers, channel, connection, view, skipped, overlapped, connects>>

(* Broker.Publish takes the read lock and visits the subscribers ...        *)
BeginPublish(p) ==
    /\ publisher[p].pc = "publish"
    /\ publisher' = [publisher EXCEPT ![p] = [@ EXCEPT !.pc = "visit", !.toVisit = subscribers]]
    /\ UNCHANGED <<changes, subscribers, channel, connection, view, skipped, overlapped, connects>>

(* Mutant: the send does not check for room.                                *)
HasRoomAlways(c) == TRUE

HasRoom(c) == Len(channel[c]) < Capacity

MessageOf(p) == [run |-> publisher[p].run, sidebar |-> publisher[p].sidebar,
                 selector |-> publisher[p].selector, detail |-> publisher[p].detail]

(* ... in the map's arbitrary order; a full channel is skipped ...          *)
Visit(p, c) ==
    /\ publisher[p].pc = "visit"
    /\ c \in publisher[p].toVisit
    /\ publisher' = [publisher EXCEPT ![p] = [@ EXCEPT !.toVisit = publisher[p].toVisit \ {c}]]
    /\ IF HasRoom(c)
       THEN /\ channel' = [channel EXCEPT ![c] = Append(@, MessageOf(p))]
            /\ skipped' = skipped \ {c}
       ELSE /\ skipped' = skipped \cup {c}
            /\ UNCHANGED channel
    /\ UNCHANGED <<changes, subscribers, connection, view, overlapped, connects>>

(* ... and releases the lock after the last one.                            *)
EndPublish(p) ==
    /\ publisher[p].pc = "visit"
    /\ publisher[p].toVisit = {}
    /\ publisher' = [publisher EXCEPT ![p] = IdlePublisher]
    /\ UNCHANGED <<changes, subscribers, channel, connection, view, skipped, overlapped, connects>>

(* The write lock is free.                                                  *)
NoReader == \A p \in Publishers : publisher[p].pc # "visit"

(* Mutant: the broker's map is changed without the lock.                    *)
NoLock == TRUE

WriteLock == NoReader

-----------------------------------------------------------------------------
(* handleSSE. *)

(* Broker.Subscribe makes a channel and registers it.                       *)
Subscribe(c) ==
    /\ connection[c] = "none"
    /\ connects < MaxConnects
    /\ WriteLock
    /\ connects' = connects + 1
    /\ subscribers' = subscribers \cup {c}
    /\ channel' = [channel EXCEPT ![c] = <<>>]
    /\ connection' = [connection EXCEPT ![c] = "initial"]
    /\ skipped' = skipped \ {c}
    /\ UNCHANGED <<changes, publisher, view, overlapped>>

(* Mutant: the initial rendering is the one from before the subscription.   *)
InitialSendStale(c) ==
    /\ connection[c] = "initial"
    /\ connection' = [connection EXCEPT ![c] = "streaming"]
    /\ UNCHANGED <<changes, publisher, subscribers, channel, view, skipped, overlapped, connects>>

InitialSend(c) ==
    /\ connection[c] = "initial"
    /\ view' = [view EXCEPT ![c] = version]
    /\ connection' = [connection EXCEPT ![c] = "streaming"]
    /\ UNCHANGED <<changes, publisher, subscribers, channel, skipped, overlapped, connects>>

(* Mutant: a received fragment is not forwarded.                            *)
ForwardNothing(c) ==
    /\ connection[c] = "streaming"
    /\ FALSE
    /\ UNCHANGED feedVars

Forward(c) ==
    /\ connection[c] = "streaming"
    /\ channel[c] # <<>>
    /\ view' = [view EXCEPT ![c] = Head(channel[c]).sidebar]
    /\ channel' = [channel EXCEPT ![c] = Tail(@)]
    /\ UNCHANGED <<changes, publisher, subscribers, connection, skipped, overlapped, connects>>

(* The browser went away: Broker.Unsubscribe removes and closes the channel.*)
Unsubscribe(c) ==
    /\ connection[c] = "streaming"
    /\ WriteLock
    /\ subscribers' = subscribers \ {c}
    /\ channel' = [channel EXCEPT ![c] = <<>>]
    /\ connection' = [connection EXCEPT ![c] = "none"]
    /\ UNCHANGED <<changes, publisher, view, skipped, overlapped, connects>>

FeedNext ==
    \/ \E p \in Publishers :
         \/ \E run \in Runs : ChangeState(p, run) \/ \E kind \in {"hide", "unhide"} : Mark(p, kind, run)
         \/ RenderSidebar(p) \/ RenderDetail(p) \/ BeginPublish(p) \/ EndPublish(p)
         \/ \E c \in Clients : Visit(p, c)
    \/ \E c \in Clients : Subscribe(c) \/ InitialSend(c) \/ Forward(c) \/ Unsubscribe(c)

(* The Go scheduler runs every goroutine that can run, and a browser that   *)
(* stays connected reads its stream: a handler that began goes on, and      *)
(* handleSSE sends and forwards.  Events, hiding, connections and           *)
(* disconnections need not happen.                                          *)
FeedFairness ==
    /\ \A p \in Publishers :
         WF_feedVars(\/ RenderSidebar(p) \/ RenderDetail(p)
                     \/ BeginPublish(p) \/ EndPublish(p) \/ \E c \in Clients : Visit(p, c))
    /\ \A c \in Clients : WF_feedVars(InitialSend(c) \/ Forward(c))

FeedSpec == FeedInit /\ [][FeedNext]_feedVars /\ FeedFairness

-----------------------------------------------------------------------------
(* Properties. *)

FeedTypeOK ==
    /\ changes \in Seq(Change) /\ version \in Versions
    /\ publisher \in [Publishers -> Publisher]
    /\ subscribers \subseteq Clients /\ skipped \subseteq Clients
    /\ channel \in [Clients -> Seq(Message)]
    /\ \A c \in Clients : Len(channel[c]) <= Capacity
    /\ connection \in [Clients -> {"none", "initial", "streaming"}]
    /\ view \in [Clients -> Versions]
    /\ overlapped \in BOOLEAN
    /\ connects \in 0 .. MaxConnects

(* A publisher never sends on a channel that Unsubscribe has closed, and    *)
(* the registered channels are those of the connected browsers: the lock    *)
(* covers the whole visit (Publish, Unsubscribe).                           *)
NoSendOnClosedChannel ==
    /\ \A p \in Publishers : publisher[p].toVisit \subseteq subscribers
    /\ subscribers = {c \in Clients : connection[c] # "none"}

(* No update is lost to a browser: with no handler in progress, what a      *)
(* connected browser shows or still has in its channel last is the current  *)
(* state, unless that browser's channel was full when it was published or   *)
(* the last handler to start overlapped another: the next change repairs    *)
(* what an overlap left.  It holds because handleSSE subscribes before it   *)
(* renders.                                                                 *)
LastSent(c) == IF channel[c] = <<>> THEN view[c] ELSE Last(channel[c]).sidebar
HandlersIdle == \A p \in Publishers : publisher[p].pc = "idle"

NoUpdateLost ==
    HandlersIdle /\ ~overlapped =>
        \A c \in Clients \ skipped : connection[c] = "streaming" => LastSent(c) = version

(* After the last change every connected browser comes to show the final    *)
(* state, unless the final publication was skipped for it or overlapped.    *)
BrowsersCatchUp ==
    \A c \in Clients :
        version = MaxVersion ~>
            connection[c] # "streaming" \/ c \in skipped \/ overlapped \/ view[c] = MaxVersion

=============================================================================
