----------------------------- MODULE HiddenRuns -----------------------------
(***************************************************************************)
(* Hiding runs from the sidebar (internal/server/server.go): GET           *)
(* /hide-run/{id} and /unhide-run/{id} change the in-memory set under      *)
(* hiddenMu, then the table hidden_runs, then broadcast the sidebar with   *)
(* the run that latestVisibleRunID selects.  A restart loads the set from  *)
(* the table (cmd/main.go).                                                *)
(*                                                                         *)
(* Requests, and the webhook handlers that broadcast too, are concurrent    *)
(* goroutines and interleave between these steps and between the reads of   *)
(* latestVisibleRunID; a write to the table or its loading may fail, which  *)
(* is only logged.  Of the store only its runs, the latest one and their    *)
(* start times matter; Monitor.tla is about how a restart rebuilds them.    *)
(***************************************************************************)
EXTENDS Integers

CONSTANTS
    MaxRun,       \* run ids are 1 .. MaxRun, in the order of their names
    Times,        \* start times; 0 is the empty string of a run never started
    Requests,     \* concurrent requests
    MaxRequests,  \* bound on the requests made
    MaxUpdates,   \* bound on the webhook events handled
    MaxRestarts   \* bound on the restarts

NoRequest == "none"

ASSUME HiddenAssumption ==
    /\ MaxRun \in Nat /\ MaxRequests \in Nat /\ MaxUpdates \in Nat /\ MaxRestarts \in Nat
    /\ Times \subseteq Nat /\ NoRequest \notin Requests

RunIds == 1 .. MaxRun
NoRunId == 0

VARIABLES
    known,        \* the store's runs
    latestRunID,  \* the most recently updated one
    startTime,    \* run -> its StartTime
    hidden,       \* Server.hidden
    hiddenRows,   \* table hidden_runs
    request,      \* request -> its handler's progress
    selected,     \* the latest run of the last broadcast
    (* History variables and bounds. *)
    made, updates, restarts,
    wanted,       \* runs whose last request was to hide them
    overlapped,   \* runs with requests that overlapped since they last agreed
    failed,       \* runs for which a write or a request was lost
    chooser,      \* the request that began last to select a run, if any
    publisher     \* the request that broadcast last, if any

bounds == <<made, updates, restarts>>
storeVars == <<known, latestRunID, startTime>>
requestHistory == <<wanted, overlapped, failed>>
hiddenVars == <<storeVars, hidden, hiddenRows, request, selected,
                bounds, requestHistory, chooser, publisher>>

(* A handler: the run it is about, and what latestVisibleRunID has found and*)
(* listed for it so far.                                                    *)
IdleRequest == [pc |-> "idle", hide |-> FALSE, run |-> NoRunId, found |-> NoRunId, listed |-> {}]
Handler == [pc: {"idle", "persist", "latest", "check", "list", "choose", "publish"},
            hide: BOOLEAN, run: RunIds \cup {NoRunId}, found: RunIds \cup {NoRunId},
            listed: SUBSET RunIds]

InProgress(r) == {q \in Requests : request[q].pc = "persist" /\ request[q].run = r}

HiddenInit ==
    /\ known = {} /\ latestRunID = NoRunId
    /\ startTime = [r \in RunIds |-> 0]
    /\ hidden = {} /\ hiddenRows = {}
    /\ request = [q \in Requests |-> IdleRequest]
    /\ selected = NoRunId
    /\ made = 0 /\ updates = 0 /\ restarts = 0
    /\ wanted = {} /\ overlapped = {} /\ failed = {}
    /\ chooser = NoRequest /\ publisher = NoRequest

Goto(q, h) == request' = [request EXCEPT ![q] = h]

-----------------------------------------------------------------------------
(* Handlers, first step: a webhook event, or the in-memory set.             *)

(* A webhook event makes its run the most recently updated one; the run's   *)
(* start time comes with its first "started".                               *)
Webhook(q, r, time) ==
    /\ request[q].pc = "idle"
    /\ updates < MaxUpdates
    /\ updates' = updates + 1
    /\ known' = known \cup {r} /\ latestRunID' = r
    /\ startTime' = IF startTime[r] = 0 THEN [startTime EXCEPT ![r] = time] ELSE startTime
    /\ Goto(q, [IdleRequest EXCEPT !.pc = "latest"])
    /\ UNCHANGED <<hidden, hiddenRows, selected, made, restarts, requestHistory, chooser, publisher>>

(* handleHideRun and handleUnhideRun.                                       *)
MarkInMemory(q, r, hide) ==
    /\ request[q].pc = "idle"
    /\ made < MaxRequests
    /\ made' = made + 1
    /\ hidden' = IF hide THEN hidden \cup {r} ELSE hidden \ {r}
    /\ Goto(q, [IdleRequest EXCEPT !.pc = "persist", !.hide = hide, !.run = r])
    /\ wanted' = IF hide THEN wanted \cup {r} ELSE wanted \ {r}
    /\ IF InProgress(r) = {}
       THEN overlapped' = overlapped \ {r} /\ failed' = failed \ {r}
       ELSE overlapped' = overlapped \cup {r} /\ UNCHANGED failed
    /\ UNCHANGED <<storeVars, hiddenRows, selected, updates, restarts, chooser, publisher>>

(* Mutant: unhiding leaves the row in the table.                            *)
PersistHidesOnly(q) ==
    /\ request[q].pc = "persist"
    /\ Goto(q, [IdleRequest EXCEPT !.pc = "latest"])
    /\ hiddenRows' = IF request[q].hide THEN hiddenRows \cup {request[q].run} ELSE hiddenRows
    /\ UNCHANGED <<storeVars, hidden, selected, bounds, requestHistory, chooser, publisher>>

(* Second step: HideRun inserts the row if it is missing, UnhideRun deletes *)
(* it; an error is logged and the request goes on.                          *)
Persist(q) ==
    LET r == request[q].run
    IN  /\ request[q].pc = "persist"
        /\ Goto(q, [IdleRequest EXCEPT !.pc = "latest"])
        /\ \/ /\ hiddenRows' = IF request[q].hide THEN hiddenRows \cup {r} ELSE hiddenRows \ {r}
              /\ UNCHANGED failed
           \/ failed' = failed \cup {r} /\ UNCHANGED hiddenRows
        /\ UNCHANGED <<storeVars, hidden, selected, bounds, wanted, overlapped, chooser, publisher>>

-----------------------------------------------------------------------------
(* latestVisibleRunID: the latest run unless it is hidden, else the visible *)
(* run with the latest start time, the smallest id on a tie.  The store's   *)
(* lock and hiddenMu are taken one after the other.                         *)

ReadLatest(q) ==
    /\ request[q].pc = "latest"
    /\ Goto(q, [request[q] EXCEPT !.pc = "check", !.found = latestRunID])
    /\ chooser' = q
    /\ UNCHANGED <<storeVars, hidden, hiddenRows, selected, bounds, requestHistory, publisher>>

CheckHidden(q) ==
    /\ request[q].pc = "check"
    /\ Goto(q, [request[q] EXCEPT !.pc = IF request[q].found \in hidden THEN "list" ELSE "publish"])
    /\ UNCHANGED <<storeVars, hidden, hiddenRows, selected, bounds, requestHistory, chooser, publisher>>

ListRuns(q) ==
    /\ request[q].pc = "list"
    /\ Goto(q, [request[q] EXCEPT !.pc = "choose", !.listed = known])
    /\ UNCHANGED <<storeVars, hidden, hiddenRows, selected, bounds, requestHistory, chooser, publisher>>

Precedes(r, s) == startTime[r] > startTime[s] \/ (startTime[r] = startTime[s] /\ r < s)

(* Mutant: the fallback forgets to skip hidden runs.                        *)
BestOfAll(listed) ==
    IF listed = {} THEN NoRunId
    ELSE CHOOSE r \in listed : \A s \in listed \ {r} : Precedes(r, s)

BestVisible(listed) ==
    LET visible == listed \ hidden
    IN  IF visible = {} THEN NoRunId
        ELSE CHOOSE r \in visible : \A s \in visible \ {r} : Precedes(r, s)

ChooseVisible(q) ==
    /\ request[q].pc = "choose"
    /\ Goto(q, [request[q] EXCEPT !.pc = "publish", !.listed = {},
                    !.found = BestVisible(request[q].listed)])
    /\ UNCHANGED <<storeVars, hidden, hiddenRows, selected, bounds, requestHistory, chooser, publisher>>

(* Last step: publish the selector with the sidebar.                        *)
Publish(q) ==
    /\ request[q].pc = "publish"
    /\ selected' = request[q].found
    /\ publisher' = q
    /\ Goto(q, IdleRequest)
    /\ UNCHANGED <<storeVars, hidden, hiddenRows, bounds, requestHistory, chooser>>

-----------------------------------------------------------------------------
(* Crash and restart: the set is loaded from the table; a failure to load   *)
(* is logged and leaves it empty.                                           *)
Restart ==
    /\ restarts < MaxRestarts
    /\ restarts' = restarts + 1
    /\ \/ hidden' = hiddenRows
          /\ failed' = failed \cup {r \in RunIds : InProgress(r) # {}}
       \/ hidden' = {} /\ failed' = RunIds
    /\ request' = [q \in Requests |-> IdleRequest]
    /\ selected' = NoRunId
    /\ chooser' = NoRequest /\ publisher' = NoRequest
    /\ UNCHANGED <<storeVars, hiddenRows, made, updates, wanted, overlapped>>

HiddenNext ==
    \/ \E q \in Requests, r \in RunIds, time \in Times : Webhook(q, r, time)
    \/ \E q \in Requests, r \in RunIds, hide \in BOOLEAN : MarkInMemory(q, r, hide)
    \/ \E q \in Requests :
         \/ Persist(q)
         \/ ReadLatest(q) \/ CheckHidden(q) \/ ListRuns(q) \/ ChooseVisible(q)
         \/ Publish(q)
    \/ Restart

HiddenSpec == HiddenInit /\ [][HiddenNext]_hiddenVars

-----------------------------------------------------------------------------
(* Properties. *)

HiddenTypeOK ==
    /\ known \subseteq RunIds
    /\ latestRunID \in known \/ (known = {} /\ latestRunID = NoRunId)
    /\ startTime \in [RunIds -> Nat]
    /\ hidden \subseteq RunIds /\ hiddenRows \subseteq RunIds
    /\ request \in [Requests -> Handler]
    /\ \A q \in Requests : request[q].pc = "persist" => request[q].run \in RunIds
    /\ selected \in RunIds \cup {NoRunId}
    /\ wanted \subseteq RunIds /\ overlapped \subseteq RunIds /\ failed \subseteq RunIds
    /\ chooser \in Requests \cup {NoRequest} /\ publisher \in Requests \cup {NoRequest}

(* What a user was told about a run is so in memory and in the table, also  *)
(* after a restart: if the last request for it has written its row, without *)
(* an error, and did not overlap another request for the same run, the run  *)
(* is hidden in both exactly when that request was to hide it; requests for *)
(* other runs and crashes in between do not matter.                         *)
AnsweredRequestsLast ==
    \A r \in RunIds \ (overlapped \cup failed) : InProgress(r) = {} =>
        (r \in wanted <=> r \in hidden) /\ (r \in wanted <=> r \in hiddenRows)

(* What may be selected. *)
Fits(r) == IF known \ hidden = {} THEN r = NoRunId ELSE r \in known \ hidden

Settled == \A q \in Requests : request[q].pc = "idle"

(* Once no request is in progress, the selector broadcast last sends        *)
(* browsers to a visible run if there is one, although requests and events  *)
(* overlap between the reads it was made from: each handler selects after   *)
(* it has marked or updated its run (handleHideRun, handleUnhideRun,        *)
(* latestVisibleRunID).  It must be the selection that began last that was  *)
(* broadcast last: a handler that is overtaken between selecting and        *)
(* publishing sends browsers back to where they were.                       *)
SettledSelectorIsVisible ==
    Settled /\ publisher # NoRequest /\ publisher = chooser => Fits(selected)

-----------------------------------------------------------------------------
(* A statement of the repository that the code does not keep. *)

(* "Restore hidden runs from database so hidden runs stay hidden after      *)
(* restart" (main.go:112), without any failed write or request in progress. *)
HiddenRunsStayHidden ==
    [][restarts' # restarts /\ failed' = {} /\ Settled
          => hidden' = hidden]_hiddenVars

=============================================================================
