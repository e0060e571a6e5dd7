-------------------------------- MODULE Locks --------------------------------
(***************************************************************************)
(* The locks of the monitor: which handler takes which RWMutex, in which   *)
(* order, and what it reads and writes while it holds it.  There is one    *)
(* lock for the store, one for each run, and one each for the hidden set,  *)
(* the layouts and the subscribers.                                        *)
(*                                                                         *)
(* A handler is the sequence of its lock operations and accesses to shared *)
(* data, written down from the code; one of them is a step.  A function    *)
(* called twice is there twice.  Go's RWMutex is modelled as documented: a *)
(* Lock that waits for readers keeps new readers out, so that a goroutine  *)
(* which takes the same read lock twice can block itself.                  *)
(***************************************************************************)
EXTENDS Integers, Sequences, FiniteSets, SequencesExt

CONSTANTS
    Runs,         \* runs that exist
    Handlers,     \* requests handled at the same time
    Works         \* what they may be

(* "none": no request.                                                     *)
Kinds == {"none", "webhook", "dag", "hide", "unhide", "sse", "page", "panel"}

Request == [kind: Kinds, run: Runs]

ASSUME LocksAssumption ==
    /\ IsFiniteSet(Runs)
    /\ Works \subseteq [Handlers -> Request]

(* Locks and data are named by what they are and whose they are.            *)
Of(what) == <<what, "server">>
RunLock(r) == <<"run", r>>
LockSet == {"store", "hidden", "layouts", "broker"} \X {"server"} \cup {"run"} \X Runs

Lock(l) == [op |-> "Lock", on |-> l]
Unlock(l) == [op |-> "Unlock", on |-> l]
RLock(l) == [op |-> "RLock", on |-> l]
RUnlock(l) == [op |-> "RUnlock", on |-> l]
Read(d) == [op |-> "read", on |-> d]
Write(d) == [op |-> "write", on |-> d]

(* Of a run, its name, raw id and resume flag, and its other fields.        *)
Identity(r) == <<"identity", r>>
Fields(r) == <<"fields", r>>

Guarded(l, access) == <<Lock(l), access, Unlock(l)>>
ReadGuarded(l, access) == <<RLock(l), access, RUnlock(l)>>

-----------------------------------------------------------------------------
(* The functions the handlers are made of. *)

(* Mutant: without the run's own lock.                                      *)
HandleEventUnlocked(r) ==
    <<Lock(Of("store")), Write(Of("runs")), Write(Identity(r)),
      Write(Fields(r)), Write(Of("runs")), Unlock(Of("store"))>>

(* HandleEvent: ensureRun changes the run before its lock is taken; the     *)
(* deferred unlocks run in the reverse order.                               *)
HandleEvent(r) ==
    <<Lock(Of("store")), Write(Of("runs")), Write(Identity(r)),
      Lock(RunLock(r)), Write(Fields(r)), Write(Of("runs")), Unlock(RunLock(r)), Unlock(Of("store"))>>

(* GetRun, GetLatestRunID and GetAllRuns.                                   *)
Lookup == ReadGuarded(Of("store"), Read(Of("runs")))

(* Reads what it wants of each run in turn, under its read lock.            *)
EachRun(what) ==
    LET order == SetToSeq(Runs)
    IN  FlattenSeq([i \in DOMAIN order |-> ReadGuarded(RunLock(order[i]), Read(<<what, order[i]>>))])

(* The slow path, which takes all the locks of the fast one first and keeps *)
(* the hidden set locked while it visits the runs.                          *)
latestVisibleRunID ==
    Lookup \o ReadGuarded(Of("hidden"), Read(Of("hidden")))
    \o Lookup \o <<RLock(Of("hidden")), Read(Of("hidden"))>> \o EachRun("fields") \o <<RUnlock(Of("hidden"))>>

(* renderSidebar and renderRunList, which reads names and states of runs.   *)
renderSidebar ==
    Lookup \o latestVisibleRunID \o ReadGuarded(Of("hidden"), Read(Of("hidden")))
    \o EachRun("identity") \o EachRun("fields")

(* Mutant: the run is looked up again while it is locked.                   *)
DetailLookingUp(r) ==
    <<RLock(RunLock(r)), Read(Fields(r))>> \o Lookup
    \o ReadGuarded(Of("layouts"), Read(Of("layouts"))) \o <<RUnlock(RunLock(r))>>

(* renderRunDetail, called under the run's read lock.                       *)
Detail(r) ==
    <<RLock(RunLock(r)), Read(Identity(r)), Read(Fields(r))>>
    \o ReadGuarded(Of("layouts"), Read(Of("layouts"))) \o <<RUnlock(RunLock(r))>>

BrokerPublish == ReadGuarded(Of("broker"), Read(Of("subscribers")))
Broadcast == latestVisibleRunID \o renderSidebar \o BrokerPublish

SetLayout == Guarded(Of("layouts"), Write(Of("layouts")))
SetHidden == Guarded(Of("hidden"), Write(Of("hidden")))
Subscription == Guarded(Of("broker"), Write(Of("subscribers")))

-----------------------------------------------------------------------------
(* The handlers. *)

handleWebhook(r, dag) ==
    HandleEvent(r) \o (IF dag THEN SetLayout ELSE <<>>)
    \o latestVisibleRunID \o renderSidebar \o Lookup \o Detail(r) \o BrokerPublish

handleHideRun(r) == SetHidden \o Lookup \o ReadGuarded(RunLock(r), Read(Identity(r))) \o Broadcast
handleUnhideRun == SetHidden \o Broadcast

(* Until the browser goes away; forwarding takes no lock.                   *)
handleSSE == Subscription \o latestVisibleRunID \o renderSidebar \o Subscription

(* handleDashboard and handleSelectRun.                                     *)
handlePage(r) == Lookup \o Detail(r)

(* handleTaskPanel, and handleTaskLogs but for one more look-up.            *)
handleTaskPanel(r) == Lookup \o Lookup \o ReadGuarded(RunLock(r), Read(Fields(r)))

ProgramOf(w) ==
    CASE w.kind = "none" -> <<>>
      [] w.kind = "webhook" -> handleWebhook(w.run, FALSE)
      [] w.kind = "dag" -> handleWebhook(w.run, TRUE)
      [] w.kind = "hide" -> handleHideRun(w.run)
      [] w.kind = "unhide" -> handleUnhideRun
      [] w.kind = "sse" -> handleSSE
      [] w.kind = "page" -> handlePage(w.run)
      [] w.kind = "panel" -> handleTaskPanel(w.run)

Program == [w \in Request |-> ProgramOf(w)]

-----------------------------------------------------------------------------
VARIABLES
    work,         \* handler -> its request
    pc,           \* handler -> index of its next operation
    readers,      \* lock -> handlers that hold it for reading
    writer,       \* lock -> handlers that hold it or have announced a Lock
    held          \* the locks whose writer holds them

lockVars == <<work, pc, readers, writer, held>>

LocksInit ==
    /\ work \in Works
    /\ pc = [h \in Handlers |-> 1]
    /\ readers = [l \in LockSet |-> {}]
    /\ writer = [l \in LockSet |-> {}]
    /\ held = {}

Ended(h) == pc[h] > Len(Program[work[h]])
NextOp(h) == Program[work[h]][pc[h]]
At(h, op) == ~Ended(h) /\ NextOp(h).op = op
Advance(h) == pc' = [pc EXCEPT ![h] = @ + 1]

(* RWMutex.Lock: first the other writers are kept out, and with them new    *)
(* readers; then it waits for the readers to leave.                         *)
AnnounceLock(h) ==
    LET l == NextOp(h).on
    IN  /\ At(h, "Lock")
        /\ writer[l] = {}
        /\ writer' = [writer EXCEPT ![l] = {h}]
        /\ UNCHANGED <<work, pc, readers, held>>

AcquireLock(h) ==
    LET l == NextOp(h).on
    IN  /\ At(h, "Lock")
        /\ writer[l] = {h}
        /\ readers[l] = {}
        /\ held' = held \cup {l}
        /\ Advance(h)
        /\ UNCHANGED <<work, readers, writer>>

ReleaseLock(h) ==
    LET l == NextOp(h).on
    IN  /\ At(h, "Unlock")
        /\ held' = held \ {l}
        /\ writer' = [writer EXCEPT ![l] = {}]
        /\ Advance(h)
        /\ UNCHANGED <<work, readers>>

AcquireRead(h) ==
    LET l == NextOp(h).on
    IN  /\ At(h, "RLock")
        /\ writer[l] = {}
        /\ readers' = [readers EXCEPT ![l] = @ \cup {h}]
        /\ Advance(h)
        /\ UNCHANGED <<work, writer, held>>

ReleaseRead(h) ==
    LET l == NextOp(h).on
    IN  /\ At(h, "RUnlock")
        /\ readers' = [readers EXCEPT ![l] = @ \ {h}]
        /\ Advance(h)
        /\ UNCHANGED <<work, writer, held>>

Access(h) ==
    /\ At(h, "read") \/ At(h, "write")
    /\ Advance(h)
    /\ UNCHANGED <<work, readers, writer, held>>

Step(h) ==
    \/ AnnounceLock(h) \/ AcquireLock(h) \/ ReleaseLock(h)
    \/ AcquireRead(h) \/ ReleaseRead(h)
    \/ Access(h)

LocksNext == \E h \in Handlers : Step(h)

(* While some goroutine can go on, one does.  No more is needed: a handler   *)
(* has no loop that takes locks (handleSSE's forwarding takes none), so that*)
(* every step brings some handler nearer to its end.                        *)
LocksSpec == LocksInit /\ [][LocksNext]_lockVars /\ WF_lockVars(LocksNext)

-----------------------------------------------------------------------------
(* Properties. *)

(* Two handlers are about to access the same data and one of them writes.   *)
Race(d) ==
    \E g, h \in Handlers :
        g # h /\ At(g, "write") /\ NextOp(g).on = d
        /\ (At(h, "write") \/ At(h, "read")) /\ NextOp(h).on = d

(* The store's indexes, the state and tasks of the runs, the hidden set,    *)
(* the layouts and the subscribers are never accessed by two handlers at    *)
(* once when one of them writes.                                            *)
SharedDataIsGuarded ==
    /\ \A d \in {"runs", "hidden", "layouts", "subscribers"} : ~Race(Of(d))
    /\ \A r \in Runs : ~Race(Fields(r))

(* Every request comes to its end: the order in which handlers nest locks   *)
(* (the store or the hidden set outside of a run, a run outside of the      *)
(* layouts) has no cycle, and no handler takes a read lock it holds.        *)
EveryHandlerEnds == \A h \in Handlers : <>Ended(h)

-----------------------------------------------------------------------------
(* A statement of the repository that the code does not keep. *)

(* "Snapshot fields under per-run read lock to avoid races with             *)
(* HandleEvent" (renderRunList, server.go), but ensureRun changes the run's *)
(* name under the store's lock only.                                        *)
SnapshotsDoNotRace == \A r \in Runs : ~Race(Identity(r))

=============================================================================
