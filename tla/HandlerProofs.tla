--------------------------- MODULE HandlerProofs ---------------------------
(***************************************************************************)
(* Proofs about the server's concurrent handlers.                          *)
(*                                                                         *)
(* HiddenRuns: what requests that hide and select runs make of each other, *)
(* for any number of runs, of requests at a time and of restarts, and any  *)
(* write that fails.                                                       *)
(*                                                                         *)
(* Locks: for any number of runs, handlers and requests, no two handlers   *)
(* access guarded data at once when one of them writes, and handlers never *)
(* wait for one another in a circle.  First the programs: each is put      *)
(* together from sections, which take locks in their order, release what   *)
(* they take, and access data under its lock.  Then the locks: who holds   *)
(* them is read off where the handlers are in their programs.              *)
(***************************************************************************)
EXTENDS HiddenRuns, Locks, SequenceLemmas

-----------------------------------------------------------------------------
(* HiddenRuns.                                                              *)


(* The empty ID is no run. *)
LEMMA NoRunIsNoRun == NoRunId \notin RunIds /\ IsFiniteSet(RunIds)
  BY HiddenAssumption, FS_Interval DEF NoRunId, RunIds

-----------------------------------------------------------------------------
(* Types. *)

(* The handlers' steps that change nothing but the handler, and the others. *)
LEMMA Steps ==
    ASSUME [HiddenNext]_hiddenVars
    PROVE  \/ \E q \in Requests, r \in RunIds, time \in Times : Webhook(q, r, time)
           \/ \E q \in Requests, r \in RunIds, hide \in BOOLEAN : MarkInMemory(q, r, hide)
           \/ \E q \in Requests : Persist(q)
           \/ \E q \in Requests : ReadLatest(q)
           \/ \E q \in Requests : CheckHidden(q)
           \/ \E q \in Requests : ListRuns(q)
           \/ \E q \in Requests : ChooseVisible(q)
           \/ \E q \in Requests : Publish(q)
           \/ Restart
           \/ UNCHANGED hiddenVars
  BY DEF HiddenNext

(* A finite set of runs that is not empty has one that precedes the others. *)
LEMMA OneComesFirst ==
    ASSUME NEW S \in SUBSET RunIds, S # {}, startTime \in [RunIds -> Nat]
    PROVE  \E r \in S : \A s \in S \ {r} : Precedes(r, s)
<1> DEFINE Bad == {T \in SUBSET S : T # {} /\ ~(\E r \in T : \A s \in T \ {r} : Precedes(r, s))}
<1> SUFFICES ASSUME Bad # {} PROVE FALSE
  OBVIOUS
<1>1. IsFiniteSet(S)
  BY NoRunIsNoRun, FS_Subset
<1>2. Bad \subseteq FiniteSubsetsOf(S)
  BY <1>1, FS_Subset DEF FiniteSubsetsOf
<1>3. PICK T \in Bad : \A U \in Bad : <<U, T>> \notin StrictSubsetOrdering(S)
  <2> HIDE DEF Bad
  <2>1. IsWellFoundedOn(StrictSubsetOrdering(S), FiniteSubsetsOf(S))
    BY FS_StrictSubsetOrderingWellFounded
  <2>2. \E T \in Bad : \A U \in Bad : ~(<<U, T>> \in StrictSubsetOrdering(S))
    BY <1>2, <2>1, WFMin, Zenon
  <2>3. QED BY <2>2, Zenon
<1>4. PICK x \in T : TRUE
  OBVIOUS
<1>5. T \ {x} \notin Bad
  <2>1. <<T \ {x}, T>> \in StrictSubsetOrdering(S)
    BY <1>4 DEF StrictSubsetOrdering
  <2>2. QED BY <1>3, <2>1
<1>6. CASE T \ {x} = {}
  BY <1>4, <1>6
<1>7. CASE T \ {x} # {}
  <2>1. PICK m \in T \ {x} : \A s \in (T \ {x}) \ {m} : Precedes(m, s)
    BY <1>5, <1>7
  <2>2. m \in RunIds /\ x \in RunIds /\ m # x /\ T \subseteq RunIds /\ RunIds \subseteq Int
    BY <1>4 DEF RunIds
  <2>3. CASE Precedes(m, x)
    BY <2>1, <2>2, <2>3
  <2>4. CASE Precedes(x, m)
    <3>1. \A s \in T \ {x} : Precedes(x, s)
      BY <2>1, <2>2, <2>4 DEF Precedes
    <3>2. QED BY <1>4, <3>1
  <2>5. Precedes(m, x) \/ Precedes(x, m)
    BY <2>2 DEF Precedes
  <2>6. QED BY <2>3, <2>4, <2>5
<1>8. QED BY <1>6, <1>7

(* The fallback is a visible run, if there is one.                          *)
LEMMA FallbackIsVisible ==
    ASSUME NEW listed \in SUBSET RunIds, startTime \in [RunIds -> Nat]
    PROVE  IF listed \ hidden = {} THEN BestVisible(listed) = NoRunId
           ELSE BestVisible(listed) \in listed \ hidden
<1>1. CASE listed \ hidden = {}
  BY <1>1 DEF BestVisible
<1>2. CASE listed \ hidden # {}
  <2> DEFINE S == listed \ hidden
  <2>1. \E r \in S : \A s \in S \ {r} : Precedes(r, s)
    BY <1>2, OneComesFirst
  <2>2. BestVisible(listed) = CHOOSE r \in S : \A s \in S \ {r} : Precedes(r, s)
    BY <1>2 DEF BestVisible
  <2> HIDE DEF S
  <2>3. BestVisible(listed) \in S
    BY <2>1, <2>2
  <2>4. QED BY <1>2, <2>3 DEF S
<1>3. QED BY <1>1, <1>2

(* A handler goes on to another handler's state. *)
LEMMA GotoType ==
    ASSUME request \in [Requests -> Handler], NEW q \in Requests, NEW h \in Handler, Goto(q, h)
    PROVE  /\ request' \in [Requests -> Handler]
           /\ request'[q] = h
           /\ \A p \in Requests \ {q} : request'[p] = request[p]
  BY DEF Goto

(* Every step keeps the types.                                              *)
LEMMA TypeStep ==
    ASSUME HiddenTypeOK, [HiddenNext]_hiddenVars
    PROVE  HiddenTypeOK'
<1> USE DEF HiddenTypeOK
<1>1. \A q \in Requests : request[q] \in Handler
  OBVIOUS
<1> DEFINE Writes == \A q \in Requests : request[q].pc = "persist" => request[q].run \in RunIds
<1>2. CASE UNCHANGED hiddenVars
  BY <1>2 DEF hiddenVars, storeVars, bounds, requestHistory
<1>3. ASSUME NEW q \in Requests, NEW r \in RunIds, NEW time \in Times, Webhook(q, r, time)
      PROVE  HiddenTypeOK'
  <2>1. [IdleRequest EXCEPT !.pc = "latest"] \in Handler
    BY DEF IdleRequest, Handler, NoRunId
  <2>2. request' \in [Requests -> Handler] /\ Writes'
    BY <1>3, <2>1, GotoType DEF Webhook, IdleRequest
  <2>3. startTime' \in [RunIds -> Nat]
    BY <1>3, HiddenAssumption DEF Webhook
  <2>4. QED BY <1>3, <2>2, <2>3 DEF Webhook, requestHistory
<1>4. ASSUME NEW q \in Requests, NEW r \in RunIds, NEW hide \in BOOLEAN, MarkInMemory(q, r, hide)
      PROVE  HiddenTypeOK'
  <2> DEFINE h == [IdleRequest EXCEPT !.pc = "persist", !.hide = hide, !.run = r]
  <2>1. h \in Handler /\ h.run = r
    BY DEF IdleRequest, Handler, NoRunId
  <2>2. request' \in [Requests -> Handler] /\ Writes'
    <3>1. Goto(q, h)
      BY <1>4 DEF MarkInMemory
    <3> HIDE DEF h
    <3>2. QED BY <2>1, <3>1, GotoType
  <2>3. hidden' \subseteq RunIds /\ wanted' \subseteq RunIds
    <3>1. hidden' = (IF hide THEN hidden \cup {r} ELSE hidden \ {r})
      BY <1>4 DEF MarkInMemory
    <3>2. wanted' = (IF hide THEN wanted \cup {r} ELSE wanted \ {r})
      BY <1>4 DEF MarkInMemory
    <3>3. QED BY <3>1, <3>2
  <2>4. overlapped' \subseteq RunIds /\ failed' \subseteq RunIds
    BY <1>4 DEF MarkInMemory
  <2>5. UNCHANGED <<known, latestRunID, startTime, hiddenRows, selected, chooser, publisher>>
    BY <1>4 DEF MarkInMemory, storeVars
  <2>6. QED BY <2>2, <2>3, <2>4, <2>5
<1>5. ASSUME NEW q \in Requests, Persist(q)
      PROVE  HiddenTypeOK'
  <2>1. [IdleRequest EXCEPT !.pc = "latest"] \in Handler
    BY DEF IdleRequest, Handler, NoRunId
  <2>2. request' \in [Requests -> Handler] /\ Writes'
    BY <1>5, <2>1, GotoType DEF Persist, IdleRequest
  <2>3. hiddenRows' \subseteq RunIds /\ failed' \subseteq RunIds
    BY <1>5 DEF Persist
  <2>4. QED BY <1>5, <2>2, <2>3 DEF Persist, storeVars, bounds
<1>6. ASSUME NEW q \in Requests, ReadLatest(q) \/ CheckHidden(q) \/ ListRuns(q) \/ ChooseVisible(q)
      PROVE  HiddenTypeOK'
  <2>1. latestRunID \in RunIds \cup {NoRunId}
    OBVIOUS
  <2>2. BestVisible(request[q].listed) \in RunIds \cup {NoRunId}
    BY <1>1, FallbackIsVisible DEF Handler
  <2>3. request' \in [Requests -> Handler] /\ Writes'
    <3>1. CASE ReadLatest(q)
      BY <1>1, <2>1, <3>1, ZenonT(60) DEF ReadLatest, Handler, Goto
    <3>2. CASE CheckHidden(q)
      BY <1>1, <3>2 DEF CheckHidden, Handler, Goto
    <3>3. CASE ListRuns(q)
      BY <1>1, <3>3, ZenonT(60) DEF ListRuns, Handler, Goto
    <3>4. CASE ChooseVisible(q)
      <4> DEFINE f == BestVisible(request[q].listed)
      <4>1. Goto(q, [request[q] EXCEPT !.pc = "publish", !.listed = {}, !.found = f])
        BY <3>4 DEF ChooseVisible
      <4> HIDE DEF f
      <4>2. [request[q] EXCEPT !.pc = "publish", !.listed = {}, !.found = f] \in Handler
        BY <1>1, <2>2 DEF Handler, f
      <4>3. [request[q] EXCEPT !.pc = "publish", !.listed = {}, !.found = f].pc = "publish"
        BY <1>1 DEF Handler
      <4>4. QED BY <4>1, <4>2, <4>3, GotoType
    <3>5. QED BY <1>6, <3>1, <3>2, <3>3, <3>4
  <2>4. QED
    BY <1>6, <2>3 DEF ReadLatest, CheckHidden, ListRuns, ChooseVisible, storeVars, bounds, requestHistory
<1>7. ASSUME NEW q \in Requests, Publish(q)
      PROVE  HiddenTypeOK'
  <2>1. IdleRequest \in Handler /\ IdleRequest.pc = "idle"
    BY DEF IdleRequest, Handler, NoRunId
  <2>2. request' \in [Requests -> Handler] /\ Writes'
    BY <1>7, <2>1, GotoType DEF Publish
  <2>3. selected' \in RunIds \cup {NoRunId}
    BY <1>1, <1>7 DEF Publish, Handler
  <2>4. QED BY <1>7, <2>2, <2>3 DEF Publish, storeVars, bounds, requestHistory
<1>8. CASE Restart
  <2>1. request' \in [Requests -> Handler] /\ Writes'
    BY <1>8 DEF Restart, IdleRequest, Handler, NoRunId
  <2>2. QED BY <1>8, <2>1 DEF Restart, storeVars
<1>9. QED BY <1>2, <1>3, <1>4, <1>5, <1>6, <1>7, <1>8, Steps

(* Types hold from the start.                                               *)
LEMMA TypeInit == HiddenInit => HiddenTypeOK
  BY HiddenAssumption DEF HiddenInit, HiddenTypeOK, IdleRequest, Handler, NoRunId

(* Handlers, tables and the set of hidden runs keep their types.            *)
THEOREM HiddenTypeCorrect == HiddenSpec => []HiddenTypeOK
  BY TypeInit, TypeStep, PTL DEF HiddenSpec

-----------------------------------------------------------------------------
(* Memory and table.                                                        *)

(* The inductive invariant: a run without overlapping requests is hidden in *)
(* memory as its last request wants it, and in the table too unless that    *)
(* request, the only one about it, has yet to write its row.                *)
Agree(r) ==
    /\ r \in wanted <=> r \in hidden
    /\ \/ InProgress(r) = {} /\ (r \in wanted <=> r \in hiddenRows)
       \/ \E q \in Requests : InProgress(r) = {q} /\ (request[q].hide <=> r \in wanted)

Agreement == \A r \in RunIds \ (overlapped \cup failed) : Agree(r)

(* A step of a handler that neither has to write nor will have to is not    *)
(* seen by those that have.                                                 *)
LEMMA OthersInProgress ==
    ASSUME HiddenTypeOK, NEW q \in Requests, NEW h \in Handler, Goto(q, h),
           request[q].pc # "persist", h.pc # "persist"
    PROVE  \A r \in RunIds : /\ InProgress(r)' = InProgress(r)
                             /\ \A p \in InProgress(r) : request'[p] = request[p]
<1>1. /\ request'[q] = h
      /\ \A p \in Requests \ {q} : request'[p] = request[p]
  BY GotoType DEF HiddenTypeOK
<1>2. \A p \in Requests : request'[p] = request[p] \/ (request[p].pc # "persist" /\ request'[p].pc # "persist")
  BY <1>1
<1>3. QED BY <1>2 DEF InProgress

(* Such a step keeps the agreement when it writes neither set.              *)
LEMMA AgreementKept ==
    ASSUME HiddenTypeOK, Agreement, NEW q \in Requests, NEW h \in Handler, Goto(q, h),
           request[q].pc # "persist", h.pc # "persist",
           UNCHANGED <<hidden, hiddenRows, requestHistory>>
    PROVE  Agreement'
<1> SUFFICES ASSUME NEW r \in RunIds, r \notin overlapped, r \notin failed
             PROVE  Agree(r)'
  BY DEF Agreement, requestHistory
<1>1. Agree(r)
  BY DEF Agreement
<1>2. /\ InProgress(r)' = InProgress(r)
      /\ \A p \in InProgress(r) : request'[p] = request[p]
  BY OthersInProgress
<1>3. UNCHANGED <<wanted, hidden, hiddenRows>>
  BY DEF requestHistory
<1>4. ASSUME NEW p \in Requests, InProgress(r) = {p}, request[p].hide <=> r \in wanted
      PROVE  InProgress(r)' = {p} /\ (request'[p].hide <=> r \in wanted')
  <2>1. p \in InProgress(r)
    BY <1>4
  <2>2. request'[p] = request[p]
    BY <1>2, <2>1
  <2>3. QED BY <1>2, <1>3, <1>4, <2>2
<1>5. QED BY <1>1, <1>2, <1>3, <1>4 DEF Agree

(* A request marks its run.                                                 *)
LEMMA MarkAgrees ==
    ASSUME HiddenTypeOK, Agreement,
           NEW q \in Requests, NEW r \in RunIds, NEW hide \in BOOLEAN, MarkInMemory(q, r, hide)
    PROVE  Agreement'
<1> DEFINE h == [IdleRequest EXCEPT !.pc = "persist", !.hide = hide, !.run = r]
<1>1. h \in Handler /\ h.pc = "persist" /\ h.run = r /\ h.hide = hide
  BY DEF IdleRequest, Handler, NoRunId
<1>2. /\ request'[q] = h
      /\ \A p \in Requests \ {q} : request'[p] = request[p]
  BY <1>1, GotoType DEF HiddenTypeOK, MarkInMemory
<1>3. request[q].pc = "idle"
  BY DEF MarkInMemory
<1> HIDE DEF h
<1> SUFFICES ASSUME NEW s \in RunIds, s \notin overlapped', s \notin failed'
             PROVE  Agree(s)'
  BY DEF Agreement
<1>4. CASE s # r
  <2>1. InProgress(s)' = InProgress(s) /\ q \notin InProgress(s)
    BY <1>1, <1>2, <1>3, <1>4 DEF InProgress
  <2>2. s \notin overlapped /\ s \notin failed
    BY <1>4 DEF MarkInMemory
  <2>3. Agree(s)
    BY <2>2 DEF Agreement
  <2>4. /\ s \in wanted' <=> s \in wanted
        /\ s \in hidden' <=> s \in hidden
        /\ hiddenRows' = hiddenRows
    BY <1>4 DEF MarkInMemory
  <2>5. \A p \in InProgress(s) : request'[p] = request[p]
    BY <1>2, <2>1 DEF InProgress
  <2>6. ASSUME NEW p \in Requests, InProgress(s) = {p}, request[p].hide <=> s \in wanted
        PROVE  InProgress(s)' = {p} /\ (request'[p].hide <=> s \in wanted')
    <3>1. request'[p] = request[p]
      BY <2>5, <2>6
    <3>2. QED BY <2>1, <2>4, <2>6, <3>1
  <2>7. QED BY <2>1, <2>3, <2>4, <2>6 DEF Agree
<1>5. CASE s = r
  <2>1. InProgress(r) = {}
    BY <1>5 DEF MarkInMemory
  <2>2. InProgress(r)' = {q}
    BY <1>1, <1>2, <2>1 DEF InProgress
  <2>3. (r \in wanted' <=> hide) /\ (r \in hidden' <=> hide)
    BY DEF MarkInMemory
  <2>4. request'[q].hide <=> r \in wanted'
    BY <1>1, <1>2, <2>3
  <2>5. QED BY <1>5, <2>2, <2>3, <2>4 DEF Agree
<1>6. QED BY <1>4, <1>5

(* A request writes its row, or fails to.                                   *)
LEMMA PersistAgrees ==
    ASSUME HiddenTypeOK, Agreement, NEW q \in Requests, Persist(q)
    PROVE  Agreement'
<1> DEFINE r == request[q].run
<1>1. [IdleRequest EXCEPT !.pc = "latest"] \in Handler /\ [IdleRequest EXCEPT !.pc = "latest"].pc = "latest"
  BY DEF IdleRequest, Handler, NoRunId
<1>2. /\ request'[q].pc = "latest"
      /\ \A p \in Requests \ {q} : request'[p] = request[p]
  BY <1>1, GotoType DEF HiddenTypeOK, Persist
<1>3. request[q].pc = "persist" /\ r \in RunIds
  BY DEF HiddenTypeOK, Persist
<1>4. UNCHANGED <<wanted, overlapped, hidden>> /\ failed \subseteq failed'
  BY DEF Persist
<1> SUFFICES ASSUME NEW s \in RunIds, s \notin overlapped', s \notin failed'
             PROVE  Agree(s)'
  BY DEF Agreement
<1>5. Agree(s)
  BY <1>4 DEF Agreement
<1>6. CASE s # r
  <2>1. InProgress(s)' = InProgress(s) /\ q \notin InProgress(s)
    BY <1>2, <1>3, <1>6 DEF InProgress
  <2>2. s \in hiddenRows' <=> s \in hiddenRows
    BY <1>6 DEF Persist
  <2>3. \A p \in InProgress(s) : request'[p] = request[p]
    BY <1>2, <2>1 DEF InProgress
  <2>4. ASSUME NEW p \in Requests, InProgress(s) = {p}, request[p].hide <=> s \in wanted
        PROVE  InProgress(s)' = {p} /\ (request'[p].hide <=> s \in wanted')
    <3>1. request'[p] = request[p]
      BY <2>3, <2>4
    <3>2. QED BY <1>4, <2>1, <2>4, <3>1
  <2>5. QED BY <1>4, <1>5, <2>1, <2>2, <2>4 DEF Agree
<1>7. CASE s = r
  <2>1. q \in InProgress(s)
    BY <1>3, <1>7 DEF InProgress
  <2>2. InProgress(s) = {q} /\ (request[q].hide <=> s \in wanted)
    BY <1>5, <2>1 DEF Agree
  <2>3. InProgress(s)' = {}
    <3>1. SUFFICES ASSUME NEW p \in Requests, request'[p].pc = "persist", request'[p].run = s PROVE FALSE
      BY DEF InProgress
    <3>2. p # q
      BY <1>2, <3>1
    <3>3. p \in InProgress(s)
      BY <1>2, <3>1, <3>2 DEF InProgress
    <3>4. QED BY <2>2, <3>2, <3>3
  <2>4. hiddenRows' = IF request[q].hide THEN hiddenRows \cup {s} ELSE hiddenRows \ {s}
    BY <1>7 DEF Persist
  <2>5. s \in hiddenRows' <=> s \in wanted
    BY <2>2, <2>4
  <2>6. QED BY <1>4, <1>5, <2>3, <2>5 DEF Agree
<1>8. QED BY <1>6, <1>7

(* A restart takes memory from the table; requests in progress are lost.    *)
LEMMA RestartAgrees ==
    ASSUME HiddenTypeOK, Agreement, Restart
    PROVE  Agreement'
<1> SUFFICES ASSUME NEW r \in RunIds, r \notin overlapped', r \notin failed'
             PROVE  Agree(r)'
  BY DEF Agreement
<1>1. /\ hidden' = hiddenRows /\ UNCHANGED <<hiddenRows, wanted, overlapped>>
      /\ failed' = failed \cup {s \in RunIds : InProgress(s) # {}}
  BY DEF Restart
<1>2. InProgress(r) = {} /\ r \notin failed
  BY <1>1
<1>3. r \in wanted <=> r \in hiddenRows
  BY <1>1, <1>2 DEF Agreement, Agree
<1>4. \A q \in Requests : request'[q].pc = "idle"
  BY DEF Restart, IdleRequest
<1>5. InProgress(r)' = {}
  BY <1>4 DEF InProgress
<1>6. QED BY <1>1, <1>3, <1>5 DEF Agree

(* The handlers' other steps.                                               *)
LEMMA SelectionAgrees ==
    ASSUME HiddenTypeOK, Agreement, NEW q \in Requests,
           ReadLatest(q) \/ CheckHidden(q) \/ ListRuns(q) \/ ChooseVisible(q) \/ Publish(q)
    PROVE  Agreement'
<1>1. request[q] \in Handler /\ latestRunID \in RunIds \cup {NoRunId} /\ known \subseteq RunIds
  BY DEF HiddenTypeOK
<1>2. CASE ReadLatest(q)
  BY <1>1, <1>2, AgreementKept DEF ReadLatest, Handler
<1>3. CASE CheckHidden(q)
  BY <1>1, <1>3, AgreementKept DEF CheckHidden, Handler
<1>4. CASE ListRuns(q)
  BY <1>1, <1>4, AgreementKept DEF ListRuns, Handler
<1>5. CASE ChooseVisible(q)
  <2> DEFINE f == BestVisible(request[q].listed)
  <2>1. f \in RunIds \cup {NoRunId}
    BY <1>1, FallbackIsVisible DEF Handler, HiddenTypeOK
  <2>2. Goto(q, [request[q] EXCEPT !.pc = "publish", !.listed = {}, !.found = f])
    BY <1>5 DEF ChooseVisible
  <2> HIDE DEF f
  <2>3. [request[q] EXCEPT !.pc = "publish", !.listed = {}, !.found = f] \in Handler
    BY <1>1, <2>1 DEF Handler
  <2>4. [request[q] EXCEPT !.pc = "publish", !.listed = {}, !.found = f].pc = "publish"
    BY <1>1 DEF Handler
  <2>5. request[q].pc # "persist" /\ UNCHANGED <<hidden, hiddenRows, requestHistory>>
    BY <1>5 DEF ChooseVisible
  <2>6. QED BY <2>2, <2>3, <2>4, <2>5, AgreementKept
<1>6. CASE Publish(q)
  <2>1. IdleRequest \in Handler /\ IdleRequest.pc = "idle"
    BY DEF IdleRequest, Handler, NoRunId
  <2>2. QED BY <1>6, <2>1, AgreementKept DEF Publish
<1>7. QED BY <1>2, <1>3, <1>4, <1>5, <1>6

(* Every step keeps the agreement.                                          *)
LEMMA AgreementStep ==
    ASSUME HiddenTypeOK, Agreement, [HiddenNext]_hiddenVars
    PROVE  Agreement'
<1>1. ASSUME NEW q \in Requests, NEW r \in RunIds, NEW time \in Times, Webhook(q, r, time)
      PROVE  Agreement'
  <2>1. [IdleRequest EXCEPT !.pc = "latest"] \in Handler /\ [IdleRequest EXCEPT !.pc = "latest"].pc = "latest"
    BY DEF IdleRequest, Handler, NoRunId
  <2>2. QED BY <1>1, <2>1, AgreementKept DEF Webhook
<1>2. CASE UNCHANGED hiddenVars
  BY <1>2 DEF hiddenVars, requestHistory, Agreement, Agree, InProgress
<1>3. QED BY <1>1, <1>2, MarkAgrees, PersistAgrees, RestartAgrees, SelectionAgrees, Steps

(* The agreement holds from the start.                                      *)
LEMMA AgreementInit == HiddenInit => Agreement
  BY DEF HiddenInit, Agreement, Agree, InProgress, IdleRequest

(* What a user was told about a run is so in memory and in the table, also  *)
(* after a restart.                                                         *)
THEOREM AnswersLast == HiddenSpec => []AnsweredRequestsLast
<1>1. Agreement => AnsweredRequestsLast
  BY DEF Agreement, Agree, AnsweredRequestsLast
<1>2. QED BY <1>1, TypeInit, TypeStep, AgreementInit, AgreementStep, PTL DEF HiddenSpec

-----------------------------------------------------------------------------
(* The selector.                                                            *)

(* No handler has still to begin its selection.                             *)
AllChose == \A q \in Requests : request[q].pc \notin {"persist", "latest"}

(* The inductive invariant: the last selection to begin goes by runs and    *)
(* marks that no longer change.                                             *)
LastChoice ==
    AllChose /\ chooser # NoRequest =>
        /\ request[chooser].pc = "check" => request[chooser].found = latestRunID
        /\ request[chooser].pc = "choose" => request[chooser].listed = known
        /\ request[chooser].pc = "publish" => Fits(request[chooser].found)
        /\ request[chooser].pc = "idle" /\ publisher = chooser => Fits(selected)

(* Every step keeps the last choice true.                                   *)
LEMMA LastChoiceStep ==
    ASSUME HiddenTypeOK, LastChoice, [HiddenNext]_hiddenVars
    PROVE  LastChoice'
<1>1. \A q \in Requests : request[q] \in Handler
  BY DEF HiddenTypeOK
<1>2. ASSUME NEW q \in Requests, request'[q].pc \in {"persist", "latest"}
      PROVE  LastChoice'
  BY <1>2 DEF LastChoice, AllChose
<1>3. ASSUME NEW q \in Requests, NEW r \in RunIds, NEW time \in Times, Webhook(q, r, time)
      PROVE  LastChoice'
  <2>1. request'[q].pc = "latest"
    BY <1>3 DEF Webhook, Goto, IdleRequest, HiddenTypeOK
  <2>2. QED BY <1>2, <2>1
<1>4. ASSUME NEW q \in Requests, NEW r \in RunIds, NEW hide \in BOOLEAN, MarkInMemory(q, r, hide)
      PROVE  LastChoice'
  <2>1. request'[q].pc = "persist"
    BY <1>4 DEF MarkInMemory, Goto, IdleRequest, HiddenTypeOK
  <2>2. QED BY <1>2, <2>1
<1>5. ASSUME NEW q \in Requests, Persist(q)
      PROVE  LastChoice'
  <2>1. request'[q].pc = "latest"
    BY <1>5 DEF Persist, Goto, IdleRequest, HiddenTypeOK
  <2>2. QED BY <1>2, <2>1
<1>6. ASSUME NEW q \in Requests, ReadLatest(q)
      PROVE  LastChoice'
  <2>1. request'[q].pc = "check" /\ request'[q].found = latestRunID
    BY <1>1, <1>6 DEF ReadLatest, Goto, HiddenTypeOK, Handler
  <2>2. chooser' = q /\ latestRunID' = latestRunID
    BY <1>6 DEF ReadLatest, storeVars
  <2>3. QED BY <2>1, <2>2 DEF LastChoice
<1>7. ASSUME NEW q \in Requests, CheckHidden(q)
      PROVE  LastChoice'
  <2>1. UNCHANGED <<known, latestRunID, hidden, selected, chooser, publisher>>
    BY <1>7 DEF CheckHidden, storeVars
  <2>2. /\ request[q].pc = "check"
        /\ request'[q].pc = IF request[q].found \in hidden THEN "list" ELSE "publish"
        /\ request'[q].found = request[q].found
        /\ \A p \in Requests \ {q} : request'[p] = request[p]
    BY <1>1, <1>7 DEF CheckHidden, Goto, HiddenTypeOK, Handler
  <2>3. AllChose' => AllChose
    BY <2>2 DEF AllChose
  <2>4. ASSUME AllChose', chooser = q, request'[q].pc = "publish"
        PROVE  Fits(request'[q].found)
    <3>1. request[q].found = latestRunID /\ latestRunID \notin hidden
      BY <2>2, <2>3, <2>4, HiddenAssumption DEF LastChoice
    <3>2. QED BY <2>2, <3>1 DEF Fits, HiddenTypeOK
  <2>5. QED BY <2>1, <2>2, <2>3, <2>4 DEF LastChoice, HiddenTypeOK, Fits
<1>8. ASSUME NEW q \in Requests, ListRuns(q)
      PROVE  LastChoice'
  <2>1. UNCHANGED <<known, latestRunID, hidden, selected, chooser, publisher>>
    BY <1>8 DEF ListRuns, storeVars
  <2>2. /\ request[q].pc = "list"
        /\ request'[q].pc = "choose" /\ request'[q].listed = known
        /\ \A p \in Requests \ {q} : request'[p] = request[p]
    BY <1>1, <1>8 DEF ListRuns, Goto, HiddenTypeOK, Handler
  <2>3. AllChose' => AllChose
    BY <2>2 DEF AllChose
  <2>4. QED BY <2>1, <2>2, <2>3 DEF LastChoice, HiddenTypeOK, Fits
<1>9. ASSUME NEW q \in Requests, ChooseVisible(q)
      PROVE  LastChoice'
  <2>1. UNCHANGED <<known, latestRunID, hidden, selected, chooser, publisher>>
    BY <1>9 DEF ChooseVisible, storeVars
  <2> DEFINE f == BestVisible(request[q].listed)
  <2>2. Goto(q, [request[q] EXCEPT !.pc = "publish", !.listed = {}, !.found = f])
    BY <1>9 DEF ChooseVisible
  <2>3. IF request[q].listed \ hidden = {} THEN f = NoRunId ELSE f \in request[q].listed \ hidden
    BY <1>1, FallbackIsVisible DEF Handler, HiddenTypeOK
  <2> HIDE DEF f
  <2>4. /\ request[q].pc = "choose"
        /\ request'[q].pc = "publish" /\ request'[q].found = f
        /\ \A p \in Requests \ {q} : request'[p] = request[p]
    BY <1>1, <1>9, <2>2 DEF ChooseVisible, Goto, HiddenTypeOK, Handler
  <2>5. AllChose' => AllChose
    BY <2>4 DEF AllChose
  <2>6. ASSUME AllChose', chooser = q
        PROVE  Fits(f)
    <3>1. request[q].listed = known
      BY <2>4, <2>5, <2>6, HiddenAssumption DEF LastChoice
    <3>2. QED BY <2>3, <3>1 DEF Fits
  <2>7. QED BY <2>1, <2>4, <2>5, <2>6 DEF LastChoice, HiddenTypeOK, Fits
<1>10. ASSUME NEW q \in Requests, Publish(q)
       PROVE  LastChoice'
  <2>1. UNCHANGED <<known, latestRunID, hidden, chooser>> /\ selected' = request[q].found /\ publisher' = q
    BY <1>10 DEF Publish, storeVars
  <2>2. /\ request[q].pc = "publish" /\ request'[q].pc = "idle"
        /\ \A p \in Requests \ {q} : request'[p] = request[p]
    BY <1>10 DEF Publish, Goto, HiddenTypeOK, IdleRequest
  <2>3. AllChose' => AllChose
    BY <2>2 DEF AllChose
  <2>4. ASSUME AllChose', chooser = q
        PROVE  Fits(selected')
    BY <2>1, <2>2, <2>3, <2>4, HiddenAssumption DEF LastChoice
  <2>5. QED BY <2>1, <2>2, <2>3, <2>4 DEF LastChoice, HiddenTypeOK, Fits
<1>11. CASE Restart
  BY <1>11 DEF Restart, LastChoice
<1>12. CASE UNCHANGED hiddenVars
  BY <1>12 DEF hiddenVars, storeVars, LastChoice, AllChose, Fits
<1>13. QED BY <1>3, <1>4, <1>5, <1>6, <1>7, <1>8, <1>9, <1>10, <1>11, <1>12, Steps

(* The selector broadcast by the last selection to begin sends browsers to  *)
(* a visible run, if there is one, once no request is in progress.          *)
THEOREM SelectorIsVisible == HiddenSpec => []SettledSelectorIsVisible
<1>1. HiddenInit => LastChoice
  BY DEF HiddenInit, LastChoice
<1>2. HiddenTypeOK /\ LastChoice => SettledSelectorIsVisible
  <2> SUFFICES ASSUME HiddenTypeOK, LastChoice, Settled, publisher # NoRequest, publisher = chooser
               PROVE  Fits(selected)
    BY DEF SettledSelectorIsVisible
  <2>1. AllChose
    BY DEF Settled, AllChose
  <2>2. request[chooser].pc = "idle"
    BY DEF Settled, HiddenTypeOK
  <2>3. QED BY <2>1, <2>2 DEF LastChoice
<1>3. QED BY <1>1, <1>2, TypeInit, TypeStep, LastChoiceStep, PTL DEF HiddenSpec

-----------------------------------------------------------------------------
(* Locks.                                                                   *)


Data == ({"runs", "hidden", "layouts", "subscribers"} \X {"server"})
        \cup ({"identity", "fields"} \X Runs)
Op == [op: {"Lock", "Unlock", "RLock", "RUnlock"}, on: LockSet]
      \cup [op: {"read", "write"}, on: Data]

(* Which lock guards which data; nothing guards the identity of a run.      *)
GuardedBy(d, l) ==
    \/ d = Of("runs") /\ l = Of("store")
    \/ d = Of("hidden") /\ l = Of("hidden")
    \/ d = Of("layouts") /\ l = Of("layouts")
    \/ d = Of("subscribers") /\ l = Of("broker")
    \/ \E r \in Runs : d = Fields(r) /\ l = RunLock(r)

(* The order in which locks are taken while others are held.                *)
Rank(l) == IF l[1] \in {"store", "hidden"} THEN 1 ELSE IF l[1] = "run" THEN 2 ELSE 3

(* Before its i-th operation p has done a, and b not since.                 *)
Since(p, i, a, b) == \E j \in 1 .. i - 1 : p[j] = a /\ \A k \in j + 1 .. i - 1 : p[k] # b

HoldsWrite(p, i, l) == Since(p, i, Lock(l), Unlock(l))
HoldsRead(p, i, l) == Since(p, i, RLock(l), RUnlock(l))
Holds(p, i, l) == HoldsWrite(p, i, l) \/ HoldsRead(p, i, l)

(* Guarded data is accessed under its lock, and a Lock is released by the   *)
(* handler that holds it.                                                   *)
Protected(p) ==
    \A i \in 1 .. Len(p), l \in LockSet :
        /\ p[i] = Unlock(l) => HoldsWrite(p, i, l)
        /\ \A d \in Data : GuardedBy(d, l) /\ p[i] = Write(d) => HoldsWrite(p, i, l)
        /\ \A d \in Data : GuardedBy(d, l) /\ p[i] = Read(d) => Holds(p, i, l)

(* Locks of rank k or more are taken, above those held.                     *)
Nested(p, k) ==
    \A i \in 1 .. Len(p), l \in LockSet :
        p[i] \in {Lock(l), RLock(l)} =>
            /\ Rank(l) >= k
            /\ \A m \in LockSet : Holds(p, i, m) => Rank(m) < Rank(l)

Balanced(p) == \A l \in LockSet : ~Holds(p, Len(p) + 1, l)

Sections(k) == {p \in Seq(Op) : Protected(p) /\ Nested(p, k) /\ Balanced(p)}

-----------------------------------------------------------------------------
(* Programs one after the other. *)

(* What has been done before an operation of the first program.             *)
LEMMA SinceInFirst ==
    ASSUME NEW p \in Seq(Op), NEW q \in Seq(Op), NEW i \in 1 .. Len(p) + 1, NEW a, NEW b
    PROVE  Since(p \o q, i, a, b) <=> Since(p, i, a, b)
<1>1. \A j \in 1 .. i - 1 : (p \o q)[j] = p[j]
  BY ConcatProperties
<1>2. QED BY <1>1 DEF Since

(* What has been done before an operation of the second program.            *)
LEMMA SinceInSecond ==
    ASSUME NEW p \in Seq(Op), NEW q \in Seq(Op), NEW i \in 1 .. Len(q) + 1, NEW a, NEW b
    PROVE  Since(p \o q, Len(p) + i, a, b) <=>
             \/ Since(q, i, a, b)
             \/ Since(p, Len(p) + 1, a, b) /\ \A k \in 1 .. i - 1 : q[k] # b
<1> DEFINE r == p \o q
           n == Len(p)
<1>1. /\ n \in Nat /\ Len(q) \in Nat
      /\ \A j \in 1 .. n : r[j] = p[j]
      /\ \A j \in 1 .. Len(q) : r[n + j] = q[j]
  BY ConcatProperties
<1> HIDE DEF r, n
<1>2. ASSUME Since(q, i, a, b) PROVE Since(r, n + i, a, b)
  <2>1. PICK j \in 1 .. i - 1 : q[j] = a /\ \A k \in j + 1 .. i - 1 : q[k] # b
    BY <1>2 DEF Since
  <2>2. n + j \in 1 .. (n + i) - 1 /\ r[n + j] = a
    BY <1>1, <2>1
  <2>3. ASSUME NEW k \in n + j + 1 .. (n + i) - 1 PROVE r[k] # b
    <3>1. k - n \in j + 1 .. i - 1 /\ k - n \in 1 .. Len(q) /\ n + (k - n) = k
      BY <1>1, <2>1
    <3>2. QED BY <1>1, <2>1, <3>1
  <2>4. QED BY <2>2, <2>3, Zenon DEF Since
<1>3. ASSUME Since(p, n + 1, a, b), \A k \in 1 .. i - 1 : q[k] # b
      PROVE  Since(r, n + i, a, b)
  <2>1. PICK j \in 1 .. n : p[j] = a /\ \A k \in j + 1 .. n : p[k] # b
    BY <1>1, <1>3 DEF Since
  <2>2. j \in 1 .. (n + i) - 1 /\ r[j] = a
    BY <1>1, <2>1
  <2>3. ASSUME NEW k \in j + 1 .. (n + i) - 1 PROVE r[k] # b
    <3>1. CASE k <= n
      BY <1>1, <2>1, <3>1
    <3>2. CASE k > n
      <4>1. k - n \in 1 .. i - 1 /\ k - n \in 1 .. Len(q) /\ n + (k - n) = k
        BY <1>1, <3>2
      <4>2. QED BY <1>1, <1>3, <4>1
    <3>3. QED BY <1>1, <3>1, <3>2
  <2>4. QED BY <2>2, <2>3, Zenon DEF Since
<1>4. ASSUME Since(r, n + i, a, b)
      PROVE  Since(q, i, a, b) \/ (Since(p, n + 1, a, b) /\ \A k \in 1 .. i - 1 : q[k] # b)
  <2>1. PICK j \in 1 .. (n + i) - 1 : r[j] = a /\ \A k \in j + 1 .. (n + i) - 1 : r[k] # b
    BY <1>4, Zenon DEF Since
  <2>2. CASE j <= n
    <3>1. Since(p, n + 1, a, b)
      <4>1. j \in 1 .. (n + 1) - 1 /\ p[j] = a
        BY <1>1, <2>1, <2>2
      <4>2. ASSUME NEW k \in j + 1 .. (n + 1) - 1 PROVE p[k] # b
        <5>1. k \in j + 1 .. (n + i) - 1 /\ k \in 1 .. n
          BY <1>1, <2>1, <4>2
        <5>2. QED BY <1>1, <2>1, <5>1
      <4>3. QED BY <4>1, <4>2, Zenon DEF Since
    <3>2. \A k \in 1 .. i - 1 : q[k] # b
      <4> TAKE k \in 1 .. i - 1
      <4>1. n + k \in j + 1 .. (n + i) - 1 /\ k \in 1 .. Len(q)
        BY <1>1, <2>2
      <4>2. QED BY <1>1, <2>1, <4>1
    <3>3. QED BY <3>1, <3>2
  <2>3. CASE j > n
    <3>1. j - n \in 1 .. i - 1 /\ j - n \in 1 .. Len(q) /\ n + (j - n) = j
      BY <1>1, <2>3
    <3>2. q[j - n] = a
      BY <1>1, <2>1, <3>1
    <3>3. ASSUME NEW k \in (j - n) + 1 .. i - 1 PROVE q[k] # b
      <4>1. n + k \in j + 1 .. (n + i) - 1 /\ k \in 1 .. Len(q)
        BY <1>1, <3>1
      <4>2. QED BY <1>1, <2>1, <4>1
    <3>4. QED BY <3>1, <3>2, <3>3, Zenon DEF Since
  <2>4. QED BY <1>1, <2>2, <2>3
<1>5. QED BY <1>2, <1>3, <1>4 DEF r, n

(* One operation more.                                                      *)
LEMMA SinceStep ==
    ASSUME NEW p \in Seq(Op), NEW i \in 1 .. Len(p), NEW a, NEW b, a # b
    PROVE  Since(p, i + 1, a, b) <=> p[i] = a \/ (p[i] # b /\ Since(p, i, a, b))
<1>1. i \in Nat /\ i >= 1 /\ (i + 1) - 1 = i
  OBVIOUS
<1>2. ASSUME p[i] = a PROVE Since(p, i + 1, a, b)
  BY <1>1, <1>2 DEF Since
<1>3. ASSUME p[i] # b, Since(p, i, a, b) PROVE Since(p, i + 1, a, b)
  <2>1. PICK j \in 1 .. i - 1 : p[j] = a /\ \A k \in j + 1 .. i - 1 : p[k] # b
    BY <1>3 DEF Since
  <2>2. j \in 1 .. (i + 1) - 1 /\ \A k \in j + 1 .. (i + 1) - 1 : p[k] # b
    BY <1>1, <1>3, <2>1
  <2>3. QED BY <2>1, <2>2 DEF Since
<1>4. ASSUME Since(p, i + 1, a, b), p[i] # a PROVE p[i] # b /\ Since(p, i, a, b)
  <2>1. PICK j \in 1 .. (i + 1) - 1 : p[j] = a /\ \A k \in j + 1 .. (i + 1) - 1 : p[k] # b
    BY <1>4 DEF Since
  <2>2. j \in 1 .. i - 1 /\ i \in j + 1 .. (i + 1) - 1
    BY <1>1, <1>4, <2>1
  <2>3. QED BY <2>1, <2>2 DEF Since
<1>5. QED BY <1>2, <1>3, <1>4

(* Nothing has been done before the first operation.                        *)
LEMMA SinceNothing == ASSUME NEW p, NEW a, NEW b PROVE ~Since(p, 1, a, b)
  BY DEF Since

(* The same of the locks held.                                              *)
LEMMA HeldInFirst ==
    ASSUME NEW p \in Seq(Op), NEW q \in Seq(Op), NEW i \in 1 .. Len(p) + 1, NEW l
    PROVE  /\ HoldsWrite(p \o q, i, l) <=> HoldsWrite(p, i, l)
           /\ HoldsRead(p \o q, i, l) <=> HoldsRead(p, i, l)
  BY SinceInFirst DEF HoldsWrite, HoldsRead

(* A balanced program leaves nothing held to the one after it.              *)
LEMMA HeldInSecond ==
    ASSUME NEW p \in Seq(Op), NEW q \in Seq(Op), NEW i \in 1 .. Len(q) + 1, NEW l,
           ~Holds(p, Len(p) + 1, l)
    PROVE  /\ HoldsWrite(p \o q, Len(p) + i, l) <=> HoldsWrite(q, i, l)
           /\ HoldsRead(p \o q, Len(p) + i, l) <=> HoldsRead(q, i, l)
  BY SinceInSecond DEF Holds, HoldsWrite, HoldsRead

(* Sections one after the other are a section.                              *)
LEMMA SectionsConcat ==
    ASSUME NEW k, NEW p \in Sections(k), NEW q \in Sections(k)
    PROVE  p \o q \in Sections(k)
<1> DEFINE r == p \o q
           n == Len(p)
<1>1. /\ p \in Seq(Op) /\ q \in Seq(Op)
      /\ Protected(p) /\ Nested(p, k) /\ Balanced(p)
      /\ Protected(q) /\ Nested(q, k) /\ Balanced(q)
  BY DEF Sections
<1>2. /\ n \in Nat /\ Len(q) \in Nat
      /\ r \in Seq(Op) /\ Len(r) = n + Len(q)
      /\ \A j \in 1 .. n : r[j] = p[j]
      /\ \A j \in 1 .. Len(q) : r[n + j] = q[j]
  BY <1>1, ConcatProperties
<1>3. ASSUME NEW i \in 1 .. n, NEW l
      PROVE  /\ HoldsWrite(r, i, l) <=> HoldsWrite(p, i, l)
             /\ HoldsRead(r, i, l) <=> HoldsRead(p, i, l)
  <2>1. i \in 1 .. Len(p) + 1
    BY <1>2
  <2>2. QED BY <1>1, <2>1, HeldInFirst, Zenon
<1>4. ASSUME NEW i \in 1 .. Len(q) + 1, NEW l \in LockSet
      PROVE  /\ HoldsWrite(r, n + i, l) <=> HoldsWrite(q, i, l)
             /\ HoldsRead(r, n + i, l) <=> HoldsRead(q, i, l)
  BY <1>1, HeldInSecond, Zenon DEF Balanced
<1> HIDE DEF r, n
<1>5. ASSUME NEW i \in 1 .. Len(r), i \notin 1 .. n
      PROVE  i - n \in 1 .. Len(q) /\ i - n \in 1 .. Len(q) + 1 /\ n + (i - n) = i
  BY <1>2, <1>5
<1>6. Protected(r)
  <2> SUFFICES ASSUME NEW i \in 1 .. Len(r), NEW l \in LockSet
               PROVE  /\ r[i] = Unlock(l) => HoldsWrite(r, i, l)
                      /\ \A d \in Data : GuardedBy(d, l) /\ r[i] = Write(d) => HoldsWrite(r, i, l)
                      /\ \A d \in Data : GuardedBy(d, l) /\ r[i] = Read(d) => Holds(r, i, l)
    BY Zenon DEF Protected
  <2>1. CASE i \in 1 .. n
    <3>1. r[i] = p[i] /\ i \in 1 .. Len(p)
      BY <1>2, <2>1 DEF n
    <3>2. QED BY <1>1, <1>3, <2>1, <3>1, Zenon DEF Protected, Holds
  <2>2. CASE i \notin 1 .. n
    <3>1. /\ i - n \in 1 .. Len(q) /\ i - n \in 1 .. Len(q) + 1 /\ n + (i - n) = i
          /\ r[i] = q[i - n]
      BY <1>2, <1>5, <2>2
    <3>2. /\ HoldsWrite(r, i, l) <=> HoldsWrite(q, i - n, l)
          /\ HoldsRead(r, i, l) <=> HoldsRead(q, i - n, l)
      BY <1>4, <3>1
    <3>3. QED BY <1>1, <3>1, <3>2, Zenon DEF Protected, Holds
  <2>3. QED BY <2>1, <2>2
<1>7. Nested(r, k)
  <2> SUFFICES ASSUME NEW i \in 1 .. Len(r), NEW l \in LockSet, r[i] \in {Lock(l), RLock(l)}
               PROVE  /\ Rank(l) >= k
                      /\ \A m \in LockSet : Holds(r, i, m) => Rank(m) < Rank(l)
    BY Zenon DEF Nested
  <2>1. CASE i \in 1 .. n
    <3>1. r[i] = p[i] /\ i \in 1 .. Len(p)
      BY <1>2, <2>1 DEF n
    <3>2. QED BY <1>1, <1>3, <2>1, <3>1, Zenon DEF Nested, Holds
  <2>2. CASE i \notin 1 .. n
    <3>1. /\ i - n \in 1 .. Len(q) /\ i - n \in 1 .. Len(q) + 1 /\ n + (i - n) = i
          /\ r[i] = q[i - n]
      BY <1>2, <1>5, <2>2
    <3>2. ASSUME NEW m \in LockSet PROVE Holds(r, i, m) <=> Holds(q, i - n, m)
      BY <1>4, <3>1 DEF Holds
    <3>3. QED BY <1>1, <3>1, <3>2, Zenon DEF Nested
  <2>3. QED BY <2>1, <2>2
<1>8. Balanced(r)
  <2>1. Len(r) + 1 = n + (Len(q) + 1) /\ Len(q) + 1 \in 1 .. Len(q) + 1
    BY <1>2
  <2>2. ASSUME NEW l \in LockSet, Holds(r, Len(r) + 1, l) PROVE FALSE
    BY <1>1, <1>4, <2>1, <2>2 DEF Balanced, Holds
  <2>3. QED BY <2>2 DEF Balanced
<1>9. QED BY <1>2, <1>6, <1>7, <1>8 DEF Sections, r

(* The empty program is a section.                                          *)
LEMMA EmptySection == ASSUME NEW k PROVE <<>> \in Sections(k)
<1>1. <<>> \in Seq(Op) /\ Len(<<>>) = 0
  OBVIOUS
<1>2. Protected(<<>>) /\ Nested(<<>>, k) /\ Balanced(<<>>)
  BY <1>1, SinceNothing DEF Protected, Nested, Balanced, Holds, HoldsWrite, HoldsRead
<1>3. QED BY <1>1, <1>2 DEF Sections

(* A section that only takes higher locks is one that takes locks of rank k.*)
LEMMA SectionsWiden ==
    ASSUME NEW k \in Nat, NEW j \in Nat, j <= k
    PROVE  Sections(k) \subseteq Sections(j)
<1>1. \A l \in LockSet : Rank(l) \in Nat
  BY DEF Rank
<1>2. ASSUME NEW p \in Sections(k) PROVE Nested(p, j)
  <2>1. Nested(p, k)
    BY DEF Sections
  <2>2. QED BY <1>1, <2>1 DEF Nested
<1>3. QED BY <1>2 DEF Sections

(* Visiting several things in turn, each in a section, is a section.        *)
LEMMA SectionsFlatten ==
    ASSUME NEW k, NEW s \in Seq(Sections(k))
    PROVE  FlattenSeq(s) \in Sections(k)
  BY EmptySection, SectionsConcat, FlattenInClosedSet, Zenon

-----------------------------------------------------------------------------
(* Sections inside of others. *)

(* Different operations are different.                                      *)
LEMMA OpsDiffer ==
    ASSUME NEW l, NEW m
    PROVE  /\ Lock(l) # Unlock(m) /\ Lock(l) # RUnlock(m) /\ Lock(l) # RLock(m)
           /\ RLock(l) # Unlock(m) /\ RLock(l) # RUnlock(m) /\ Unlock(l) # RUnlock(m)
           /\ Lock(l) = Lock(m) => l = m
           /\ RLock(l) = RLock(m) => l = m
           /\ Unlock(l) = Unlock(m) => l = m
           /\ Read(l) = Read(m) => l = m
           /\ Write(l) = Write(m) => l = m
           /\ Read(l) # Write(m)
           /\ Lock(l) \notin {Read(m), Write(m)} /\ RLock(l) \notin {Read(m), Write(m)}
           /\ Unlock(l) \notin {Read(m), Write(m)} /\ RUnlock(l) \notin {Read(m), Write(m)}
  BY DEF Lock, Unlock, RLock, RUnlock, Read, Write

(* How a section of lock m begins and ends: for writing or for reading.     *)
Brackets(m, a, b) ==
    \/ a = Lock(m) /\ b = Unlock(m)
    \/ a = RLock(m) /\ b = RUnlock(m)

(* A head takes lock m and accesses what m guards, if anything does.        *)
IsHead(h, m, a) ==
    /\ h \in Seq(Op) /\ Len(h) >= 1 /\ h[1] = a
    /\ \A i \in 2 .. Len(h) : \E d \in Data :
         /\ \A l \in LockSet : GuardedBy(d, l) => l = m
         /\ h[i] = Read(d) \/ (h[i] = Write(d) /\ a = Lock(m))

(* After its first operation a head holds its lock and no other.            *)
LEMMA HeadHolds ==
    ASSUME NEW m \in LockSet, NEW a, NEW b, Brackets(m, a, b), NEW h, IsHead(h, m, a),
           NEW i \in 2 .. Len(h) + 1, NEW l \in LockSet
    PROVE  /\ HoldsWrite(h, i, l) <=> l = m /\ a = Lock(m)
           /\ HoldsRead(h, i, l) <=> l = m /\ a = RLock(m)
<1>1. Len(h) \in Nat /\ Len(h) >= 1 /\ h[1] = a
  BY DEF IsHead
<1>2. ASSUME NEW k \in 2 .. Len(h), NEW n
      PROVE  h[k] # Lock(n) /\ h[k] # Unlock(n) /\ h[k] # RLock(n) /\ h[k] # RUnlock(n)
  <2>1. \E d : h[k] = Read(d) \/ h[k] = Write(d)
    BY DEF IsHead
  <2>2. QED BY <2>1, OpsDiffer
<1>3. ASSUME NEW A, NEW B, \A k \in 2 .. Len(h) : h[k] # A /\ h[k] # B
      PROVE  Since(h, i, A, B) <=> A = a
  <2>1. ASSUME A = a PROVE Since(h, i, A, B)
    <3>1. 1 \in 1 .. i - 1 /\ \A k \in 1 + 1 .. i - 1 : k \in 2 .. Len(h)
      BY <1>1
    <3>2. QED BY <1>1, <1>3, <2>1, <3>1, Zenon DEF Since
  <2>2. ASSUME Since(h, i, A, B) PROVE A = a
    <3>1. PICK j \in 1 .. i - 1 : h[j] = A
      BY <2>2 DEF Since
    <3>2. j = 1 \/ j \in 2 .. Len(h)
      BY <1>1, <3>1
    <3>3. QED BY <1>1, <1>3, <3>1, <3>2
  <2>3. QED BY <2>1, <2>2
<1>4. HoldsWrite(h, i, l) <=> Lock(l) = a
  BY <1>2, <1>3 DEF HoldsWrite
<1>5. HoldsRead(h, i, l) <=> RLock(l) = a
  BY <1>2, <1>3 DEF HoldsRead
<1>6. QED BY <1>4, <1>5, OpsDiffer, Zenon DEF Brackets

(* A section of higher locks does not release a lower one.                  *)
LEMMA HigherSection ==
    ASSUME NEW m \in LockSet, NEW p \in Sections(Rank(m) + 1), NEW i \in 1 .. Len(p)
    PROVE  p[i] # Unlock(m)
<1>1. p \in Seq(Op) /\ Protected(p) /\ Nested(p, Rank(m) + 1) /\ Len(p) \in Nat
  BY DEF Sections
<1>2. Rank(m) \in Nat
  BY DEF Rank
<1> SUFFICES ASSUME p[i] = Unlock(m) PROVE FALSE
  OBVIOUS
<1>3. HoldsWrite(p, i, m)
  BY <1>1 DEF Protected
<1>4. PICK j \in 1 .. i - 1 : p[j] = Lock(m)
  BY <1>3 DEF HoldsWrite, Since
<1>5. j \in 1 .. Len(p)
  BY <1>1
<1>6. Rank(m) >= Rank(m) + 1
  BY <1>1, <1>4, <1>5 DEF Nested
<1>7. QED BY <1>2, <1>6

(* A section of higher locks between a head and the end of it is a section. *)
LEMMA SectionsNest ==
    ASSUME NEW m \in LockSet, NEW a, NEW b, Brackets(m, a, b), NEW h, IsHead(h, m, a),
           NEW p \in Sections(Rank(m) + 1)
    PROVE  h \o p \o <<b>> \in Sections(Rank(m))
<1> DEFINE n == Len(h)
           r == h \o p
           s == r \o <<b>>
<1>1. /\ h \in Seq(Op) /\ n \in Nat /\ n >= 1 /\ h[1] = a
      /\ p \in Seq(Op) /\ Len(p) \in Nat
      /\ Protected(p) /\ Nested(p, Rank(m) + 1) /\ Balanced(p)
  BY DEF Sections, IsHead
<1>2. /\ r \in Seq(Op) /\ Len(r) = n + Len(p)
      /\ \A j \in 1 .. n : r[j] = h[j]
      /\ \A j \in 1 .. Len(p) : r[n + j] = p[j]
  BY <1>1, ConcatProperties
<1>3. b \in Op
  BY DEF Brackets, Op, Unlock, RUnlock
<1>4. /\ <<b>> \in Seq(Op)
      /\ s \in Seq(Op) /\ Len(s) = Len(r) + 1
      /\ \A j \in 1 .. Len(r) : s[j] = r[j]
      /\ s[Len(r) + 1] = b
  <2>1. <<b>> \in Seq(Op) /\ Len(<<b>>) = 1 /\ <<b>>[1] = b
    BY <1>3
  <2>2. QED BY <1>2, <2>1, ConcatProperties
<1>5. Rank(m) \in Nat
  BY DEF Rank
<1>6. ASSUME NEW i \in 1 .. n, NEW l
      PROVE  /\ HoldsWrite(s, i, l) <=> HoldsWrite(h, i, l)
             /\ HoldsRead(s, i, l) <=> HoldsRead(h, i, l)
  <2>1. i \in 1 .. Len(r) + 1 /\ i \in 1 .. Len(h) + 1
    BY <1>1, <1>2
  <2>2. QED BY <1>1, <1>2, <1>4, <2>1, HeldInFirst, Zenon
<1>7. ASSUME NEW i \in 1 .. Len(p) + 1, NEW l \in LockSet
      PROVE  /\ HoldsWrite(p, i, l) => HoldsWrite(s, n + i, l)
             /\ HoldsRead(p, i, l) => HoldsRead(s, n + i, l)
             /\ HoldsWrite(s, n + i, l) => HoldsWrite(p, i, l) \/ (l = m /\ a = Lock(m))
             /\ HoldsRead(s, n + i, l) => HoldsRead(p, i, l) \/ (l = m /\ a = RLock(m))
  <2>1. n + i \in 1 .. Len(r) + 1 /\ n + 1 \in 2 .. Len(h) + 1
    BY <1>1, <1>2
  <2>2. /\ HoldsWrite(s, n + i, l) <=> HoldsWrite(r, n + i, l)
        /\ HoldsRead(s, n + i, l) <=> HoldsRead(r, n + i, l)
    BY <1>2, <1>4, <2>1, HeldInFirst, Zenon
  <2>3. /\ HoldsWrite(p, i, l) => HoldsWrite(r, n + i, l)
        /\ HoldsRead(p, i, l) => HoldsRead(r, n + i, l)
        /\ HoldsWrite(r, n + i, l) => HoldsWrite(p, i, l) \/ HoldsWrite(h, n + 1, l)
        /\ HoldsRead(r, n + i, l) => HoldsRead(p, i, l) \/ HoldsRead(h, n + 1, l)
    BY <1>1, SinceInSecond, Zenon DEF HoldsWrite, HoldsRead
  <2>4. /\ HoldsWrite(h, n + 1, l) <=> l = m /\ a = Lock(m)
        /\ HoldsRead(h, n + 1, l) <=> l = m /\ a = RLock(m)
    BY <2>1, HeadHolds, Zenon
  <2>5. QED BY <2>2, <2>3, <2>4, Zenon
<1>8. a = Lock(m) => HoldsWrite(s, Len(r) + 1, m)
  <2> SUFFICES ASSUME a = Lock(m) PROVE HoldsWrite(s, Len(r) + 1, m)
    OBVIOUS
  <2>1. HoldsWrite(h, n + 1, m)
    <3>1. n + 1 \in 2 .. Len(h) + 1
      BY <1>1
    <3>2. QED BY <3>1, HeadHolds, Zenon
  <2>2. \A k \in 1 .. (Len(p) + 1) - 1 : p[k] # Unlock(m)
    BY <1>1, HigherSection
  <2>3. Len(p) + 1 \in 1 .. Len(p) + 1 /\ Len(r) + 1 \in 1 .. Len(r) + 1
        /\ n + (Len(p) + 1) = Len(r) + 1
    BY <1>1, <1>2
  <2>4. HoldsWrite(r, n + (Len(p) + 1), m)
    BY <1>1, <2>1, <2>2, <2>3, SinceInSecond, Zenon DEF HoldsWrite
  <2>5. QED BY <1>2, <1>4, <2>3, <2>4, HeldInFirst, Zenon
<1> HIDE DEF r, s, n
<1>9. ASSUME NEW i \in 1 .. Len(s)
      PROVE  \/ i \in 1 .. n /\ s[i] = h[i]
             \/ /\ i - n \in 1 .. Len(p) /\ i - n \in 1 .. Len(p) + 1 /\ n + (i - n) = i
                /\ s[i] = p[i - n]
             \/ i = Len(r) + 1 /\ s[i] = b
  <2>1. CASE i \in 1 .. n
    BY <1>1, <1>2, <1>4, <2>1
  <2>2. CASE i \in n + 1 .. Len(r)
    <3>1. i - n \in 1 .. Len(p) /\ i - n \in 1 .. Len(p) + 1 /\ n + (i - n) = i /\ i \in 1 .. Len(r)
      BY <1>1, <1>2, <2>2
    <3>2. s[i] = r[n + (i - n)]
      BY <1>4, <3>1
    <3>3. QED BY <1>2, <3>1, <3>2
  <2>3. CASE i = Len(r) + 1
    BY <1>4, <2>3
  <2>4. QED BY <1>1, <1>2, <1>4, <2>1, <2>2, <2>3
<1>10. Protected(s)
  <2> SUFFICES ASSUME NEW i \in 1 .. Len(s), NEW l \in LockSet
               PROVE  /\ s[i] = Unlock(l) => HoldsWrite(s, i, l)
                      /\ \A d \in Data : GuardedBy(d, l) /\ s[i] = Write(d) => HoldsWrite(s, i, l)
                      /\ \A d \in Data : GuardedBy(d, l) /\ s[i] = Read(d) => Holds(s, i, l)
    BY Zenon DEF Protected
  <2>1. CASE i \in 1 .. n /\ s[i] = h[i]
    <3>1. CASE i = 1
      <4>1. s[i] = a
        BY <1>1, <2>1, <3>1
      <4>2. QED BY <4>1, OpsDiffer, Zenon DEF Brackets
    <3>2. CASE i # 1
      <4>1. i \in 2 .. Len(h) /\ i \in 2 .. Len(h) + 1
        BY <1>1, <2>1, <3>2 DEF n
      <4>2. PICK d \in Data :
              /\ \A k \in LockSet : GuardedBy(d, k) => k = m
              /\ h[i] = Read(d) \/ (h[i] = Write(d) /\ a = Lock(m))
        BY <4>1 DEF IsHead
      <4>3. Holds(s, i, m) /\ (a = Lock(m) => HoldsWrite(s, i, m))
        BY <1>6, <2>1, <4>1, HeadHolds, Zenon DEF Brackets, Holds
      <4>4. s[i] # Unlock(l)
        BY <2>1, <4>2, OpsDiffer
      <4>5. ASSUME NEW e \in Data, GuardedBy(e, l), s[i] = Write(e) PROVE HoldsWrite(s, i, l)
        <5>1. e = d /\ a = Lock(m)
          BY <2>1, <4>2, <4>5, OpsDiffer
        <5>2. l = m
          BY <4>2, <4>5, <5>1
        <5>3. QED BY <4>3, <5>1, <5>2
      <4>6. ASSUME NEW e \in Data, GuardedBy(e, l), s[i] = Read(e) PROVE Holds(s, i, l)
        <5>1. e = d
          BY <2>1, <4>2, <4>6, OpsDiffer
        <5>2. l = m
          BY <4>2, <4>6, <5>1
        <5>3. QED BY <4>3, <5>2
      <4>7. QED BY <4>4, <4>5, <4>6
    <3>3. QED BY <3>1, <3>2
  <2>2. CASE /\ i - n \in 1 .. Len(p) /\ i - n \in 1 .. Len(p) + 1 /\ n + (i - n) = i
             /\ s[i] = p[i - n]
    <3>1. /\ HoldsWrite(p, i - n, l) => HoldsWrite(s, i, l)
          /\ HoldsRead(p, i - n, l) => HoldsRead(s, i, l)
      BY <1>7, <2>2
    <3>2. QED BY <1>1, <2>2, <3>1, Zenon DEF Protected, Holds
  <2>3. CASE i = Len(r) + 1 /\ s[i] = b
    <3>1. CASE a = Lock(m) /\ b = Unlock(m)
      BY <1>8, <2>3, <3>1, OpsDiffer, Zenon
    <3>2. CASE a = RLock(m) /\ b = RUnlock(m)
      BY <2>3, <3>2, OpsDiffer, Zenon
    <3>3. QED BY <3>1, <3>2 DEF Brackets
  <2>4. QED BY <1>9, <2>1, <2>2, <2>3
<1>11. Nested(s, Rank(m))
  <2> SUFFICES ASSUME NEW i \in 1 .. Len(s), NEW l \in LockSet, s[i] \in {Lock(l), RLock(l)}
               PROVE  /\ Rank(l) >= Rank(m)
                      /\ \A k \in LockSet : Holds(s, i, k) => Rank(k) < Rank(l)
    BY Zenon DEF Nested
  <2>1. CASE i \in 1 .. n /\ s[i] = h[i]
    <3>1. CASE i = 1
      <4>1. l = m
        BY <1>1, <2>1, <3>1, OpsDiffer DEF Brackets
      <4>2. \A k \in LockSet : ~Holds(s, i, k)
        BY <1>6, <2>1, <3>1, SinceNothing DEF Holds, HoldsWrite, HoldsRead
      <4>3. QED BY <1>5, <4>1, <4>2
    <3>2. CASE i # 1
      <4>1. i \in 2 .. Len(h)
        BY <1>1, <2>1, <3>2 DEF n
      <4>2. PICK d : h[i] = Read(d) \/ h[i] = Write(d)
        BY <4>1 DEF IsHead
      <4>3. QED BY <2>1, <4>2, OpsDiffer
    <3>3. QED BY <3>1, <3>2
  <2>2. CASE /\ i - n \in 1 .. Len(p) /\ i - n \in 1 .. Len(p) + 1 /\ n + (i - n) = i
             /\ s[i] = p[i - n]
    <3>1. /\ Rank(l) >= Rank(m) + 1
          /\ \A k \in LockSet : Holds(p, i - n, k) => Rank(k) < Rank(l)
      BY <1>1, <2>2 DEF Nested
    <3>2. \A k \in LockSet : Holds(s, i, k) => Holds(p, i - n, k) \/ k = m
      <4> TAKE k \in LockSet
      <4>1. Holds(s, n + (i - n), k) => Holds(p, i - n, k) \/ k = m
        BY <1>7, <2>2, Zenon DEF Holds
      <4>2. QED BY <2>2, <4>1
    <3>3. Rank(l) \in Nat
      BY DEF Rank
    <3>4. QED BY <1>5, <3>1, <3>2, <3>3
  <2>3. CASE i = Len(r) + 1 /\ s[i] = b
    BY <2>3, OpsDiffer DEF Brackets
  <2>4. QED BY <1>9, <2>1, <2>2, <2>3
<1>12. Balanced(s)
  <2> SUFFICES ASSUME NEW l \in LockSet, Holds(s, Len(s) + 1, l) PROVE FALSE
    BY DEF Balanced
  <2>1. /\ Len(s) \in 1 .. Len(s) /\ s[Len(s)] = b
        /\ Len(s) = n + (Len(p) + 1) /\ Len(p) + 1 \in 1 .. Len(p) + 1
    BY <1>1, <1>2, <1>4
  <2>2. ~Holds(p, Len(p) + 1, l)
    BY <1>1 DEF Balanced
  <2>3. CASE HoldsWrite(s, Len(s) + 1, l)
    <3>1. s[Len(s)] # Unlock(l) /\ HoldsWrite(s, Len(s), l)
      BY <1>4, <2>1, <2>3, SinceStep, OpsDiffer DEF HoldsWrite, Brackets
    <3>2. l = m /\ a = Lock(m)
      BY <1>7, <2>1, <2>2, <3>1 DEF Holds
    <3>3. QED BY <2>1, <3>1, <3>2, OpsDiffer DEF Brackets
  <2>4. CASE HoldsRead(s, Len(s) + 1, l)
    <3>1. s[Len(s)] # RUnlock(l) /\ HoldsRead(s, Len(s), l)
      BY <1>4, <2>1, <2>4, SinceStep, OpsDiffer DEF HoldsRead, Brackets
    <3>2. l = m /\ a = RLock(m)
      BY <1>7, <2>1, <2>2, <3>1 DEF Holds
    <3>3. QED BY <2>1, <3>1, <3>2, OpsDiffer DEF Brackets
  <2>5. QED BY <2>3, <2>4 DEF Holds
<1>13. QED BY <1>4, <1>10, <1>11, <1>12 DEF Sections, s, r

-----------------------------------------------------------------------------
(* The programs of the handlers. *)

(* The locks, their order, and what they guard.                             *)
LEMMA LockFacts ==
    /\ \A w \in {"store", "hidden", "layouts", "broker"} : Of(w) \in LockSet
    /\ Rank(Of("store")) = 1 /\ Rank(Of("hidden")) = 1
    /\ Rank(Of("layouts")) = 3 /\ Rank(Of("broker")) = 3
    /\ \A r \in Runs : RunLock(r) \in LockSet /\ Rank(RunLock(r)) = 2 /\ RunLock(r) # Of("store")
    /\ \A w \in {"runs", "hidden", "layouts", "subscribers"} : Of(w) \in Data
    /\ \A r \in Runs : Identity(r) \in Data /\ Fields(r) \in Data
  BY DEF Of, RunLock, LockSet, Rank, Data, Identity, Fields

(* Each datum has one guard at most.                                        *)
LEMMA GuardFacts ==
    ASSUME NEW l
    PROVE  /\ GuardedBy(Of("runs"), l) => l = Of("store")
           /\ GuardedBy(Of("hidden"), l) => l = Of("hidden")
           /\ GuardedBy(Of("layouts"), l) => l = Of("layouts")
           /\ GuardedBy(Of("subscribers"), l) => l = Of("broker")
           /\ \A r \in Runs : GuardedBy(Fields(r), l) => l = RunLock(r)
           /\ \A r \in Runs : ~GuardedBy(Identity(r), l)
  BY DEF GuardedBy, Of, RunLock, Identity, Fields

(* A read under the guard of what is read is a section.                     *)
LEMMA ReadGuardedSection ==
    ASSUME NEW m \in LockSet, NEW d \in Data, \A l \in LockSet : GuardedBy(d, l) => l = m,
           NEW k \in Nat, k <= Rank(m)
    PROVE  ReadGuarded(m, Read(d)) \in Sections(k)
<1> DEFINE h == <<RLock(m), Read(d)>>
<1>1. IsHead(h, m, RLock(m))
  <2>1. RLock(m) \in Op /\ Read(d) \in Op
    BY DEF Op, RLock, Read
  <2>2. h \in Seq(Op) /\ Len(h) = 2 /\ h[1] = RLock(m) /\ h[2] = Read(d)
    BY <2>1
  <2>3. QED BY <2>2 DEF IsHead
<1>2. Brackets(m, RLock(m), RUnlock(m))
  BY DEF Brackets
<1>3. h \o <<>> \o <<RUnlock(m)>> \in Sections(Rank(m))
  BY <1>1, <1>2, EmptySection, SectionsNest, Zenon
<1>4. ReadGuarded(m, Read(d)) = h \o <<>> \o <<RUnlock(m)>>
  BY DEF ReadGuarded
<1>5. Rank(m) \in Nat
  BY DEF Rank
<1>6. QED BY <1>3, <1>4, <1>5, SectionsWiden

(* So is a write under the guard of what is written.                        *)
LEMMA GuardedSection ==
    ASSUME NEW m \in LockSet, NEW d \in Data, \A l \in LockSet : GuardedBy(d, l) => l = m,
           NEW k \in Nat, k <= Rank(m)
    PROVE  Guarded(m, Write(d)) \in Sections(k)
<1> DEFINE h == <<Lock(m), Write(d)>>
<1>1. IsHead(h, m, Lock(m))
  <2>1. Lock(m) \in Op /\ Write(d) \in Op
    BY DEF Op, Lock, Write
  <2>2. h \in Seq(Op) /\ Len(h) = 2 /\ h[1] = Lock(m) /\ h[2] = Write(d)
    BY <2>1
  <2>3. QED BY <2>2 DEF IsHead
<1>2. Brackets(m, Lock(m), Unlock(m))
  BY DEF Brackets
<1>3. h \o <<>> \o <<Unlock(m)>> \in Sections(Rank(m))
  BY <1>1, <1>2, EmptySection, SectionsNest, Zenon
<1>4. Guarded(m, Write(d)) = h \o <<>> \o <<Unlock(m)>>
  BY DEF Guarded
<1>5. Rank(m) \in Nat
  BY DEF Rank
<1>6. QED BY <1>3, <1>4, <1>5, SectionsWiden

(* The short sections of the handlers.                                      *)
LEMMA ShortSections ==
    /\ Lookup \in Sections(1)
    /\ ReadGuarded(Of("hidden"), Read(Of("hidden"))) \in Sections(1)
    /\ SetLayout \in Sections(1) /\ SetHidden \in Sections(1)
    /\ BrokerPublish \in Sections(1) /\ Subscription \in Sections(1)
    /\ \A r \in Runs : /\ ReadGuarded(RunLock(r), Read(Identity(r))) \in Sections(2)
                       /\ ReadGuarded(RunLock(r), Read(Fields(r))) \in Sections(2)
    /\ ReadGuarded(Of("layouts"), Read(Of("layouts"))) \in Sections(3)
<1> USE LockFacts, GuardFacts
<1>1. Lookup \in Sections(1)
  BY ReadGuardedSection DEF Lookup
<1>2. ReadGuarded(Of("hidden"), Read(Of("hidden"))) \in Sections(1)
  BY ReadGuardedSection
<1>3. SetLayout \in Sections(1)
  BY GuardedSection DEF SetLayout
<1>4. SetHidden \in Sections(1)
  BY GuardedSection DEF SetHidden
<1>5. BrokerPublish \in Sections(1)
  BY ReadGuardedSection DEF BrokerPublish
<1>6. Subscription \in Sections(1)
  BY GuardedSection DEF Subscription
<1>7. ReadGuarded(Of("layouts"), Read(Of("layouts"))) \in Sections(3)
  BY ReadGuardedSection
<1>8. ASSUME NEW r \in Runs
      PROVE  /\ ReadGuarded(RunLock(r), Read(Identity(r))) \in Sections(2)
             /\ ReadGuarded(RunLock(r), Read(Fields(r))) \in Sections(2)
  <2>1. /\ RunLock(r) \in LockSet /\ Identity(r) \in Data /\ Fields(r) \in Data
        /\ 2 \in Nat /\ 2 <= Rank(RunLock(r))
    OBVIOUS
  <2>2. \A l \in LockSet : /\ GuardedBy(Identity(r), l) => l = RunLock(r)
                           /\ GuardedBy(Fields(r), l) => l = RunLock(r)
    OBVIOUS
  <2>3. ReadGuarded(RunLock(r), Read(Identity(r))) \in Sections(2)
    BY ONLY <2>1, <2>2, ReadGuardedSection, Zenon
  <2>4. ReadGuarded(RunLock(r), Read(Fields(r))) \in Sections(2)
    BY ONLY <2>1, <2>2, ReadGuardedSection, Zenon
  <2>5. QED BY <2>3, <2>4
<1>9. QED BY <1>1, <1>2, <1>3, <1>4, <1>5, <1>6, <1>7, <1>8

(* The runs can be listed.                                                  *)
LEMMA RunsListed == SetToSeq(Runs) \in Seq(Runs)
  BY LocksAssumption, ListedOnce

(* Reading something of each run is a section of the runs' locks.           *)
LEMMA EachRunSection ==
    ASSUME NEW what \in {"identity", "fields"}
    PROVE  EachRun(what) \in Sections(2)
<1> DEFINE order == SetToSeq(Runs)
           s == [i \in DOMAIN order |-> ReadGuarded(RunLock(order[i]), Read(<<what, order[i]>>))]
<1>1. order \in Seq(Runs)
  BY RunsListed
<1> HIDE DEF order
<1>2. ASSUME NEW r \in Runs PROVE ReadGuarded(RunLock(r), Read(<<what, r>>)) \in Sections(2)
  <2>1. <<what, r>> = Identity(r) \/ <<what, r>> = Fields(r)
    BY DEF Identity, Fields
  <2>2. QED BY <2>1, ShortSections, Zenon
<1>3. DOMAIN order = 1 .. Len(order) /\ Len(order) \in Nat /\ \A i \in DOMAIN order : order[i] \in Runs
  BY <1>1
<1>4. s \in [1 .. Len(order) -> Sections(2)]
  BY <1>2, <1>3
<1>5. s \in Seq(Sections(2))
  BY <1>3, <1>4
<1>6. QED BY <1>5, SectionsFlatten, Zenon DEF EachRun, order

(* A head, a section of higher locks and the end of the head, all after     *)
(* another section.                                                         *)
LEMMA SectionThenNest ==
    ASSUME NEW x, NEW m \in LockSet, NEW k \in Nat, k <= Rank(m), x \in Sections(k),
           NEW a, NEW b, Brackets(m, a, b), NEW h, IsHead(h, m, a),
           NEW p \in Sections(Rank(m) + 1)
    PROVE  x \o h \o p \o <<b>> \in Sections(k)
<1>1. /\ x \in Seq(Op) /\ h \in Seq(Op) /\ p \in Seq(Op) /\ b \in Op /\ Rank(m) \in Nat
  BY DEF Sections, IsHead, Brackets, Op, Unlock, RUnlock, Rank
<1>2. <<b>> \in Seq(Op)
  BY <1>1
<1>3. x \o h \o p \o <<b>> = x \o (h \o p \o <<b>>)
  <2> DEFINE hp == h \o p
             end == <<b>>
  <2>1. x \in Seq(Op) /\ h \in Seq(Op) /\ p \in Seq(Op) /\ end \in Seq(Op)
    BY <1>1, <1>2
  <2>2. hp \in Seq(Op)
    BY ONLY <2>1, ConcatProperties
  <2>3. (x \o h) \o p = x \o hp
    BY ONLY <2>1, ConcatAssociative
  <2> HIDE DEF hp, end
  <2>4. (x \o hp) \o end = x \o (hp \o end)
    <3>1. x \in Seq(Op) /\ end \in Seq(Op)
      BY <2>1
    <3>2. QED BY ONLY <3>1, <2>2, ConcatAssociative
  <2>5. QED BY <2>3, <2>4, Zenon DEF hp, end
<1>4. h \o p \o <<b>> \in Sections(Rank(m))
  BY SectionsNest, Zenon
<1>5. h \o p \o <<b>> \in Sections(k)
  BY <1>1, <1>4, SectionsWiden
<1>6. QED BY <1>3, <1>5, SectionsConcat, Zenon

(* The choice of the run to show.                                           *)
LEMMA LatestSection == latestVisibleRunID \in Sections(1)
<1> DEFINE x == Lookup \o ReadGuarded(Of("hidden"), Read(Of("hidden"))) \o Lookup
           h == <<RLock(Of("hidden")), Read(Of("hidden"))>>
<1>1. x \in Sections(1)
  BY ShortSections, SectionsConcat, Zenon
<1>2. IsHead(h, Of("hidden"), RLock(Of("hidden")))
  <2>1. RLock(Of("hidden")) \in Op /\ Read(Of("hidden")) \in Op
    BY LockFacts DEF Op, RLock, Read
  <2>2. h \in Seq(Op) /\ Len(h) = 2 /\ h[1] = RLock(Of("hidden")) /\ h[2] = Read(Of("hidden"))
    BY <2>1
  <2>3. QED BY <2>2, LockFacts, GuardFacts DEF IsHead
<1>3. Brackets(Of("hidden"), RLock(Of("hidden")), RUnlock(Of("hidden")))
  BY DEF Brackets
<1>4. EachRun("fields") \in Sections(Rank(Of("hidden")) + 1)
  BY EachRunSection, LockFacts
<1>5. x \o h \o EachRun("fields") \o <<RUnlock(Of("hidden"))>> \in Sections(1)
  <2>1. Of("hidden") \in LockSet /\ 1 \in Nat /\ 1 <= Rank(Of("hidden"))
    BY LockFacts
  <2> HIDE DEF x, h
  <2>2. QED BY <1>1, <1>2, <1>3, <1>4, <2>1, SectionThenNest, Zenon
<1>6. QED BY <1>5, Zenon DEF latestVisibleRunID

(* The list of runs.                                                        *)
LEMMA SidebarSection == renderSidebar \in Sections(1)
<1>1. EachRun("identity") \in Sections(1) /\ EachRun("fields") \in Sections(1)
  BY EachRunSection, SectionsWiden
<1>2. QED BY <1>1, ShortSections, LatestSection, SectionsConcat, Zenon DEF renderSidebar

(* What every change ends with.                                             *)
LEMMA BroadcastSection == Broadcast \in Sections(1)
  BY ShortSections, LatestSection, SidebarSection, SectionsConcat, Zenon DEF Broadcast

(* The dashboard of a run.                                                  *)
LEMMA DetailSection == ASSUME NEW r \in Runs PROVE Detail(r) \in Sections(1)
<1> DEFINE m == RunLock(r)
           h == <<RLock(m), Read(Identity(r)), Read(Fields(r))>>
           p == ReadGuarded(Of("layouts"), Read(Of("layouts")))
<1>1. IsHead(h, m, RLock(m))
  <2>1. RLock(m) \in Op /\ Read(Identity(r)) \in Op /\ Read(Fields(r)) \in Op
    BY LockFacts DEF Op, RLock, Read
  <2>2. /\ h \in Seq(Op) /\ Len(h) = 3 /\ h[1] = RLock(m)
        /\ h[2] = Read(Identity(r)) /\ h[3] = Read(Fields(r))
    BY <2>1
  <2>3. /\ \A l \in LockSet : GuardedBy(Identity(r), l) => l = m
        /\ \A l \in LockSet : GuardedBy(Fields(r), l) => l = m
        /\ Identity(r) \in Data /\ Fields(r) \in Data
    BY GuardFacts, LockFacts
  <2> HIDE DEF h, m
  <2>4. QED BY <2>2, <2>3 DEF IsHead
<1>2. Brackets(m, RLock(m), RUnlock(m))
  BY DEF Brackets
<1>3. m \in LockSet /\ Rank(m) = 2
  BY LockFacts
<1>4. p \in Sections(Rank(m) + 1)
  BY <1>3, ShortSections
<1> HIDE DEF p, m
<1>5. h \o p \o <<RUnlock(m)>> \in Sections(Rank(m))
  BY <1>1, <1>2, <1>3, <1>4, SectionsNest, Zenon
<1>6. Detail(r) \in Sections(2)
  BY <1>3, <1>5, Zenon DEF Detail, p, m
<1>7. QED BY <1>6, SectionsWiden

(* Handling an event takes the run's lock within the store's, and changes   *)
(* the indexes under the latter.                                            *)
LEMMA HandleEventSection == ASSUME NEW r \in Runs PROVE HandleEvent(r) \in Sections(1)
<1> DEFINE s == Of("store")
           m == RunLock(r)
           p == HandleEvent(r)
<1>1. /\ Lock(s) \in Op /\ Unlock(s) \in Op /\ Lock(m) \in Op /\ Unlock(m) \in Op
      /\ Write(Of("runs")) \in Op /\ Write(Identity(r)) \in Op /\ Write(Fields(r)) \in Op
  BY LockFacts DEF Op, Lock, Unlock, Write
<1>2. /\ p \in Seq(Op) /\ Len(p) = 8
      /\ p[1] = Lock(s) /\ p[2] = Write(Of("runs")) /\ p[3] = Write(Identity(r))
      /\ p[4] = Lock(m) /\ p[5] = Write(Fields(r)) /\ p[6] = Write(Of("runs"))
      /\ p[7] = Unlock(m) /\ p[8] = Unlock(s)
  BY <1>1 DEF HandleEvent
<1>3. /\ s \in LockSet /\ m \in LockSet /\ s # m /\ Rank(s) = 1 /\ Rank(m) = 2
  BY LockFacts
<1>4. /\ \A l : GuardedBy(Of("runs"), l) => l = s
      /\ \A l : GuardedBy(Fields(r), l) => l = m
      /\ \A l : ~GuardedBy(Identity(r), l)
  BY GuardFacts
<1> HIDE DEF p, s, m
<1>12. ASSUME NEW i \in 1 .. 8
       PROVE  i = 1 \/ i = 2 \/ i = 3 \/ i = 4 \/ i = 5 \/ i = 6 \/ i = 7 \/ i = 8
  OBVIOUS
<1>5. ASSUME NEW l, NEW i \in 1 .. 8
      PROVE  /\ HoldsWrite(p, i + 1, l) <=>
                  p[i] = Lock(l) \/ (p[i] # Unlock(l) /\ HoldsWrite(p, i, l))
             /\ HoldsRead(p, i + 1, l) <=>
                  p[i] = RLock(l) \/ (p[i] # RUnlock(l) /\ HoldsRead(p, i, l))
  BY <1>2, SinceStep, OpsDiffer DEF HoldsWrite, HoldsRead
<1>6. ASSUME NEW l
      PROVE  /\ ~HoldsWrite(p, 1, l)
             /\ HoldsWrite(p, 2, l) <=> l = s
             /\ HoldsWrite(p, 3, l) <=> l = s
             /\ HoldsWrite(p, 4, l) <=> l = s
             /\ HoldsWrite(p, 5, l) <=> l \in {s, m}
             /\ HoldsWrite(p, 6, l) <=> l \in {s, m}
             /\ HoldsWrite(p, 7, l) <=> l \in {s, m}
             /\ HoldsWrite(p, 8, l) <=> l = s
             /\ ~HoldsWrite(p, 9, l)
  <2>1. ~HoldsWrite(p, 1, l)
    BY SinceNothing DEF HoldsWrite
  <2>2. HoldsWrite(p, 2, l) <=> l = s
    BY <1>2, <1>5, <2>1, OpsDiffer, SMTT(30)
  <2>3. HoldsWrite(p, 3, l) <=> l = s
    BY <1>2, <1>5, <2>2, OpsDiffer, SMTT(30)
  <2>4. HoldsWrite(p, 4, l) <=> l = s
    BY <1>2, <1>5, <2>3, OpsDiffer, SMTT(30)
  <2>5. HoldsWrite(p, 5, l) <=> l \in {s, m}
    BY <1>2, <1>5, <2>4, OpsDiffer, SMTT(30)
  <2>6. HoldsWrite(p, 6, l) <=> l \in {s, m}
    BY <1>2, <1>5, <2>5, OpsDiffer, SMTT(30)
  <2>7. HoldsWrite(p, 7, l) <=> l \in {s, m}
    BY <1>2, <1>5, <2>6, OpsDiffer, SMTT(30)
  <2>8. HoldsWrite(p, 8, l) <=> l = s
    BY <1>2, <1>3, <1>5, <2>7, OpsDiffer, SMTT(30)
  <2>9. ~HoldsWrite(p, 9, l)
    BY <1>2, <1>5, <2>8, OpsDiffer, SMTT(30)
  <2>10. QED BY <2>1, <2>2, <2>3, <2>4, <2>5, <2>6, <2>7, <2>8, <2>9
<1>7. ASSUME NEW l, NEW i \in 1 .. 9 PROVE ~HoldsRead(p, i, l)
  <2>1. ASSUME NEW j \in 1 .. 8 PROVE p[j] # RLock(l)
    <3>1. /\ RLock(l) # Lock(s) /\ RLock(l) # Lock(m) /\ RLock(l) # Unlock(s) /\ RLock(l) # Unlock(m)
          /\ RLock(l) # Write(Of("runs")) /\ RLock(l) # Write(Identity(r)) /\ RLock(l) # Write(Fields(r))
      BY OpsDiffer
    <3>2. QED BY <1>2, <1>12, <3>1
  <2>2. QED BY <2>1 DEF HoldsRead, Since
<1>8. Protected(p)
  <2> SUFFICES ASSUME NEW i \in 1 .. 8, NEW l \in LockSet
               PROVE  /\ p[i] = Unlock(l) => HoldsWrite(p, i, l)
                      /\ \A d \in Data : GuardedBy(d, l) /\ p[i] = Write(d) => HoldsWrite(p, i, l)
                      /\ \A d \in Data : GuardedBy(d, l) /\ p[i] = Read(d) => Holds(p, i, l)
    BY <1>2, Zenon DEF Protected
  <2>1. ASSUME p[i] = Unlock(l) PROVE HoldsWrite(p, i, l)
    BY <1>2, <1>6, <2>1, OpsDiffer, SMTT(30)
  <2>2. ASSUME NEW d \in Data, GuardedBy(d, l), p[i] = Write(d) PROVE HoldsWrite(p, i, l)
    <3>1. \/ i = 2 /\ d = Of("runs")
          \/ i = 3 /\ d = Identity(r)
          \/ i = 5 /\ d = Fields(r)
          \/ i = 6 /\ d = Of("runs")
      BY <1>2, <1>12, <2>2, OpsDiffer, ZenonT(30)
    <3>2. QED BY <1>4, <1>6, <2>2, <3>1
  <2>3. ASSUME NEW d \in Data PROVE p[i] # Read(d)
    <3>1. /\ Read(d) # Lock(s) /\ Read(d) # Lock(m) /\ Read(d) # Unlock(s) /\ Read(d) # Unlock(m)
          /\ Read(d) # Write(Of("runs")) /\ Read(d) # Write(Identity(r)) /\ Read(d) # Write(Fields(r))
      BY OpsDiffer
    <3>2. QED BY <1>2, <1>12, <3>1
  <2>4. QED BY <2>1, <2>2, <2>3
<1>9. Nested(p, 1)
  <2> SUFFICES ASSUME NEW i \in 1 .. 8, NEW l \in LockSet, p[i] \in {Lock(l), RLock(l)}
               PROVE  /\ Rank(l) >= 1
                      /\ \A k \in LockSet : Holds(p, i, k) => Rank(k) < Rank(l)
    BY <1>2, Zenon DEF Nested
  <2>1. (i = 1 /\ l = s) \/ (i = 4 /\ l = m)
    BY <1>2, OpsDiffer, SMTT(30)
  <2>2. QED BY <1>3, <1>6, <1>7, <2>1 DEF Holds
<1>10. Balanced(p)
  BY <1>2, <1>6, <1>7 DEF Balanced, Holds
<1>11. QED BY <1>2, <1>8, <1>9, <1>10 DEF Sections, p

(* Whatever a request is, its program is a section.                         *)
LEMMA ProgramSection == ASSUME NEW w \in Request PROVE Program[w] \in Sections(1)
<1>1. w.run \in Runs /\ w.kind \in Kinds /\ Program[w] = ProgramOf(w)
  BY DEF Request, Program
<1>2. ASSUME NEW r \in Runs
      PROVE  /\ ReadGuarded(RunLock(r), Read(Identity(r))) \in Sections(1)
             /\ ReadGuarded(RunLock(r), Read(Fields(r))) \in Sections(1)
  BY ShortSections, SectionsWiden
<1> USE ShortSections, LatestSection, SidebarSection, BroadcastSection, DetailSection, EmptySection,
        SectionsConcat
<1>3. ASSUME NEW r \in Runs, NEW dag \in BOOLEAN PROVE handleWebhook(r, dag) \in Sections(1)
  <2>1. HandleEvent(r) \in Sections(1)
    BY HandleEventSection
  <2>2. (IF dag THEN SetLayout ELSE <<>>) \in Sections(1)
    OBVIOUS
  <2>3. QED BY <2>1, <2>2, Zenon DEF handleWebhook
<1>4. ASSUME NEW r \in Runs PROVE handleHideRun(r) \in Sections(1)
  BY <1>2, Zenon DEF handleHideRun
<1>5. handleUnhideRun \in Sections(1)
  BY Zenon DEF handleUnhideRun
<1>6. handleSSE \in Sections(1)
  BY Zenon DEF handleSSE
<1>7. ASSUME NEW r \in Runs PROVE handlePage(r) \in Sections(1)
  BY Zenon DEF handlePage
<1>8. ASSUME NEW r \in Runs PROVE handleTaskPanel(r) \in Sections(1)
  BY <1>2, Zenon DEF handleTaskPanel
<1>9. ProgramOf(w) \in Sections(1)
  BY ONLY <1>1, <1>3, <1>4, <1>5, <1>6, <1>7, <1>8, EmptySection DEF ProgramOf, Kinds
<1>10. QED BY <1>1, <1>9

-----------------------------------------------------------------------------
(* Who holds what. *)

(* What a handler holds, by its program.                                    *)
Writes(h, l) == HoldsWrite(Program[work[h]], pc[h], l)
Reads(h, l) == HoldsRead(Program[work[h]], pc[h], l)

LocksTypeOK ==
    /\ work \in [Handlers -> Request]
    /\ pc \in [Handlers -> Nat \ {0}]
    /\ readers \in [LockSet -> SUBSET Handlers]
    /\ writer \in [LockSet -> SUBSET Handlers]
    /\ held \subseteq LockSet

WithinProgram == \A h \in Handlers : pc[h] <= Len(Program[work[h]]) + 1

(* The readers of a lock are the handlers whose programs hold it.           *)
ReadersHold == \A l \in LockSet, h \in Handlers : h \in readers[l] <=> Reads(h, l)

(* A handler whose program holds a lock for writing is its writer.          *)
WritersHold == \A l \in LockSet, h \in Handlers : Writes(h, l) => l \in held /\ h \in writer[l]

OneWriter == \A l \in LockSet : \A g, h \in writer[l] : g = h

(* A lock held for writing has a writer, and no readers.                    *)
HeldAlone ==
    \A l \in held : writer[l] # {} /\ readers[l] = {} /\ \A h \in writer[l] : Writes(h, l)

(* Who has announced a Lock and does not hold it is about to take it.       *)
Announced == \A l \in LockSet \ held : \A h \in writer[l] : At(h, "Lock") /\ NextOp(h).on = l

LockInv ==
    /\ LocksTypeOK /\ WithinProgram
    /\ ReadersHold /\ WritersHold
    /\ OneWriter /\ HeldAlone /\ Announced

(* The handler's next step is not one it has to wait for.                   *)
CanGoOn(h) ==
    LET l == NextOp(h).on
    IN  /\ ~Ended(h)
        /\ At(h, "Lock") => writer[l] = {} \/ (writer[l] = {h} /\ readers[l] = {})
        /\ At(h, "RLock") => writer[l] = {}

(* While requests are handled, one of the handlers can go on.               *)
SomeoneCanGoOn == (\A h \in Handlers : Ended(h)) \/ \E h \in Handlers : CanGoOn(h)

(* Every handler follows a section.                                         *)
LEMMA Follows ==
    ASSUME LocksTypeOK, NEW h \in Handlers
    PROVE  /\ Program[work[h]] \in Seq(Op)
           /\ Protected(Program[work[h]]) /\ Nested(Program[work[h]], 1)
           /\ Balanced(Program[work[h]])
<1>1. work[h] \in Request
  BY DEF LocksTypeOK
<1>2. Program[work[h]] \in Sections(1)
  BY <1>1, ProgramSection
<1>3. QED BY <1>2 DEF Sections

(* What a handler does next.                                                *)
LEMMA NextOps ==
    ASSUME LocksTypeOK, NEW h \in Handlers, ~Ended(h)
    PROVE  /\ pc[h] \in 1 .. Len(Program[work[h]])
           /\ NextOp(h) = Program[work[h]][pc[h]]
           /\ \/ /\ NextOp(h).on \in LockSet
                 /\ \/ At(h, "Lock") /\ NextOp(h) = Lock(NextOp(h).on)
                    \/ At(h, "RLock") /\ NextOp(h) = RLock(NextOp(h).on)
                    \/ At(h, "Unlock") /\ NextOp(h) = Unlock(NextOp(h).on)
                    \/ At(h, "RUnlock") /\ NextOp(h) = RUnlock(NextOp(h).on)
              \/ /\ NextOp(h).on \in Data
                 /\ \/ At(h, "read") /\ NextOp(h) = Read(NextOp(h).on)
                    \/ At(h, "write") /\ NextOp(h) = Write(NextOp(h).on)
<1> DEFINE p == Program[work[h]]
<1>1. p \in Seq(Op)
  BY Follows
<1>2. NextOp(h) = p[pc[h]]
  BY DEF NextOp
<1>3. Ended(h) <=> pc[h] > Len(p)
  BY DEF Ended
<1>4. pc[h] \in Nat \ {0}
  BY DEF LocksTypeOK
<1> HIDE DEF p
<1>5. pc[h] \in 1 .. Len(p)
  BY <1>1, <1>3, <1>4
<1>6. p[pc[h]] \in Op
  BY <1>1, <1>5
<1> DEFINE o == p[pc[h]]
<1>7. NextOp(h) = o /\ o \in Op
  BY <1>2, <1>6
<1> HIDE DEF o
<1>8. \/ o.on \in LockSet /\ \/ o.op = "Lock" /\ o = Lock(o.on)
                             \/ o.op = "RLock" /\ o = RLock(o.on)
                             \/ o.op = "Unlock" /\ o = Unlock(o.on)
                             \/ o.op = "RUnlock" /\ o = RUnlock(o.on)
      \/ o.on \in Data /\ \/ o.op = "read" /\ o = Read(o.on)
                          \/ o.op = "write" /\ o = Write(o.on)
  BY <1>7 DEF Op, Lock, RLock, Unlock, RUnlock, Read, Write
<1>9. QED BY <1>2, <1>5, <1>7, <1>8 DEF At, p

(* A handler that advances takes, keeps or gives up what its operation says;*)
(* the others hold what they held.                                          *)
LEMMA Advancing ==
    ASSUME LocksTypeOK, NEW h \in Handlers, ~Ended(h), Advance(h), work' = work
    PROVE  /\ work' \in [Handlers -> Request] /\ pc' \in [Handlers -> Nat \ {0}]
           /\ WithinProgram => WithinProgram'
           /\ \A l \in LockSet :
                /\ Writes(h, l)' <=> NextOp(h) = Lock(l) \/ (NextOp(h) # Unlock(l) /\ Writes(h, l))
                /\ Reads(h, l)' <=> NextOp(h) = RLock(l) \/ (NextOp(h) # RUnlock(l) /\ Reads(h, l))
           /\ \A g \in Handlers \ {h} :
                /\ \A l \in LockSet : (Writes(g, l)' <=> Writes(g, l)) /\ (Reads(g, l)' <=> Reads(g, l))
                /\ Ended(g)' <=> Ended(g)
                /\ NextOp(g)' = NextOp(g)
<1> DEFINE p == Program[work[h]]
<1>1. pc[h] \in 1 .. Len(p) /\ NextOp(h) = p[pc[h]] /\ p \in Seq(Op)
  BY NextOps, Follows
<1>2. /\ pc \in [Handlers -> Nat \ {0}] /\ pc'[h] = pc[h] + 1 /\ pc' \in [Handlers -> Nat \ {0}]
      /\ \A g \in Handlers \ {h} : pc'[g] = pc[g]
  BY DEF LocksTypeOK, Advance
<1>3. WithinProgram => WithinProgram'
  <2> SUFFICES ASSUME WithinProgram, NEW g \in Handlers
               PROVE  pc'[g] <= Len(Program[work'[g]]) + 1
    BY DEF WithinProgram
  <2>1. CASE g = h
    <3>1. Len(p) \in Nat /\ pc[h] \in Int
      BY <1>1
    <3> HIDE DEF p
    <3>2. pc'[h] <= Len(p) + 1
      BY <1>1, <1>2, <3>1
    <3>3. QED BY <2>1, <3>2 DEF p
  <2>2. CASE g # h
    BY <1>2, <2>2 DEF WithinProgram
  <2>3. QED BY <2>1, <2>2
<1>4. ASSUME NEW l \in LockSet
      PROVE  /\ Writes(h, l)' <=> NextOp(h) = Lock(l) \/ (NextOp(h) # Unlock(l) /\ Writes(h, l))
             /\ Reads(h, l)' <=> NextOp(h) = RLock(l) \/ (NextOp(h) # RUnlock(l) /\ Reads(h, l))
  <2>1. /\ Writes(h, l)' <=> Since(p, pc[h] + 1, Lock(l), Unlock(l))
        /\ Reads(h, l)' <=> Since(p, pc[h] + 1, RLock(l), RUnlock(l))
    BY <1>2, Zenon DEF Writes, Reads, HoldsWrite, HoldsRead
  <2>2. /\ Writes(h, l) <=> Since(p, pc[h], Lock(l), Unlock(l))
        /\ Reads(h, l) <=> Since(p, pc[h], RLock(l), RUnlock(l))
    BY Zenon DEF Writes, Reads, HoldsWrite, HoldsRead
  <2>3. Lock(l) # Unlock(l) /\ RLock(l) # RUnlock(l)
    BY OpsDiffer
  <2> HIDE DEF p
  <2>4. QED BY <1>1, <2>1, <2>2, <2>3, SinceStep
<1>5. ASSUME NEW g \in Handlers \ {h}
      PROVE  /\ \A l \in LockSet : (Writes(g, l)' <=> Writes(g, l)) /\ (Reads(g, l)' <=> Reads(g, l))
             /\ Ended(g)' <=> Ended(g)
             /\ NextOp(g)' = NextOp(g)
  BY <1>2, Zenon DEF Writes, Reads, Ended, NextOp
<1>6. QED BY <1>2, <1>3, <1>4, <1>5 DEF LocksTypeOK

(* At first nobody holds anything.                                          *)
LEMMA LockInvStarts == LocksInit => LockInv
<1> SUFFICES ASSUME LocksInit PROVE LockInv
  OBVIOUS
<1>1. LocksTypeOK
  BY LocksAssumption DEF LocksInit, LocksTypeOK
<1>2. ASSUME NEW h \in Handlers, NEW l \in LockSet PROVE ~Writes(h, l) /\ ~Reads(h, l)
  <2>1. pc[h] = 1
    BY DEF LocksInit
  <2>2. QED BY <2>1, SinceNothing DEF Writes, Reads, HoldsWrite, HoldsRead
<1>3. WithinProgram
  <2> SUFFICES ASSUME NEW h \in Handlers PROVE pc[h] <= Len(Program[work[h]]) + 1
    BY DEF WithinProgram
  <2> DEFINE p == Program[work[h]]
  <2>1. p \in Seq(Op) /\ pc[h] = 1
    BY <1>1, Follows DEF LocksInit
  <2>2. Len(p) \in Nat
    BY <2>1
  <2> HIDE DEF p
  <2>3. pc[h] <= Len(p) + 1
    BY <2>1, <2>2
  <2>4. QED BY <2>3 DEF p
<1>4. ReadersHold /\ WritersHold
  BY <1>2 DEF LocksInit, ReadersHold, WritersHold
<1>5. OneWriter /\ HeldAlone /\ Announced
  BY DEF LocksInit, OneWriter, HeldAlone, Announced
<1>6. QED BY <1>1, <1>3, <1>4, <1>5 DEF LockInv

(* An announced Lock is not yet held.                                       *)
LEMMA AnnounceKeeps ==
    ASSUME LockInv, NEW h \in Handlers, AnnounceLock(h)
    PROVE  LockInv'
<1> DEFINE m == NextOp(h).on
<1>1. ~Ended(h) /\ At(h, "Lock") /\ writer[m] = {}
  BY DEF AnnounceLock, At
<1>2. /\ writer' = [writer EXCEPT ![m] = {h}]
      /\ UNCHANGED <<work, pc, readers, held>>
  BY DEF AnnounceLock
<1>3. m \in LockSet
  BY <1>1, NextOps DEF LockInv, At
<1>4. LocksTypeOK /\ WithinProgram /\ ReadersHold /\ WritersHold /\ OneWriter /\ HeldAlone /\ Announced
  BY DEF LockInv
<1>5. /\ \A g \in Handlers, l \in LockSet : (Writes(g, l)' <=> Writes(g, l)) /\ (Reads(g, l)' <=> Reads(g, l))
      /\ At(h, "Lock")' <=> At(h, "Lock")
      /\ \A g \in Handlers : (At(g, "Lock")' <=> At(g, "Lock")) /\ NextOp(g)' = NextOp(g)
  BY <1>2, Zenon DEF Writes, Reads, At, Ended, NextOp
<1>6. m \notin held
  BY <1>1, <1>4 DEF HeldAlone
<1>7. NextOp(h)' = NextOp(h) /\ NextOp(h).on = m /\ At(h, "Lock")'
  BY <1>1, <1>5
<1> HIDE DEF m
<1>8. /\ writer' \in [LockSet -> SUBSET Handlers] /\ writer'[m] = {h}
      /\ \A l \in LockSet \ {m} : writer'[l] = writer[l]
  BY <1>2, <1>3, <1>4 DEF LocksTypeOK
<1>9. LocksTypeOK' /\ WithinProgram'
  <2>1. LocksTypeOK'
    BY <1>2, <1>4, <1>8 DEF LocksTypeOK
  <2>2. WithinProgram'
    BY <1>2, <1>4, Zenon DEF WithinProgram
  <2>3. QED BY <2>1, <2>2
<1>10. ReadersHold'
  BY <1>2, <1>4, <1>5, Zenon DEF ReadersHold
<1>11. WritersHold'
  <2> SUFFICES ASSUME NEW l \in LockSet, NEW g \in Handlers, Writes(g, l)'
               PROVE  l \in held' /\ g \in writer'[l]
    BY DEF WritersHold
  <2>1. l \in held /\ g \in writer[l]
    BY <1>4, <1>5 DEF WritersHold
  <2>2. QED BY <1>1, <1>2, <1>6, <1>8, <2>1
<1>12. OneWriter'
  BY <1>4, <1>8 DEF OneWriter
<1>13. HeldAlone'
  <2> SUFFICES ASSUME NEW l \in held
               PROVE  writer'[l] # {} /\ readers'[l] = {} /\ \A g \in writer'[l] : Writes(g, l)'
    BY <1>2 DEF HeldAlone
  <2>1. l \in LockSet /\ writer'[l] = writer[l]
    BY <1>4, <1>6, <1>8 DEF LocksTypeOK
  <2>2. writer[l] \subseteq Handlers
    BY <1>4, <2>1 DEF LocksTypeOK
  <2>3. QED BY <1>2, <1>4, <1>5, <2>1, <2>2 DEF HeldAlone
<1>14. Announced'
  <2> SUFFICES ASSUME NEW l \in LockSet \ held, NEW g \in writer'[l]
               PROVE  At(g, "Lock")' /\ NextOp(g)'.on = l
    BY <1>2 DEF Announced
  <2>1. CASE l = m
    BY <1>7, <1>8, <2>1
  <2>2. CASE l # m
    BY <1>4, <1>5, <1>8, <2>2 DEF Announced, LocksTypeOK
  <2>3. QED BY <2>1, <2>2
<1>15. QED BY <1>9, <1>10, <1>11, <1>12, <1>13, <1>14 DEF LockInv

(* A Lock taken is held alone: the readers have left.                       *)
LEMMA AcquireLockKeeps ==
    ASSUME LockInv, NEW h \in Handlers, AcquireLock(h)
    PROVE  LockInv'
<1> DEFINE m == NextOp(h).on
<1>1. ~Ended(h) /\ At(h, "Lock") /\ writer[m] = {h} /\ readers[m] = {}
  BY DEF AcquireLock, At
<1>2. held' = held \cup {m} /\ Advance(h) /\ UNCHANGED <<work, readers, writer>>
  BY DEF AcquireLock
<1>3. LocksTypeOK /\ WithinProgram /\ ReadersHold /\ WritersHold /\ OneWriter /\ HeldAlone /\ Announced
  BY DEF LockInv
<1>4. m \in LockSet /\ NextOp(h) = Lock(m)
  BY <1>1, <1>3, NextOps DEF At
<1>5. NextOp(h).on = m
  OBVIOUS
<1> HIDE DEF m
<1>6. \A l \in LockSet : (Writes(h, l)' <=> l = m \/ Writes(h, l)) /\ (Reads(h, l)' <=> Reads(h, l))
  <2>1. \A l \in LockSet : /\ NextOp(h) = Lock(l) <=> l = m
                           /\ NextOp(h) # Unlock(l) /\ NextOp(h) # RLock(l) /\ NextOp(h) # RUnlock(l)
    BY <1>4, OpsDiffer
  <2>2. QED BY <1>1, <1>2, <1>3, <2>1, Advancing
<1>7. /\ work' \in [Handlers -> Request] /\ pc' \in [Handlers -> Nat \ {0}] /\ WithinProgram'
      /\ \A g \in Handlers \ {h}, l \in LockSet :
           (Writes(g, l)' <=> Writes(g, l)) /\ (Reads(g, l)' <=> Reads(g, l))
  BY <1>1, <1>2, <1>3, Advancing
<1>8. \A g \in Handlers \ {h} : (Ended(g)' <=> Ended(g)) /\ NextOp(g)' = NextOp(g)
  BY <1>1, <1>2, <1>3, Advancing
<1>9. LocksTypeOK'
  BY <1>2, <1>3, <1>4, <1>7 DEF LocksTypeOK
<1>10. ReadersHold'
  BY <1>2, <1>3, <1>6, <1>7 DEF ReadersHold
<1>11. WritersHold'
  BY <1>1, <1>2, <1>3, <1>6, <1>7 DEF WritersHold
<1>12. OneWriter'
  BY <1>2, <1>3 DEF OneWriter
<1>13. HeldAlone'
  <2> SUFFICES ASSUME NEW l \in held \cup {m}
               PROVE  writer[l] # {} /\ readers[l] = {} /\ \A g \in writer[l] : Writes(g, l)'
    BY <1>2 DEF HeldAlone
  <2>1. l \in LockSet
    BY <1>3, <1>4 DEF LocksTypeOK
  <2>2. writer[l] \subseteq Handlers
    BY <1>3, <2>1 DEF LocksTypeOK
  <2>3. CASE l = m
    BY <1>1, <1>6, <2>1, <2>3
  <2>4. CASE l # m
    BY <1>3, <1>6, <1>7, <2>1, <2>2, <2>4 DEF HeldAlone
  <2>5. QED BY <2>3, <2>4
<1>14. Announced'
  <2> SUFFICES ASSUME NEW l \in LockSet, l \notin held, l # m, NEW g \in writer[l]
               PROVE  At(g, "Lock")' /\ NextOp(g)'.on = l
    BY <1>2 DEF Announced
  <2>1. At(g, "Lock") /\ NextOp(g).on = l /\ g \in Handlers
    BY <1>3 DEF Announced, LocksTypeOK
  <2>2. g # h
    BY <1>5, <2>1
  <2>3. QED BY <1>8, <2>1, <2>2 DEF At
<1>15. QED BY <1>7, <1>9, <1>10, <1>11, <1>12, <1>13, <1>14 DEF LockInv

(* A Lock is given up by the handler that holds it.                         *)
LEMMA ReleaseLockKeeps ==
    ASSUME LockInv, NEW h \in Handlers, ReleaseLock(h)
    PROVE  LockInv'
<1> DEFINE m == NextOp(h).on
<1>1. ~Ended(h) /\ At(h, "Unlock")
  BY DEF ReleaseLock, At
<1>2. /\ held' = held \ {m} /\ writer' = [writer EXCEPT ![m] = {}]
      /\ Advance(h) /\ UNCHANGED <<work, readers>>
  BY DEF ReleaseLock
<1>3. LocksTypeOK /\ WithinProgram /\ ReadersHold /\ WritersHold /\ OneWriter /\ HeldAlone /\ Announced
  BY DEF LockInv
<1>4. m \in LockSet /\ NextOp(h) = Unlock(m)
  BY <1>1, <1>3, NextOps DEF At
<1>5. Writes(h, m)
  <2> DEFINE p == Program[work[h]]
  <2>1. pc[h] \in 1 .. Len(p) /\ p[pc[h]] = Unlock(m) /\ Protected(p)
    BY <1>1, <1>3, <1>4, NextOps, Follows
  <2> HIDE DEF p
  <2>2. HoldsWrite(p, pc[h], m)
    BY <1>4, <2>1 DEF Protected
  <2>3. QED BY <2>2 DEF Writes, p
<1> HIDE DEF m
<1>6. m \in held /\ h \in writer[m] /\ writer[m] = {h}
  <2>1. m \in held /\ h \in writer[m]
    BY <1>3, <1>4, <1>5 DEF WritersHold
  <2>2. QED BY <1>3, <1>4, <2>1 DEF OneWriter
<1>7. \A l \in LockSet : (Writes(h, l)' <=> l # m /\ Writes(h, l)) /\ (Reads(h, l)' <=> Reads(h, l))
  <2>1. \A l \in LockSet : /\ NextOp(h) = Unlock(l) <=> l = m
                           /\ NextOp(h) # Lock(l) /\ NextOp(h) # RLock(l) /\ NextOp(h) # RUnlock(l)
    BY <1>4, OpsDiffer
  <2>2. QED BY <1>1, <1>2, <1>3, <2>1, Advancing
<1>8. /\ work' \in [Handlers -> Request] /\ pc' \in [Handlers -> Nat \ {0}] /\ WithinProgram'
      /\ \A g \in Handlers \ {h}, l \in LockSet :
           (Writes(g, l)' <=> Writes(g, l)) /\ (Reads(g, l)' <=> Reads(g, l))
  BY <1>1, <1>2, <1>3, Advancing
<1>9. \A g \in Handlers \ {h} : (Ended(g)' <=> Ended(g)) /\ NextOp(g)' = NextOp(g)
  BY <1>1, <1>2, <1>3, Advancing
<1>10. /\ writer' \in [LockSet -> SUBSET Handlers] /\ writer'[m] = {}
       /\ \A l \in LockSet \ {m} : writer'[l] = writer[l]
  BY <1>2, <1>3, <1>4 DEF LocksTypeOK
<1>11. LocksTypeOK'
  BY <1>2, <1>3, <1>8, <1>10 DEF LocksTypeOK
<1>12. ReadersHold'
  BY <1>2, <1>3, <1>7, <1>8 DEF ReadersHold
<1>13. WritersHold'
  <2> SUFFICES ASSUME NEW l \in LockSet, NEW g \in Handlers, Writes(g, l)'
               PROVE  l \in held' /\ g \in writer'[l]
    BY DEF WritersHold
  <2>1. Writes(g, l)
    BY <1>7, <1>8
  <2>2. l # m
    BY <1>3, <1>6, <1>7, <2>1 DEF WritersHold
  <2>3. QED BY <1>2, <1>3, <1>10, <2>1, <2>2 DEF WritersHold
<1>14. OneWriter'
  BY <1>3, <1>10 DEF OneWriter
<1>15. HeldAlone'
  <2> SUFFICES ASSUME NEW l \in held, l # m
               PROVE  writer'[l] # {} /\ readers'[l] = {} /\ \A g \in writer'[l] : Writes(g, l)'
    BY <1>2 DEF HeldAlone
  <2>1. l \in LockSet /\ writer'[l] = writer[l]
    BY <1>3, <1>10 DEF LocksTypeOK
  <2>2. writer[l] \subseteq Handlers
    BY <1>3, <2>1 DEF LocksTypeOK
  <2>3. QED BY <1>2, <1>3, <1>7, <1>8, <2>1, <2>2 DEF HeldAlone
<1>16. Announced'
  <2> SUFFICES ASSUME NEW l \in LockSet, l \notin held', NEW g \in writer'[l]
               PROVE  At(g, "Lock")' /\ NextOp(g)'.on = l
    BY DEF Announced
  <2>1. l # m /\ l \notin held /\ g \in writer[l]
    BY <1>2, <1>10
  <2>2. At(g, "Lock") /\ NextOp(g).on = l /\ g \in Handlers
    BY <1>3, <2>1 DEF Announced, LocksTypeOK
  <2>3. g # h
    BY <1>1, <2>2 DEF At
  <2>4. QED BY <1>9, <2>2, <2>3 DEF At
<1>17. QED BY <1>8, <1>11, <1>12, <1>13, <1>14, <1>15, <1>16 DEF LockInv

(* What the other locks keep when a handler other than their writers moves  *)
(* on and changes who reads.                                                *)
LEMMA ReadingKeeps ==
    ASSUME LockInv, NEW h \in Handlers, ~Ended(h), ~At(h, "Lock"), Advance(h),
           UNCHANGED <<work, writer, held>>,
           readers' \in [LockSet -> SUBSET Handlers], ReadersHold', \A l \in held : readers'[l] = {},
           \A l \in LockSet : Writes(h, l)' <=> Writes(h, l)
    PROVE  LockInv'
<1>1. LocksTypeOK /\ WithinProgram /\ ReadersHold /\ WritersHold /\ OneWriter /\ HeldAlone /\ Announced
  BY DEF LockInv
<1>2. /\ work' \in [Handlers -> Request] /\ pc' \in [Handlers -> Nat \ {0}] /\ WithinProgram'
      /\ \A g \in Handlers, l \in LockSet : Writes(g, l)' <=> Writes(g, l)
  BY <1>1, Advancing
<1>3. \A g \in Handlers \ {h} : (Ended(g)' <=> Ended(g)) /\ NextOp(g)' = NextOp(g)
  BY <1>1, Advancing
<1>4. LocksTypeOK'
  BY <1>1, <1>2 DEF LocksTypeOK
<1>5. WritersHold' /\ OneWriter'
  BY <1>1, <1>2 DEF WritersHold, OneWriter
<1>6. HeldAlone'
  <2> SUFFICES ASSUME NEW l \in held PROVE writer[l] # {} /\ \A g \in writer[l] : Writes(g, l)'
    BY DEF HeldAlone
  <2>1. l \in LockSet /\ writer[l] \subseteq Handlers
    BY <1>1 DEF LocksTypeOK
  <2>2. QED BY <1>1, <1>2, <2>1 DEF HeldAlone
<1>7. Announced'
  <2> SUFFICES ASSUME NEW l \in LockSet \ held, NEW g \in writer[l]
               PROVE  At(g, "Lock")' /\ NextOp(g)'.on = l
    BY DEF Announced
  <2>1. At(g, "Lock") /\ NextOp(g).on = l /\ g \in Handlers
    BY <1>1 DEF Announced, LocksTypeOK
  <2>2. QED BY <1>3, <2>1 DEF At
<1>8. QED BY <1>2, <1>4, <1>5, <1>6, <1>7 DEF LockInv

(* Who begins to read a lock finds no writer there.                         *)
LEMMA AcquireReadKeeps ==
    ASSUME LockInv, NEW h \in Handlers, AcquireRead(h)
    PROVE  LockInv'
<1> DEFINE m == NextOp(h).on
<1>1. ~Ended(h) /\ At(h, "RLock") /\ ~At(h, "Lock") /\ writer[m] = {}
  BY DEF AcquireRead, At
<1>2. readers' = [readers EXCEPT ![m] = @ \cup {h}] /\ Advance(h) /\ UNCHANGED <<work, writer, held>>
  BY DEF AcquireRead
<1>3. LocksTypeOK /\ ReadersHold /\ HeldAlone
  BY DEF LockInv
<1>4. m \in LockSet /\ NextOp(h) = RLock(m)
  BY <1>1, <1>3, NextOps DEF At
<1> HIDE DEF m
<1>5. \A l \in LockSet : (Writes(h, l)' <=> Writes(h, l)) /\ (Reads(h, l)' <=> l = m \/ Reads(h, l))
  <2>1. \A l \in LockSet : /\ NextOp(h) = RLock(l) <=> l = m
                           /\ NextOp(h) # Unlock(l) /\ NextOp(h) # Lock(l) /\ NextOp(h) # RUnlock(l)
    BY <1>4, OpsDiffer
  <2>2. QED BY <1>1, <1>2, <1>3, <2>1, Advancing
<1>6. \A g \in Handlers \ {h}, l \in LockSet : Reads(g, l)' <=> Reads(g, l)
  BY <1>1, <1>2, <1>3, Advancing
<1>7. /\ readers' \in [LockSet -> SUBSET Handlers] /\ readers'[m] = readers[m] \cup {h}
      /\ \A l \in LockSet \ {m} : readers'[l] = readers[l]
  BY <1>2, <1>3, <1>4 DEF LocksTypeOK
<1>8. ReadersHold'
  BY <1>3, <1>5, <1>6, <1>7 DEF ReadersHold
<1>9. \A l \in held : readers'[l] = {}
  BY <1>1, <1>3, <1>7 DEF HeldAlone, LocksTypeOK
<1>10. QED BY <1>1, <1>2, <1>5, <1>7, <1>8, <1>9, ReadingKeeps

(* Who ends reading a lock leaves it to the others.                         *)
LEMMA ReleaseReadKeeps ==
    ASSUME LockInv, NEW h \in Handlers, ReleaseRead(h)
    PROVE  LockInv'
<1> DEFINE m == NextOp(h).on
<1>1. ~Ended(h) /\ At(h, "RUnlock") /\ ~At(h, "Lock")
  BY DEF ReleaseRead, At
<1>2. readers' = [readers EXCEPT ![m] = @ \ {h}] /\ Advance(h) /\ UNCHANGED <<work, writer, held>>
  BY DEF ReleaseRead
<1>3. LocksTypeOK /\ ReadersHold /\ HeldAlone
  BY DEF LockInv
<1>4. m \in LockSet /\ NextOp(h) = RUnlock(m)
  BY <1>1, <1>3, NextOps DEF At
<1> HIDE DEF m
<1>5. \A l \in LockSet : (Writes(h, l)' <=> Writes(h, l)) /\ (Reads(h, l)' <=> l # m /\ Reads(h, l))
  <2>1. \A l \in LockSet : /\ NextOp(h) = RUnlock(l) <=> l = m
                           /\ NextOp(h) # Unlock(l) /\ NextOp(h) # Lock(l) /\ NextOp(h) # RLock(l)
    BY <1>4, OpsDiffer DEF RUnlock
  <2>2. QED BY <1>1, <1>2, <1>3, <2>1, Advancing
<1>6. \A g \in Handlers \ {h}, l \in LockSet : Reads(g, l)' <=> Reads(g, l)
  BY <1>1, <1>2, <1>3, Advancing
<1>7. /\ readers' \in [LockSet -> SUBSET Handlers] /\ readers'[m] = readers[m] \ {h}
      /\ \A l \in LockSet \ {m} : readers'[l] = readers[l]
  BY <1>2, <1>3, <1>4 DEF LocksTypeOK
<1>8. ReadersHold'
  BY <1>3, <1>5, <1>6, <1>7 DEF ReadersHold
<1>9. \A l \in held : readers'[l] = {}
  BY <1>3, <1>7 DEF HeldAlone, LocksTypeOK
<1>10. QED BY <1>1, <1>2, <1>5, <1>7, <1>8, <1>9, ReadingKeeps

(* An access changes no lock.                                               *)
LEMMA AccessKeeps ==
    ASSUME LockInv, NEW h \in Handlers, Access(h)
    PROVE  LockInv'
<1>1. ~Ended(h) /\ ~At(h, "Lock") /\ (At(h, "read") \/ At(h, "write"))
  BY DEF Access, At
<1>2. Advance(h) /\ UNCHANGED <<work, readers, writer, held>>
  BY DEF Access
<1>3. LocksTypeOK /\ ReadersHold /\ HeldAlone
  BY DEF LockInv
<1>4. NextOp(h) \in {Read(NextOp(h).on), Write(NextOp(h).on)}
  BY <1>1, <1>3, NextOps DEF At
<1>5. \A l \in LockSet : (Writes(h, l)' <=> Writes(h, l)) /\ (Reads(h, l)' <=> Reads(h, l))
  <2>1. \A l \in LockSet : /\ NextOp(h) # Lock(l) /\ NextOp(h) # Unlock(l)
                           /\ NextOp(h) # RLock(l) /\ NextOp(h) # RUnlock(l)
    BY <1>4, OpsDiffer
  <2>2. QED BY <1>1, <1>2, <1>3, <2>1, Advancing
<1>6. \A g \in Handlers \ {h}, l \in LockSet : Reads(g, l)' <=> Reads(g, l)
  BY <1>1, <1>2, <1>3, Advancing
<1>7. readers' \in [LockSet -> SUBSET Handlers] /\ ReadersHold' /\ \A l \in held : readers'[l] = {}
  BY <1>2, <1>3, <1>5, <1>6 DEF ReadersHold, HeldAlone, LocksTypeOK
<1>8. QED BY <1>1, <1>2, <1>5, <1>7, ReadingKeeps

(* Who holds which lock is told by the programs, in every reachable state.  *)
THEOREM LocksHeldByProgram == LocksSpec => []LockInv
<1>1. LockInv /\ [LocksNext]_lockVars => LockInv'
  <2> SUFFICES ASSUME LockInv, [LocksNext]_lockVars PROVE LockInv'
    OBVIOUS
  <2>1. CASE UNCHANGED lockVars
    BY <2>1, Zenon DEF lockVars, LockInv, LocksTypeOK, WithinProgram, ReadersHold, WritersHold, OneWriter,
       HeldAlone, Announced, Writes, Reads, At, Ended, NextOp
  <2>2. ASSUME NEW h \in Handlers, Step(h) PROVE LockInv'
    BY <2>2, AnnounceKeeps, AcquireLockKeeps, ReleaseLockKeeps, AcquireReadKeeps, ReleaseReadKeeps,
       AccessKeeps, Zenon DEF Step
  <2>3. QED BY <2>1, <2>2 DEF LocksNext
<1>2. QED BY LockInvStarts, <1>1, PTL DEF LocksSpec

-----------------------------------------------------------------------------
(* Guarded data. *)

(* Who is about to access guarded data holds its lock, and holds it for     *)
(* writing when it is about to write.                                       *)
LEMMA AccessUnderGuard ==
    ASSUME LockInv, NEW h \in Handlers, NEW l \in LockSet, NEW d \in Data, GuardedBy(d, l),
           NextOp(h).on = d
    PROVE  /\ At(h, "write") => Writes(h, l)
           /\ At(h, "read") => Writes(h, l) \/ Reads(h, l)
<1>1. LocksTypeOK
  BY DEF LockInv
<1> DEFINE p == Program[work[h]]
<1>2. Protected(p)
  BY <1>1, Follows
<1>3. ASSUME At(h, "write") PROVE Writes(h, l)
  <2>1. pc[h] \in 1 .. Len(p) /\ p[pc[h]] = Write(d)
    BY <1>1, <1>3, NextOps DEF At
  <2> HIDE DEF p
  <2>2. HoldsWrite(p, pc[h], l)
    BY <1>2, <2>1 DEF Protected
  <2>3. QED BY <2>2 DEF Writes, p
<1>4. ASSUME At(h, "read") PROVE Writes(h, l) \/ Reads(h, l)
  <2>1. pc[h] \in 1 .. Len(p) /\ p[pc[h]] = Read(d)
    BY <1>1, <1>4, NextOps DEF At
  <2> HIDE DEF p
  <2>2. Holds(p, pc[h], l)
    BY <1>2, <2>1 DEF Protected
  <2>3. QED BY <2>2 DEF Holds, Writes, Reads, p
<1>5. QED BY <1>3, <1>4

(* No two handlers are about to access the same of the store's indexes, a   *)
(* run's state and tasks, the hidden set, the layouts or the subscribers    *)
(* while one of them is about to write it.                                  *)
THEOREM SharedDataAreGuarded == LocksSpec => []SharedDataIsGuarded
<1>1. ASSUME LockInv, NEW l \in LockSet, NEW d \in Data, GuardedBy(d, l) PROVE ~Race(d)
  <2> SUFFICES ASSUME NEW g \in Handlers, NEW h \in Handlers, g # h, At(g, "write"), NextOp(g).on = d,
                      At(h, "write") \/ At(h, "read"), NextOp(h).on = d
               PROVE  FALSE
    BY Zenon DEF Race
  <2>1. Writes(g, l)
    BY <1>1, AccessUnderGuard
  <2>2. Writes(h, l) \/ Reads(h, l)
    BY <1>1, AccessUnderGuard
  <2>3. l \in held /\ g \in writer[l]
    BY <1>1, <2>1 DEF LockInv, WritersHold
  <2>4. CASE Writes(h, l)
    <3>1. h \in writer[l]
      BY <1>1, <2>4 DEF LockInv, WritersHold
    <3>2. QED BY <1>1, <2>3, <3>1 DEF LockInv, OneWriter
  <2>5. CASE Reads(h, l)
    BY <1>1, <2>3, <2>5 DEF LockInv, ReadersHold, HeldAlone
  <2>6. QED BY <2>2, <2>4, <2>5
<1>2. LockInv => SharedDataIsGuarded
  <2> SUFFICES ASSUME LockInv PROVE SharedDataIsGuarded
    OBVIOUS
  <2>1. /\ GuardedBy(Of("runs"), Of("store")) /\ GuardedBy(Of("hidden"), Of("hidden"))
        /\ GuardedBy(Of("layouts"), Of("layouts")) /\ GuardedBy(Of("subscribers"), Of("broker"))
        /\ \A r \in Runs : GuardedBy(Fields(r), RunLock(r))
    BY Zenon DEF GuardedBy
  <2>2. ~Race(Of("runs")) /\ ~Race(Of("hidden")) /\ ~Race(Of("layouts")) /\ ~Race(Of("subscribers"))
    BY <1>1, <2>1, LockFacts
  <2>3. \A r \in Runs : ~Race(Fields(r))
    BY <1>1, <2>1, LockFacts
  <2>4. QED BY <2>2, <2>3 DEF SharedDataIsGuarded
<1>3. QED BY LocksHeldByProgram, <1>2, PTL

-----------------------------------------------------------------------------
(* Waiting. *)

(* Only a handler that can go on makes a step.                              *)
LEMMA OnlyWhoCanGoOnSteps == ASSUME NEW h \in Handlers, Step(h) PROVE CanGoOn(h)
<1>1. CASE AnnounceLock(h)
  BY <1>1 DEF AnnounceLock, CanGoOn, At
<1>2. CASE AcquireLock(h)
  BY <1>2 DEF AcquireLock, CanGoOn, At
<1>3. CASE ReleaseLock(h)
  BY <1>3 DEF ReleaseLock, CanGoOn, At
<1>4. CASE AcquireRead(h)
  BY <1>4 DEF AcquireRead, CanGoOn, At
<1>5. CASE ReleaseRead(h)
  BY <1>5 DEF ReleaseRead, CanGoOn, At
<1>6. CASE Access(h)
  BY <1>6 DEF Access, CanGoOn, At
<1>7. QED BY <1>1, <1>2, <1>3, <1>4, <1>5, <1>6 DEF Step

(* The lock a handler is about to take.                                     *)
Takes(h, l) ==
    ~Ended(h) /\ l \in LockSet /\ (NextOp(h) = Lock(l) \/ NextOp(h) = RLock(l))

(* A handler that cannot go on is about to take a lock ...                  *)
LEMMA BlockedTakes ==
    ASSUME LocksTypeOK, NEW h \in Handlers, ~Ended(h), ~CanGoOn(h)
    PROVE  \E l \in LockSet :
             /\ Takes(h, l)
             /\ writer[l] # {}
             /\ At(h, "RLock") \/ writer[l] # {h} \/ readers[l] # {}
<1>1. (At(h, "Lock") \/ At(h, "RLock")) /\ writer[NextOp(h).on] # {}
  BY DEF CanGoOn
<1>2. At(h, "RLock") \/ writer[NextOp(h).on] # {h} \/ readers[NextOp(h).on] # {}
  BY DEF CanGoOn, At
<1>3. Takes(h, NextOp(h).on)
  BY <1>1, NextOps DEF Takes, At
<1>4. QED BY <1>1, <1>2, <1>3 DEF Takes

(* ... which is of a higher rank than those it holds ...                    *)
LEMMA TakesHigher ==
    ASSUME LocksTypeOK, NEW h \in Handlers, NEW l \in LockSet, Takes(h, l)
    PROVE  \A m \in LockSet : Writes(h, m) \/ Reads(h, m) => Rank(m) < Rank(l)
<1> DEFINE p == Program[work[h]]
<1>1. pc[h] \in 1 .. Len(p) /\ p[pc[h]] \in {Lock(l), RLock(l)} /\ Nested(p, 1)
  BY NextOps, Follows DEF Takes
<1> HIDE DEF p
<1>2. \A m \in LockSet : Holds(p, pc[h], m) => Rank(m) < Rank(l)
  BY <1>1 DEF Nested
<1>3. QED BY <1>2, Zenon DEF Holds, Writes, Reads, p

(* ... and held by a handler that has not ended.                            *)
LEMMA HolderGoesOn ==
    ASSUME LockInv, NEW h \in Handlers, NEW l \in LockSet, Writes(h, l) \/ Reads(h, l)
    PROVE  ~Ended(h)
<1> DEFINE p == Program[work[h]]
<1>1. p \in Seq(Op) /\ Balanced(p) /\ pc[h] <= Len(p) + 1 /\ pc[h] \in Nat
  BY Follows DEF LockInv, WithinProgram, LocksTypeOK
<1>2. Ended(h) <=> pc[h] > Len(p)
  BY DEF Ended
<1>3. Holds(p, pc[h], l)
  BY Zenon DEF Holds, Writes, Reads
<1> HIDE DEF p
<1>4. Len(p) \in Nat
  BY <1>1
<1>5. ASSUME Ended(h) PROVE FALSE
  <2>1. pc[h] = Len(p) + 1
    BY <1>1, <1>2, <1>4, <1>5
  <2>2. QED BY <1>1, <1>3, <2>1 DEF Balanced
<1>6. QED BY <1>5

(* If nobody can go on, a handler that waits for a lock waits for another   *)
(* handler, which waits for a lock of a higher rank.                        *)
LEMMA BlockedByHigher ==
    ASSUME LockInv, \A g \in Handlers : ~CanGoOn(g), NEW h \in Handlers, ~Ended(h)
    PROVE  \E l \in LockSet : Takes(h, l) /\
             \E g \in Handlers, m \in LockSet : ~Ended(g) /\ Takes(g, m) /\ Rank(l) < Rank(m)
<1>1. /\ LocksTypeOK /\ ReadersHold /\ WritersHold /\ OneWriter /\ HeldAlone /\ Announced
  BY DEF LockInv
<1>2. PICK l \in LockSet : /\ Takes(h, l) /\ writer[l] # {}
                           /\ At(h, "RLock") \/ writer[l] # {h} \/ readers[l] # {}
  BY <1>1, BlockedTakes
<1>3. PICK w \in Handlers : w \in writer[l]
  BY <1>1, <1>2 DEF LocksTypeOK
<1>4. writer[l] = {w}
  BY <1>1, <1>3 DEF OneWriter
<1>5. \E g \in Handlers : Writes(g, l) \/ Reads(g, l)
  <2>1. CASE l \in held
    BY <1>1, <1>3, <2>1 DEF HeldAlone
  <2>2. CASE l \notin held
    <3>1. At(w, "Lock") /\ NextOp(w).on = l
      BY <1>1, <1>3, <2>2 DEF Announced
    <3>2. ~CanGoOn(w) /\ ~Ended(w) /\ ~At(w, "RLock")
      BY <3>1 DEF At
    <3>3. readers[l] # {}
      BY <1>4, <3>1, <3>2 DEF CanGoOn
    <3>4. PICK g \in Handlers : g \in readers[l]
      BY <1>1, <3>3 DEF LocksTypeOK
    <3>5. QED BY <1>1, <3>4 DEF ReadersHold
  <2>3. QED BY <2>1, <2>2
<1>6. PICK g \in Handlers : Writes(g, l) \/ Reads(g, l)
  BY <1>5
<1>7. ~Ended(g) /\ ~CanGoOn(g)
  BY <1>6, HolderGoesOn
<1>8. PICK m \in LockSet : Takes(g, m)
  BY <1>1, <1>7, BlockedTakes
<1>9. Rank(l) < Rank(m)
  BY <1>1, <1>6, <1>8, TakesHigher
<1>10. QED BY <1>2, <1>7, <1>8, <1>9

(* Handlers never wait for one another: while requests are handled, some    *)
(* handler's next step is one it need not wait for, however many handlers   *)
(* and runs there are.                                                      *)
THEOREM HandlersNeverDeadlock == LocksSpec => []SomeoneCanGoOn
<1>1. ASSUME LockInv, \A g \in Handlers : ~CanGoOn(g), NEW h \in Handlers, ~Ended(h) PROVE FALSE
  <2>1. \A l \in LockSet : Rank(l) \in 1 .. 3
    BY DEF Rank
  <2>2. PICK g \in Handlers, m \in LockSet :
          ~Ended(g) /\ Takes(g, m) /\ \E l \in LockSet : Takes(h, l) /\ Rank(l) < Rank(m)
    BY <1>1, BlockedByHigher, Zenon
  <2>3. Rank(m) \in {2, 3}
    BY <2>1, <2>2
  <2>4. PICK k \in Handlers, n \in LockSet : ~Ended(k) /\ Takes(k, n) /\ Rank(m) < Rank(n)
    <3>1. PICK l \in LockSet : Takes(g, l) /\
            \E k \in Handlers, n \in LockSet : ~Ended(k) /\ Takes(k, n) /\ Rank(l) < Rank(n)
      BY <1>1, <2>2, BlockedByHigher, Zenon
    <3>2. l = m
      BY <2>2, <3>1, OpsDiffer DEF Takes
    <3>3. QED BY <3>1, <3>2
  <2>5. Rank(n) = 3
    BY <2>1, <2>3, <2>4
  <2>6. PICK l \in LockSet : Takes(k, l) /\ \E j \in Handlers, q \in LockSet : Rank(l) < Rank(q)
    BY <1>1, <2>4, BlockedByHigher, Zenon
  <2>7. l = n
    BY <2>4, <2>6, OpsDiffer DEF Takes
  <2>8. QED BY <2>1, <2>5, <2>6, <2>7
<1>2. LockInv => SomeoneCanGoOn
  BY <1>1, Zenon DEF SomeoneCanGoOn
<1>3. QED BY LocksHeldByProgram, <1>2, PTL

=============================================================================
