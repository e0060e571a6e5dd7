------------------------- MODULE DashboardProofs ----------------------------
(***************************************************************************)
(* Proofs about Feed and Dashboard, for any number of browsers, runs,      *)
(* handlers, changes and clicks, and any capacity of the channels.  What is *)
(* proved of the feed holds under the page that is put on top of it.       *)
(*                                                                         *)
(* First the feed: who is subscribed, and what the messages carry.         *)
(***************************************************************************)
EXTENDS Dashboard, TLAPS

(* What a step is. *)
LEMMA FeedSteps ==
    ASSUME [FeedNext]_feedVars
    PROVE  \/ \E p \in Publishers, change \in Change, run \in Runs \cup {NoRun} : Begin(p, change, run)
           \/ \E p \in Publishers : RenderSidebar(p)
           \/ \E p \in Publishers : RenderDetail(p)
           \/ \E p \in Publishers : BeginPublish(p)
           \/ \E p \in Publishers, c \in Clients : Visit(p, c)
           \/ \E p \in Publishers : EndPublish(p)
           \/ \E c \in Clients : Subscribe(c)
           \/ \E c \in Clients : InitialSend(c)
           \/ \E c \in Clients : Forward(c)
           \/ \E c \in Clients : Unsubscribe(c)
           \/ UNCHANGED feedVars
<1>1. ASSUME NEW p \in Publishers, NEW run \in Runs, ChangeState(p, run)
      PROVE  \E change \in Change, r \in Runs \cup {NoRun} : Begin(p, change, r)
  <2>1. [kind |-> "event", run |-> run] \in Change
    BY DEF Change
  <2>2. QED BY <1>1, <2>1 DEF ChangeState
<1>2. ASSUME NEW p \in Publishers, NEW kind \in {"hide", "unhide"}, NEW run \in Runs, Mark(p, kind, run)
      PROVE  \E change \in Change, r \in Runs \cup {NoRun} : Begin(p, change, r)
  <2>1. [kind |-> kind, run |-> run] \in Change
    BY DEF Change
  <2>2. QED BY <1>2, <2>1 DEF Mark
<1>3. QED
  BY <1>1, <1>2 DEF FeedNext

(* A channel's last message is the one sent last, and forwarding the first  *)
(* leaves it the last unless it was the only one.                           *)
LEMMA LastOfChannel ==
    ASSUME NEW s \in Seq(Message)
    PROVE  /\ \A m \in Message : /\ Append(s, m) \in Seq(Message)
                                 /\ Append(s, m) # <<>>
                                 /\ Last(Append(s, m)) = m
                                 /\ Len(Append(s, m)) = Len(s) + 1
           /\ s # <<>> => /\ Head(s) \in Message /\ Tail(s) \in Seq(Message)
                          /\ Len(Tail(s)) = Len(s) - 1
                          /\ Tail(s) = <<>> => Head(s) = Last(s)
                          /\ Tail(s) # <<>> => Last(Tail(s)) = Last(s)
<1>1. ASSUME NEW m \in Message
      PROVE  /\ Append(s, m) \in Seq(Message) /\ Append(s, m) # <<>>
             /\ Last(Append(s, m)) = m /\ Len(Append(s, m)) = Len(s) + 1
  BY DEF Last
<1>2. ASSUME s # <<>>
      PROVE  /\ Head(s) \in Message /\ Tail(s) \in Seq(Message)
             /\ Len(Tail(s)) = Len(s) - 1
             /\ Tail(s) = <<>> => Head(s) = Last(s)
             /\ Tail(s) # <<>> => Last(Tail(s)) = Last(s)
  <2>1. Head(s) \in Message /\ Tail(s) \in Seq(Message) /\ Len(Tail(s)) = Len(s) - 1 /\ Len(s) > 0
    BY <1>2
  <2>2. ASSUME Tail(s) = <<>> PROVE Head(s) = Last(s)
    <3> DEFINE t == Tail(s)
    <3>1. Len(s) = 1
      <4>1. t = <<>> /\ Len(t) = Len(s) - 1 /\ Len(s) \in Nat
        BY <2>1, <2>2
      <4> HIDE DEF t
      <4>2. QED BY <4>1
    <3>2. Head(s) = s[1]
      BY <1>2
    <3>3. QED BY <3>1, <3>2 DEF Last
  <2>3. ASSUME Tail(s) # <<>> PROVE Last(Tail(s)) = Last(s)
    BY <1>2, <2>1, <2>3 DEF Last
  <2>4. QED BY <2>1, <2>2, <2>3
<1>3. QED BY <1>1, <1>2

-----------------------------------------------------------------------------
(* Types. *)

(* A selector asks for a run, or for none. *)
LEMMA SelectorOfRuns ==
    ASSUME FeedTypeOK
    PROVE  latestVisibleRunID(version) \subseteq Runs \cup {NoRun}
<1>1. \A i \in 1 .. version : changes[i].run \in Runs
  <2>1. changes \in Seq(Change)
    BY DEF FeedTypeOK
  <2>2. \A i \in 1 .. version : changes[i] \in Change
    BY ONLY <2>1 DEF version
  <2>3. QED BY ONLY <2>2 DEF Change
<1>2. Visible(version) \subseteq Runs
  BY <1>1 DEF Visible, Known
<1> DEFINE latest == {r \in Runs : IsLatest(r, version)}
<1>3. latest \subseteq Runs
  OBVIOUS
<1>4. latestVisibleRunID(version) \in {{NoRun}, latest, Visible(version)}
  BY DEF latestVisibleRunID
<1> HIDE DEF latest
<1>5. QED BY <1>2, <1>3, <1>4

(* A handler that is idle. *)
LEMMA IdleIsPublisher == IdlePublisher \in Publisher /\ IdlePublisher.pc = "idle"
  BY FeedAssumption DEF IdlePublisher, Publisher, Versions

(* Every step keeps the types.                                              *)
LEMMA FeedTypeStep ==
    ASSUME FeedTypeOK, [FeedNext]_feedVars
    PROVE  FeedTypeOK'
<1> USE DEF FeedTypeOK, version
<1>1. \A p \in Publishers : publisher[p] \in Publisher
  OBVIOUS
<1>2. ASSUME NEW p \in Publishers, NEW change \in Change, NEW run \in Runs \cup {NoRun},
             Begin(p, change, run)
      PROVE  FeedTypeOK'
  <2>1. changes' \in Seq(Change) /\ version' \in Versions
    BY <1>2, FeedAssumption DEF Begin, Versions
  <2> DEFINE h == [IdlePublisher EXCEPT !.pc = "sidebar", !.run = run]
  <2>2. h \in Publisher
    BY IdleIsPublisher DEF Publisher
  <2>3. publisher' = [publisher EXCEPT ![p] = h]
    BY <1>2 DEF Begin
  <2> HIDE DEF h
  <2>4. publisher' \in [Publishers -> Publisher]
    BY <2>2, <2>3
  <2>5. overlapped' \in BOOLEAN
    BY <1>2 DEF Begin
  <2>6. QED BY <1>2, <2>1, <2>4, <2>5 DEF Begin
<1>3. ASSUME NEW p \in Publishers, RenderSidebar(p)
      PROVE  FeedTypeOK'
  <2>1. PICK latest \in latestVisibleRunID(version) :
          publisher' = [publisher EXCEPT ![p] =
              [@ EXCEPT !.pc = IF publisher[p].run = NoRun THEN "publish" ELSE "detail",
                        !.sidebar = version, !.selector = latest]]
    BY <1>3 DEF RenderSidebar
  <2>2. latest \in Runs \cup {NoRun}
    BY SelectorOfRuns
  <2> DEFINE h == [publisher[p] EXCEPT
          !.pc = IF publisher[p].run = NoRun THEN "publish" ELSE "detail",
          !.sidebar = version, !.selector = latest]
  <2>3. h \in Publisher
    <3>1. publisher[p] \in Publisher /\ version \in Versions
      BY <1>1
    <3>2. QED BY ONLY <2>2, <3>1 DEF Publisher
  <2>4. publisher' = [publisher EXCEPT ![p] = h]
    BY <2>1
  <2>5. publisher' \in [Publishers -> Publisher]
    <3>1. publisher \in [Publishers -> Publisher]
      OBVIOUS
    <3> HIDE DEF h
    <3>2. QED BY ONLY <2>3, <2>4, <3>1
  <2>6. QED BY <1>3, <2>5 DEF RenderSidebar
<1>4. ASSUME NEW p \in Publishers, RenderDetail(p)
      PROVE  FeedTypeOK'
  BY <1>1, <1>4 DEF RenderDetail, Publisher
<1>5. ASSUME NEW p \in Publishers, BeginPublish(p)
      PROVE  FeedTypeOK'
  BY <1>1, <1>5 DEF BeginPublish, Publisher
<1>6. ASSUME NEW p \in Publishers, NEW c \in Clients, Visit(p, c)
      PROVE  FeedTypeOK'
  <2>1. publisher' \in [Publishers -> Publisher]
    BY <1>1, <1>6 DEF Visit, Publisher
  <2>2. MessageOf(p) \in Message
    BY <1>1, <1>6 DEF Visit, MessageOf, Message, Publisher
  <2>3. channel' \in [Clients -> Seq(Message)] /\ \A b \in Clients : Len(channel'[b]) <= Capacity
    <3>1. CASE HasRoom(c)
      <4>1. channel' = [channel EXCEPT ![c] = Append(channel[c], MessageOf(p))]
        BY <1>6, <3>1 DEF Visit
      <4>2. /\ Append(channel[c], MessageOf(p)) \in Seq(Message)
            /\ Len(Append(channel[c], MessageOf(p))) <= Capacity
        BY <2>2, <3>1, LastOfChannel, FeedAssumption DEF HasRoom
      <4>3. QED BY <4>1, <4>2
    <3>2. CASE ~HasRoom(c)
      BY <1>6, <3>2 DEF Visit
    <3>3. QED BY <3>1, <3>2
  <2>4. skipped' \subseteq Clients
    BY <1>6 DEF Visit
  <2>5. QED BY <1>6, <2>1, <2>3, <2>4 DEF Visit
<1>7. ASSUME NEW p \in Publishers, EndPublish(p)
      PROVE  FeedTypeOK'
  BY <1>7, IdleIsPublisher DEF EndPublish
<1>8. ASSUME NEW c \in Clients, Subscribe(c)
      PROVE  FeedTypeOK'
  BY <1>8, FeedAssumption DEF Subscribe
<1>9. ASSUME NEW c \in Clients, InitialSend(c)
      PROVE  FeedTypeOK'
  BY <1>9 DEF InitialSend
<1>10. ASSUME NEW c \in Clients, Forward(c)
       PROVE  FeedTypeOK'
  <2>1. /\ Head(channel[c]) \in Message /\ Tail(channel[c]) \in Seq(Message)
        /\ Len(Tail(channel[c])) <= Capacity
    BY <1>10, LastOfChannel, FeedAssumption DEF Forward
  <2>2. Head(channel[c]).sidebar \in Versions
    BY <2>1 DEF Message
  <2>3. QED BY <1>10, <2>1, <2>2 DEF Forward
<1>11. ASSUME NEW c \in Clients, Unsubscribe(c)
       PROVE  FeedTypeOK'
  BY <1>11, FeedAssumption DEF Unsubscribe
<1>12. CASE UNCHANGED feedVars
  BY <1>12 DEF feedVars
<1>13. QED
  BY <1>2, <1>3, <1>4, <1>5, <1>6, <1>7, <1>8, <1>9, <1>10, <1>11, <1>12, FeedSteps

(* Types hold from the start.                                               *)
LEMMA FeedTypeInit == FeedInit => FeedTypeOK
<1> SUFFICES ASSUME FeedInit PROVE FeedTypeOK
  OBVIOUS
<1>1. changes \in Seq(Change) /\ version \in Versions /\ 0 \in Versions /\ 0 \in 0 .. MaxConnects
  BY FeedAssumption DEF FeedInit, version, Versions
<1>2. channel \in [Clients -> Seq(Message)] /\ \A c \in Clients : Len(channel[c]) <= Capacity
  BY FeedAssumption DEF FeedInit
<1>3. QED BY <1>1, <1>2, IdleIsPublisher DEF FeedInit, FeedTypeOK

(* Handlers, channels and connections keep their types, and no channel      *)
(* holds more than its capacity.                                            *)
THEOREM FeedTypeCorrect == FeedSpec => []FeedTypeOK
  BY FeedTypeInit, FeedTypeStep, PTL DEF FeedSpec

-----------------------------------------------------------------------------
(* Closed channels. *)

(* The inductive invariant: a handler has browsers to visit only while it   *)
(* holds the lock.                                                          *)
VisitsUnderLock ==
    /\ NoSendOnClosedChannel
    /\ \A p \in Publishers : publisher[p].pc # "visit" => publisher[p].toVisit = {}

(* Every step keeps visits under the lock.                                  *)
LEMMA VisitsStep ==
    ASSUME FeedTypeOK, VisitsUnderLock, [FeedNext]_feedVars
    PROVE  VisitsUnderLock'
<1> USE DEF FeedTypeOK, VisitsUnderLock, NoSendOnClosedChannel
<1>1. \A p \in Publishers : publisher[p] \in Publisher
  OBVIOUS
<1>2. ASSUME NEW p \in Publishers, NEW change \in Change, NEW run \in Runs \cup {NoRun},
             Begin(p, change, run)
      PROVE  VisitsUnderLock'
  BY <1>2 DEF Begin, IdlePublisher
<1>3. ASSUME NEW p \in Publishers, RenderSidebar(p)
      PROVE  VisitsUnderLock'
  BY <1>1, <1>3 DEF RenderSidebar, Publisher
<1>4. ASSUME NEW p \in Publishers, RenderDetail(p)
      PROVE  VisitsUnderLock'
  BY <1>1, <1>4 DEF RenderDetail, Publisher
<1>5. ASSUME NEW p \in Publishers, BeginPublish(p)
      PROVE  VisitsUnderLock'
  BY <1>1, <1>5 DEF BeginPublish, Publisher
<1>6. ASSUME NEW p \in Publishers, NEW c \in Clients, Visit(p, c)
      PROVE  VisitsUnderLock'
  BY <1>1, <1>6 DEF Visit, Publisher
<1>7. ASSUME NEW p \in Publishers, EndPublish(p)
      PROVE  VisitsUnderLock'
  BY <1>7 DEF EndPublish, IdlePublisher
<1>8. ASSUME NEW c \in Clients, Subscribe(c) \/ Unsubscribe(c)
      PROVE  VisitsUnderLock'
  <2>1. UNCHANGED publisher /\ \A p \in Publishers : publisher[p].toVisit = {}
    BY <1>8 DEF Subscribe, Unsubscribe, WriteLock, NoReader
  <2>2. subscribers' = {b \in Clients : connection'[b] # "none"}
    <3>1. CASE Subscribe(c)
      BY <3>1 DEF Subscribe
    <3>2. CASE Unsubscribe(c)
      BY <3>2 DEF Unsubscribe
    <3>3. QED BY <1>8, <3>1, <3>2
  <2>3. QED BY <2>1, <2>2
<1>9. ASSUME NEW c \in Clients, InitialSend(c)
      PROVE  VisitsUnderLock'
  BY <1>9 DEF InitialSend
<1>10. ASSUME NEW c \in Clients, Forward(c)
       PROVE  VisitsUnderLock'
  BY <1>10 DEF Forward
<1>11. CASE UNCHANGED feedVars
  BY <1>11 DEF feedVars
<1>12. QED
  BY <1>2, <1>3, <1>4, <1>5, <1>6, <1>7, <1>8, <1>9, <1>10, <1>11, FeedSteps

(* The lock holds from the start.                                           *)
LEMMA VisitsInit == FeedInit => VisitsUnderLock
  BY DEF FeedInit, VisitsUnderLock, NoSendOnClosedChannel, IdlePublisher

(* No handler sends on a channel that is closed.                            *)
THEOREM OpenChannels == FeedSpec => []NoSendOnClosedChannel
<1>1. VisitsUnderLock => NoSendOnClosedChannel
  BY DEF VisitsUnderLock
<1>2. QED
  BY <1>1, FeedTypeInit, FeedTypeStep, VisitsInit, VisitsStep, PTL DEF FeedSpec

-----------------------------------------------------------------------------
(* Updates. *)

(* What a browser was sent last, or will be sent when it connects, is the   *)
(* current sidebar.                                                         *)
UpToDate(c) ==
    IF channel[c] # <<>> THEN Last(channel[c]).sidebar = version
    ELSE connection[c] = "streaming" => view[c] = version

(* The inductive invariant, while handlers do not overlap: there is one at  *)
(* most, it renders the current state, and every browser is up to date but  *)
(* those it has skipped or not yet visited.                                 *)
OneAtATime ==
    \A p, q \in Publishers : p # q => publisher[p].pc = "idle" \/ publisher[q].pc = "idle"

RendersCurrent ==
    \A p \in Publishers : publisher[p].pc \in {"detail", "publish", "visit"}
                              => publisher[p].sidebar = version

Reached ==
    /\ HandlersIdle => \A c \in subscribers \ skipped : UpToDate(c)
    /\ \A p \in Publishers : publisher[p].pc = "visit" =>
         \A c \in subscribers \ (publisher[p].toVisit \cup skipped) : UpToDate(c)

UpdatesArrive == ~overlapped => OneAtATime /\ RendersCurrent /\ Reached

(* Every step keeps updates arriving.                                       *)
LEMMA UpdatesStep ==
    ASSUME FeedTypeOK, VisitsUnderLock, UpdatesArrive, [FeedNext]_feedVars
    PROVE  UpdatesArrive'
<1> SUFFICES ASSUME ~overlapped'
             PROVE  OneAtATime' /\ RendersCurrent' /\ Reached'
  BY DEF UpdatesArrive
<1>1. \A p \in Publishers : publisher[p] \in Publisher
  BY DEF FeedTypeOK
<1>2. ASSUME NEW p \in Publishers, NEW change \in Change, NEW run \in Runs \cup {NoRun},
             Begin(p, change, run)
      PROVE  OneAtATime' /\ RendersCurrent' /\ Reached'
  <2>1. /\ publisher'[p].pc = "sidebar"
        /\ \A q \in Publishers \ {p} : publisher'[q].pc = "idle"
    BY <1>2 DEF Begin, IdlePublisher, FeedTypeOK
  <2>2. QED BY <2>1 DEF OneAtATime, RendersCurrent, Reached, HandlersIdle
<1>3. ASSUME NEW p \in Publishers, RenderSidebar(p)
      PROVE  OneAtATime' /\ RendersCurrent' /\ Reached'
  <2>1. /\ publisher[p].pc = "sidebar" /\ publisher'[p].pc \in {"detail", "publish"}
        /\ publisher'[p].sidebar = version
        /\ \A q \in Publishers \ {p} : publisher'[q] = publisher[q]
        /\ version' = version
    BY <1>1, <1>3 DEF RenderSidebar, FeedTypeOK, Publisher, version
  <2>2. OneAtATime /\ RendersCurrent
    BY <1>3 DEF RenderSidebar, UpdatesArrive
  <2>3. QED BY <2>1, <2>2 DEF OneAtATime, RendersCurrent, Reached, HandlersIdle
<1>4. ASSUME NEW p \in Publishers, RenderDetail(p)
      PROVE  OneAtATime' /\ RendersCurrent' /\ Reached'
  <2>1. /\ publisher[p].pc = "detail" /\ publisher'[p].pc = "publish"
        /\ publisher'[p].sidebar = publisher[p].sidebar
        /\ \A q \in Publishers \ {p} : publisher'[q] = publisher[q]
        /\ version' = version
    BY <1>1, <1>4 DEF RenderDetail, FeedTypeOK, Publisher, version
  <2>2. OneAtATime /\ RendersCurrent
    BY <1>4 DEF RenderDetail, UpdatesArrive
  <2>3. QED BY <2>1, <2>2 DEF OneAtATime, RendersCurrent, Reached, HandlersIdle
<1>5. ASSUME NEW p \in Publishers, BeginPublish(p)
      PROVE  OneAtATime' /\ RendersCurrent' /\ Reached'
  <2>1. /\ publisher[p].pc = "publish" /\ publisher'[p].pc = "visit"
        /\ publisher'[p].sidebar = publisher[p].sidebar
        /\ publisher'[p].toVisit = subscribers'
        /\ \A q \in Publishers \ {p} : publisher'[q] = publisher[q]
        /\ version' = version
    BY <1>1, <1>5 DEF BeginPublish, FeedTypeOK, Publisher, version
  <2>2. OneAtATime /\ RendersCurrent
    BY <1>5 DEF BeginPublish, UpdatesArrive
  <2>3. QED BY <2>1, <2>2 DEF OneAtATime, RendersCurrent, Reached, HandlersIdle
<1>6. ASSUME NEW p \in Publishers, NEW c \in Clients, Visit(p, c)
      PROVE  OneAtATime' /\ RendersCurrent' /\ Reached'
  <2>1. /\ publisher[p].pc = "visit" /\ publisher'[p].pc = "visit"
        /\ publisher'[p].sidebar = publisher[p].sidebar
        /\ publisher'[p].toVisit = publisher[p].toVisit \ {c}
        /\ \A q \in Publishers \ {p} : publisher'[q] = publisher[q]
        /\ version' = version
    BY <1>1, <1>6 DEF Visit, FeedTypeOK, Publisher, version
  <2>2. OneAtATime /\ RendersCurrent /\ Reached
    BY <1>6 DEF Visit, UpdatesArrive
  <2>3. MessageOf(p) \in Message /\ MessageOf(p).sidebar = version
    BY <1>1, <2>1, <2>2 DEF MessageOf, Message, Publisher, FeedTypeOK, RendersCurrent
  <2>4. c \notin skipped' => UpToDate(c)'
    <3>1. ASSUME c \notin skipped'
          PROVE  channel'[c] = Append(channel[c], MessageOf(p))
      BY <1>6, <3>1 DEF Visit, FeedTypeOK
    <3>2. ASSUME c \notin skipped'
          PROVE  channel'[c] # <<>> /\ Last(channel'[c]) = MessageOf(p)
      BY <2>3, <3>1, <3>2, LastOfChannel DEF FeedTypeOK
    <3>3. QED BY <2>1, <2>3, <3>2 DEF UpToDate
  <2>5. \A b \in Clients \ {c} : /\ UpToDate(b) => UpToDate(b)'
                                 /\ b \in skipped' <=> b \in skipped
    <3>1. \A b \in Clients \ {c} : channel'[b] = channel[b] /\ (b \in skipped' <=> b \in skipped)
      BY <1>6 DEF Visit, FeedTypeOK
    <3>2. UNCHANGED <<connection, view, version>>
      BY <1>6, <2>1 DEF Visit
    <3>3. QED BY <3>1, <3>2 DEF UpToDate
  <2>6. \A q \in Publishers \ {p} : publisher'[q].pc = "idle"
    BY <2>1, <2>2 DEF OneAtATime
  <2>7. subscribers' = subscribers /\ subscribers \subseteq Clients
    BY <1>6 DEF Visit, FeedTypeOK
  <2>8. ASSUME NEW b \in subscribers, b \notin publisher'[p].toVisit, b \notin skipped'
        PROVE  UpToDate(b)'
    BY <2>1, <2>2, <2>4, <2>5, <2>7, <2>8 DEF Reached
  <2>9. Reached'
    BY <2>1, <2>6, <2>7, <2>8 DEF Reached, HandlersIdle
  <2>10. QED BY <2>1, <2>2, <2>6, <2>9 DEF OneAtATime, RendersCurrent
<1>7. ASSUME NEW p \in Publishers, EndPublish(p)
      PROVE  OneAtATime' /\ RendersCurrent' /\ Reached'
  <2>1. /\ publisher[p].pc = "visit" /\ publisher[p].toVisit = {} /\ publisher'[p].pc = "idle"
        /\ \A q \in Publishers \ {p} : publisher'[q] = publisher[q]
        /\ UNCHANGED <<version, subscribers, skipped, channel, connection, view>>
    BY <1>7 DEF EndPublish, IdlePublisher, FeedTypeOK, version
  <2>2. OneAtATime /\ RendersCurrent /\ Reached
    BY <1>7 DEF EndPublish, UpdatesArrive
  <2>3. \A c \in subscribers \ skipped : UpToDate(c)'
    BY <2>1, <2>2 DEF Reached, UpToDate
  <2>4. QED BY <2>1, <2>2, <2>3 DEF OneAtATime, RendersCurrent, Reached
<1>8. ASSUME UNCHANGED <<publisher, version, overlapped>>,
             \A p \in Publishers : publisher[p].pc = "visit" => UNCHANGED subscribers,
             \A c \in subscribers' : /\ c \in subscribers \/ UpToDate(c)'
                                     /\ UpToDate(c) => UpToDate(c)'
                                     /\ c \notin skipped' => c \notin skipped \/ UpToDate(c)'
      PROVE  OneAtATime' /\ RendersCurrent' /\ Reached'
  <2>1. OneAtATime /\ RendersCurrent /\ Reached
    BY <1>8 DEF UpdatesArrive
  <2>2. OneAtATime' /\ RendersCurrent'
    BY <1>8, <2>1 DEF OneAtATime, RendersCurrent
  <2>3. HandlersIdle' => \A c \in subscribers' \ skipped' : UpToDate(c)'
    BY <1>8, <2>1 DEF Reached, HandlersIdle
  <2>4. ASSUME NEW p \in Publishers, publisher'[p].pc = "visit",
               NEW c \in subscribers', c \notin publisher'[p].toVisit, c \notin skipped'
        PROVE  UpToDate(c)'
    BY <1>8, <2>1, <2>4 DEF Reached
  <2>5. QED BY <2>2, <2>3, <2>4 DEF Reached
<1>9. ASSUME NEW c \in Clients, Subscribe(c) \/ Unsubscribe(c)
      PROVE  OneAtATime' /\ RendersCurrent' /\ Reached'
  <2>1. /\ UNCHANGED <<publisher, version, overlapped>>
        /\ \A p \in Publishers : publisher[p].pc # "visit"
    BY <1>9 DEF Subscribe, Unsubscribe, WriteLock, NoReader, version
  <2>2. \A b \in Clients \ {c} : /\ b \in subscribers' <=> b \in subscribers
                                 /\ b \in skipped' <=> b \in skipped
                                 /\ channel'[b] = channel[b] /\ connection'[b] = connection[b]
                                 /\ view'[b] = view[b]
    BY <1>9 DEF Subscribe, Unsubscribe, FeedTypeOK
  <2>3. /\ subscribers' \subseteq Clients
        /\ c \in subscribers' => channel'[c] = <<>> /\ connection'[c] = "initial"
    BY <1>9 DEF Subscribe, Unsubscribe, FeedTypeOK
  <2>4. c \in subscribers' => UpToDate(c)'
    BY <2>3 DEF UpToDate
  <2>5. \A b \in Clients \ {c} : UpToDate(b) => UpToDate(b)'
    BY <2>1, <2>2 DEF UpToDate
  <2>6. QED BY <1>8, <2>1, <2>2, <2>3, <2>4, <2>5
<1>10. ASSUME NEW c \in Clients, InitialSend(c)
       PROVE  OneAtATime' /\ RendersCurrent' /\ Reached'
  <2>1. UNCHANGED <<publisher, version, overlapped, subscribers, skipped, channel>>
    BY <1>10 DEF InitialSend, version
  <2>2. /\ view'[c] = version
        /\ \A b \in Clients \ {c} : view'[b] = view[b] /\ connection'[b] = connection[b]
    BY <1>10 DEF InitialSend, FeedTypeOK
  <2>3. \A b \in Clients : UpToDate(b) => UpToDate(b)'
    BY <2>1, <2>2 DEF UpToDate
  <2>4. subscribers \subseteq Clients
    BY DEF FeedTypeOK
  <2>5. QED BY <1>8, <2>1, <2>3, <2>4
<1>11. ASSUME NEW c \in Clients, Forward(c)
       PROVE  OneAtATime' /\ RendersCurrent' /\ Reached'
  <2>1. UNCHANGED <<publisher, version, overlapped, subscribers, skipped, connection>>
    BY <1>11 DEF Forward, version
  <2>2. /\ channel[c] # <<>> /\ channel'[c] = Tail(channel[c]) /\ view'[c] = Head(channel[c]).sidebar
        /\ \A b \in Clients \ {c} : view'[b] = view[b] /\ channel'[b] = channel[b]
    BY <1>11 DEF Forward, FeedTypeOK
  <2>3. UpToDate(c) => UpToDate(c)'
    <3>1. channel[c] \in Seq(Message)
      BY DEF FeedTypeOK
    <3>2. /\ Tail(channel[c]) = <<>> => Head(channel[c]) = Last(channel[c])
          /\ Tail(channel[c]) # <<>> => Last(Tail(channel[c])) = Last(channel[c])
      BY <2>2, <3>1, LastOfChannel
    <3>3. QED BY <2>1, <2>2, <3>2 DEF UpToDate
  <2>4. \A b \in Clients : UpToDate(b) => UpToDate(b)'
    BY <2>1, <2>2, <2>3 DEF UpToDate
  <2>5. subscribers \subseteq Clients
    BY DEF FeedTypeOK
  <2>6. QED BY <1>8, <2>1, <2>4, <2>5
<1>12. CASE UNCHANGED feedVars
  BY <1>12 DEF feedVars, version, UpdatesArrive, OneAtATime, RendersCurrent, Reached,
               HandlersIdle, UpToDate
<1>13. QED
  BY <1>2, <1>3, <1>4, <1>5, <1>6, <1>7, <1>9, <1>10, <1>11, <1>12, FeedSteps

(* Updates arrive from the start.                                           *)
LEMMA UpdatesInit == FeedInit => UpdatesArrive
  BY DEF FeedInit, UpdatesArrive, OneAtATime, RendersCurrent, Reached, IdlePublisher

(* No update is lost to a connected browser but by a full channel or by     *)
(* handlers that overlap.                                                   *)
THEOREM UpdatesAreNotLost == FeedSpec => []NoUpdateLost
<1>1. VisitsUnderLock /\ UpdatesArrive => NoUpdateLost
  <2> SUFFICES ASSUME VisitsUnderLock, UpdatesArrive, HandlersIdle, ~overlapped,
                      NEW c \in Clients \ skipped, connection[c] = "streaming"
               PROVE  LastSent(c) = version
    BY DEF NoUpdateLost
  <2>1. c \in subscribers \ skipped
    BY DEF VisitsUnderLock, NoSendOnClosedChannel
  <2>2. UpToDate(c)
    BY <2>1 DEF UpdatesArrive, Reached
  <2>3. QED BY <2>2 DEF UpToDate, LastSent
<1>2. QED
  BY <1>1, FeedTypeInit, FeedTypeStep, VisitsInit, VisitsStep, UpdatesInit, UpdatesStep, PTL
     DEF FeedSpec

-----------------------------------------------------------------------------
(* The page: how it follows what the browser asks for and receives.         *)

(* What a step is for a page. *)
LEMMA PageSteps ==
    ASSUME [DashboardNext]_dashboardVars
    PROVE  \/ \E c \in Clients, run \in Runs : Click(c, run)
           \/ \E c \in Clients, e \in Elements : Answer(c, e)
           \/ \E c \in Clients, e \in Elements : PatchDashboard(c, e)
           \/ \E c \in Clients, e \in Elements : PatchSignal(c, e)
           \/ \E c \in Clients : ReceiveInitial(c)
           \/ \E c \in Clients : Receive(c)
           \/ UNCHANGED <<selected, dashboard, requests, raced, clicks>>
<1>1. CASE UNCHANGED dashboardVars
  BY <1>1 DEF dashboardVars, pageVars
<1>2. CASE \E p \in Publishers, run \in Runs : Event(p, run)
  BY <1>2 DEF Event
<1>3. CASE \E p \in Publishers, kind \in {"hide", "unhide"}, run \in Runs : HideOrUnhide(p, kind, run)
  BY <1>3 DEF HideOrUnhide, pageVars
<1>4. CASE \E p \in Publishers : Broadcast(p)
  BY <1>4 DEF Broadcast, pageVars
<1>5. CASE \E p \in Publishers, c \in Clients : Deliver(p, c)
  BY <1>5 DEF Deliver
<1>6. CASE \E c \in Clients : Connect(c)
  BY <1>6 DEF Connect, pageVars
<1>7. CASE \E c \in Clients : Disconnect(c)
  BY <1>7 DEF Disconnect
<1>8. QED BY <1>1, <1>2, <1>3, <1>4, <1>5, <1>6, <1>7 DEF DashboardNext, Browse

-----------------------------------------------------------------------------
(* The inductive invariant: in a browser whose requests do not race there  *)
(* is at most one, it asks for the selected run if there is one, and once  *)
(* it has patched the dashboard, the dashboard is that of its run.         *)

PageShape ==
    /\ DOMAIN selected = Clients /\ DOMAIN dashboard = Clients
    /\ DOMAIN requests = Clients /\ \A c \in Clients : DOMAIN requests[c] = Elements
    /\ clicks \in [Clients -> Nat]
    /\ raced \subseteq Clients

InTurn(c) ==
    /\ \A e, f \in Elements : e # f => requests[c][e].pc = "none" \/ requests[c][f].pc = "none"
    /\ InFlight(c) = {} => dashboard[c].run = selected[c]
    /\ \A e \in Elements :
         /\ requests[c][e].pc = "patched" => dashboard[c].run = requests[c][e].run
         /\ requests[c][e].pc # "none" => selected[c] \in {NoRun, requests[c][e].run}

PageInvariant == PageShape /\ \A c \in Clients \ raced : InTurn(c)

(* A page that a step does not touch stays as it was.                       *)
LEMMA Elsewhere ==
    ASSUME NEW c \in Clients, requests'[c] = requests[c], dashboard'[c].run = dashboard[c].run,
           selected'[c] = selected[c], InTurn(c)
    PROVE  InTurn(c)'
  BY DEF InTurn, InFlight

(* A request sent for the selected run, or when none is selected.           *)
LEMMA AskInTurn ==
    ASSUME PageShape, NEW c \in Clients, NEW e \in Elements, NEW run, Ask(c, e, run),
           selected'[c] \in {NoRun, run}
    PROVE  /\ DOMAIN requests' = Clients /\ \A b \in Clients : DOMAIN requests'[b] = Elements
           /\ raced' \subseteq Clients
           /\ c \notin raced' => InTurn(c)'
           /\ \A b \in Clients \ {c} : /\ requests'[b] = requests[b]
                                       /\ b \in raced' <=> b \in raced
<1>1. /\ requests'[c][e] = Request(run, "sent", 0)
      /\ \A f \in Elements \ {e} : requests'[c][f] = requests[c][f]
      /\ DOMAIN requests' = Clients /\ \A b \in Clients : DOMAIN requests'[b] = Elements
      /\ \A b \in Clients \ {c} : requests'[b] = requests[b]
  BY DEF Ask, PageShape
<1>2. raced' = IF InFlight(c) \ {e} = {} THEN raced \ {c} ELSE raced \cup {c}
  BY DEF Ask
<1>3. /\ raced' \subseteq Clients
      /\ \A b \in Clients \ {c} : b \in raced' <=> b \in raced
  BY <1>2 DEF PageShape
<1>4. ASSUME c \notin raced'
      PROVE  InTurn(c)'
  <2>1. InFlight(c) \ {e} = {}
    BY <1>2, <1>4
  <2>2. \A f \in Elements \ {e} : requests'[c][f].pc = "none"
    BY <1>1, <2>1 DEF InFlight
  <2>3. requests'[c][e].pc = "sent" /\ requests'[c][e].run = run
    BY <1>1 DEF Request
  <2>4. InFlight(c)' # {}
    BY <2>3 DEF InFlight
  <2>5. QED BY <2>2, <2>3, <2>4 DEF InTurn
<1>5. QED BY <1>1, <1>3, <1>4

(* A message or a reconnection patches the selector.                        *)
LEMMA SelectorInTurn ==
    ASSUME PageInvariant, NEW c \in Clients, NEW latest, PatchSelector(c, latest),
           UNCHANGED <<selected, clicks>>, DOMAIN dashboard' = Clients,
           \A b \in Clients : dashboard'[b].run = dashboard[b].run
    PROVE  PageInvariant'
<1> USE DEF PageInvariant
<1>1. CASE SelectorAsks(c, latest)
  <2>1. Ask(c, Selector, latest) /\ selected'[c] = NoRun
    BY <1>1 DEF PatchSelector, SelectorAsks
  <2>2. Selector \in Elements
    BY DEF Elements
  <2>3. /\ DOMAIN requests' = Clients /\ \A b \in Clients : DOMAIN requests'[b] = Elements
        /\ raced' \subseteq Clients
        /\ c \notin raced' => InTurn(c)'
        /\ \A b \in Clients \ {c} : /\ requests'[b] = requests[b]
                                    /\ b \in raced' <=> b \in raced
    BY <2>1, <2>2, AskInTurn
  <2>4. PageShape'
    BY <2>3 DEF PageShape
  <2>5. \A b \in Clients \ {c} : b \notin raced' => InTurn(b)'
    BY <2>3, Elsewhere
  <2>6. QED BY <2>3, <2>4, <2>5
<1>2. CASE ~SelectorAsks(c, latest)
  <2>1. UNCHANGED <<requests, raced>>
    BY <1>2 DEF PatchSelector
  <2>2. QED BY <2>1, Elsewhere DEF PageShape
<1>3. QED BY <1>1, <1>2

(* Every step keeps the invariant.                                          *)
LEMMA PageStep ==
    ASSUME PageInvariant, [DashboardNext]_dashboardVars
    PROVE  PageInvariant'
<1> USE DEF PageInvariant
<1>1. ASSUME NEW c \in Clients, NEW run \in Runs, Click(c, run)
      PROVE  PageInvariant'
  <2>1. /\ Ask(c, run, run) /\ run \in Elements /\ selected'[c] = run
        /\ UNCHANGED dashboard
        /\ DOMAIN selected' = Clients /\ clicks' \in [Clients -> Nat]
        /\ \A b \in Clients \ {c} : selected'[b] = selected[b]
    BY <1>1 DEF Click, Elements, PageShape
  <2>2. /\ DOMAIN requests' = Clients /\ \A b \in Clients : DOMAIN requests'[b] = Elements
        /\ raced' \subseteq Clients
        /\ c \notin raced' => InTurn(c)'
        /\ \A b \in Clients \ {c} : /\ requests'[b] = requests[b]
                                    /\ b \in raced' <=> b \in raced
    BY <2>1, AskInTurn
  <2>3. PageShape'
    BY <2>1, <2>2 DEF PageShape
  <2>4. \A b \in Clients \ {c} : b \notin raced' => InTurn(b)'
    BY <2>1, <2>2, Elsewhere
  <2>5. QED BY <2>2, <2>3, <2>4
<1>2. ASSUME NEW c \in Clients, NEW e \in Elements, Answer(c, e)
      PROVE  PageInvariant'
  <2>1. /\ requests[c][e].pc = "sent"
        /\ requests'[c][e].pc = "answered" /\ requests'[c][e].run = requests[c][e].run
        /\ \A f \in Elements \ {e} : requests'[c][f] = requests[c][f]
        /\ DOMAIN requests' = Clients /\ \A b \in Clients : DOMAIN requests'[b] = Elements
        /\ \A b \in Clients \ {c} : requests'[b] = requests[b]
        /\ UNCHANGED <<selected, dashboard, raced, clicks>>
    BY <1>2 DEF Answer, PageShape, Request
  <2>2. InTurn(c) => InTurn(c)'
    BY <2>1 DEF InTurn, InFlight
  <2>3. \A b \in Clients \ {c} : InTurn(b) => InTurn(b)'
    BY <2>1, Elsewhere
  <2>4. QED BY <2>1, <2>2, <2>3 DEF PageShape
<1>3. ASSUME NEW c \in Clients, NEW e \in Elements, PatchDashboard(c, e)
      PROVE  PageInvariant'
  <2>1. /\ requests[c][e].pc = "answered"
        /\ requests'[c][e].pc = "patched" /\ requests'[c][e].run = requests[c][e].run
        /\ dashboard'[c].run = requests[c][e].run
        /\ \A f \in Elements \ {e} : requests'[c][f] = requests[c][f]
        /\ DOMAIN requests' = Clients /\ \A b \in Clients : DOMAIN requests'[b] = Elements
        /\ DOMAIN dashboard' = Clients
        /\ \A b \in Clients \ {c} : requests'[b] = requests[b] /\ dashboard'[b] = dashboard[b]
        /\ UNCHANGED <<selected, raced, clicks>>
    BY <1>3 DEF PatchDashboard, PageShape, Request, Shows
  <2>2. InTurn(c) => InTurn(c)'
    <3>1. InFlight(c)' # {}
      BY <2>1 DEF InFlight
    <3>2. QED BY <2>1, <3>1 DEF InTurn
  <2>3. \A b \in Clients \ {c} : InTurn(b) => InTurn(b)'
    BY <2>1, Elsewhere
  <2>4. QED BY <2>1, <2>2, <2>3 DEF PageShape
<1>4. ASSUME NEW c \in Clients, NEW e \in Elements, PatchSignal(c, e)
      PROVE  PageInvariant'
  <2>1. /\ requests[c][e].pc = "patched"
        /\ requests'[c][e].pc = "none"
        /\ selected'[c] = requests[c][e].run
        /\ \A f \in Elements \ {e} : requests'[c][f] = requests[c][f]
        /\ DOMAIN requests' = Clients /\ \A b \in Clients : DOMAIN requests'[b] = Elements
        /\ DOMAIN selected' = Clients
        /\ \A b \in Clients \ {c} : requests'[b] = requests[b] /\ selected'[b] = selected[b]
        /\ UNCHANGED <<dashboard, raced, clicks>>
    BY <1>4 DEF PatchSignal, PageShape, NoRequest, Request
  <2>2. ASSUME InTurn(c)
        PROVE  InTurn(c)'
    <3>1. \A f \in Elements : requests'[c][f].pc = "none"
      BY <2>1, <2>2 DEF InTurn
    <3>2. dashboard'[c].run = selected'[c]
      BY <2>1, <2>2 DEF InTurn
    <3>3. QED BY <3>1, <3>2 DEF InTurn
  <2>3. \A b \in Clients \ {c} : InTurn(b) => InTurn(b)'
    BY <2>1, Elsewhere
  <2>4. QED BY <2>1, <2>2, <2>3 DEF PageShape
<1>5. ASSUME NEW c \in Clients, ReceiveInitial(c)
      PROVE  PageInvariant'
  <2>1. PICK latest \in latestVisibleRunID(version) : PatchSelector(c, latest)
    BY <1>5 DEF ReceiveInitial
  <2>2. UNCHANGED <<selected, dashboard, clicks>> /\ DOMAIN dashboard = Clients
    BY <1>5 DEF ReceiveInitial, PageShape
  <2>3. QED BY <2>1, <2>2, SelectorInTurn
<1>6. ASSUME NEW c \in Clients, Receive(c)
      PROVE  PageInvariant'
  <2> DEFINE message == Head(channel[c])
  <2>1. /\ PatchSelector(c, message.selector)
        /\ dashboard' = IF Addressed(c, message)
                        THEN [dashboard EXCEPT ![c] = Shows(message.run, message.detail)]
                        ELSE dashboard
        /\ UNCHANGED <<selected, clicks>>
    BY <1>6 DEF Receive
  <2> HIDE DEF message
  <2>2. DOMAIN dashboard' = Clients /\ \A b \in Clients : dashboard'[b].run = dashboard[b].run
    BY <2>1 DEF PageShape, Addressed, Shows
  <2>3. QED BY <2>1, <2>2, SelectorInTurn
<1>7. CASE UNCHANGED <<selected, dashboard, requests, raced, clicks>>
  BY <1>7, Elsewhere DEF PageShape
<1>8. QED BY <1>1, <1>2, <1>3, <1>4, <1>5, <1>6, <1>7, PageSteps

(* The invariant holds from the start.                                      *)
LEMMA PageInit == DashboardInit => PageInvariant
  BY DEF DashboardInit, PageInvariant, PageShape, InTurn, InFlight, NoRequest, Request, Shows

-----------------------------------------------------------------------------
(* Theorems. *)

(* A page that awaits no answer shows the run its sidebar highlights, unless *)
(* its requests raced.                                                       *)
THEOREM PageIsConsistent == DashboardSpec => []SettledPageIsConsistent
<1>1. PageInvariant => SettledPageIsConsistent
  BY DEF PageInvariant, InTurn, SettledPageIsConsistent
<1>2. QED BY <1>1, PageInit, PageStep, PTL DEF DashboardSpec

(* No step but a click takes a page away from the run it shows, unless its  *)
(* requests raced.                                                          *)
THEOREM SelectionStays == DashboardSpec => SelectionIsKept
<1> DEFINE Kept == \A c \in Clients :
                      selected[c] # NoRun /\ selected'[c] # selected[c] =>
                         \/ clicks'[c] # clicks[c]
                         \/ c \in raced
<1>1. ASSUME PageInvariant, [DashboardNext]_dashboardVars
      PROVE  Kept
  <2> USE DEF PageInvariant
  <2>1. ASSUME NEW c \in Clients, NEW run \in Runs, Click(c, run)
        PROVE  Kept
    BY <1>1, <2>1 DEF Click, PageShape
  <2>2. ASSUME NEW c \in Clients, NEW e \in Elements, PatchSignal(c, e)
        PROVE  Kept
    <3>1. /\ selected'[c] = requests[c][e].run /\ requests[c][e].pc = "patched"
          /\ \A b \in Clients \ {c} : selected'[b] = selected[b]
      BY <1>1, <2>2 DEF PatchSignal, PageShape
    <3>2. c \notin raced => selected[c] \in {NoRun, requests[c][e].run}
      BY <1>1, <3>1 DEF InTurn
    <3>3. QED BY <3>1, <3>2
  <2>3. CASE UNCHANGED selected
    BY <2>3
  <2>4. QED
    BY <1>1, <2>1, <2>2, <2>3, PageSteps
       DEF Answer, PatchDashboard, ReceiveInitial, Receive
<1>2. PageInvariant /\ [DashboardNext]_dashboardVars => [Kept]_dashboardVars
  BY <1>1
<1>3. QED
  BY <1>2, PageInit, PageStep, PTL DEF DashboardSpec, SelectionIsKept

=============================================================================
