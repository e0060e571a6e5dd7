--------------------------- MODULE TaskPanelProofs ---------------------------
(***************************************************************************)
(* Proofs about TaskViews and TaskPanel, for any runs, tasks, processes,   *)
(* filters and page size: the pages of a panel list every task once and in *)
(* order, polling keeps the user's place, and the views of a run agree.    *)
(***************************************************************************)
EXTENDS TaskPanel, SequenceLemmas, FiniteSetTheorems, TLAPS

-----------------------------------------------------------------------------
(* Sorting. *)

Orders(less, S) ==
    /\ \A x \in S : <<x, x>> \notin less
    /\ \A x, y, z \in S : <<x, y>> \in less /\ <<y, z>> \in less => <<x, z>> \in less
    /\ \A x, y \in S : x = y \/ <<x, y>> \in less \/ <<y, x>> \in less

Below(S, less, x) == {y \in S : <<y, x>> \in less}

(* In a finite set with a total order, each element has the place that the  *)
(* number of those before it tells, and each place has one element.         *)
LEMMA PlacesAreFilled ==
    ASSUME NEW S, IsFiniteSet(S), NEW less, Orders(less, S),
           NEW place, place = [x \in S |-> Cardinality(Below(S, less, x))]
    PROVE  /\ place \in [S -> 0 .. Cardinality(S) - 1]
           /\ \A x, y \in S : place[x] < place[y] <=> <<x, y>> \in less
           /\ \A i \in 0 .. Cardinality(S) - 1 : \E x \in S : place[x] = i
           /\ \A x, y \in S : place[x] = place[y] => x = y
<1> DEFINE n == Cardinality(S)
<1>1. n \in Nat
  BY FS_CardinalityType
<1>2. ASSUME NEW x \in S
      PROVE  place[x] = Cardinality(Below(S, less, x)) /\ IsFiniteSet(Below(S, less, x)) /\ place[x] \in 0 .. n - 1
  <2>1. IsFiniteSet(Below(S, less, x)) /\ Cardinality(Below(S, less, x)) <= n
        /\ (n = Cardinality(Below(S, less, x)) => S = Below(S, less, x))
    <3>1. Below(S, less, x) \in SUBSET S
      BY DEF Below
    <3>2. QED BY <3>1, FS_Subset
  <2>2. x \notin Below(S, less, x)
    BY DEF Below, Orders
  <2>3. Cardinality(Below(S, less, x)) \in Nat
    BY <2>1, FS_CardinalityType
  <2>4. place[x] = Cardinality(Below(S, less, x))
    OBVIOUS
  <2> HIDE DEF n
  <2>5. QED BY <1>1, <2>1, <2>2, <2>3, <2>4
<1>10. \A x \in S : place[x] = Cardinality(Below(S, less, x)) /\ place[x] \in Int
  <2> HIDE DEF n
  <2>1. QED BY <1>1, <1>2
<1>3. ASSUME NEW x \in S, NEW y \in S, <<x, y>> \in less PROVE place[x] < place[y]
  <2>1. Below(S, less, x) \subseteq Below(S, less, y) /\ x \in Below(S, less, y) /\ x \notin Below(S, less, x)
    BY <1>3 DEF Below, Orders
  <2>2. Cardinality(Below(S, less, x)) <= Cardinality(Below(S, less, y))
        /\ (Cardinality(Below(S, less, y)) = Cardinality(Below(S, less, x)) => Below(S, less, y) = Below(S, less, x))
    BY <1>2, <2>1, FS_Subset
  <2>3. place[x] = Cardinality(Below(S, less, x)) /\ place[y] = Cardinality(Below(S, less, y))
        /\ place[x] \in Int /\ place[y] \in Int
    BY <1>10
  <2> HIDE DEF n
  <2>4. QED BY <2>1, <2>2, <2>3
<1>4. \A x, y \in S : place[x] = place[y] => x = y
  <2> SUFFICES ASSUME NEW x \in S, NEW y \in S, place[x] = place[y], x # y PROVE FALSE
    OBVIOUS
  <2>1. place[x] < place[y] \/ place[y] < place[x]
    BY <1>3 DEF Orders
  <2>2. place[x] \in Int /\ place[y] \in Int
    BY <1>10
  <2>3. QED BY <2>1, <2>2
<1>5. \A x, y \in S : place[x] < place[y] <=> <<x, y>> \in less
  <2> TAKE x, y \in S
  <2>1. place[x] \in Int /\ place[y] \in Int
    BY <1>10
  <2>2. CASE <<x, y>> \in less
    BY <1>3, <2>2
  <2>3. CASE <<y, x>> \in less
    <3>1. place[y] < place[x] /\ <<x, y>> \notin less
      BY <1>3, <2>3 DEF Orders
    <3>2. QED BY <2>1, <3>1
  <2>4. CASE x = y
    BY <2>1, <2>4 DEF Orders
  <2>5. QED BY <2>2, <2>3, <2>4 DEF Orders
<1>6. place \in Injection(S, 0 .. n - 1)
  <2>1. place \in [S -> 0 .. n - 1]
    BY <1>2
  <2> HIDE DEF n
  <2>2. QED BY <1>4, <2>1 DEF Injection, IsInjective
<1>7. place \in Surjection(S, 0 .. n - 1)
  <2>1. IsFiniteSet(0 .. n - 1) /\ Cardinality(0 .. n - 1) = n
    <3>1. 0 \in Int /\ n - 1 \in Int
      BY <1>1
    <3> HIDE DEF n
    <3>2. QED BY <1>1, <3>1, FS_Interval
  <2>2. QED BY <1>6, <2>1, FS_Injection
<1>8. \A i \in 0 .. n - 1 : \E x \in S : place[x] = i
  <2> HIDE DEF n
  <2>1. QED BY <1>7 DEF Surjection
<1>9. QED BY <1>4, <1>5, <1>6, <1>8 DEF Injection

(* Tasks are listed in a total order, whatever their statuses and names.    *)
LEMMA BeforeIsOrder ==
    ASSUME NEW now
    PROVE  /\ \A t \in TaskIds : ~Before(now, t, t)
           /\ \A t, u, v \in TaskIds : Before(now, t, u) /\ Before(now, u, v) => Before(now, t, v)
           /\ \A t, u \in TaskIds : t = u \/ Before(now, t, u) \/ Before(now, u, t)
<1> DEFINE Failed(t) == now[t] = "FAILED"
<1>1. \A t \in TaskIds : t \in Nat /\ NameOf[t] \in Nat
  BY ViewAssumption
<1>2. \A t, u \in TaskIds :
        Before(now, t, u) <=>
          \/ Failed(t) /\ ~Failed(u)
          \/ /\ Failed(t) <=> Failed(u)
             /\ NameOf[t] < NameOf[u] \/ (NameOf[t] = NameOf[u] /\ t < u)
  BY DEF Before
<1> HIDE DEF Failed
<1>3. QED BY <1>1, <1>2

(* The listing of a panel has each task of the process that matches the     *)
(* filter once, in order.                                                   *)
LEMMA ListingSorts ==
    ASSUME NEW now, NEW p, NEW filter
    PROVE  LET found == filterTasks(now, p, filter)
               listing == Listing(now, p, filter)
           IN
           /\ found \in SUBSET TaskIds /\ Cardinality(found) \in Nat
           /\ listing \in Seq(TaskIds) /\ Len(listing) = Cardinality(found)
           /\ {listing[i] : i \in 1 .. Len(listing)} = found
           /\ \A i, j \in 1 .. Len(listing) : i < j => Before(now, listing[i], listing[j])
           /\ \A i, j \in 1 .. Len(listing) : listing[i] = listing[j] => i = j
<1> DEFINE found == filterTasks(now, p, filter)
           listing == Listing(now, p, filter)
           n == Cardinality(found)
           less == {e \in found \X found : Before(now, e[1], e[2])}
           place == [t \in found |-> Cardinality(Below(found, less, t))]
<1>1. found \in SUBSET TaskIds /\ IsFiniteSet(found) /\ n \in Nat
  <2>1. found \in SUBSET TaskIds
    BY DEF filterTasks, InProcess, Reported
  <2> HIDE DEF found
  <2>2. QED BY <2>1, ViewAssumption, FS_Subset, FS_CardinalityType
<1>7. listing = [i \in 1 .. n |-> CHOOSE t \in found : Cardinality({u \in found : Before(now, u, t)}) = i - 1]
  BY Zenon DEF Listing
<1> HIDE DEF found, listing
<1>2. \A t, u \in found : <<t, u>> \in less <=> Before(now, t, u)
  OBVIOUS
<1> HIDE DEF less
<1>4. Orders(less, found)
  BY <1>1, <1>2, BeforeIsOrder DEF Orders
<1>5. /\ place \in [found -> 0 .. n - 1]
      /\ \A t, u \in found : place[t] < place[u] <=> <<t, u>> \in less
      /\ \A i \in 0 .. n - 1 : \E t \in found : place[t] = i
      /\ \A t, u \in found : place[t] = place[u] => t = u
  <2> HIDE DEF place, n
  <2>1. place = [x \in found |-> Cardinality(Below(found, less, x))]
    BY DEF place
  <2>2. QED BY <1>1, <1>4, <2>1, PlacesAreFilled DEF n
<1>6. ASSUME NEW t \in found PROVE place[t] = Cardinality({u \in found : Before(now, u, t)})
  <2>1. Below(found, less, t) = {u \in found : Before(now, u, t)}
    BY <1>2 DEF Below
  <2>2. place[t] = Cardinality(Below(found, less, t))
    OBVIOUS
  <2> HIDE DEF place
  <2>3. QED BY <2>1, <2>2
<1> HIDE DEF place
<1>8. ASSUME NEW i \in 1 .. n PROVE listing[i] \in found /\ place[listing[i]] = i - 1
  <2>1. i - 1 \in 0 .. n - 1
    BY <1>1
  <2>2. \E t \in found : Cardinality({u \in found : Before(now, u, t)}) = i - 1
    BY <1>5, <1>6, <2>1
  <2>3. listing[i] = CHOOSE t \in found : Cardinality({u \in found : Before(now, u, t)}) = i - 1
    BY <1>7
  <2>4. /\ listing[i] \in found
        /\ Cardinality({u \in found : Before(now, u, listing[i])}) = i - 1
    BY <2>2, <2>3, Zenon
  <2>5. QED BY <1>6, <2>4
<1> HIDE DEF n
<1>9. /\ listing \in Seq(TaskIds) /\ Len(listing) = n
  <2>1. DOMAIN listing = 1 .. n /\ listing \in [1 .. n -> TaskIds]
    BY <1>1, <1>7, <1>8
  <2>2. QED BY <1>1, <2>1
<1>10. \A t \in found : \E i \in 1 .. n : listing[i] = t
  <2> TAKE t \in found
  <2>1. place[t] \in 0 .. n - 1
    BY <1>5
  <2>2. place[t] + 1 \in 1 .. n /\ (place[t] + 1) - 1 = place[t]
    BY <1>1, <2>1
  <2>3. listing[place[t] + 1] \in found /\ place[listing[place[t] + 1]] = place[t]
    BY <1>8, <2>2
  <2>4. QED BY <1>5, <2>2, <2>3
<1>11. {listing[i] : i \in 1 .. Len(listing)} = found
  BY <1>8, <1>9, <1>10
<1>12. \A i, j \in 1 .. n : i < j => Before(now, listing[i], listing[j])
  <2> TAKE i, j \in 1 .. n
  <2>1. i < j => place[listing[i]] < place[listing[j]]
    BY <1>8
  <2>2. QED BY <1>2, <1>5, <1>8, <2>1
<1>13. \A i, j \in 1 .. n : listing[i] = listing[j] => i = j
  <2> TAKE i, j \in 1 .. n
  <2>1. place[listing[i]] = i - 1 /\ place[listing[j]] = j - 1
    BY <1>8
  <2>2. QED BY <2>1
<1>14. QED BY <1>1, <1>9, <1>11, <1>12, <1>13 DEF n, found, listing

-----------------------------------------------------------------------------
(* Pages. *)

(* The smaller of two numbers.                                              *)
LEMMA MinOfTwo ==
    ASSUME NEW a \in Int, NEW b \in Int
    PROVE  Min({a, b}) = IF a <= b THEN a ELSE b
<1>1. \E x \in {a, b} : \A y \in {a, b} : x <= y
  OBVIOUS
<1>2. Min({a, b}) \in {a, b} /\ \A y \in {a, b} : Min({a, b}) <= y
  BY <1>1, Zenon DEF Min
<1>3. QED BY <1>2

(* There is a page, there are pages for all tasks, and none of them is past *)
(* the last task.                                                           *)
LEMMA PagesSuffice ==
    ASSUME NEW total \in Nat
    PROVE  /\ TotalPages(total) \in Nat \ {0}
           /\ total <= TotalPages(total) * PerPage
           /\ total = 0 => TotalPages(total) = 1
           /\ total # 0 => (TotalPages(total) - 1) * PerPage < total
<1>1. PerPage \in Nat \ {0}
  BY ViewAssumption
<1>2. CASE total = 0
  BY <1>1, <1>2 DEF TotalPages
<1>3. CASE total # 0
  <2> DEFINE a == total + PerPage - 1
             q == a \div PerPage
  <2>1. a \in Nat /\ a >= PerPage
    BY <1>1, <1>3
  <2>2. TotalPages(total) = q
    BY <1>3 DEF TotalPages
  <2>3. q \in Int /\ q * PerPage <= a /\ a < (q + 1) * PerPage
    <3> HIDE DEF a
    <3>1. QED BY <1>1, <2>1
  <2> HIDE DEF q
  <2>4. (q + 1) * PerPage = q * PerPage + PerPage /\ (q - 1) * PerPage = q * PerPage - PerPage
        /\ q * PerPage \in Int
    BY <1>1, <2>3
  <2>5. total <= q * PerPage /\ (q - 1) * PerPage < total
    BY <1>1, <2>3, <2>4
  <2>6. q >= 1
    <3> SUFFICES ASSUME q <= 0 PROVE FALSE
      BY <2>3
    <3>1. q * PerPage <= 0
      BY <1>1, <2>3
    <3>2. QED BY <1>3, <2>4, <2>5, <3>1
  <2>7. QED BY <1>3, <2>2, <2>3, <2>5, <2>6
<1>4. QED BY <1>2, <1>3

(* A page that exists is shown; for others the nearest one.                 *)
LEMMA ClampShows ==
    ASSUME NEW page \in Int, NEW pages \in Nat \ {0}
    PROVE  /\ Clamp(page, pages) \in 1 .. pages
           /\ page \in 1 .. pages => Clamp(page, pages) = page
           /\ page >= 1 => Clamp(page, pages) <= page
           /\ page < 1 => Clamp(page, pages) = 1
           /\ page > pages => Clamp(page, pages) = pages
  BY DEF Clamp

(* The answer for a page: a page that exists, with no more tasks than fit.  *)
LEMMA PanelAnswer ==
    ASSUME NEW now, NEW p, NEW filter, NEW page \in Int
    PROVE  LET html == renderTaskPanelHTML(now, p, filter, page)
               total == Cardinality(filterTasks(now, p, filter))
               end == html.page * PerPage
           IN  /\ total \in Nat
               /\ html.pages = TotalPages(total) /\ html.pages \in Nat \ {0}
               /\ html.page = Clamp(page, html.pages) /\ html.page \in 1 .. html.pages
               /\ html.tasks = SubSeq(Listing(now, p, filter), (html.page - 1) * PerPage + 1,
                                      IF end <= total THEN end ELSE total)
               /\ html.tasks \in Seq(TaskIds) /\ Len(html.tasks) <= PerPage
<1> DEFINE html == renderTaskPanelHTML(now, p, filter, page)
           total == Cardinality(filterTasks(now, p, filter))
           listing == Listing(now, p, filter)
           end == html.page * PerPage
           start == (html.page - 1) * PerPage
           last == IF end <= total THEN end ELSE total
<1>1. total \in Nat /\ listing \in Seq(TaskIds) /\ Len(listing) = total
  BY ListingSorts
<1>2. /\ html.pages = TotalPages(total)
      /\ html.page = Clamp(page, TotalPages(total))
      /\ html.tasks = SubSeq(listing, (Clamp(page, TotalPages(total)) - 1) * PerPage + 1,
                             Min({(Clamp(page, TotalPages(total)) - 1) * PerPage + PerPage, total}))
  BY Zenon DEF renderTaskPanelHTML
<1> HIDE DEF html, total, listing
<1>3. html.pages \in Nat \ {0} /\ html.page \in 1 .. html.pages
  BY <1>1, <1>2, PagesSuffice, ClampShows
<1>4. /\ PerPage \in Nat \ {0} /\ start \in Nat /\ end \in Nat
      /\ start + PerPage = end
  <2> DEFINE k == html.page
  <2>1. k \in Nat /\ k >= 1 /\ PerPage \in Nat \ {0}
    BY <1>3, ViewAssumption
  <2> HIDE DEF k
  <2>2. /\ k * PerPage \in Nat /\ (k - 1) * PerPage \in Nat
        /\ (k - 1) * PerPage + PerPage = k * PerPage
    BY <2>1
  <2>3. QED BY <2>1, <2>2 DEF k
<1>5. Min({start + PerPage, total}) = last
  <2> HIDE DEF start, end
  <2>1. QED BY <1>1, <1>4, MinOfTwo
<1>6. html.tasks = SubSeq(listing, start + 1, last)
  BY <1>2, <1>5
<1>7. html.tasks \in Seq(TaskIds) /\ Len(html.tasks) <= PerPage
  <2> HIDE DEF start, end
  <2>1. last \in Nat /\ last <= Len(listing) /\ last - start <= PerPage
    BY <1>1, <1>4
  <2> HIDE DEF last
  <2>2. QED BY <1>1, <1>4, <1>6, <2>1
<1>8. QED BY <1>1, <1>2, <1>3, <1>6, <1>7 DEF html, total, listing

(* The pages of a process, one after the other, are its listing.            *)
LEMMA PagesMakeListing ==
    ASSUME NEW now, NEW p, NEW filter
    PROVE  LET html(page) == renderTaskPanelHTML(now, p, filter, page)
               pages == html(1).pages
           IN  FlattenSeq([k \in 1 .. pages |-> html(k).tasks]) = Listing(now, p, filter)
<1> DEFINE html(page) == renderTaskPanelHTML(now, p, filter, page)
           total == Cardinality(filterTasks(now, p, filter))
           listing == Listing(now, p, filter)
           pages == html(1).pages
           parts == [k \in 1 .. pages |-> html(k).tasks]
           cut == [k \in 0 .. pages |-> IF k * PerPage <= total THEN k * PerPage ELSE total]
<1>1. total \in Nat /\ listing \in Seq(TaskIds) /\ Len(listing) = total
  BY ListingSorts
<1>2. pages = TotalPages(total) /\ pages \in Nat \ {0}
  BY PanelAnswer
<1>3. ASSUME NEW k \in 1 .. pages
      PROVE  html(k).tasks = SubSeq(listing, (k - 1) * PerPage + 1,
                                    IF k * PerPage <= total THEN k * PerPage ELSE total)
  <2>1. k \in Int
    BY <1>2
  <2>2. /\ html(k).pages = pages
        /\ html(k).page = Clamp(k, html(k).pages)
        /\ html(k).tasks = SubSeq(listing, (html(k).page - 1) * PerPage + 1,
                                  IF html(k).page * PerPage <= total THEN html(k).page * PerPage ELSE total)
    <3>1. html(k).pages = TotalPages(total)
      BY <2>1, PanelAnswer
    <3>2. QED BY <1>2, <2>1, <3>1, PanelAnswer
  <2> HIDE DEF html, pages, listing, total
  <2>3. html(k).page = k
    BY <1>2, <2>1, <2>2, ClampShows
  <2>4. QED BY <2>2, <2>3, Zenon
<1> HIDE DEF html, total, listing, pages
<1>4. /\ total <= pages * PerPage
      /\ (pages - 1) * PerPage < total \/ (pages = 1 /\ total = 0)
      /\ PerPage \in Nat \ {0}
  BY <1>1, <1>2, PagesSuffice, ViewAssumption
<1>5. ASSUME NEW k \in 0 .. pages
      PROVE  k * PerPage \in Nat /\ cut[k] = (IF k * PerPage <= total THEN k * PerPage ELSE total)
             /\ cut[k] \in 0 .. total
  <2>1. k * PerPage \in Nat
    BY <1>2, <1>4
  <2>2. QED BY <1>1, <2>1
<1>6. cut[0] = 0 /\ cut[pages] = total /\ cut \in [0 .. pages -> 0 .. total]
  <2>1. 0 \in 0 .. pages /\ pages \in 0 .. pages /\ 0 * PerPage = 0
    BY <1>2, <1>4
  <2>2. cut[0] = 0
    BY <1>1, <1>5, <2>1
  <2>3. cut[pages] = total
    BY <1>1, <1>4, <1>5, <2>1
  <2>4. cut \in [0 .. pages -> 0 .. total]
    BY <1>5
  <2>5. QED BY <2>2, <2>3, <2>4
<1>7. ASSUME NEW k \in 1 .. pages
      PROVE  cut[k - 1] = (k - 1) * PerPage /\ cut[k - 1] <= cut[k]
  <2>1. k \in 0 .. pages /\ k - 1 \in 0 .. pages
    BY <1>2
  <2>2. (k - 1) * PerPage <= (pages - 1) * PerPage /\ (k - 1) * PerPage <= k * PerPage
    BY <1>2, <1>4
  <2>3. (k - 1) * PerPage <= total
    <3>1. CASE (pages - 1) * PerPage < total
      <4>1. (pages - 1) * PerPage \in Int /\ (k - 1) * PerPage \in Int
        BY <1>2, <1>4
      <4>2. QED BY <1>1, <2>2, <3>1, <4>1
    <3>2. CASE pages = 1 /\ total = 0
      BY <1>4, <3>2
    <3>3. QED BY <1>4, <3>1, <3>2
  <2>4. /\ cut[k - 1] = (k - 1) * PerPage
        /\ cut[k] = IF k * PerPage <= total THEN k * PerPage ELSE total
    BY <1>5, <2>1, <2>3
  <2> HIDE DEF cut
  <2>5. QED BY <2>2, <2>3, <2>4
<1>8. \A k \in 1 .. pages : parts[k] = SubSeq(listing, cut[k - 1] + 1, cut[k])
  <2> TAKE k \in 1 .. pages
  <2>1. k \in 0 .. pages
    BY <1>2
  <2>2. cut[k] = IF k * PerPage <= total THEN k * PerPage ELSE total
    BY <1>5, <2>1
  <2>3. parts[k] = html(k).tasks
    OBVIOUS
  <2> HIDE DEF cut, parts
  <2>4. QED BY <1>3, <1>7, <2>2, <2>3
<1>9. Len(parts) = pages
  BY <1>2
<1> HIDE DEF cut, parts
<1>10. FlattenSeq(parts) = listing
  BY <1>1, <1>2, <1>6, <1>7, <1>8, <1>9, FlattenCuts
<1>11. QED BY <1>10 DEF parts, pages, listing, html

(* Whatever the tasks of the runs and whatever the filter, the pages of a   *)
(* panel list each task that is asked for once, the failed ones first.      *)
LEMMA PagesListTasksOnce == PagesListEveryTaskOnce
<1> SUFFICES ASSUME NEW run \in Runs, NEW p \in Processes, NEW filter \in Filters
             PROVE  LET html(page) == renderTaskPanelHTML(tasks[run], p, filter, page)
                        first == html(1)
                        pages == first.pages
                        listed == FlattenSeq([k \in 1 .. pages |-> html(k).tasks])
                    IN  /\ ToSet(listed) = filterTasks(tasks[run], p, filter)
                        /\ Len(listed) = Cardinality(ToSet(listed))
                        /\ \A i, j \in DOMAIN listed :
                             i < j /\ tasks[run][listed[j]] = "FAILED" => tasks[run][listed[i]] = "FAILED"
                        /\ html(0) = first /\ html(pages + 1) = html(pages)
  BY DEF PagesListEveryTaskOnce
<1> DEFINE now == tasks[run]
           html(page) == renderTaskPanelHTML(now, p, filter, page)
           pages == html(1).pages
           listed == FlattenSeq([k \in 1 .. pages |-> html(k).tasks])
           found == filterTasks(now, p, filter)
           listing == Listing(now, p, filter)
<1>1. listed = listing
  BY PagesMakeListing
<1>2. /\ listing \in Seq(TaskIds) /\ Len(listing) = Cardinality(found)
      /\ {listing[i] : i \in 1 .. Len(listing)} = found
      /\ \A i, j \in 1 .. Len(listing) : i < j => Before(now, listing[i], listing[j])
  BY ListingSorts
<1>3. pages = TotalPages(Cardinality(found)) /\ pages \in Nat \ {0}
  BY PanelAnswer
<1>4. html(0) = html(1) /\ html(pages + 1) = html(pages)
  <2>1. /\ Clamp(0, pages) = Clamp(1, pages)
        /\ Clamp(pages + 1, pages) = Clamp(pages, pages)
    <3> HIDE DEF pages
    <3>1. QED BY <1>3, ClampShows
  <2>2. \A a, b : Clamp(a, TotalPages(Cardinality(found))) = Clamp(b, TotalPages(Cardinality(found)))
                  => html(a) = html(b)
    BY Zenon DEF renderTaskPanelHTML
  <2> HIDE DEF html, pages, found
  <2>3. QED BY <1>3, <2>1, <2>2
<1> HIDE DEF listed, listing, found, html
<1>5. ToSet(listed) = found /\ DOMAIN listed = 1 .. Len(listing)
  BY <1>1, <1>2 DEF ToSet
<1>6. Len(listed) = Cardinality(ToSet(listed))
  BY <1>1, <1>2, <1>5
<1>7. ASSUME NEW i \in DOMAIN listed, NEW j \in DOMAIN listed, i < j, now[listed[j]] = "FAILED"
      PROVE  now[listed[i]] = "FAILED"
  <2>1. Before(now, listed[i], listed[j])
    BY <1>1, <1>2, <1>5, <1>7
  <2>2. QED BY <1>7, <2>1 DEF Before
<1>8. QED BY <1>4, <1>5, <1>6, <1>7 DEF listed, found, html

(* It is so in every state.                                                 *)
THEOREM PanelsListTasksOnce == PanelSpec => []PagesListEveryTaskOnce
<1>1. QED BY PagesListTasksOnce, PTL

-----------------------------------------------------------------------------
(* The invariant of the panels. *)

Places == [run: Runs \cup {None}, filter: Filters, page: Nat \ {0}]
Contents == {c \in [run: Runs \cup {None}, filter: Filters, page: Nat, pages: Nat, tasks: Seq(TaskIds)] :
                c.page \in 1 .. c.pages /\ Len(c.tasks) <= PerPage}
RequestStates == [pc: {"none", "sent", "answered"}, place: Places, content: Contents]

PanelTypes ==
    /\ tasks \in [Runs -> Tasks]
    /\ shownRun \in Runs
    /\ expandedGroup \in Processes \cup {None}
    /\ signals \in Filters
    /\ panel \in [Processes -> Contents]
    /\ bar \in [Processes -> Runs \cup {None}]
    /\ requests \in [Processes -> [Elements -> RequestStates]]
    /\ asked \in [Processes -> Places]
    /\ disturbed \subseteq Processes
    /\ updates \in Nat

(* A filter bar is there when its panel is, and a panel when its row is.    *)
BarsOfPanels == \A p \in Processes : Loaded(p) <=> bar[p] # None
RowsOfPanels == \A p \in Processes : Loaded(p) => HasRow(shownRun, p)

(* The place is that of the goal, but for a page that may have vanished.    *)
Fits(place, goal) ==
    /\ place.run = goal.run /\ place.filter = goal.filter
    /\ place.page <= goal.page
    /\ place.page = goal.page \/ updates > 0

(* Requests name runs, and answers fit what was asked for.                  *)
AnswersFit ==
    \A p \in Processes : \A e \in InFlight(p) :
        /\ requests[p][e].place.run \in Runs
        /\ requests[p][e].pc = "answered" => Fits(requests[p][e].content, requests[p][e].place)

PagesFor(run, p, filter) == TotalPages(Cardinality(filterTasks(tasks[run], p, filter)))

(* Until tasks are updated, the pages asked for exist.                      *)
PagesExist ==
    updates = 0 => \A p \in Processes :
        /\ Loaded(p) => panel[p].pages = PagesFor(panel[p].run, p, panel[p].filter)
        /\ \A e \in InFlight(p) :
             LET r == requests[p][e]
             IN  /\ r.place.page <= PagesFor(r.place.run, p, r.place.filter)
                 /\ r.pc = "answered" => r.content.pages = PagesFor(r.place.run, p, r.place.filter)

(* A panel that nothing disturbed has one request in flight at most, which  *)
(* asks for what the user did, and otherwise shows that.                    *)
Undisturbed(p) ==
    /\ \A e, f \in InFlight(p) : e = f
    /\ \A e \in InFlight(p) : Fits(requests[p][e].place, asked[p])
    /\ Loaded(p) /\ InFlight(p) = {} => Fits(panel[p], asked[p])

PanelInv ==
    /\ PanelTypes /\ BarsOfPanels /\ RowsOfPanels
    /\ AnswersFit /\ PagesExist
    /\ \A p \in Processes \ disturbed : Undisturbed(p)

(* What the rest of the invariant is about.                                 *)
LEMMA PlacesAndContents ==
    /\ NoFilter \in Filters /\ Nowhere \in Places /\ Empty \in Contents /\ NoRequest \in RequestStates
    /\ \A r \in Runs \cup {None}, filter \in Filters, page \in Nat \ {0} :
         LET place == Place(r, filter, page)
         IN  place \in Places /\ place.run = r /\ place.filter = filter /\ place.page = page
    /\ \A p \in Processes, place \in Places :
         LET html == renderTaskPanelHTML(tasks[place.run], p, place.filter, place.page)
             c == Content(place, html)
         IN  /\ c \in Contents /\ c.run = place.run /\ c.filter = place.filter /\ c.page = html.page
             /\ c.pages = PagesFor(place.run, p, place.filter)
             /\ c.page <= place.page
             /\ place.page <= c.pages => c.page = place.page
<1>1. NoFilter \in Filters
  BY PanelAssumption DEF NoFilter, Filters
<1>2. ASSUME NEW r \in Runs \cup {None}, NEW filter \in Filters, NEW page \in Nat \ {0}
      PROVE  LET place == Place(r, filter, page)
             IN  place \in Places /\ place.run = r /\ place.filter = filter /\ place.page = page
  BY DEF Place, Places
<1>3. Nowhere \in Places
  BY <1>1, <1>2 DEF Nowhere
<1>4. Empty \in Contents
  <2>1. PerPage \in Nat
    BY ViewAssumption
  <2>2. Nowhere.run = None /\ Nowhere.filter = NoFilter
    BY DEF Nowhere, Place
  <2>3. Empty = [run |-> None, filter |-> NoFilter, page |-> 1, pages |-> 1, tasks |-> <<>>]
    BY <2>2 DEF Empty, Content
  <2>4. QED BY <1>1, <2>1, <2>3 DEF Contents
<1>5. NoRequest \in RequestStates
  BY <1>3, <1>4 DEF NoRequest, RequestStates
<1>6. ASSUME NEW p \in Processes, NEW place \in Places
      PROVE  LET html == renderTaskPanelHTML(tasks[place.run], p, place.filter, place.page)
                 c == Content(place, html)
             IN  /\ c \in Contents /\ c.run = place.run /\ c.filter = place.filter /\ c.page = html.page
                 /\ c.pages = PagesFor(place.run, p, place.filter)
                 /\ c.page <= place.page
                 /\ place.page <= c.pages => c.page = place.page
  <2> DEFINE html == renderTaskPanelHTML(tasks[place.run], p, place.filter, place.page)
             c == Content(place, html)
             pages == PagesFor(place.run, p, place.filter)
  <2>1. /\ place.page \in Nat \ {0} /\ place.page \in Int
        /\ place.run \in Runs \cup {None} /\ place.filter \in Filters
    BY DEF Places
  <2>2. /\ html.pages = pages /\ pages \in Nat \ {0}
        /\ html.page = Clamp(place.page, pages) /\ html.page \in 1 .. pages
        /\ html.tasks \in Seq(TaskIds) /\ Len(html.tasks) <= PerPage
    BY <2>1, PanelAnswer DEF PagesFor
  <2>3. html.page <= place.page /\ (place.page <= pages => html.page = place.page)
    <3> DEFINE asks == place.page
    <3>1. asks \in Nat \ {0} /\ asks \in Int /\ pages \in Nat \ {0} /\ html.page = Clamp(asks, pages)
      BY <2>1, <2>2
    <3> HIDE DEF html, pages, asks
    <3>2. /\ asks \in 1 .. pages => Clamp(asks, pages) = asks
          /\ asks >= 1 => Clamp(asks, pages) <= asks
      BY <3>1, ClampShows
    <3>3. html.page <= asks /\ (asks <= pages => html.page = asks)
      BY <3>1, <3>2
    <3>4. QED BY <3>3 DEF asks
  <2> HIDE DEF html, pages
  <2>4. c = [run |-> place.run, filter |-> place.filter, page |-> html.page,
             pages |-> html.pages, tasks |-> html.tasks]
    BY DEF Content
  <2> HIDE DEF c
  <2>5. QED BY <2>1, <2>2, <2>3, <2>4 DEF Contents, c, html, pages
<1>7. QED BY <1>1, <1>2, <1>3, <1>4, <1>5, <1>6

(* What changes with one request.                                           *)
LEMMA OneRequest ==
    ASSUME PanelTypes, NEW p \in Processes, NEW e \in Elements, NEW q \in RequestStates,
           requests' = [requests EXCEPT ![p][e] = q]
    PROVE  /\ requests' \in [Processes -> [Elements -> RequestStates]]
           /\ requests'[p][e] = q /\ \A f \in Elements \ {e} : requests'[p][f] = requests[p][f]
           /\ \A r \in Processes \ {p} : requests'[r] = requests[r] /\ InFlight(r)' = InFlight(r)
           /\ q.pc # "none" => InFlight(p)' = InFlight(p) \cup {e}
           /\ q.pc = "none" => InFlight(p)' = InFlight(p) \ {e}
<1>1. requests \in [Processes -> [Elements -> RequestStates]]
  BY DEF PanelTypes
<1>2. /\ requests' \in [Processes -> [Elements -> RequestStates]]
      /\ requests'[p][e] = q /\ \A f \in Elements \ {e} : requests'[p][f] = requests[p][f]
      /\ \A r \in Processes \ {p} : requests'[r] = requests[r]
  BY <1>1
<1>3. \A r \in Processes \ {p} : InFlight(r)' = InFlight(r)
  BY <1>2 DEF InFlight
<1>4. InFlight(p)' = {f \in Elements : requests'[p][f].pc # "none"}
  BY DEF InFlight
<1>5. InFlight(p) = {f \in Elements : requests[p][f].pc # "none"}
  BY DEF InFlight
<1>6. ASSUME q.pc # "none" PROVE InFlight(p)' = InFlight(p) \cup {e}
  BY <1>2, <1>4, <1>5, <1>6
<1>7. ASSUME q.pc = "none" PROVE InFlight(p)' = InFlight(p) \ {e}
  BY <1>2, <1>4, <1>5, <1>7
<1>8. QED BY <1>2, <1>3, <1>6, <1>7

(* A panel that a step leaves alone stays as undisturbed as it was.         *)
LEMMA LeftAlone ==
    ASSUME NEW p \in Processes, Undisturbed(p),
           requests'[p] = requests[p], panel'[p] = panel[p], asked'[p] = asked[p],
           updates' = updates \/ updates' > 0
    PROVE  Undisturbed(p)'
<1>1. InFlight(p)' = InFlight(p) /\ (Loaded(p)' <=> Loaded(p))
  BY Zenon DEF InFlight, Loaded
<1>2. \A e \in InFlight(p) : Fits(requests[p][e].place, asked[p]) => Fits(requests[p][e].place, asked[p])'
  BY DEF Fits
<1>3. Fits(panel[p], asked[p]) => Fits(panel[p], asked[p])'
  BY DEF Fits
<1>4. QED BY <1>1, <1>2, <1>3 DEF Undisturbed

(* Asking for a page that exists, as far as is known.                       *)
LEMMA AskingKeeps ==
    ASSUME PanelInv, NEW p \in Processes, NEW e \in Elements, NEW place \in Places,
           place.run \in Runs, updates = 0 => place.page <= PagesFor(place.run, p, place.filter),
           Get(p, e, place), UNCHANGED <<tasks, shownRun, panel, bar, updates>>,
           expandedGroup' \in Processes \cup {None}, signals' \in Filters,
           asked' \in [Processes -> Places], disturbed' \subseteq Processes
    PROVE  /\ PanelTypes' /\ BarsOfPanels' /\ RowsOfPanels' /\ AnswersFit' /\ PagesExist'
           /\ InFlight(p)' = InFlight(p) \cup {e} /\ requests'[p][e].place = place
           /\ \A r \in Processes \ {p} : requests'[r] = requests[r]
<1> DEFINE q == [pc |-> "sent", place |-> place, content |-> Empty]
<1>1. q \in RequestStates /\ q.pc = "sent" /\ q.place = place
  BY PlacesAndContents DEF RequestStates
<1>2. requests' = [requests EXCEPT ![p][e] = q]
  BY DEF Get
<1>3. PanelTypes /\ BarsOfPanels /\ RowsOfPanels /\ AnswersFit /\ PagesExist
  BY DEF PanelInv
<1> HIDE DEF q
<1>4. /\ requests' \in [Processes -> [Elements -> RequestStates]]
      /\ requests'[p][e] = q /\ \A f \in Elements \ {e} : requests'[p][f] = requests[p][f]
      /\ \A r \in Processes \ {p} : requests'[r] = requests[r] /\ InFlight(r)' = InFlight(r)
      /\ InFlight(p)' = InFlight(p) \cup {e}
  BY <1>1, <1>2, <1>3, OneRequest
<1>5. PanelTypes'
  BY <1>3, <1>4 DEF PanelTypes
<1>6. BarsOfPanels' /\ RowsOfPanels'
  <2>1. BarsOfPanels'
    BY <1>3, Zenon DEF BarsOfPanels, Loaded
  <2>2. RowsOfPanels'
    BY <1>3, Zenon DEF RowsOfPanels, Loaded, HasRow, InProcess, Reported
  <2>3. QED BY <2>1, <2>2
<1>7. AnswersFit'
  <2> SUFFICES ASSUME NEW r \in Processes, NEW f \in InFlight(r)'
               PROVE  (/\ requests[r][f].place.run \in Runs
                       /\ requests[r][f].pc = "answered" =>
                            Fits(requests[r][f].content, requests[r][f].place))'
    BY DEF AnswersFit
  <2>1. CASE r = p /\ f = e
    BY <1>1, <1>4, <2>1
  <2>2. CASE ~(r = p /\ f = e)
    <3>1. f \in InFlight(r) /\ requests'[r][f] = requests[r][f]
      BY <1>4, <2>2 DEF InFlight
    <3>2. /\ requests[r][f].place.run \in Runs
          /\ requests[r][f].pc = "answered" => Fits(requests[r][f].content, requests[r][f].place)
      BY <1>3, <3>1 DEF AnswersFit
    <3>3. QED BY <3>1, <3>2 DEF Fits
  <2>3. QED BY <2>1, <2>2
<1>8. PagesExist'
  <2> SUFFICES ASSUME updates = 0, NEW r \in Processes
               PROVE  /\ Loaded(r)' => panel[r].pages = PagesFor(panel[r].run, r, panel[r].filter)
                      /\ \A f \in InFlight(r)' :
                           LET s == requests'[r][f]
                           IN  /\ s.place.page <= PagesFor(s.place.run, r, s.place.filter)
                               /\ s.pc = "answered" =>
                                    s.content.pages = PagesFor(s.place.run, r, s.place.filter)
    BY DEF PagesExist, PagesFor
  <2>1. Loaded(r)' => panel[r].pages = PagesFor(panel[r].run, r, panel[r].filter)
    BY <1>3 DEF PagesExist, Loaded
  <2>2. ASSUME NEW f \in InFlight(r)'
        PROVE  LET s == requests'[r][f]
               IN  /\ s.place.page <= PagesFor(s.place.run, r, s.place.filter)
                   /\ s.pc = "answered" =>
                        s.content.pages = PagesFor(s.place.run, r, s.place.filter)
    <3>1. CASE r = p /\ f = e
      BY <1>1, <1>4, <3>1
    <3>2. CASE ~(r = p /\ f = e)
      <4>1. f \in InFlight(r) /\ requests'[r][f] = requests[r][f]
        BY <1>4, <3>2 DEF InFlight
      <4>2. QED BY <1>3, <4>1 DEF PagesExist
    <3>3. QED BY <3>1, <3>2
  <2>3. QED BY <2>1, <2>2
<1>9. QED BY <1>1, <1>4, <1>5, <1>6, <1>7, <1>8

(* What the user asks for.                                                  *)
LEMMA UserAsksKeeps ==
    ASSUME PanelInv, NEW p \in Processes, NEW e \in Elements, NEW place \in Places,
           place.run \in Runs, updates = 0 => place.page <= PagesFor(place.run, p, place.filter),
           UserAsks(p, e, place), UNCHANGED <<tasks, shownRun, panel, bar, updates>>,
           expandedGroup' \in Processes \cup {None}, signals' \in Filters
    PROVE  PanelInv'
<1>1. /\ Get(p, e, place)
      /\ asked' = [asked EXCEPT ![p] = place]
      /\ disturbed' = IF InFlight(p) \ {e} # {} THEN disturbed \cup {p} ELSE disturbed \ {p}
  BY DEF UserAsks
<1>2. /\ asked \in [Processes -> Places] /\ disturbed \subseteq Processes /\ updates \in Nat
      /\ \A r \in Processes \ disturbed : Undisturbed(r)
  BY DEF PanelInv, PanelTypes
<1>3. /\ asked' \in [Processes -> Places] /\ asked'[p] = place
      /\ \A r \in Processes \ {p} : asked'[r] = asked[r]
  BY <1>1, <1>2
<1>4. disturbed' \subseteq Processes /\ \A r \in Processes \ {p} : r \in disturbed' <=> r \in disturbed
  BY <1>1, <1>2
<1>5. /\ PanelTypes' /\ BarsOfPanels' /\ RowsOfPanels' /\ AnswersFit' /\ PagesExist'
      /\ InFlight(p)' = InFlight(p) \cup {e} /\ requests'[p][e].place = place
      /\ \A r \in Processes \ {p} : requests'[r] = requests[r]
  BY <1>1, <1>3, <1>4, AskingKeeps
<1>6. ASSUME NEW r \in Processes \ disturbed' PROVE Undisturbed(r)'
  <2>1. CASE r = p
    <3>1. InFlight(p)' = {e}
      BY <1>1, <1>5, <1>6, <2>1
    <3>2. place.page \in Nat
      BY DEF Places
    <3>3. Fits(place, place)'
      BY <3>2 DEF Fits
    <3>4. QED BY <1>3, <1>5, <2>1, <3>1, <3>3 DEF Undisturbed
  <2>2. CASE r # p
    BY <1>2, <1>3, <1>4, <1>5, <1>6, <2>2, LeftAlone
  <2>3. QED BY <2>1, <2>2
<1>7. QED BY <1>5, <1>6 DEF PanelInv

(* A click on a row or a node asks for the first page of the run shown.     *)
LEMMA ToggleKeeps ==
    ASSUME PanelInv, NEW p \in Processes, NEW e \in Elements, Toggle(p, e)
    PROVE  PanelInv'
<1>1. PanelTypes
  BY DEF PanelInv
<1>2. UNCHANGED <<tasks, updates, shownRun, signals, panel, bar>>
  BY DEF Toggle, Gesture
<1>3. CASE expandedGroup' = None /\ UNCHANGED <<requests, asked, disturbed>>
  <2>1. PanelTypes'
    BY <1>1, <1>2, <1>3 DEF PanelTypes
  <2>2. (BarsOfPanels /\ RowsOfPanels /\ AnswersFit /\ PagesExist)'
    BY <1>2, <1>3, Zenon DEF PanelInv, BarsOfPanels, RowsOfPanels, AnswersFit, PagesExist, Loaded, HasRow,
       InProcess, Reported, InFlight, Fits, PagesFor
  <2>3. \A r \in Processes \ disturbed' : Undisturbed(r)'
    BY <1>2, <1>3, LeftAlone DEF PanelInv
  <2>4. QED BY <2>1, <2>2, <2>3 DEF PanelInv
<1>4. CASE expandedGroup' = p /\ UserAsks(p, e, Place(shownRun, NoFilter, 1))
  <2> DEFINE place == Place(shownRun, NoFilter, 1)
  <2>1. place \in Places /\ place.run = shownRun /\ place.filter = NoFilter /\ place.page = 1
    BY <1>1, PlacesAndContents DEF PanelTypes
  <2>2. place.run \in Runs
    BY <1>1, <2>1 DEF PanelTypes
  <2>3. PagesFor(shownRun, p, NoFilter) \in Nat \ {0}
    BY ListingSorts, PagesSuffice DEF PagesFor
  <2>4. place.page <= PagesFor(place.run, p, place.filter)
    BY <2>1, <2>3
  <2>5. UserAsks(p, e, place)
    BY <1>4
  <2> HIDE DEF place
  <2>6. expandedGroup' \in Processes \cup {None} /\ signals' \in Filters
    BY <1>1, <1>2, <1>4 DEF PanelTypes
  <2>7. QED BY <1>2, <2>1, <2>2, <2>4, <2>5, <2>6, UserAsksKeeps
<1>5. QED BY <1>3, <1>4 DEF Toggle

(* The filter bar asks for the first page of the run it was drawn for.      *)
LEMMA ChooseFilterKeeps ==
    ASSUME PanelInv, NEW p \in Processes, NEW e \in Elements, ChooseFilter(p, e)
    PROVE  PanelInv'
<1>1. PanelTypes /\ BarsOfPanels
  BY DEF PanelInv
<1>2. /\ UNCHANGED <<tasks, updates, shownRun, expandedGroup, panel, bar>> /\ Loaded(p)
      /\ UserAsks(p, e, Place(bar[p], signals', 1))
  BY DEF ChooseFilter, Gesture
<1>3. signals' \in Filters
  <2>1. signals \in Filters
    BY <1>1 DEF PanelTypes
  <2>2. ASSUME NEW q \in Queries, signals' = [signals EXCEPT !.match = q] PROVE signals' \in Filters
    BY <2>1, <2>2 DEF Filters
  <2>3. ASSUME NEW s \in {"", "FAILED", "RUNNING", "COMPLETED", "CACHED"},
               signals' = [signals EXCEPT !.status = s]
        PROVE  signals' \in Filters
    BY <2>1, <2>3 DEF Filters
  <2>4. QED BY <2>2, <2>3 DEF ChooseFilter
<1> DEFINE place == Place(bar[p], signals', 1)
<1>4. bar[p] \in Runs
  BY <1>1, <1>2 DEF PanelTypes, BarsOfPanels
<1>5. place \in Places /\ place.run = bar[p] /\ place.filter = signals' /\ place.page = 1
  BY <1>3, <1>4, PlacesAndContents
<1>6. UserAsks(p, e, place)
  BY <1>2
<1> HIDE DEF place
<1>7. place.run \in Runs
  BY <1>4, <1>5
<1>8. place.page <= PagesFor(place.run, p, place.filter)
  <2>1. PagesFor(place.run, p, place.filter) \in Nat \ {0}
    BY ListingSorts, PagesSuffice DEF PagesFor
  <2>2. QED BY <1>5, <2>1
<1>9. expandedGroup' \in Processes \cup {None}
  BY <1>1, <1>2 DEF PanelTypes
<1>10. QED BY <1>2, <1>3, <1>5, <1>6, <1>7, <1>8, <1>9, UserAsksKeeps

(* A page button asks for a page the panel has.                             *)
LEMMA TurnPageKeeps ==
    ASSUME PanelInv, NEW p \in Processes, NEW button \in Elements, TurnPage(p, button)
    PROVE  PanelInv'
<1>1. PanelTypes /\ PagesExist
  BY DEF PanelInv
<1>2. /\ UNCHANGED <<tasks, updates, shownRun, expandedGroup, signals, panel, bar>> /\ Loaded(p)
      /\ button \in Buttons
      /\ IF button \in {"first", "previous"} THEN panel[p].page > 1 ELSE panel[p].page < panel[p].pages
      /\ UserAsks(p, button, Place(panel[p].run, panel[p].filter, TargetPage(p, button)))
  BY DEF TurnPage, Gesture
<1> DEFINE c == panel[p]
           target == TargetPage(p, button)
<1>3. c \in Contents /\ c.run \in Runs /\ c.filter \in Filters /\ c.page \in 1 .. c.pages /\ c.pages \in Nat
  BY <1>1, <1>2 DEF PanelTypes, Contents, Loaded
<1>4. target \in Nat \ {0} /\ target <= c.pages
  <2>1. CASE button = "first"
    <3>1. target = 1
      BY <2>1 DEF TargetPage
    <3> HIDE DEF c
    <3>2. QED BY <1>3, <3>1
  <2>2. CASE button = "previous"
    <3>1. target = c.page - 1 /\ c.page > 1
      BY <1>2, <2>2 DEF TargetPage
    <3> HIDE DEF c
    <3>2. QED BY <1>3, <3>1
  <2>3. CASE button = "next"
    <3>1. target = c.page + 1 /\ c.page < c.pages
      BY <1>2, <2>3 DEF TargetPage
    <3> HIDE DEF c
    <3>2. QED BY <1>3, <3>1
  <2>4. CASE button = "last"
    <3>1. target = c.pages
      BY <2>4 DEF TargetPage
    <3> HIDE DEF c
    <3>2. QED BY <1>3, <3>1
  <2>5. QED BY <1>2, <2>1, <2>2, <2>3, <2>4 DEF Buttons
<1>5. updates = 0 => c.pages = PagesFor(c.run, p, c.filter)
  BY <1>1, <1>2 DEF PagesExist
<1> DEFINE place == Place(c.run, c.filter, target)
<1>6. UserAsks(p, button, place)
  BY <1>2
<1> HIDE DEF c, target
<1>7. place \in Places /\ place.run = c.run /\ place.filter = c.filter /\ place.page = target
  BY <1>3, <1>4, PlacesAndContents
<1> HIDE DEF place
<1>8. place.run \in Runs /\ (updates = 0 => place.page <= PagesFor(place.run, p, place.filter))
  BY <1>3, <1>4, <1>5, <1>7
<1>9. expandedGroup' \in Processes \cup {None} /\ signals' \in Filters
  BY <1>1, <1>2 DEF PanelTypes
<1>10. QED BY <1>2, <1>6, <1>7, <1>8, <1>9, UserAsksKeeps

(* The poll asks for what the panel shows.                                  *)
LEMMA PollKeeps ==
    ASSUME PanelInv, NEW p \in Processes, Poll(p)
    PROVE  PanelInv'
<1>1. PanelTypes /\ PagesExist /\ \A r \in Processes \ disturbed : Undisturbed(r)
  BY DEF PanelInv
<1>2. /\ UNCHANGED <<tasks, updates, shownRun, expandedGroup, signals, panel, bar, asked>> /\ Loaded(p)
      /\ Get(p, "poll", Place(panel[p].run, panel[p].filter, panel[p].page))
      /\ disturbed' = disturbed \cup {q \in {p} : InFlight(q) # {}}
  BY DEF Poll, Polls, PollPlace
<1> DEFINE c == panel[p]
           place == Place(c.run, c.filter, c.page)
<1>3. c.run \in Runs /\ c.filter \in Filters /\ c.page \in 1 .. c.pages /\ c.pages \in Nat /\ c.page \in Nat
  BY <1>1, <1>2 DEF PanelTypes, Contents, Loaded
<1>4. updates = 0 => c.pages = PagesFor(c.run, p, c.filter)
  BY <1>1, <1>2 DEF PagesExist
<1>5. Get(p, "poll", place)
  BY <1>2
<1>6. p \notin disturbed /\ InFlight(p) = {} => Fits(c, asked[p])
  BY <1>1, <1>2 DEF Undisturbed
<1> HIDE DEF c
<1>7. place \in Places /\ place.run = c.run /\ place.filter = c.filter /\ place.page = c.page
  BY <1>3, PlacesAndContents
<1> HIDE DEF place
<1>8. place.run \in Runs /\ (updates = 0 => place.page <= PagesFor(place.run, p, place.filter))
  BY <1>3, <1>4, <1>7
<1>9. /\ expandedGroup' \in Processes \cup {None} /\ signals' \in Filters
      /\ asked' \in [Processes -> Places] /\ disturbed' \subseteq Processes
  BY <1>1, <1>2 DEF PanelTypes
<1>10. "poll" \in Elements
  BY DEF Elements
<1>11. /\ PanelTypes' /\ BarsOfPanels' /\ RowsOfPanels' /\ AnswersFit' /\ PagesExist'
       /\ InFlight(p)' = InFlight(p) \cup {"poll"} /\ requests'[p]["poll"].place = place
       /\ \A r \in Processes \ {p} : requests'[r] = requests[r]
  BY <1>2, <1>5, <1>7, <1>8, <1>9, <1>10, AskingKeeps
<1>12. ASSUME NEW r \in Processes \ disturbed' PROVE Undisturbed(r)'
  <2>1. r \notin disturbed /\ (r = p => InFlight(p) = {})
    BY <1>2, <1>12
  <2>2. CASE r = p
    <3>1. InFlight(p)' = {"poll"}
      BY <1>11, <2>1, <2>2
    <3>2. Fits(c, asked[p])
      BY <1>6, <2>1, <2>2
    <3>3. Fits(requests[p]["poll"].place, asked[p])'
      BY <1>2, <1>7, <1>11, <3>2 DEF Fits
    <3>4. QED BY <1>11, <2>2, <3>1, <3>3 DEF Undisturbed
  <2>3. CASE r # p
    BY <1>1, <1>2, <1>11, <2>1, <2>3, LeftAlone
  <2>4. QED BY <2>2, <2>3
<1>13. QED BY <1>11, <1>12 DEF PanelInv

(* An answer shows the place that was asked for.                            *)
LEMMA AnswerKeeps ==
    ASSUME PanelInv, NEW p \in Processes, NEW e \in Elements, Answer(p, e)
    PROVE  PanelInv'
<1>1. /\ PanelTypes /\ BarsOfPanels /\ RowsOfPanels /\ AnswersFit /\ PagesExist
      /\ \A r \in Processes \ disturbed : Undisturbed(r)
  BY DEF PanelInv
<1> DEFINE place == requests[p][e].place
           c == Content(place, renderTaskPanelHTML(tasks[place.run], p, place.filter, place.page))
           q == [pc |-> "answered", place |-> place, content |-> c]
<1>2. /\ requests[p][e].pc = "sent" /\ requests' = [requests EXCEPT ![p][e] = q]
      /\ UNCHANGED <<tasks, shownRun, expandedGroup, signals, panel, bar, asked, disturbed, updates>>
  BY DEF Answer, Reply
<1>3. e \in InFlight(p) /\ place \in Places /\ place.run \in Runs
  <2>1. e \in InFlight(p)
    BY <1>2 DEF InFlight
  <2>2. place \in Places
    BY <1>1 DEF PanelTypes, RequestStates
  <2>3. QED BY <1>1, <2>1, <2>2 DEF AnswersFit
<1>4. /\ c \in Contents /\ c.run = place.run /\ c.filter = place.filter
      /\ c.pages = PagesFor(place.run, p, place.filter)
      /\ c.page <= place.page
      /\ place.page <= c.pages => c.page = place.page
  BY <1>3, PlacesAndContents
<1>5. updates = 0 => place.page <= PagesFor(place.run, p, place.filter)
  BY <1>1, <1>3 DEF PagesExist
<1>6. requests[p][e].place = place
  OBVIOUS
<1> HIDE DEF place, c
<1>7. q \in RequestStates /\ q.pc = "answered" /\ q.place = place /\ q.content = c
  BY <1>3, <1>4 DEF RequestStates
<1> HIDE DEF q
<1>8. /\ requests' \in [Processes -> [Elements -> RequestStates]]
      /\ requests'[p][e] = q /\ \A f \in Elements \ {e} : requests'[p][f] = requests[p][f]
      /\ \A r \in Processes \ {p} : requests'[r] = requests[r] /\ InFlight(r)' = InFlight(r)
      /\ InFlight(p)' = InFlight(p) \cup {e}
  BY <1>1, <1>2, <1>7, OneRequest
<1>9. InFlight(p)' = InFlight(p)
  BY <1>3, <1>8
<1>10. PanelTypes'
  BY <1>1, <1>2, <1>8 DEF PanelTypes
<1>11. BarsOfPanels' /\ RowsOfPanels'
  <2>1. BarsOfPanels'
    BY <1>1, <1>2, Zenon DEF BarsOfPanels, Loaded
  <2>2. RowsOfPanels'
    BY <1>1, <1>2, Zenon DEF RowsOfPanels, Loaded, HasRow, InProcess, Reported
  <2>3. QED BY <2>1, <2>2
<1>12. updates \in Nat
  BY <1>1 DEF PanelTypes
<1>13. AnswersFit'
  <2> SUFFICES ASSUME NEW r \in Processes, NEW f \in InFlight(r)'
               PROVE  (/\ requests[r][f].place.run \in Runs
                       /\ requests[r][f].pc = "answered" =>
                            Fits(requests[r][f].content, requests[r][f].place))'
    BY DEF AnswersFit
  <2>1. CASE r = p /\ f = e
    BY <1>2, <1>3, <1>4, <1>5, <1>7, <1>8, <1>12, <2>1 DEF Fits
  <2>2. CASE ~(r = p /\ f = e)
    <3>1. f \in InFlight(r) /\ requests'[r][f] = requests[r][f]
      BY <1>8, <2>2 DEF InFlight
    <3>2. /\ requests[r][f].place.run \in Runs
          /\ requests[r][f].pc = "answered" => Fits(requests[r][f].content, requests[r][f].place)
      BY <1>1, <3>1 DEF AnswersFit
    <3>3. QED BY <1>2, <3>1, <3>2 DEF Fits
  <2>3. QED BY <2>1, <2>2
<1>14. PagesExist'
  <2> SUFFICES ASSUME updates = 0, NEW r \in Processes
               PROVE  /\ Loaded(r)' => panel[r].pages = PagesFor(panel[r].run, r, panel[r].filter)
                      /\ \A f \in InFlight(r)' :
                           LET s == requests'[r][f]
                           IN  /\ s.place.page <= PagesFor(s.place.run, r, s.place.filter)
                               /\ s.pc = "answered" =>
                                    s.content.pages = PagesFor(s.place.run, r, s.place.filter)
    BY <1>2 DEF PagesExist, PagesFor
  <2>1. Loaded(r)' => panel[r].pages = PagesFor(panel[r].run, r, panel[r].filter)
    BY <1>1, <1>2 DEF PagesExist, Loaded
  <2>2. ASSUME NEW f \in InFlight(r)'
        PROVE  LET s == requests'[r][f]
               IN  /\ s.place.page <= PagesFor(s.place.run, r, s.place.filter)
                   /\ s.pc = "answered" =>
                        s.content.pages = PagesFor(s.place.run, r, s.place.filter)
    <3>1. CASE r = p /\ f = e
      BY <1>4, <1>5, <1>7, <1>8, <3>1
    <3>2. CASE ~(r = p /\ f = e)
      <4>1. f \in InFlight(r) /\ requests'[r][f] = requests[r][f]
        BY <1>8, <3>2 DEF InFlight
      <4>2. QED BY <1>1, <4>1 DEF PagesExist
    <3>3. QED BY <3>1, <3>2
  <2>3. QED BY <2>1, <2>2
<1>15. ASSUME NEW r \in Processes \ disturbed' PROVE Undisturbed(r)'
  <2>1. CASE r = p
    <3>1. Undisturbed(p)
      BY <1>1, <1>2, <1>15, <2>1
    <3>2. \A f \in InFlight(p) : requests'[p][f].place = requests[p][f].place
      BY <1>6, <1>7, <1>8 DEF InFlight
    <3>3. \A f \in InFlight(p) : Fits(requests[p][f].place, asked[p])'
      BY <1>2, <3>1, <3>2 DEF Undisturbed, Fits
    <3>4. InFlight(p)' # {}
      BY <1>3, <1>9
    <3>5. QED BY <1>9, <2>1, <3>1, <3>3, <3>4 DEF Undisturbed
  <2>2. CASE r # p
    BY <1>1, <1>2, <1>8, <1>15, <2>2, LeftAlone
  <2>3. QED BY <2>1, <2>2
<1>16. QED BY <1>10, <1>11, <1>13, <1>14, <1>15 DEF PanelInv

(* The panel is filled with the answer, if its row is there.                *)
LEMMA PatchKeeps ==
    ASSUME PanelInv, NEW p \in Processes, NEW e \in Elements, Patch(p, e)
    PROVE  PanelInv'
<1>1. /\ PanelTypes /\ BarsOfPanels /\ RowsOfPanels /\ AnswersFit /\ PagesExist
      /\ \A r \in Processes \ disturbed : Undisturbed(r)
  BY DEF PanelInv
<1> DEFINE q == requests[p][e]
<1>2. /\ q.pc = "answered" /\ requests' = [requests EXCEPT ![p][e] = NoRequest]
      /\ IF HasRow(shownRun, p)
         THEN /\ panel' = [panel EXCEPT ![p] = q.content]
              /\ bar' = [bar EXCEPT ![p] = IF Loaded(p) THEN bar[p] ELSE q.place.run]
         ELSE UNCHANGED <<panel, bar>>
      /\ UNCHANGED <<tasks, shownRun, expandedGroup, signals, asked, disturbed, updates>>
  BY DEF Patch
<1>3. e \in InFlight(p) /\ q \in RequestStates
  BY <1>1, <1>2 DEF InFlight, PanelTypes
<1>4. q.content \in Contents /\ q.place \in Places
  BY <1>3 DEF RequestStates
<1>5. q.place.run \in Runs /\ Fits(q.content, q.place)
  BY <1>1, <1>2, <1>3 DEF AnswersFit
<1>6. updates = 0 => q.content.pages = PagesFor(q.place.run, p, q.place.filter)
  BY <1>1, <1>2, <1>3 DEF PagesExist
<1>7. NoRequest \in RequestStates /\ NoRequest.pc = "none"
  BY PlacesAndContents DEF NoRequest
<1>8. /\ requests' \in [Processes -> [Elements -> RequestStates]]
      /\ \A f \in Elements \ {e} : requests'[p][f] = requests[p][f]
      /\ \A r \in Processes \ {p} : requests'[r] = requests[r] /\ InFlight(r)' = InFlight(r)
      /\ InFlight(p)' = InFlight(p) \ {e}
  <2>1. requests' = [requests EXCEPT ![p][e] = NoRequest]
    BY <1>2
  <2>2. PanelTypes
    BY <1>1
  <2>3. QED BY ONLY <1>7, <2>1, <2>2, p \in Processes, e \in Elements, OneRequest
<1>9. ASSUME NEW r \in Processes, NEW f \in InFlight(r)'
      PROVE  f \in InFlight(r) /\ requests'[r][f] = requests[r][f]
  BY <1>8, <1>9 DEF InFlight
<1>10. q.place.run # None /\ q.content.run = q.place.run /\ q.content.filter = q.place.filter
  BY <1>5, PanelAssumption DEF Fits
<1> HIDE DEF q
<1>11. /\ panel' \in [Processes -> Contents] /\ bar' \in [Processes -> Runs \cup {None}]
       /\ \A r \in Processes \ {p} : panel'[r] = panel[r] /\ bar'[r] = bar[r]
       /\ HasRow(shownRun, p) => panel'[p] = q.content /\ bar'[p] = IF Loaded(p) THEN bar[p] ELSE q.place.run
       /\ ~HasRow(shownRun, p) => panel'[p] = panel[p] /\ bar'[p] = bar[p]
  BY <1>1, <1>2, <1>4, <1>5 DEF PanelTypes
<1>12. PanelTypes'
  BY <1>1, <1>2, <1>8, <1>11 DEF PanelTypes
<1>13. BarsOfPanels'
  <2> SUFFICES ASSUME NEW r \in Processes PROVE panel'[r].run # None <=> bar'[r] # None
    BY DEF BarsOfPanels, Loaded
  <2>1. panel[r].run # None <=> bar[r] # None
    BY <1>1 DEF BarsOfPanels, Loaded
  <2>2. CASE r = p /\ HasRow(shownRun, p)
    BY <1>10, <1>11, <2>1, <2>2 DEF Loaded
  <2>3. CASE ~(r = p /\ HasRow(shownRun, p))
    BY <1>11, <2>1, <2>3
  <2>4. QED BY <2>2, <2>3
<1>14. RowsOfPanels'
  <2> SUFFICES ASSUME NEW r \in Processes, panel'[r].run # None PROVE HasRow(shownRun, r)
    BY <1>2, Zenon DEF RowsOfPanels, Loaded, HasRow, InProcess, Reported
  <2>1. panel[r].run # None => HasRow(shownRun, r)
    BY <1>1 DEF RowsOfPanels, Loaded
  <2>2. QED BY <1>11, <2>1
<1>15. AnswersFit'
  <2> SUFFICES ASSUME NEW r \in Processes, NEW f \in InFlight(r)'
               PROVE  (/\ requests[r][f].place.run \in Runs
                       /\ requests[r][f].pc = "answered" =>
                            Fits(requests[r][f].content, requests[r][f].place))'
    BY DEF AnswersFit
  <2>1. f \in InFlight(r) /\ requests'[r][f] = requests[r][f]
    BY <1>9
  <2>2. /\ requests[r][f].place.run \in Runs
        /\ requests[r][f].pc = "answered" => Fits(requests[r][f].content, requests[r][f].place)
    BY <1>1, <2>1 DEF AnswersFit
  <2>3. QED BY <1>2, <2>1, <2>2 DEF Fits
<1>16. PagesExist'
  <2> SUFFICES ASSUME updates = 0, NEW r \in Processes
               PROVE  /\ panel'[r].run # None => panel'[r].pages = PagesFor(panel'[r].run, r, panel'[r].filter)
                      /\ \A f \in InFlight(r)' :
                           LET s == requests'[r][f]
                           IN  /\ s.place.page <= PagesFor(s.place.run, r, s.place.filter)
                               /\ s.pc = "answered" =>
                                    s.content.pages = PagesFor(s.place.run, r, s.place.filter)
    BY <1>2 DEF PagesExist, PagesFor, Loaded
  <2>1. panel[r].run # None => panel[r].pages = PagesFor(panel[r].run, r, panel[r].filter)
    BY <1>1 DEF PagesExist, Loaded
  <2>2. panel'[r].run # None => panel'[r].pages = PagesFor(panel'[r].run, r, panel'[r].filter)
    <3>1. CASE r = p /\ HasRow(shownRun, p)
      BY <1>6, <1>10, <1>11, <3>1
    <3>2. CASE ~(r = p /\ HasRow(shownRun, p))
      <4>1. panel'[r] = panel[r]
        BY <1>11, <3>2
      <4>2. QED BY <2>1, <4>1
    <3>3. QED BY <3>1, <3>2
  <2>3. QED BY <1>1, <1>9, <2>2 DEF PagesExist
<1>17. ASSUME NEW r \in Processes \ disturbed' PROVE Undisturbed(r)'
  <2>1. CASE r = p
    <3>1. Undisturbed(p)
      BY <1>1, <1>2, <1>17, <2>1
    <3>2. InFlight(p) = {e} /\ InFlight(p)' = {}
      BY <1>3, <1>8, <3>1 DEF Undisturbed
    <3>3. Fits(q.place, asked[p])
      BY <3>1, <3>2 DEF Undisturbed, q
    <3>4. ASSUME Loaded(p)' PROVE Fits(panel[p], asked[p])'
      <4>1. panel'[p].run # None /\ (panel[p].run # None => HasRow(shownRun, p))
        BY <1>1, <3>4 DEF Loaded, RowsOfPanels
      <4>2. panel'[p] = q.content
        BY <1>11, <4>1
      <4>3. /\ q.content.page \in Nat /\ q.place.page \in Nat /\ asked[p].page \in Nat
        BY <1>1, <1>4 DEF PanelTypes, Contents, Places
      <4>4. Fits(q.content, asked[p])
        BY <1>5, <3>3, <4>3 DEF Fits
      <4>5. QED BY <1>2, <4>2, <4>4 DEF Fits
    <3>5. QED BY <2>1, <3>2, <3>4 DEF Undisturbed
  <2>2. CASE r # p
    BY <1>1, <1>2, <1>8, <1>11, <1>17, <2>2, LeftAlone
  <2>3. QED BY <2>1, <2>2
<1>18. QED BY <1>12, <1>13, <1>14, <1>15, <1>16, <1>17 DEF PanelInv

(* Another run's dashboard keeps the panels whose row it has too.           *)
LEMMA SelectRunKeeps ==
    ASSUME PanelInv, NEW run \in Runs, SelectRun(run)
    PROVE  PanelInv'
<1>1. /\ PanelTypes /\ BarsOfPanels /\ RowsOfPanels /\ AnswersFit /\ PagesExist
      /\ \A r \in Processes \ disturbed : Undisturbed(r)
  BY DEF PanelInv
<1>2. /\ shownRun' = run
      /\ panel' = [p \in Processes |-> IF HasRow(run, p) THEN panel[p] ELSE Empty]
      /\ bar' = [p \in Processes |-> IF HasRow(run, p) THEN bar[p] ELSE None]
      /\ disturbed' = disturbed \cup {p \in Processes : ~HasRow(run, p)}
      /\ UNCHANGED <<expandedGroup, signals, requests, asked, tasks, updates>>
  BY DEF SelectRun, Gesture
<1>3. ASSUME NEW p \in Processes
      PROVE  /\ HasRow(run, p) => panel'[p] = panel[p] /\ bar'[p] = bar[p]
             /\ ~HasRow(run, p) => panel'[p] = Empty /\ bar'[p] = None /\ p \in disturbed'
             /\ InFlight(p)' = InFlight(p)
  <2>1. InFlight(p)' = InFlight(p)
    BY <1>2 DEF InFlight
  <2>2. QED BY <1>2, <2>1
<1>4. Empty \in Contents /\ Empty.run = None
  BY PlacesAndContents DEF Empty, Content, Nowhere, Place
<1>5. PanelTypes'
  <2>1. panel' \in [Processes -> Contents] /\ bar' \in [Processes -> Runs \cup {None}]
    BY <1>1, <1>2, <1>4 DEF PanelTypes
  <2>2. disturbed' \subseteq Processes
    BY <1>1, <1>2 DEF PanelTypes
  <2>3. QED BY <1>1, <1>2, <2>1, <2>2 DEF PanelTypes
<1>6. BarsOfPanels'
  BY <1>1, <1>3, <1>4 DEF BarsOfPanels, Loaded
<1>7. RowsOfPanels'
  <2> SUFFICES ASSUME NEW p \in Processes, panel'[p].run # None PROVE HasRow(run, p)
    BY <1>2, Zenon DEF RowsOfPanels, Loaded, HasRow, InProcess, Reported
  <2>1. QED BY <1>3, <1>4
<1>8. AnswersFit'
  BY <1>1, <1>2, <1>3 DEF AnswersFit, Fits
<1>9. PagesExist'
  <2> SUFFICES ASSUME updates = 0, NEW p \in Processes
               PROVE  /\ panel'[p].run # None => panel'[p].pages = PagesFor(panel'[p].run, p, panel'[p].filter)
                      /\ \A f \in InFlight(p)' :
                           LET s == requests[p][f]
                           IN  /\ s.place.page <= PagesFor(s.place.run, p, s.place.filter)
                               /\ s.pc = "answered" =>
                                    s.content.pages = PagesFor(s.place.run, p, s.place.filter)
    BY <1>2 DEF PagesExist, PagesFor, Loaded
  <2>1. panel'[p].run # None => panel'[p].pages = PagesFor(panel'[p].run, p, panel'[p].filter)
    <3>1. CASE HasRow(run, p)
      <4>1. panel'[p] = panel[p]
        BY <1>3, <3>1
      <4>2. QED BY <1>1, <4>1 DEF PagesExist, Loaded
    <3>2. CASE ~HasRow(run, p)
      BY <1>3, <1>4, <3>2
    <3>3. QED BY <3>1, <3>2
  <2>2. QED BY <1>1, <1>3, <2>1 DEF PagesExist
<1>10. ASSUME NEW p \in Processes \ disturbed' PROVE Undisturbed(p)'
  <2>1. HasRow(run, p) /\ p \notin disturbed
    BY <1>2, <1>3, <1>10
  <2>2. panel'[p] = panel[p]
    BY <1>3, <2>1
  <2>3. QED BY <1>1, <1>2, <2>1, <2>2, LeftAlone
<1>11. QED BY <1>5, <1>6, <1>7, <1>8, <1>9, <1>10 DEF PanelInv

(* A task event takes away no row.                                          *)
LEMMA UpdateKeeps ==
    ASSUME PanelInv, NEW run \in Runs, NEW t \in TaskIds, NEW status \in Reports, Update(run, t, status)
    PROVE  PanelInv'
<1>1. /\ PanelTypes /\ BarsOfPanels /\ RowsOfPanels /\ AnswersFit /\ PagesExist
      /\ \A r \in Processes \ disturbed : Undisturbed(r)
  BY DEF PanelInv
<1>2. /\ tasks' = [tasks EXCEPT ![run][t] = status]
      /\ updates' = updates + 1
      /\ UNCHANGED <<shownRun, expandedGroup, signals, panel, bar, requests, asked, disturbed>>
  BY DEF Update
<1>3. status \in Statuses /\ status # NoTask
  BY PanelAssumption DEF Statuses, NoTask
<1>4. /\ tasks' \in [Runs -> Tasks]
      /\ \A r \in Runs, u \in TaskIds : tasks[r][u] # NoTask => tasks'[r][u] # NoTask
  BY <1>1, <1>2, <1>3 DEF PanelTypes, Tasks
<1>5. updates \in Nat /\ updates' \in Nat /\ updates' > 0
  BY <1>1, <1>2 DEF PanelTypes
<1>6. PanelTypes'
  BY <1>1, <1>2, <1>4, <1>5 DEF PanelTypes
<1>7. BarsOfPanels'
  BY <1>1, <1>2, Zenon DEF BarsOfPanels, Loaded
<1>8. RowsOfPanels'
  <2> SUFFICES ASSUME NEW p \in Processes, Loaded(p) PROVE HasRow(shownRun, p)'
    BY <1>2 DEF RowsOfPanels, Loaded
  <2>1. HasRow(shownRun, p) /\ shownRun \in Runs
    BY <1>1 DEF RowsOfPanels, PanelTypes
  <2>2. CASE p \in ToSet(DagNodes)
    BY <2>2 DEF HasRow
  <2>3. CASE InProcess(tasks[shownRun], p) # {}
    <3>1. PICK u \in TaskIds : tasks[shownRun][u] # NoTask /\ ProcessOf[u] = p
      BY <2>3 DEF InProcess, Reported
    <3>2. tasks'[shownRun][u] # NoTask
      BY <1>4, <2>1, <3>1
    <3>3. u \in InProcess(tasks'[shownRun], p)
      BY <3>1, <3>2 DEF InProcess, Reported
    <3>4. QED BY <1>2, <3>3 DEF HasRow
  <2>4. QED BY <2>1, <2>2, <2>3 DEF HasRow
<1>9. \A p \in Processes : InFlight(p)' = InFlight(p)
  BY <1>2 DEF InFlight
<1>10. AnswersFit'
  BY <1>1, <1>2, <1>5, <1>9 DEF AnswersFit, Fits
<1>11. PagesExist'
  BY <1>5 DEF PagesExist
<1>12. \A p \in Processes \ disturbed' : Undisturbed(p)'
  BY <1>1, <1>2, <1>5, LeftAlone
<1>13. QED BY <1>6, <1>7, <1>8, <1>10, <1>11, <1>12 DEF PanelInv

(* No panel is filled at first.                                             *)
LEMMA PanelInvStarts == PanelInit => PanelInv
<1> SUFFICES ASSUME PanelInit PROVE PanelInv
  OBVIOUS
<1>1. /\ tasks \in FirstTasks /\ shownRun \in Runs /\ expandedGroup = None /\ signals = NoFilter
      /\ panel = [p \in Processes |-> Empty] /\ bar = [p \in Processes |-> None]
      /\ requests = [p \in Processes |-> [e \in Elements |-> NoRequest]]
      /\ asked = [p \in Processes |-> Nowhere] /\ disturbed = {} /\ updates = 0
  BY DEF PanelInit
<1>2. /\ NoFilter \in Filters /\ Nowhere \in Places /\ Empty \in Contents /\ NoRequest \in RequestStates
      /\ Empty.run = None /\ NoRequest.pc = "none"
  BY PlacesAndContents DEF Empty, Content, Nowhere, Place, NoRequest
<1>3. PanelTypes
  BY <1>1, <1>2, PanelAssumption DEF PanelTypes
<1>4. \A p \in Processes : ~Loaded(p) /\ bar[p] = None /\ InFlight(p) = {}
  BY <1>1, <1>2 DEF Loaded, InFlight
<1>5. BarsOfPanels /\ RowsOfPanels /\ AnswersFit /\ PagesExist /\ \A p \in Processes : Undisturbed(p)
  BY <1>4 DEF BarsOfPanels, RowsOfPanels, AnswersFit, PagesExist, Undisturbed
<1>6. QED BY <1>3, <1>5 DEF PanelInv

(* The invariant of the panels holds in every reachable state.              *)
THEOREM PanelsAreConsistent == PanelSpec => []PanelInv
<1>1. PanelInv /\ [PanelNext]_panelVars => PanelInv'
  <2> SUFFICES ASSUME PanelInv, [PanelNext]_panelVars PROVE PanelInv'
    OBVIOUS
  <2>1. CASE UNCHANGED panelVars
    <3>1. UNCHANGED <<tasks, shownRun, expandedGroup, signals, panel, bar, requests, asked, disturbed, updates>>
      BY <2>1 DEF panelVars
    <3>2. PanelTypes'
      BY <3>1, Zenon DEF PanelInv, PanelTypes
    <3>3. BarsOfPanels' /\ RowsOfPanels'
      BY <3>1, Zenon DEF PanelInv, BarsOfPanels, RowsOfPanels, Loaded, HasRow
    <3>4. AnswersFit' /\ PagesExist'
      BY <3>1, Zenon DEF PanelInv, AnswersFit, PagesExist, Loaded, InFlight, Fits, PagesFor
    <3>5. \A p \in Processes \ disturbed' : Undisturbed(p)'
      BY <3>1, LeftAlone DEF PanelInv
    <3>6. QED BY <3>2, <3>3, <3>4, <3>5 DEF PanelInv
  <2>2. CASE PanelNext
    <3>1. ASSUME NEW run \in Runs, NEW t \in TaskIds, NEW status \in Reports, Update(run, t, status)
          PROVE  PanelInv'
      BY <3>1, UpdateKeeps
    <3>2. ASSUME NEW run \in Runs, SelectRun(run) PROVE PanelInv'
      BY <3>2, SelectRunKeeps
    <3>3. ASSUME NEW p \in Processes, Poll(p) PROVE PanelInv'
      BY <3>3, PollKeeps
    <3>4. ASSUME NEW p \in Processes, NEW e \in Elements,
                 Toggle(p, e) \/ ChooseFilter(p, e) \/ TurnPage(p, e) \/ Answer(p, e) \/ Patch(p, e)
          PROVE  PanelInv'
      BY <3>4, ToggleKeeps, ChooseFilterKeeps, TurnPageKeeps, AnswerKeeps, PatchKeeps
    <3>5. QED BY <2>2, <3>1, <3>2, <3>3, <3>4, Zenon DEF PanelNext
  <2>3. QED BY <2>1, <2>2
<1>2. QED BY PanelInvStarts, <1>1, PTL DEF PanelSpec

(* Panels have the runs, filters, pages and tasks they may have, and a      *)
(* filter bar when they are filled.                                         *)
THEOREM PanelsAreTyped == PanelSpec => []PanelTypeOK
<1>1. PanelInv => PanelTypeOK
  <2> SUFFICES ASSUME PanelInv PROVE PanelTypeOK
    OBVIOUS
  <2>1. PanelTypes /\ BarsOfPanels
    BY DEF PanelInv
  <2>2. \A c \in Contents : ContentOK(c)
    BY DEF Contents, ContentOK
  <2>3. \A p \in Processes : panel[p] \in Contents
    BY <2>1 DEF PanelTypes
  <2>4. \A p \in Processes, e \in Elements :
          requests[p][e].pc \in {"none", "sent", "answered"} /\ requests[p][e].content \in Contents
    BY <2>1 DEF PanelTypes, RequestStates
  <2>5. QED BY <2>1, <2>2, <2>3, <2>4 DEF PanelTypeOK, PanelTypes, BarsOfPanels
<1>2. QED BY PanelsAreConsistent, <1>1, PTL

(* Polling keeps the user's place: a panel that awaits no answer shows what *)
(* the user asked for last, unless its requests overtook one another.       *)
THEOREM PanelsKeepThePlace == PanelSpec => []PanelShowsWhatWasAsked
<1>1. PanelInv => PanelShowsWhatWasAsked
  BY DEF PanelInv, Undisturbed, Fits, PanelShowsWhatWasAsked
<1>2. QED BY PanelsAreConsistent, <1>1, PTL

-----------------------------------------------------------------------------
(* Views. *)

(* The table has a row for each process of the layout or with tasks.        *)
LEMMA RowsListed ==
    ASSUME NEW now \in Tasks
    PROVE  LET rows == mergeDAGGroups(GroupedProcesses(now))
           IN  /\ Len(rows) = Cardinality(ToSet(rows))
               /\ IsFiniteSet(ToSet(rows))
               /\ ToSet(rows) = ToSet(DagNodes) \cup GroupedProcesses(now)
<1> DEFINE more == GroupedProcesses(now) \ ToSet(DagNodes)
           list == SetToSeq(more)
           rows == DagNodes \o list
<1>1. more \subseteq Processes /\ IsFiniteSet(more)
  <2>1. more \subseteq Processes
    BY DEF GroupedProcesses
  <2>2. QED BY <2>1, ViewAssumption, FS_Subset
<1>2. list \in Seq(more) /\ ToSet(list) = more /\ \A i, j \in DOMAIN list : list[i] = list[j] => i = j
  <2> HIDE DEF more
  <2>1. QED BY <1>1, ListedOnce
<1> HIDE DEF list
<1>3. DagNodes \in Seq(Processes) /\ list \in Seq(Processes)
  <2>1. list \in Seq(Processes)
    BY <1>1, <1>2
  <2>2. QED BY <2>1, ViewAssumption
<1>4. /\ rows \in Seq(Processes) /\ Len(rows) = Len(DagNodes) + Len(list)
      /\ \A i \in 1 .. Len(DagNodes) : rows[i] = DagNodes[i]
      /\ \A i \in 1 .. Len(list) : rows[Len(DagNodes) + i] = list[i]
  BY <1>3
<1> HIDE DEF rows
<1>5. /\ Len(DagNodes) \in Nat /\ Len(list) \in Nat
      /\ DOMAIN DagNodes = 1 .. Len(DagNodes) /\ DOMAIN list = 1 .. Len(list)
      /\ DOMAIN rows = 1 .. Len(rows)
  BY <1>3, <1>4
<1>6. \A k \in 1 .. Len(rows) : k \in 1 .. Len(DagNodes) \/ (k - Len(DagNodes) \in 1 .. Len(list) /\ rows[k] = list[k - Len(DagNodes)])
  BY <1>4, <1>5
<1>7. ToSet(rows) = ToSet(DagNodes) \cup more
  <2>1. \A k \in 1 .. Len(rows) : rows[k] \in ToSet(DagNodes) \cup ToSet(list)
    BY <1>4, <1>5, <1>6 DEF ToSet
  <2>2. \A i \in 1 .. Len(DagNodes) : DagNodes[i] \in ToSet(rows)
    <3> TAKE i \in 1 .. Len(DagNodes)
    <3>1. i \in 1 .. Len(rows)
      BY <1>4, <1>5
    <3>2. QED BY <1>4, <1>5, <3>1 DEF ToSet
  <2>3. \A i \in 1 .. Len(list) : list[i] \in ToSet(rows)
    <3> TAKE i \in 1 .. Len(list)
    <3>1. Len(DagNodes) + i \in 1 .. Len(rows)
      BY <1>4, <1>5
    <3>2. QED BY <1>4, <1>5, <3>1 DEF ToSet
  <2>4. ToSet(DagNodes) \cup ToSet(list) \subseteq ToSet(rows)
    BY <1>5, <2>2, <2>3 DEF ToSet
  <2>5. ToSet(rows) \subseteq ToSet(DagNodes) \cup ToSet(list)
    BY <1>5, <2>1 DEF ToSet
  <2>6. QED BY <1>2, <2>4, <2>5
<1>8. \A i, j \in 1 .. Len(rows) : rows[i] = rows[j] => i = j
  <2> SUFFICES ASSUME NEW i \in 1 .. Len(rows), NEW j \in 1 .. Len(rows), rows[i] = rows[j]
               PROVE  i = j
    OBVIOUS
  <2>1. \A k \in 1 .. Len(DagNodes) : rows[k] \in ToSet(DagNodes)
    BY <1>4, <1>5 DEF ToSet
  <2>2. \A k \in 1 .. Len(list) : list[k] \notin ToSet(DagNodes)
    BY <1>2, <1>5
  <2>3. CASE i \in 1 .. Len(DagNodes) /\ j \in 1 .. Len(DagNodes)
    BY <1>4, <1>5, <2>3, ViewAssumption
  <2>4. CASE i \notin 1 .. Len(DagNodes) /\ j \notin 1 .. Len(DagNodes)
    BY <1>2, <1>5, <1>6, <2>4
  <2>5. QED BY <1>6, <2>1, <2>2, <2>3, <2>4
<1>9. Len(rows) = Cardinality(ToSet(rows)) /\ IsFiniteSet(ToSet(rows))
  <2>1. rows \in Surjection(1 .. Len(rows), ToSet(rows))
    BY <1>4, <1>5 DEF Surjection, ToSet
  <2>2. rows \in Bijection(1 .. Len(rows), ToSet(rows))
    BY <1>8, <2>1 DEF Surjection, Bijection, Injection, IsInjective
  <2>3. ExistsBijection(1 .. Len(rows), ToSet(rows)) /\ Len(rows) \in Nat
    BY <1>4, <2>2 DEF ExistsBijection
  <2>4. QED BY <2>3, FS_CountingElements, FS_Bijection, FS_Interval
<1>10. QED BY <1>7, <1>9 DEF mergeDAGGroups, rows, list

(* The tasks of a run are finitely many, and so are those of a process.     *)
LEMMA TasksAreFinite ==
    ASSUME NEW now \in Tasks, NEW T \in SUBSET TaskIds
    PROVE  IsFiniteSet(T) /\ Cardinality(T) \in Nat /\ (Cardinality(T) > 0 <=> T # {})
<1>1. IsFiniteSet(T)
  BY ViewAssumption, FS_Subset
<1>2. QED BY <1>1, FS_CardinalityType, FS_EmptySet

(* Adding up, over the rows, how many of a set of tasks are of the row's    *)
(* process counts the set.                                                  *)
LEMMA RowsAddUp ==
    ASSUME NEW now \in Tasks, NEW X \in SUBSET Reported(now), NEW D, IsFiniteSet(D),
           GroupedProcesses(now) \subseteq D, NEW w, DOMAIN w = D,
           \A p \in D : w[p] = Cardinality({t \in X : ProcessOf[t] = p})
    PROVE  SumFunction(w) = Cardinality(X)
<1>1. IsFiniteSet(X)
  BY TasksAreFinite DEF Reported
<1>2. \A t \in X : ProcessOf[t] \in D
  <2> TAKE t \in X
  <2>1. t \in InProcess(now, ProcessOf[t]) /\ ProcessOf[t] \in Processes
    BY ViewAssumption DEF InProcess, Reported
  <2>2. QED BY <2>1 DEF GroupedProcesses
<1>3. \A p \in D : w[p] = Cardinality(Part(X, ProcessOf, {p}))
  <2> TAKE p \in D
  <2>1. Part(X, ProcessOf, {p}) = {t \in X : ProcessOf[t] = p}
    BY DEF Part
  <2>2. QED BY <2>1
<1>4. QED BY <1>1, <1>2, <1>3, SumByPlace

(* The dot of a row and the node of its process say the same.               *)
LEMMA DotsAgree ==
    ASSUME NEW now \in Tasks, NEW p
    PROVE  LET node == NodeStatus(now, p)
           IN  GroupDot(Group(now, p)) = IF node = "submitted" THEN "pending" ELSE node
<1> DEFINE ids == InProcess(now, p)
           g == Group(now, p)
           node == NodeStatus(now, p)
<1>1. ids \in SUBSET TaskIds
  BY DEF InProcess, Reported
<1>2. /\ g.failed \in Nat /\ (g.failed > 0 <=> \E t \in ids : now[t] = "FAILED")
      /\ g.running \in Nat /\ (g.running > 0 <=> \E t \in ids : now[t] = "RUNNING")
  <2> DEFINE of(s) == {t \in ids : now[t] = s}
  <2>1. of("FAILED") \in SUBSET TaskIds /\ of("RUNNING") \in SUBSET TaskIds
    BY <1>1
  <2>2. g.failed = Cardinality(of("FAILED")) /\ g.running = Cardinality(of("RUNNING"))
    BY DEF Group, With
  <2>3. (of("FAILED") # {} <=> \E t \in ids : now[t] = "FAILED") /\ (of("RUNNING") # {} <=> \E t \in ids : now[t] = "RUNNING")
    OBVIOUS
  <2> HIDE DEF of, g, ids
  <2>4. QED BY <2>1, <2>2, <2>3, TasksAreFinite
<1>3. /\ g.total \in Nat /\ (g.total > 0 <=> ids # {})
      /\ g.completed = g.total <=> \A t \in ids : taskCountsAsDone(now[t])
  <2> DEFINE done == {t \in ids : taskCountsAsDone(now[t])}
  <2>1. done \in SUBSET ids
    OBVIOUS
  <2>2. g.completed = Cardinality(done) /\ g.total = Cardinality(ids)
    BY DEF Group, Done
  <2>3. done = ids <=> \A t \in ids : taskCountsAsDone(now[t])
    OBVIOUS
  <2> HIDE DEF done, g, ids
  <2>4. IsFiniteSet(ids) /\ Cardinality(ids) \in Nat /\ (Cardinality(ids) > 0 <=> ids # {})
    BY <1>1, TasksAreFinite
  <2>5. Cardinality(ids) = Cardinality(done) <=> done = ids
    BY <2>1, <2>4, FS_Subset
  <2>6. QED BY <2>2, <2>3, <2>4, <2>5
<1>4. node = (CASE ids = {} -> "pending"
          [] \E t \in ids : now[t] = "FAILED" -> "failed"
          [] (\E t \in ids : now[t] = "RUNNING") /\ (\A t \in ids : now[t] # "FAILED") -> "running"
          [] ids # {} /\ (\A t \in ids : taskCountsAsDone(now[t])) -> "completed"
          [] OTHER -> "submitted")
  BY DEF NodeStatus
<1>5. GroupDot(g) = (CASE g.failed > 0 -> "failed"
      [] g.failed = 0 /\ g.running > 0 -> "running"
      [] g.failed = 0 /\ g.running = 0 /\ g.total > 0 /\ g.completed = g.total -> "completed"
      [] OTHER -> "pending")
  BY DEF GroupDot
<1>6. \A t \in ids : taskCountsAsDone(now[t]) => now[t] # "FAILED" /\ now[t] # "RUNNING"
  BY DEF taskCountsAsDone
<1> DEFINE dot == GroupDot(g)
<1> HIDE DEF g, ids, node, dot
<1>7. CASE ids = {}
  <2>1. node = "pending"
    BY <1>4, <1>7
  <2>2. g.failed = 0 /\ g.running = 0 /\ ~(g.total > 0)
    BY <1>2, <1>3, <1>7
  <2>3. dot = "pending"
    BY <1>5, <2>2 DEF dot
  <2>4. QED BY <2>1, <2>3 DEF dot, g, node
<1>8. CASE ids # {} /\ \E t \in ids : now[t] = "FAILED"
  <2>1. node = "failed"
    BY <1>4, <1>6, <1>8
  <2>2. g.failed > 0 /\ g.failed # 0
    BY <1>2, <1>8
  <2>3. dot = "failed"
    BY <1>5, <2>2 DEF dot
  <2>4. QED BY <2>1, <2>3 DEF dot, g, node
<1>9. CASE ids # {} /\ (\A t \in ids : now[t] # "FAILED") /\ \E t \in ids : now[t] = "RUNNING"
  <2>1. node = "running"
    BY <1>4, <1>6, <1>9
  <2>2. g.failed = 0 /\ ~(g.failed > 0) /\ g.running > 0 /\ g.running # 0
    BY <1>2, <1>9
  <2>3. dot = "running"
    BY <1>5, <2>2 DEF dot
  <2>4. QED BY <2>1, <2>3 DEF dot, g, node
<1>10. CASE ids # {} /\ (\A t \in ids : now[t] # "FAILED" /\ now[t] # "RUNNING")
            /\ \A t \in ids : taskCountsAsDone(now[t])
  <2>1. node = "completed"
    BY <1>4, <1>10
  <2>2. g.failed = 0 /\ ~(g.failed > 0) /\ g.running = 0 /\ ~(g.running > 0) /\ g.total > 0 /\ g.completed = g.total
    BY <1>2, <1>3, <1>10
  <2>3. dot = "completed"
    BY <1>5, <2>2 DEF dot
  <2>4. QED BY <2>1, <2>3 DEF dot, g, node
<1>11. CASE ids # {} /\ (\A t \in ids : now[t] # "FAILED" /\ now[t] # "RUNNING")
            /\ ~(\A t \in ids : taskCountsAsDone(now[t]))
  <2>1. node = "submitted"
    BY <1>4, <1>11
  <2>2. g.failed = 0 /\ ~(g.failed > 0) /\ g.running = 0 /\ ~(g.running > 0) /\ g.completed # g.total
    BY <1>2, <1>3, <1>11
  <2>3. dot = "pending"
    BY <1>5, <2>2 DEF dot
  <2>4. QED BY <2>1, <2>3 DEF dot, g, node
<1>12. QED BY <1>7, <1>8, <1>9, <1>10, <1>11, Zenon

(* The views of the tasks of a run agree.                                   *)
LEMMA ViewsOfARun ==
    ASSUME NEW now \in Tasks
    PROVE  LET rows == mergeDAGGroups(GroupedProcesses(now))
               over(count) == SumFunction([p \in ToSet(rows) |-> Group(now, p)[count]])
           IN  /\ Len(rows) = Cardinality(ToSet(rows))
               /\ Progress(now) = <<over("completed"), over("total")>>
               /\ Progress(now)[1] = Summary(now)["COMPLETED"] + Summary(now)["CACHED"]
               /\ Summary(now)["FAILED"] = over("failed")
<1> DEFINE rows == mergeDAGGroups(GroupedProcesses(now))
           D == ToSet(rows)
           all == Reported(now)
           weight(count) == [p \in D |-> Group(now, p)[count]]
           of(s) == {t \in all : now[t] = s}
           done == {t \in all : taskCountsAsDone(now[t])}
<1>1. Len(rows) = Cardinality(D) /\ IsFiniteSet(D) /\ GroupedProcesses(now) \subseteq D
  BY RowsListed
<1> HIDE DEF rows
<1>2. SumFunction(weight("total")) = Cardinality(all)
  <2> DEFINE w == weight("total")
  <2>1. \A p \in D : w[p] = Cardinality({t \in all : ProcessOf[t] = p})
    BY DEF Group, InProcess
  <2>2. DOMAIN w = D
    OBVIOUS
  <2> HIDE DEF w, D, all
  <2>3. all \in SUBSET Reported(now)
    BY DEF all
  <2>4. QED BY <1>1, <2>1, <2>2, <2>3, RowsAddUp DEF w
<1>3. SumFunction(weight("completed")) = Cardinality(done)
  <2> DEFINE w == weight("completed")
  <2>1. ASSUME NEW p \in D PROVE w[p] = Cardinality({t \in done : ProcessOf[t] = p})
    <3>1. {t \in InProcess(now, p) : taskCountsAsDone(now[t])} = {t \in done : ProcessOf[t] = p}
      BY DEF InProcess
    <3>2. QED BY <3>1 DEF Group, Done
  <2>2. DOMAIN w = D
    OBVIOUS
  <2>3. done \in SUBSET Reported(now)
    OBVIOUS
  <2> HIDE DEF w, D, done
  <2>4. QED BY <1>1, <2>1, <2>2, <2>3, RowsAddUp DEF w
<1>4. SumFunction(weight("failed")) = Cardinality(of("FAILED"))
  <2> DEFINE w == weight("failed")
             failed == of("FAILED")
  <2>1. ASSUME NEW p \in D PROVE w[p] = Cardinality({t \in failed : ProcessOf[t] = p})
    <3>1. {t \in InProcess(now, p) : now[t] = "FAILED"} = {t \in failed : ProcessOf[t] = p}
      BY DEF InProcess
    <3>2. QED BY <3>1 DEF Group, With
  <2>2. DOMAIN w = D
    OBVIOUS
  <2>3. failed \in SUBSET Reported(now)
    OBVIOUS
  <2> HIDE DEF w, D, failed
  <2>4. QED BY <1>1, <2>1, <2>2, <2>3, RowsAddUp DEF w, failed
<1>5. Cardinality(done) = Cardinality(of("COMPLETED")) + Cardinality(of("CACHED"))
  <2> DEFINE completed == of("COMPLETED")
             cached == of("CACHED")
  <2>1. done = completed \cup cached /\ completed \cap cached = {}
    BY DEF taskCountsAsDone
  <2>2. completed \in SUBSET TaskIds /\ cached \in SUBSET TaskIds
    BY DEF Reported
  <2> HIDE DEF completed, cached
  <2>3. IsFiniteSet(completed) /\ IsFiniteSet(cached) /\ Cardinality(completed) \in Nat /\ Cardinality(cached) \in Nat
    BY <2>2, TasksAreFinite
  <2>4. Cardinality(completed \cup cached) = Cardinality(completed) + Cardinality(cached) - Cardinality(completed \cap cached)
    BY <2>3, FS_Union
  <2>5. Cardinality(completed \cap cached) = 0
    BY <2>1, FS_EmptySet
  <2>6. Cardinality(completed \cup cached) = Cardinality(completed) + Cardinality(cached)
    BY <2>3, <2>4, <2>5
  <2>7. QED BY <2>1, <2>6 DEF completed, cached
<1>6. /\ Progress(now) = <<Cardinality(done), Cardinality(all)>>
      /\ Summary(now)["COMPLETED"] = Cardinality(of("COMPLETED"))
      /\ Summary(now)["CACHED"] = Cardinality(of("CACHED"))
      /\ Summary(now)["FAILED"] = Cardinality(of("FAILED"))
  BY DEF Progress, Done, Summary, With
<1>7. Progress(now)[1] = Cardinality(done)
  BY <1>6
<1> HIDE DEF done, of, all
<1>8. QED BY <1>1, <1>2, <1>3, <1>4, <1>5, <1>6, <1>7 DEF rows

(* The groups, nodes, progress bar and summary agree in every state whose   *)
(* tasks are tasks.                                                         *)
LEMMA RunsAgree == tasks \in [Runs -> Tasks] => ViewsAgree
<1> SUFFICES ASSUME tasks \in [Runs -> Tasks], NEW run \in Runs
             PROVE  LET now == tasks[run]
                        rows == mergeDAGGroups(GroupedProcesses(now))
                        over(count) == SumFunction([p \in ToSet(rows) |-> Group(now, p)[count]])
                    IN  /\ Len(rows) = Cardinality(ToSet(rows))
                        /\ Progress(now) = <<over("completed"), over("total")>>
                        /\ Progress(now)[1] = Summary(now)["COMPLETED"] + Summary(now)["CACHED"]
                        /\ Summary(now)["FAILED"] = over("failed")
                        /\ \A p \in ToSet(rows) :
                             LET dot == GroupDot(Group(now, p)) node == NodeStatus(now, p)
                             IN  dot = IF node = "submitted" THEN "pending" ELSE node
  BY DEF ViewsAgree
<1>1. tasks[run] \in Tasks
  OBVIOUS
<1>2. QED BY ONLY <1>1, ViewsOfARun, DotsAgree, Zenon

(* Whatever tasks the runs have, the rows of the process table, the nodes   *)
(* of the DAG, the progress bar and the summary of a run tell the same.     *)
THEOREM PagesAgree == PanelSpec => []ViewsAgree
<1>1. PanelTypeOK => ViewsAgree
  BY RunsAgree DEF PanelTypeOK
<1>2. QED BY PanelsAreTyped, <1>1, PTL

=============================================================================
