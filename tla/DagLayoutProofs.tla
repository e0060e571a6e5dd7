--------------------------- MODULE DagLayoutProofs ---------------------------
(***************************************************************************)
(* Proofs about DagLayout, for every dot file with any number of nodes,    *)
(* edges and labels, any cycles, and any order of the searches.            *)
(***************************************************************************)
EXTENDS DagLayout, SequenceLemmas

-----------------------------------------------------------------------------
(* The file. *)

(* What the type of the file says of its nodes and labels.                  *)
LEMMA FileFields ==
    ASSUME dot \in DotFiles
    PROVE  /\ \A n \in ProcessNodes : n \in NodeIds /\ n # NoNode /\ Label(n) \in Labels
           /\ Processes \subseteq Labels /\ IsFiniteSet(Processes)
           /\ \A n \in NodeIds : adj(n) \in Seq(NodeIds)
<1>1. dot \in DotFile /\ DOMAIN dot.nodes \subseteq NodeIds
  BY DotAssumption
<1>2. \A n \in DOMAIN dot.nodes : dot.nodes[n] \in DotNode
  BY <1>1 DEF DotFile
<1>3. \A n \in ProcessNodes : n \in NodeIds /\ n # NoNode /\ Label(n) \in Labels
  BY <1>1, <1>2, DotAssumption DEF ProcessNodes, isProcessNode, Label, DotNode
<1>4. Processes \subseteq Labels
  BY <1>3 DEF Processes
<1>5. IsFiniteSet(Processes)
  BY <1>4, FS_Subset, DotAssumption
<1>6. \A n \in NodeIds : adj(n) \in Seq(NodeIds)
  BY <1>1 DEF DotFile, adj
<1>7. QED BY <1>3, <1>4, <1>5, <1>6

(* The dependencies of a process are finitely many.                         *)
LEMMA ParentsFinite ==
    ASSUME dot \in DotFiles, NEW p
    PROVE  Parents(p) \subseteq Processes /\ IsFiniteSet(Parents(p))
  BY FileFields, FS_Subset DEF Parents

(* Members of a queue.                                                      *)
In(x, q) == \E i \in DOMAIN q : q[i] = x

(* A queue without its head.                                                *)
LEMMA InTail ==
    ASSUME NEW S, NEW q \in Seq(S), q # <<>>, NEW x
    PROVE  /\ Head(q) \in S /\ Tail(q) \in Seq(S)
           /\ In(x, q) <=> x = Head(q) \/ In(x, Tail(q))
<1>1. /\ Head(q) \in S /\ Tail(q) \in Seq(S) /\ Head(q) = q[1]
      /\ Len(q) \in Nat /\ Len(q) > 0 /\ DOMAIN q = 1 .. Len(q)
      /\ DOMAIN Tail(q) = 1 .. Len(q) - 1
      /\ \A i \in 1 .. Len(q) - 1 : Tail(q)[i] = q[i + 1]
  OBVIOUS
<1>2. In(x, q) => x = Head(q) \/ In(x, Tail(q))
  <2> SUFFICES ASSUME NEW i \in DOMAIN q, q[i] = x, i # 1
               PROVE  In(x, Tail(q))
    BY <1>1 DEF In
  <2>1. i - 1 \in 1 .. Len(q) - 1 /\ Tail(q)[i - 1] = x
    BY <1>1
  <2>2. QED BY <1>1, <2>1 DEF In
<1>3. x = Head(q) => In(x, q)
  BY <1>1 DEF In
<1>4. In(x, Tail(q)) => In(x, q)
  <2> SUFFICES ASSUME NEW i \in DOMAIN Tail(q), Tail(q)[i] = x
               PROVE  In(x, q)
    BY DEF In
  <2>1. i + 1 \in DOMAIN q /\ q[i + 1] = x
    BY <1>1
  <2>2. QED BY <2>1 DEF In
<1>5. QED BY <1>1, <1>2, <1>3, <1>4

(* Two queues in a row.                                                     *)
LEMMA InConcat ==
    ASSUME NEW S, NEW p \in Seq(S), NEW q \in Seq(S), NEW x
    PROVE  p \o q \in Seq(S) /\ (In(x, p \o q) <=> In(x, p) \/ In(x, q))
<1>1. /\ p \o q \in Seq(S) /\ Len(p) \in Nat /\ Len(q) \in Nat
      /\ DOMAIN p = 1 .. Len(p) /\ DOMAIN q = 1 .. Len(q)
      /\ DOMAIN (p \o q) = 1 .. Len(p) + Len(q)
      /\ \A i \in 1 .. Len(p) + Len(q) :
           (p \o q)[i] = IF i <= Len(p) THEN p[i] ELSE q[i - Len(p)]
  OBVIOUS
<1>2. In(x, p) => In(x, p \o q)
  BY <1>1 DEF In
<1>3. In(x, q) => In(x, p \o q)
  <2> SUFFICES ASSUME NEW i \in DOMAIN q, q[i] = x
               PROVE  In(x, p \o q)
    BY DEF In
  <2>1. i + Len(p) \in DOMAIN (p \o q) /\ (p \o q)[i + Len(p)] = x
    BY <1>1
  <2>2. QED BY <2>1 DEF In
<1>4. In(x, p \o q) => In(x, p) \/ In(x, q)
  <2> SUFFICES ASSUME NEW i \in DOMAIN (p \o q), (p \o q)[i] = x
               PROVE  In(x, p) \/ In(x, q)
    BY DEF In
  <2>1. CASE i <= Len(p)
    BY <1>1, <2>1 DEF In
  <2>2. CASE i > Len(p)
    <3>1. i - Len(p) \in DOMAIN q /\ q[i - Len(p)] = x
      BY <1>1, <2>2
    <3>2. QED BY <3>1 DEF In
  <2>3. QED BY <1>1, <2>1, <2>2
<1>5. QED BY <1>1, <1>2, <1>3, <1>4

-----------------------------------------------------------------------------
(* The invariant. *)

(* Types, and which variables are still as they were at first.              *)
Base ==
    /\ DagTypeOK /\ dot \in DotFiles
    /\ edges \subseteq Processes \X Processes
    /\ ready \subseteq Processes
    /\ Sorted \subseteq Processes
    /\ DOMAIN layers \subseteq Sorted
    /\ phase = "edges" => sorted = <<>>
    /\ phase \notin {"layers", "done"} => DOMAIN layers = {}
    /\ phase # "edges" => sources = {} /\ source = NoNode

(* The dependencies found are dependencies, those of every source searched  *)
(* are found, and a search under way has found those it has visited and has *)
(* queued what comes next.                                                  *)
Searched == ProcessNodes \ (sources \cup {source})

SearchInv ==
    /\ edges \subseteq Dependencies
    /\ \A s \in Searched : \A n \in ProcessNodes :
         n # s /\ n \in Reachable(s) => <<Label(s), Label(n)>> \in edges
    /\ source # NoNode =>
         /\ source \in visited
         /\ \A n \in NodeIds : In(n, queue) => n \in Reachable(source)
         /\ \A n \in visited : n # source => n \in Reachable(source)
         /\ \A n \in visited \cap ProcessNodes :
              n # source => <<Label(source), Label(n)>> \in edges
         /\ \A m, n \in NodeIds :
              HasEdge(m, n) /\ (m = source \/ (m \in visited /\ ~isProcessNode(m)))
                => n \in visited \/ In(n, queue)

(* In-degrees count the dependencies that are not sorted yet, the ready     *)
(* processes are those without any, and each sorted process came after its  *)
(* dependencies and was the earliest ready one.                             *)
SortInv ==
    /\ \A i, j \in DOMAIN sorted : sorted[i] = sorted[j] => i = j
    /\ phase # "edges" =>
         /\ \A p \in Processes : inDeg[p] = Cardinality(Parents(p) \ Sorted)
         /\ ready = {p \in Processes \ Sorted : Parents(p) \subseteq Sorted}
    /\ \A i \in DOMAIN sorted : Parents(sorted[i]) \subseteq SortedBefore(i)
    /\ StableOrder
    /\ phase \in {"layers", "done"} => Sorted = Processes
    /\ phase = "cycle" => ready = {} /\ Sorted # Processes

(* A process has a layer after its dependencies, and right below the lowest.*)
LayerInv ==
    /\ \A p \in DOMAIN layers : Parents(p) \subseteq DOMAIN layers
    /\ \A p \in DOMAIN layers : \A q \in Parents(p) : layers[q] < layers[p]
    /\ \A p \in DOMAIN layers :
         layers[p] > 0 => \E q \in Parents(p) : layers[q] = layers[p] - 1
    /\ phase = "done" => Sorted \subseteq DOMAIN layers

DagInv == Base /\ SearchInv /\ SortInv /\ LayerInv

-----------------------------------------------------------------------------
(* What a step leaves alone. *)

(* The file does not change.                                                *)
LEMMA DotUnchanged == [DagNext]_dagVars => dot' = dot
  BY DEF DagNext, dagVars, Search, Visit, EndSearch, StartSort, Pick, EndSort, AssignLayer,
         EndLayers, Finished

(* Nor does what is defined by it alone.                                    *)
LEMMA SameDot ==
    ASSUME dot' = dot
    PROVE  /\ ProcessNodes' = ProcessNodes /\ Processes' = Processes
           /\ Dependencies' = Dependencies
           /\ \A n : isProcessNode(n)' = isProcessNode(n)
           /\ \A n : Label(n)' = Label(n)
           /\ \A n : adj(n)' = adj(n)
           /\ \A p : posOf(p)' = posOf(p)
           /\ \A s : Reachable(s)' = Reachable(s)
           /\ \A m, n : HasEdge(m, n)' = HasEdge(m, n)
  BY DEF ProcessNodes, Processes, isProcessNode, Label, adj, posOf, Reachable, ClosedFrom,
         HasEdge, Dependencies

(* Nor, while the dependencies are the same, what is defined by them.       *)
LEMMA SameEdges ==
    ASSUME dot' = dot, edges' = edges
    PROVE  \A p : Parents(p)' = Parents(p) /\ Children(p)' = Children(p)
  BY SameDot DEF Parents, Children

(* Nor, while the order is the same, the sets of sorted processes.          *)
LEMMA SameSorted ==
    ASSUME sorted' = sorted
    PROVE  Sorted' = Sorted /\ \A i : SortedBefore(i)' = SortedBefore(i)
  BY DEF Sorted, SortedBefore

(* A step that leaves the search alone keeps what is known of it.           *)
LEMMA SearchUnchanged ==
    ASSUME SearchInv, dot' = dot, UNCHANGED <<sources, source, queue, visited, edges>>
    PROVE  SearchInv'
<1>1. Searched' = Searched /\ \A n : In(n, queue)' <=> In(n, queue)
  BY SameDot DEF Searched, In
<1>2. QED BY <1>1, SameDot DEF SearchInv

(* And one that leaves the sort alone, what is known of the sort.           *)
LEMMA SortUnchanged ==
    ASSUME SortInv, dot' = dot, UNCHANGED <<phase, edges, inDeg, ready, sorted>>
    PROVE  SortInv'
  BY SameDot, SameEdges, SameSorted DEF SortInv, StableOrder

(* And one that leaves the layers alone, what is known of them.             *)
LEMMA LayersUnchanged ==
    ASSUME LayerInv, dot' = dot, UNCHANGED <<edges, sorted, layers>>, phase' # "done" \/ phase' = phase
    PROVE  LayerInv'
  BY SameDot, SameEdges, SameSorted DEF LayerInv

(* Before the layers nothing has one.                                       *)
LEMMA NoLayers ==
    ASSUME Base, phase \notin {"layers", "done"}, UNCHANGED layers, phase' # "done"
    PROVE  LayerInv' /\ DOMAIN layers' = {}
  BY DEF Base, LayerInv

(* Before the sort nothing is sorted.                                       *)
LEMMA NothingSorted ==
    ASSUME Base, phase = "edges", UNCHANGED sorted, phase' = "edges"
    PROVE  SortInv' /\ Sorted' = {}
<1>1. sorted' = <<>> /\ DOMAIN sorted' = {}
  BY DEF Base
<1>2. QED BY <1>1 DEF SortInv, StableOrder, Sorted

-----------------------------------------------------------------------------
(* The search. *)

(* The targets of the source are reachable, and so are those of reachable   *)
(* operators.                                                               *)
LEMMA ReachableSteps ==
    ASSUME NEW s, NEW n \in NodeIds
    PROVE  /\ HasEdge(s, n) /\ s \in NodeIds => n \in Reachable(s)
           /\ \A m \in Reachable(s) : ~isProcessNode(m) /\ HasEdge(m, n) => n \in Reachable(s)
  BY DEF Reachable, ClosedFrom

(* What is reachable is in every closed set.                                *)
LEMMA ReachableLeast ==
    ASSUME NEW s, NEW C \in SUBSET NodeIds, ClosedFrom(s, C)
    PROVE  Reachable(s) \subseteq C
  BY DEF Reachable

(* A process that another reaches depends on it.                            *)
LEMMA DependencyIntro ==
    ASSUME NEW s \in ProcessNodes, NEW n \in ProcessNodes, n # s, n \in Reachable(s)
    PROVE  <<Label(s), Label(n)>> \in Dependencies
  BY DEF Dependencies

(* And every dependency is of that form.                                    *)
LEMMA DependencyElim ==
    ASSUME NEW e \in Dependencies
    PROVE  \E s, n \in ProcessNodes : n # s /\ n \in Reachable(s) /\ e = <<Label(s), Label(n)>>
  BY DEF Dependencies

(* Dependencies are between processes.                                      *)
LEMMA DependencyType == Dependencies \subseteq Processes \X Processes
  BY DependencyElim DEF Processes

(* A search starts with the targets of its source in the queue.             *)
LEMMA SearchStartStep ==
    ASSUME DagInv, NEW s \in NodeIds, Search(s)
    PROVE  SearchInv'
<1>1. /\ dot' = dot /\ edges' = edges /\ sources' = sources \ {s} /\ source' = s
      /\ queue' = adj(s) /\ visited' = {s} /\ s \in sources /\ source = NoNode
  BY DEF Search
<1>2. s \in ProcessNodes
  BY <1>1 DEF DagInv, Base, DagTypeOK
<1>3. \A n : In(n, queue') <=> HasEdge(s, n)
  BY <1>1 DEF In, HasEdge
<1>4. \A n \in NodeIds : In(n, queue') => n \in Reachable(s)
  BY <1>3, ReachableSteps
<1>5. isProcessNode(s)
  BY <1>2 DEF ProcessNodes
<1>6. Searched' \subseteq Searched
  <2>1. \A n \in ProcessNodes : n # NoNode
    BY FileFields DEF DagInv, Base, DagTypeOK
  <2>2. QED BY <1>1, <2>1, SameDot DEF Searched
<1>7. \A n : In(n, queue)' <=> In(n, queue')
  BY DEF In
<1>8. QED BY <1>1, <1>3, <1>4, <1>5, <1>6, <1>7, SameDot DEF SearchInv, DagInv

(* A node already visited only leaves the queue.                            *)
LEMMA VisitAgainStep ==
    ASSUME DagInv, Visit, Head(queue) \in visited
    PROVE  SearchInv'
<1>1. /\ dot' = dot /\ queue' = Tail(queue) /\ queue # <<>> /\ source # NoNode
      /\ UNCHANGED <<sources, source, visited, edges>>
  BY DEF Visit
<1>2. \A n : In(n, queue) <=> n = Head(queue) \/ In(n, queue')
  BY <1>1, InTail DEF DagInv, Base, DagTypeOK
<1>3. Searched' = Searched /\ \A n : In(n, queue)' <=> In(n, queue')
  BY <1>1, SameDot DEF Searched, In
<1>4. QED BY <1>1, <1>2, <1>3, SameDot DEF SearchInv, DagInv

(* A process that is reached gives a dependency and ends the path.          *)
LEMMA VisitProcessStep ==
    ASSUME DagInv, Visit, Head(queue) \notin visited, isProcessNode(Head(queue))
    PROVE  SearchInv'
<1> DEFINE h == Head(queue)
<1>1. /\ dot' = dot /\ queue' = Tail(queue) /\ queue # <<>> /\ source # NoNode
      /\ visited' = visited \cup {h} /\ edges' = edges \cup {<<Label(source), Label(h)>>}
      /\ UNCHANGED <<sources, source>>
  BY DEF Visit, Reach
<1>2. h \in NodeIds /\ \A n : In(n, queue) <=> n = h \/ In(n, queue')
  BY <1>1, InTail DEF DagInv, Base, DagTypeOK
<1>3. Searched' = Searched /\ \A n : In(n, queue)' <=> In(n, queue')
  BY <1>1, SameDot DEF Searched, In
<1>4. source \in ProcessNodes /\ h \in ProcessNodes /\ h # source /\ h \in Reachable(source)
  BY <1>1, <1>2 DEF DagInv, Base, DagTypeOK, SearchInv, ProcessNodes, isProcessNode
<1>5. <<Label(source), Label(h)>> \in Dependencies
  BY <1>4, DependencyIntro
<1>6. ProcessNodes' = ProcessNodes /\ Dependencies' = Dependencies
      /\ (\A n : isProcessNode(n)' = isProcessNode(n)) /\ (\A n : Label(n)' = Label(n))
      /\ (\A s : Reachable(s)' = Reachable(s)) /\ (\A m, n : HasEdge(m, n)' = HasEdge(m, n))
  BY <1>1, SameDot
<1> HIDE DEF h
<1>7. edges' \subseteq Dependencies
  BY <1>1, <1>5 DEF SearchInv, DagInv
<1>8. \A s \in Searched : \A n \in ProcessNodes :
         n # s /\ n \in Reachable(s) => <<Label(s), Label(n)>> \in edges'
  BY <1>1 DEF SearchInv, DagInv
<1>9. \A n \in visited' : n # source => n \in Reachable(source)
  BY <1>1, <1>4 DEF SearchInv, DagInv
<1>10. \A n \in visited' \cap ProcessNodes : n # source => <<Label(source), Label(n)>> \in edges'
  BY <1>1 DEF SearchInv, DagInv
<1>11. \A m, n \in NodeIds :
          HasEdge(m, n) /\ (m = source \/ (m \in visited' /\ ~isProcessNode(m)))
            => n \in visited' \/ In(n, queue')
  <2>1. isProcessNode(h)
    BY DEF h
  <2>2. QED BY <1>1, <1>2, <2>1 DEF SearchInv, DagInv
<1>12. \A n \in NodeIds : In(n, queue') => n \in Reachable(source)
  BY <1>1, <1>2 DEF SearchInv, DagInv
<1>13. source \in visited'
  BY <1>1 DEF SearchInv, DagInv
<1>14. QED BY <1>1, <1>3, <1>6, <1>7, <1>8, <1>9, <1>10, <1>11, <1>12, <1>13 DEF SearchInv

(* An operator that is reached leads on to its targets.                     *)
LEMMA VisitOperatorStep ==
    ASSUME DagInv, Visit, Head(queue) \notin visited, ~isProcessNode(Head(queue))
    PROVE  SearchInv'
<1> DEFINE h == Head(queue)
<1>1. /\ dot' = dot /\ queue' = Tail(queue) \o adj(h) /\ queue # <<>> /\ source # NoNode
      /\ visited' = visited \cup {h} /\ edges' = edges
      /\ UNCHANGED <<sources, source>>
  BY DEF Visit, Reach
<1>2. /\ h \in NodeIds /\ Tail(queue) \in Seq(NodeIds)
      /\ \A n : In(n, queue) <=> n = h \/ In(n, Tail(queue))
  BY <1>1, InTail DEF DagInv, Base, DagTypeOK
<1>3. adj(h) \in Seq(NodeIds)
  BY <1>2, FileFields DEF DagInv, Base, DagTypeOK
<1>4. \A n : In(n, queue') <=> In(n, Tail(queue)) \/ HasEdge(h, n)
  <2>1. \A n : In(n, adj(h)) <=> HasEdge(h, n)
    BY DEF In, HasEdge
  <2>2. QED BY <1>1, <1>2, <1>3, <2>1, InConcat
<1>5. Searched' = Searched /\ \A n : In(n, queue)' <=> In(n, queue')
  BY <1>1, SameDot DEF Searched, In
<1>6. h \in Reachable(source) /\ ~isProcessNode(h)
  BY <1>1, <1>2 DEF DagInv, SearchInv
<1>7. ProcessNodes' = ProcessNodes /\ Dependencies' = Dependencies
      /\ (\A n : isProcessNode(n)' = isProcessNode(n)) /\ (\A n : Label(n)' = Label(n))
      /\ (\A s : Reachable(s)' = Reachable(s)) /\ (\A m, n : HasEdge(m, n)' = HasEdge(m, n))
  BY <1>1, SameDot
<1> HIDE DEF h
<1>8. \A n \in NodeIds : In(n, queue') => n \in Reachable(source)
  BY <1>1, <1>2, <1>4, <1>6, ReachableSteps DEF DagInv, SearchInv
<1>9. \A n \in visited' : n # source => n \in Reachable(source)
  BY <1>1, <1>6 DEF SearchInv, DagInv
<1>10. \A n \in visited' \cap ProcessNodes : n # source => <<Label(source), Label(n)>> \in edges
  BY <1>1, <1>6 DEF SearchInv, DagInv, ProcessNodes
<1>11. \A m, n \in NodeIds :
          HasEdge(m, n) /\ (m = source \/ (m \in visited' /\ ~isProcessNode(m)))
            => n \in visited' \/ In(n, queue')
  BY <1>1, <1>2, <1>4 DEF SearchInv, DagInv
<1>12. source \in visited'
  BY <1>1 DEF SearchInv, DagInv
<1>13. QED BY <1>1, <1>5, <1>7, <1>8, <1>9, <1>10, <1>11, <1>12 DEF SearchInv, DagInv

(* With an empty queue, the visited nodes are closed: all the dependencies  *)
(* of the source are found.                                                 *)
LEMMA SearchEndStep ==
    ASSUME DagInv, EndSearch
    PROVE  SearchInv'
<1>1. /\ dot' = dot /\ queue = <<>> /\ source # NoNode /\ source' = NoNode
      /\ UNCHANGED <<sources, queue, edges>>
  BY DEF EndSearch
<1>2. \A n : ~In(n, queue)
  BY <1>1 DEF In
<1>3. source \in ProcessNodes /\ visited \subseteq NodeIds
  BY <1>1 DEF DagInv, Base, DagTypeOK
<1>4. ClosedFrom(source, visited)
  BY <1>1, <1>2, <1>3 DEF ClosedFrom, DagInv, SearchInv
<1>5. Reachable(source) \subseteq visited
  BY <1>3, <1>4, ReachableLeast
<1>6. \A n \in ProcessNodes :
        n # source /\ n \in Reachable(source) => <<Label(source), Label(n)>> \in edges
  BY <1>1, <1>5 DEF DagInv, SearchInv
<1>7. \A s \in Searched' : s \in Searched \/ s = source
  BY <1>1, SameDot DEF Searched
<1>8. QED BY <1>1, <1>6, <1>7, SameDot DEF SearchInv, DagInv

-----------------------------------------------------------------------------
(* The sort. *)

(* At first nothing is sorted and the processes without dependencies are    *)
(* ready.                                                                   *)
LEMMA StartSortStep ==
    ASSUME DagInv, StartSort
    PROVE  SortInv'
<1>1. /\ dot' = dot /\ edges' = edges /\ sorted' = sorted /\ sorted = <<>> /\ phase' = "sort"
      /\ inDeg' = [p \in Processes |-> Cardinality(Parents(p))]
      /\ ready' = {p \in Processes : Parents(p) = {}}
  BY DEF StartSort, DagInv, Base
<1>2. Sorted' = {} /\ DOMAIN sorted' = {}
  BY <1>1 DEF Sorted
<1>3. Processes' = Processes /\ \A p : Parents(p)' = Parents(p)
  BY <1>1, SameDot, SameEdges
<1>4. \A p \in Processes : inDeg'[p] = Cardinality(Parents(p) \ {})
  <2>1. \A p : Parents(p) \ {} = Parents(p)
    OBVIOUS
  <2>2. QED BY <1>1, <2>1
<1>5. ready' = {p \in Processes \ {} : Parents(p) \subseteq {}}
  BY <1>1
<1>6. QED BY <1>1, <1>2, <1>3, <1>4, <1>5 DEF SortInv, StableOrder

(* What appending a process does to the sets of sorted ones.                *)
LEMMA AppendSorted ==
    ASSUME NEW S, sorted \in Seq(S), NEW p \in S, sorted' = Append(sorted, p),
           NEW k \in Nat, k = Len(sorted) + 1
    PROVE  /\ Sorted' = Sorted \cup {p}
           /\ DOMAIN sorted' = DOMAIN sorted \cup {k}
           /\ sorted'[k] = p
           /\ \A i \in DOMAIN sorted : sorted'[i] = sorted[i] /\ i # k
           /\ \A i \in DOMAIN sorted : SortedBefore(i)' = SortedBefore(i)
           /\ SortedBefore(k)' = Sorted
<1>1. /\ Len(sorted) \in Nat /\ DOMAIN sorted = 1 .. Len(sorted)
      /\ DOMAIN sorted' = 1 .. k
      /\ sorted'[k] = p
      /\ \A i \in 1 .. Len(sorted) : sorted'[i] = sorted[i]
  OBVIOUS
<1>2. DOMAIN sorted' = DOMAIN sorted \cup {k}
  BY <1>1
<1>3. Sorted' = Sorted \cup {p}
  BY <1>1, <1>2 DEF Sorted
<1>4. ASSUME NEW i \in DOMAIN sorted
      PROVE  SortedBefore(i)' = SortedBefore(i)
  <2>1. \A j \in 1 .. i - 1 : sorted'[j] = sorted[j]
    BY <1>1
  <2>2. QED BY <2>1 DEF SortedBefore
<1>5. SortedBefore(k)' = Sorted
  <2>1. \A j \in 1 .. k - 1 : sorted'[j] = sorted[j]
    BY <1>1
  <2>2. 1 .. k - 1 = DOMAIN sorted
    BY <1>1
  <2>3. QED BY <2>1, <2>2 DEF SortedBefore, Sorted
<1>6. QED BY <1>1, <1>2, <1>3, <1>4, <1>5

(* The picked process is ready: new, and after all it depends on.           *)
LEMMA PickReady ==
    ASSUME DagInv, NEW p \in Processes, Pick(p)
    PROVE  /\ phase = "sort" /\ p \in ready /\ p \notin Sorted
           /\ Parents(p) \subseteq Sorted /\ p \notin Parents(p)
<1>1. phase = "sort" /\ p \in ready
  BY DEF Pick, Earliest
<1>2. p \notin Sorted /\ Parents(p) \subseteq Sorted
  BY <1>1 DEF DagInv, SortInv
<1>3. QED BY <1>1, <1>2

(* The in-degrees go on counting what is not sorted.                        *)
LEMMA PickDegrees ==
    ASSUME DagInv, NEW p \in Processes, Pick(p)
    PROVE  /\ inDeg' \in [Processes -> Nat]
           /\ \A q \in Processes : inDeg'[q] = Cardinality(Parents(q) \ (Sorted \cup {p}))
<1>1. inDeg' = [q \in Processes |-> IF q \in Children(p) THEN inDeg[q] - 1 ELSE inDeg[q]]
  BY DEF Pick
<1>2. phase = "sort" /\ p \notin Sorted
  BY PickReady
<1>3. ASSUME NEW q \in Processes
      PROVE  inDeg'[q] = Cardinality(Parents(q) \ (Sorted \cup {p})) /\ inDeg'[q] \in Nat
  <2> DEFINE P == Parents(q) \ Sorted
  <2>1. IsFiniteSet(P) /\ inDeg[q] = Cardinality(P)
    BY <1>2, ParentsFinite, FS_Subset DEF DagInv, SortInv, Base, DagTypeOK
  <2>2. Parents(q) \ (Sorted \cup {p}) = P \ {p}
    OBVIOUS
  <2>3. q \in Children(p) <=> p \in P
    BY <1>2 DEF Children, Parents
  <2> HIDE DEF P
  <2>4. IsFiniteSet(P \ {p}) /\ Cardinality(P \ {p}) \in Nat
    BY <2>1, FS_RemoveElement, FS_CardinalityType
  <2>5. Cardinality(P \ {p}) = IF p \in P THEN Cardinality(P) - 1 ELSE Cardinality(P)
    BY <2>1, FS_RemoveElement
  <2>6. QED BY <1>1, <2>1, <2>2, <2>3, <2>4, <2>5
<1>4. QED BY <1>1, <1>3

(* Ready are then those whose last dependency was picked.                   *)
LEMMA PickNowReady ==
    ASSUME DagInv, NEW p \in Processes, Pick(p)
    PROVE  ready' = {q \in Processes \ (Sorted \cup {p}) : Parents(q) \subseteq Sorted \cup {p}}
<1>1. ready' = (ready \ {p}) \cup {c \in Children(p) : inDeg'[c] = 0}
  BY DEF Pick, NowReady
<1>2. /\ phase = "sort" /\ p \notin Sorted /\ p \notin Parents(p)
      /\ ready = {q \in Processes \ Sorted : Parents(q) \subseteq Sorted}
  BY PickReady DEF DagInv, SortInv
<1>3. \A q \in Sorted : Parents(q) \subseteq Sorted
  <2>1. sorted \in Seq(Labels)
    BY DEF DagInv, Base, DagTypeOK
  <2>2. \A i \in DOMAIN sorted : SortedBefore(i) \subseteq Sorted
    BY <2>1 DEF SortedBefore, Sorted
  <2>3. QED BY <2>2 DEF DagInv, SortInv, Sorted
<1>4. \A q \in Processes : inDeg'[q] = 0 <=> Parents(q) \subseteq Sorted \cup {p}
  <2>1. \A q \in Processes : IsFiniteSet(Parents(q) \ (Sorted \cup {p}))
    BY ParentsFinite, FS_Subset DEF DagInv, Base, DagTypeOK
  <2>2. ASSUME NEW q \in Processes
        PROVE  inDeg'[q] = 0 <=> Parents(q) \ (Sorted \cup {p}) = {}
    BY <2>1, PickDegrees, FS_EmptySet
  <2>3. QED BY <2>2
<1>5. \A q : q \in Children(p) <=> q \in Processes /\ p \in Parents(q)
  BY DEF Children, Parents
<1>6. QED BY <1>1, <1>2, <1>3, <1>4, <1>5

(* One process more is sorted.                                              *)
LEMMA PickStep ==
    ASSUME DagInv, NEW p \in Processes, Pick(p)
    PROVE  SortInv'
<1>1. /\ dot' = dot /\ edges' = edges /\ phase' = phase /\ sorted' = Append(sorted, p)
      /\ \A q \in ready : posOf(p) <= posOf(q)
  BY DEF Pick, Earliest
<1>2. /\ phase = "sort" /\ p \in ready /\ p \notin Sorted
      /\ Parents(p) \subseteq Sorted
      /\ ready = {q \in Processes \ Sorted : Parents(q) \subseteq Sorted}
  BY PickReady DEF DagInv, SortInv
<1>3. sorted \in Seq(Labels) /\ p \in Labels
  BY FileFields DEF DagInv, Base, DagTypeOK
<1> PICK k \in Nat : k = Len(sorted) + 1
  BY <1>3
<1>4. /\ Sorted' = Sorted \cup {p}
      /\ DOMAIN sorted' = DOMAIN sorted \cup {k}
      /\ sorted'[k] = p
      /\ \A i \in DOMAIN sorted : sorted'[i] = sorted[i] /\ i # k
      /\ \A i \in DOMAIN sorted : SortedBefore(i)' = SortedBefore(i)
      /\ SortedBefore(k)' = Sorted
  BY <1>1, <1>3, AppendSorted
<1>5. /\ Processes' = Processes /\ (\A q : Parents(q)' = Parents(q))
      /\ (\A q : posOf(q)' = posOf(q))
  BY <1>1, SameDot, SameEdges
<1>6. \A i, j \in DOMAIN sorted' : sorted'[i] = sorted'[j] => i = j
  <2>1. \A i \in DOMAIN sorted : sorted[i] # p
    BY <1>2 DEF Sorted
  <2>2. QED BY <1>4, <2>1 DEF DagInv, SortInv
<1>7. \A i \in DOMAIN sorted' : Parents(sorted'[i]) \subseteq SortedBefore(i)'
  BY <1>2, <1>4 DEF DagInv, SortInv
<1>8. StableOrder'
  <2>1. ASSUME NEW i \in DOMAIN sorted', NEW q \in Processes \ SortedBefore(i)',
               Parents(q) \subseteq SortedBefore(i)'
        PROVE  posOf(sorted'[i]) <= posOf(q)
    <3>1. CASE i \in DOMAIN sorted
      BY <1>4, <2>1, <3>1 DEF DagInv, SortInv, StableOrder
    <3>2. CASE i = k
      BY <1>1, <1>2, <1>4, <2>1, <3>2
    <3>3. QED BY <1>4, <3>1, <3>2
  <2>2. QED BY <1>5, <2>1 DEF StableOrder
<1>9. \A q \in Processes : inDeg'[q] = Cardinality(Parents(q) \ Sorted')
  BY <1>4, PickDegrees
<1>10. ready' = {q \in Processes \ Sorted' : Parents(q) \subseteq Sorted'}
  BY <1>4, PickNowReady
<1>11. QED BY <1>1, <1>2, <1>5, <1>6, <1>7, <1>8, <1>9, <1>10 DEF SortInv

(* As many places are filled as there are sorted processes.                 *)
LEMMA SortedCount ==
    ASSUME DagInv
    PROVE  IsFiniteSet(Sorted) /\ Cardinality(Sorted) = Len(sorted)
<1>1. sorted \in Seq(Labels) /\ Len(sorted) \in Nat /\ DOMAIN sorted = 1 .. Len(sorted)
  BY DEF DagInv, Base, DagTypeOK
<1>2. sorted \in Bijection(1 .. Len(sorted), Sorted)
  <2>1. sorted \in [1 .. Len(sorted) -> Sorted]
    BY <1>1 DEF Sorted
  <2>2. \A i, j \in 1 .. Len(sorted) : sorted[i] = sorted[j] => i = j
    BY <1>1 DEF DagInv, SortInv
  <2>3. \A q \in Sorted : \E i \in 1 .. Len(sorted) : sorted[i] = q
    BY <1>1 DEF Sorted
  <2>4. QED BY <2>1, <2>2, <2>3 DEF Bijection, Injection, Surjection, IsInjective
<1>3. IsFiniteSet(1 .. Len(sorted)) /\ Cardinality(1 .. Len(sorted)) = Len(sorted)
  BY <1>1, FS_Interval
<1>4. ExistsBijection(1 .. Len(sorted), Sorted)
  BY <1>2 DEF ExistsBijection
<1>5. QED BY <1>3, <1>4, FS_Bijection

(* The sort ends well exactly when every process is sorted.                 *)
LEMMA EndSortStep ==
    ASSUME DagInv, EndSort
    PROVE  SortInv'
<1>1. /\ dot' = dot /\ phase = "sort" /\ ready = {} /\ phase' = AfterSort
      /\ UNCHANGED <<edges, inDeg, ready, sorted>>
  BY DEF EndSort
<1>2. IsFiniteSet(Processes) /\ Sorted \subseteq Processes
  BY FileFields DEF DagInv, Base, DagTypeOK
<1>3. Sorted = Processes <=> Len(sorted) = Cardinality(Processes)
  BY <1>2, SortedCount, FS_Subset
<1>4. QED BY <1>1, <1>3, SameDot, SameEdges, SameSorted DEF AfterSort, SortInv, StableOrder, DagInv

-----------------------------------------------------------------------------
(* The layers. *)

(* The layer is one below the lowest dependency's.                          *)
LEMMA LowestParent ==
    ASSUME NEW p, Parents(p) # {}, IsFiniteSet(Parents(p)), \A q \in Parents(p) : layers[q] \in Nat
    PROVE  /\ LayerBelow(p) \in Nat
           /\ \A q \in Parents(p) : layers[q] < LayerBelow(p)
           /\ \E q \in Parents(p) : layers[q] = LayerBelow(p) - 1
<1> DEFINE L == {layers[q] : q \in Parents(p)}
           l == CHOOSE x \in L : \A q \in Parents(p) : layers[q] <= x
<1>1. \E x \in L : \A q \in Parents(p) : layers[q] <= x
  <2>1. PICK m \in Parents(p) : \A q \in Parents(p) : layers[q] <= layers[m]
    BY Largest
  <2>2. QED BY <2>1
<1>2. l \in L /\ \A q \in Parents(p) : layers[q] <= l
  <2> HIDE DEF L
  <2>1. QED BY <1>1
<1>3. LayerBelow(p) = 1 + l
  BY DEF LayerBelow
<1>4. PICK m \in Parents(p) : l = layers[m]
  BY <1>2
<1> HIDE DEF l
<1>5. QED BY <1>2, <1>3, <1>4

(* A process gets its layer after its dependencies.                         *)
LEMMA AssignLayerStep ==
    ASSUME DagInv, NEW i \in DOMAIN sorted, AssignLayer(i)
    PROVE  /\ LayerInv'
           /\ layers' \in [DOMAIN layers' -> Nat]
           /\ DOMAIN layers' = DOMAIN layers \cup {sorted[i]}
<1> DEFINE s == sorted[i]
<1>1. /\ dot' = dot /\ edges' = edges /\ sorted' = sorted /\ phase' = phase /\ phase = "layers"
      /\ SortedBefore(i) \subseteq DOMAIN layers /\ s \notin DOMAIN layers
      /\ layers' = [p \in DOMAIN layers \cup {s} |-> IF p = s THEN LayerBelow(p) ELSE layers[p]]
  BY DEF AssignLayer
<1>2. Parents(s) \subseteq DOMAIN layers /\ s \notin Parents(s)
  BY <1>1 DEF DagInv, SortInv
<1>3. layers \in [DOMAIN layers -> Nat] /\ IsFiniteSet(Parents(s))
  BY ParentsFinite DEF DagInv, Base, DagTypeOK
<1>4. \A p : Parents(p)' = Parents(p)
  BY <1>1, SameEdges
<1>5. /\ LayerBelow(s) \in Nat
      /\ \A q \in Parents(s) : layers[q] < LayerBelow(s)
      /\ LayerBelow(s) > 0 => \E q \in Parents(s) : layers[q] = LayerBelow(s) - 1
  <2>1. CASE Parents(s) = {}
    <3>1. LayerBelow(s) = 0
      BY <2>1 DEF LayerBelow
    <3> HIDE DEF s
    <3>2. QED BY <2>1, <3>1
  <2>2. CASE Parents(s) # {}
    <3>1. \A q \in Parents(s) : layers[q] \in Nat
      BY <1>2, <1>3
    <3> HIDE DEF s
    <3>2. QED BY <1>3, <2>2, <3>1, LowestParent
  <2>3. QED BY <2>1, <2>2
<1> HIDE DEF s
<1>6. /\ DOMAIN layers' = DOMAIN layers \cup {s}
      /\ layers'[s] = LayerBelow(s)
      /\ \A p \in DOMAIN layers : layers'[p] = layers[p] /\ p # s
  BY <1>1
<1>7. layers' \in [DOMAIN layers' -> Nat]
  BY <1>1, <1>3, <1>5
<1>8. \A p \in DOMAIN layers' : Parents(p) \subseteq DOMAIN layers'
  BY <1>2, <1>6 DEF DagInv, LayerInv
<1>9. \A p \in DOMAIN layers' : \A q \in Parents(p) : layers'[q] < layers'[p]
  BY <1>2, <1>5, <1>6 DEF DagInv, LayerInv
<1>10. \A p \in DOMAIN layers' :
          layers'[p] > 0 => \E q \in Parents(p) : layers'[q] = layers'[p] - 1
  <2>1. ASSUME NEW p \in DOMAIN layers, layers'[p] > 0
        PROVE  \E q \in Parents(p) : layers'[q] = layers'[p] - 1
    <3>1. PICK q \in Parents(p) : layers[q] = layers[p] - 1
      BY <1>6, <2>1 DEF DagInv, LayerInv
    <3>2. q \in DOMAIN layers
      BY <2>1 DEF DagInv, LayerInv
    <3>3. QED BY <1>6, <3>1, <3>2
  <2>2. ASSUME layers'[s] > 0
        PROVE  \E q \in Parents(s) : layers'[q] = layers'[s] - 1
    BY <1>2, <1>5, <1>6, <2>2
  <2>3. QED BY <1>6, <2>1, <2>2
<1>11. LayerInv'
  BY <1>1, <1>4, <1>8, <1>9, <1>10 DEF LayerInv
<1>12. QED BY <1>6, <1>7, <1>11 DEF s

-----------------------------------------------------------------------------
(* Types. *)

(* Every step keeps the types and what has not begun as it was.             *)
LEMMA BaseStep ==
    ASSUME DagInv, [DagNext]_dagVars
    PROVE  Base'
<1>1. /\ dot' = dot /\ ProcessNodes' = ProcessNodes /\ Processes' = Processes
      /\ \A n : Label(n)' = Label(n)
  BY DotUnchanged, SameDot
<1> USE DEF DagTypeOK, Base
<1>2. DagTypeOK /\ Base
  BY DEF DagInv
<1>3. /\ Processes \subseteq Labels
      /\ \A n \in ProcessNodes : n \in NodeIds /\ Label(n) \in Processes
      /\ \A n \in NodeIds : adj(n) \in Seq(NodeIds)
  BY <1>2, FileFields DEF Processes
<1>4. CASE UNCHANGED dagVars
  BY <1>1, <1>2, <1>4 DEF dagVars, Sorted
<1>5. ASSUME NEW n \in NodeIds, Search(n) PROVE Base'
  BY <1>1, <1>2, <1>3, <1>5 DEF Search, Sorted
<1>6. CASE Visit
  <2> DEFINE h == Head(queue)
  <2>1. /\ UNCHANGED <<dot, phase, sources, source, inDeg, ready, sorted, layers>>
        /\ phase = "edges" /\ source # NoNode /\ queue # <<>>
    BY <1>6 DEF Visit
  <2>2. h \in NodeIds /\ Tail(queue) \in Seq(NodeIds)
    BY <1>2, <2>1, InTail
  <2>3. Tail(queue) \o adj(h) \in Seq(NodeIds)
    BY <1>3, <2>2, InConcat
  <2>4. queue' \in Seq(NodeIds)
    BY <1>6, <2>2, <2>3 DEF Visit, Reach
  <2>5. visited' \subseteq NodeIds
    BY <1>2, <1>6, <2>2 DEF Visit
  <2>6. edges' \subseteq Processes \X Processes
    <3>1. isProcessNode(h) => h \in ProcessNodes
      BY DEF isProcessNode, ProcessNodes
    <3>2. edges' = edges \/ (isProcessNode(h) /\ edges' = edges \cup {<<Label(source), Label(h)>>})
      BY <1>6 DEF Visit, Reach
    <3>3. source \in ProcessNodes
      BY <1>2, <2>1
    <3>4. QED BY <1>2, <1>3, <3>1, <3>2, <3>3
  <2>7. Sorted' = Sorted
    BY <2>1, SameSorted
  <2>8. QED BY <1>1, <1>2, <1>3, <2>1, <2>4, <2>5, <2>6, <2>7
<1>7. CASE EndSearch
  BY <1>1, <1>2, <1>3, <1>7 DEF EndSearch, Sorted
<1>8. CASE StartSort
  <2>1. inDeg' \in [Processes -> Nat]
    <3>1. \A p \in Processes : Cardinality(Parents(p)) \in Nat
      BY <1>2, ParentsFinite, FS_CardinalityType
    <3>2. QED BY <1>8, <3>1 DEF StartSort
  <2>2. Sorted' = Sorted
    BY <1>8, SameSorted DEF StartSort
  <2>3. QED BY <1>1, <1>2, <1>3, <1>8, <2>1, <2>2 DEF StartSort
<1>9. ASSUME NEW p \in Processes, Pick(p) PROVE Base'
  <2>1. /\ UNCHANGED <<dot, phase, sources, source, queue, visited, edges, layers>>
        /\ sorted' = Append(sorted, p) /\ phase = "sort"
    BY <1>9 DEF Pick
  <2>2. inDeg' \in [Processes -> Nat]
    BY <1>9, PickDegrees
  <2>3. ready' \subseteq Processes
    BY <1>9, PickNowReady
  <2> PICK k \in Nat : k = Len(sorted) + 1
    BY <1>2
  <2>4. Sorted' = Sorted \cup {p} /\ sorted' \in Seq(Labels)
    BY <1>2, <1>3, <2>1, AppendSorted
  <2>5. QED BY <1>1, <1>2, <1>3, <2>1, <2>2, <2>3, <2>4
<1>10. CASE EndSort
  <2>1. Sorted' = Sorted
    BY <1>10, SameSorted DEF EndSort
  <2>2. QED BY <1>1, <1>2, <1>3, <1>10, <2>1 DEF EndSort, AfterSort
<1>11. ASSUME NEW i \in DOMAIN sorted, AssignLayer(i) PROVE Base'
  <2>1. /\ UNCHANGED <<dot, phase, sources, source, queue, visited, edges, inDeg, ready, sorted>>
        /\ phase = "layers"
    BY <1>11 DEF AssignLayer
  <2>2. layers' \in [DOMAIN layers' -> Nat] /\ DOMAIN layers' = DOMAIN layers \cup {sorted[i]}
    BY <1>11, AssignLayerStep
  <2>3. Sorted' = Sorted /\ sorted[i] \in Sorted
    BY <2>1, SameSorted DEF Sorted
  <2>4. QED BY <1>1, <1>2, <1>3, <2>1, <2>2, <2>3
<1>12. CASE EndLayers
  <2>1. Sorted' = Sorted
    BY <1>12, SameSorted DEF EndLayers
  <2>2. QED BY <1>1, <1>2, <1>3, <1>12, <2>1 DEF EndLayers
<1>13. CASE Finished
  BY <1>4, <1>13 DEF Finished
<1>14. QED BY <1>4, <1>5, <1>6, <1>7, <1>8, <1>9, <1>10, <1>11, <1>12, <1>13 DEF DagNext

-----------------------------------------------------------------------------
(* The invariant is inductive. *)

(* It holds when the file has been read.                                    *)
LEMMA DagInvInit == DagInit => DagInv
<1> SUFFICES ASSUME DagInit PROVE DagInv
  OBVIOUS
<1>1. /\ dot \in DotFiles /\ phase = "edges" /\ sources = ProcessNodes /\ source = NoNode
      /\ queue = <<>> /\ visited = {} /\ edges = {} /\ inDeg = [p \in Processes |-> 0]
      /\ ready = {} /\ sorted = <<>> /\ layers = [p \in {} |-> 0]
  BY DEF DagInit
<1>2. Sorted = {} /\ DOMAIN sorted = {} /\ DOMAIN layers = {}
  BY <1>1 DEF Sorted
<1>3. Base
  BY <1>1, <1>2, DotAssumption DEF Base, DagTypeOK
<1>4. SearchInv
  BY <1>1 DEF SearchInv, Searched
<1>5. SortInv
  BY <1>1, <1>2 DEF SortInv, StableOrder
<1>6. LayerInv
  BY <1>1, <1>2 DEF LayerInv
<1>7. QED BY <1>3, <1>4, <1>5, <1>6 DEF DagInv

(* Every step keeps it.                                                     *)
LEMMA DagInvStep == DagInv /\ [DagNext]_dagVars => DagInv'
<1> SUFFICES ASSUME DagInv, [DagNext]_dagVars PROVE SearchInv' /\ SortInv' /\ LayerInv'
  BY BaseStep DEF DagInv
<1>1. Base' /\ dot' = dot
  BY BaseStep, DotUnchanged
<1>2. Base /\ SearchInv /\ SortInv /\ LayerInv
  BY DEF DagInv
<1>3. ASSUME UNCHANGED <<sources, source, queue, visited, edges>>,
             UNCHANGED <<phase, inDeg, ready, sorted, layers>>
      PROVE  SearchInv' /\ SortInv' /\ LayerInv'
  BY <1>1, <1>2, <1>3, SearchUnchanged, SortUnchanged, LayersUnchanged
<1>4. ASSUME phase = "edges", phase' = "edges", UNCHANGED <<sorted, layers>>
      PROVE  SortInv' /\ LayerInv'
  BY <1>2, <1>4, NothingSorted, NoLayers
<1>5. CASE UNCHANGED dagVars
  BY <1>3, <1>5 DEF dagVars
<1>6. ASSUME NEW n \in NodeIds, Search(n) PROVE SearchInv' /\ SortInv' /\ LayerInv'
  <2>1. phase = "edges" /\ phase' = "edges" /\ UNCHANGED <<sorted, layers>>
    BY <1>6 DEF Search
  <2>2. QED BY <1>4, <1>6, <2>1, SearchStartStep
<1>7. CASE Visit
  <2>1. phase = "edges" /\ phase' = "edges" /\ UNCHANGED <<sorted, layers>>
    BY <1>7 DEF Visit
  <2>2. SearchInv'
    BY <1>7, VisitAgainStep, VisitProcessStep, VisitOperatorStep
  <2>3. QED BY <1>4, <2>1, <2>2
<1>8. CASE EndSearch
  <2>1. phase = "edges" /\ phase' = "edges" /\ UNCHANGED <<sorted, layers>>
    BY <1>8 DEF EndSearch
  <2>2. QED BY <1>4, <1>8, <2>1, SearchEndStep
<1>9. CASE StartSort
  <2>1. /\ phase = "edges" /\ phase' = "sort" /\ UNCHANGED layers
        /\ UNCHANGED <<sources, source, queue, visited, edges>>
    BY <1>9 DEF StartSort
  <2>2. QED BY <1>1, <1>2, <1>9, <2>1, SearchUnchanged, StartSortStep, NoLayers
<1>10. ASSUME NEW p \in Processes, Pick(p) PROVE SearchInv' /\ SortInv' /\ LayerInv'
  <2>1. /\ phase = "sort" /\ phase' = "sort" /\ UNCHANGED layers
        /\ UNCHANGED <<sources, source, queue, visited, edges>>
    BY <1>10 DEF Pick
  <2>2. QED BY <1>1, <1>2, <1>10, <2>1, SearchUnchanged, PickStep, NoLayers
<1>11. CASE EndSort
  <2>1. /\ phase = "sort" /\ phase' \in {"layers", "cycle"} /\ UNCHANGED layers
        /\ UNCHANGED <<sources, source, queue, visited, edges>>
    BY <1>11 DEF EndSort, AfterSort
  <2>2. QED BY <1>1, <1>2, <1>11, <2>1, SearchUnchanged, EndSortStep, NoLayers
<1>12. ASSUME NEW i \in DOMAIN sorted, AssignLayer(i) PROVE SearchInv' /\ SortInv' /\ LayerInv'
  <2>1. UNCHANGED <<dot, phase, sources, source, queue, visited, edges, inDeg, ready, sorted>>
    BY <1>12 DEF AssignLayer
  <2>2. QED BY <1>1, <1>2, <1>12, <2>1, SearchUnchanged, SortUnchanged, AssignLayerStep
<1>13. CASE EndLayers
  <2>1. /\ UNCHANGED <<dot, sources, source, queue, visited, edges, inDeg, ready, sorted, layers>>
        /\ phase = "layers" /\ phase' = "done" /\ Sorted \subseteq DOMAIN layers
    BY <1>13 DEF EndLayers
  <2>2. SearchInv'
    BY <1>1, <1>2, <2>1, SearchUnchanged
  <2>3. SortInv'
    BY <1>2, <2>1, SameDot, SameEdges, SameSorted DEF SortInv, StableOrder
  <2>4. LayerInv'
    BY <1>2, <2>1, SameDot, SameEdges, SameSorted DEF LayerInv
  <2>5. QED BY <2>2, <2>3, <2>4
<1>14. CASE Finished
  BY <1>5, <1>14, <1>3 DEF Finished, dagVars
<1>15. QED BY <1>5, <1>6, <1>7, <1>8, <1>9, <1>10, <1>11, <1>12, <1>13, <1>14 DEF DagNext

(* So it holds always.                                                      *)
THEOREM DagInvariant == DagSpec => []DagInv
<1>1. QED BY DagInvInit, DagInvStep, PTL DEF DagSpec

-----------------------------------------------------------------------------
(* What it implies. *)

(* DagTypeOK: every variable has its type for every file.                   *)
THEOREM DagTypeCorrect == DagSpec => []DagTypeOK
<1>1. DagInv => DagTypeOK
  BY DEF DagInv, Base
<1>2. QED BY <1>1, DagInvariant, PTL

(* EdgesAreDependencies: resolveProcessEdges finds the direct dependencies, *)
(* all of them and no others.                                               *)
THEOREM DependenciesCorrect == DagSpec => []EdgesAreDependencies
<1>1. DagInv => EdgesAreDependencies
  <2> SUFFICES ASSUME DagInv, phase # "edges" PROVE edges = Dependencies
    BY DEF EdgesAreDependencies
  <2>1. sources = {} /\ source = NoNode /\ dot \in DotFiles
    BY DEF DagInv, Base, DagTypeOK
  <2>2. Searched = ProcessNodes
    BY <2>1, FileFields DEF Searched
  <2>3. ASSUME NEW e \in Dependencies PROVE e \in edges
    <3>1. PICK s, n \in ProcessNodes : n # s /\ n \in Reachable(s) /\ e = <<Label(s), Label(n)>>
      BY DependencyElim
    <3>2. QED BY <2>2, <3>1 DEF DagInv, SearchInv
  <2>4. QED BY <2>3 DEF DagInv, SearchInv
<1>2. QED BY <1>1, DagInvariant, PTL

(* TopologicalOrder: the order topoSort returns lists each process once,    *)
(* after all it depends on.                                                 *)
THEOREM OrderCorrect == DagSpec => []TopologicalOrder
<1>1. DagInv => TopologicalOrder
  <2> SUFFICES ASSUME DagInv, phase \in {"layers", "done"} PROVE TopologicalOrder
    BY DEF TopologicalOrder
  <2>1. /\ Sorted = Processes
        /\ \A i, j \in DOMAIN sorted : sorted[i] = sorted[j] => i = j
        /\ sorted \in Seq(Labels)
    BY DEF DagInv, SortInv, Base, DagTypeOK
  <2>2. ASSUME NEW i \in DOMAIN sorted, NEW j \in DOMAIN sorted, <<sorted[i], sorted[j]>> \in edges
        PROVE  i < j
    <3>1. sorted[i] \in SortedBefore(j)
      BY <2>1, <2>2 DEF DagInv, SortInv, Parents, Sorted
    <3>2. PICK m \in 1 .. j - 1 : sorted[m] = sorted[i]
      BY <3>1 DEF SortedBefore
    <3>3. m \in DOMAIN sorted /\ i \in Nat /\ j \in Nat
      BY <2>1, <3>2
    <3>4. QED BY <2>1, <3>2, <3>3
  <2>3. QED BY <2>1, <2>2 DEF TopologicalOrder
<1>2. QED BY <1>1, DagInvariant, PTL

(* StableOrder: each sorted process was the earliest of those whose         *)
(* dependencies come before it, so the layout is the same every time.       *)
THEOREM StableCorrect == DagSpec => []StableOrder
<1>1. DagInv => StableOrder
  BY DEF DagInv, SortInv
<1>2. QED BY <1>1, DagInvariant, PTL

(* CycleMeansCyclic: ComputeLayout returns the cycle error only for a file  *)
(* whose processes depend on one another.                                   *)
THEOREM CycleCorrect == DagSpec => []CycleMeansCyclic
<1>1. DagInv => CycleMeansCyclic
  <2> SUFFICES ASSUME DagInv, phase = "cycle" PROVE Cyclic
    BY DEF CycleMeansCyclic
  <2> DEFINE X == Processes \ Sorted
  <2>1. X # {}
    BY DEF DagInv, Base, SortInv
  <2>2. \A p \in X : ~(Parents(p) \subseteq Sorted)
    BY DEF DagInv, SortInv
  <2>3. \A p \in X : Parents(p) \cap X # {}
    BY <2>2 DEF Parents
  <2>4. QED BY <2>1, <2>3 DEF Cyclic
<1>2. QED BY <1>1, DagInvariant, PTL

(* LayersFollowEdges: assignLayers puts every process right below its       *)
(* lowest dependency.                                                       *)
THEOREM LayersCorrect == DagSpec => []LayersFollowEdges
<1>1. DagInv => LayersFollowEdges
  <2> SUFFICES ASSUME DagInv, phase = "done" PROVE LayersFollowEdges
    BY DEF LayersFollowEdges
  <2>1. DOMAIN layers = Processes
    BY DEF DagInv, Base, SortInv, LayerInv
  <2>2. \A p, q \in Processes : <<p, q>> \in edges => layers[p] < layers[q]
    BY <2>1 DEF DagInv, LayerInv, Parents
  <2>3. \A q \in Processes : layers[q] > 0 => \E p \in Parents(q) : layers[p] = layers[q] - 1
    BY <2>1 DEF DagInv, LayerInv
  <2>4. QED BY <2>1, <2>2, <2>3 DEF LayersFollowEdges
<1>2. QED BY <1>1, DagInvariant, PTL

-----------------------------------------------------------------------------
(* The refinement. *)

(* A ready process may be listed next, and nothing else is ready.           *)
LEMMA ReadyMayFollow ==
    ASSUME DagInv, EdgesAreDependencies, phase = "sort"
    PROVE  \A p \in Processes : p \in ready <=> Sort!MayFollow(p)
<1>1. edges = Dependencies
  BY DEF EdgesAreDependencies
<1>2. \A p \in Processes :
         Sort!MayFollow(p) <=> p \in Processes \ Sorted /\ Parents(p) \subseteq Sorted
  BY <1>1 DEF Sort!MayFollow, Sort!Listed, Sorted, Parents
<1>3. ready = {p \in Processes \ Sorted : Parents(p) \subseteq Sorted}
  BY DEF DagInv, SortInv
<1>4. QED BY <1>2, <1>3

(* The end of the sort concludes the abstract one with its verdict.         *)
LEMMA EndSortConcludes ==
    ASSUME DagInv, EdgesAreDependencies, EndSort
    PROVE  Sort!Conclude
<1>1. /\ phase = "sort" /\ ready = {} /\ phase' = AfterSort
      /\ dot' = dot /\ sorted' = sorted
  BY DEF EndSort
<1>2. IsFiniteSet(Processes) /\ Sorted \subseteq Processes
  BY FileFields DEF DagInv, Base, DagTypeOK
<1>3. Processes \subseteq Sorted <=> Len(sorted) = Cardinality(Processes)
  <2>1. Sorted = Processes <=> Len(sorted) = Cardinality(Processes)
    BY <1>2, SortedCount, FS_Subset
  <2>2. QED BY <1>2, <2>1
<1>4. Verdict = "open" /\ Verdict' = IF Processes \subseteq Sorted THEN "ordered" ELSE "cyclic"
  BY <1>1, <1>3 DEF Verdict, AfterSort
<1>5. \A p \in Processes : ~Sort!MayFollow(p)
  BY <1>1, ReadyMayFollow
<1>6. Processes' = Processes /\ Dependencies' = Dependencies
  BY <1>1, SameDot
<1>7. QED BY <1>1, <1>4, <1>5, <1>6 DEF Sort!Conclude, Sort!Listed, Sorted

(* Every step of the layout is one of the sort or leaves it alone.          *)
LEMMA LayoutStepSorts ==
    ASSUME DagInv, EdgesAreDependencies, [DagNext]_dagVars
    PROVE  [Sort!SortNext]_(Sort!sortVars)
<1>1. Processes' = Processes /\ Dependencies' = Dependencies
  BY DotUnchanged, SameDot
<1>2. ASSUME UNCHANGED <<phase, sorted>> PROVE UNCHANGED Sort!sortVars
  BY <1>1, <1>2 DEF Sort!sortVars, Verdict
<1>3. CASE UNCHANGED dagVars
  BY <1>2, <1>3 DEF dagVars
<1>4. ASSUME NEW n \in NodeIds, Search(n) PROVE UNCHANGED Sort!sortVars
  BY <1>2, <1>4 DEF Search
<1>5. CASE Visit
  BY <1>2, <1>5 DEF Visit
<1>6. CASE EndSearch
  BY <1>2, <1>6 DEF EndSearch
<1>7. CASE StartSort
  BY <1>1, <1>7 DEF StartSort, Sort!sortVars, Verdict
<1>8. ASSUME NEW p \in Processes, Pick(p) PROVE Sort!List(p)
  <2>1. /\ phase = "sort" /\ p \in ready /\ sorted' = Append(sorted, p) /\ phase' = phase
    BY <1>8 DEF Pick, Earliest
  <2>2. Sort!MayFollow(p)
    BY <2>1, ReadyMayFollow
  <2>3. Verdict = "open" /\ Verdict' = Verdict
    BY <2>1 DEF Verdict
  <2>4. QED BY <1>1, <2>1, <2>2, <2>3 DEF Sort!List
<1>9. CASE EndSort
  BY <1>9, EndSortConcludes DEF Sort!SortNext
<1>10. ASSUME NEW i \in DOMAIN sorted, AssignLayer(i) PROVE UNCHANGED Sort!sortVars
  BY <1>2, <1>10 DEF AssignLayer
<1>11. CASE EndLayers
  BY <1>1, <1>11 DEF EndLayers, Sort!sortVars, Verdict
<1>12. CASE Finished
  BY <1>3, <1>12 DEF Finished
<1>13. QED BY <1>3, <1>4, <1>5, <1>6, <1>7, <1>8, <1>9, <1>10, <1>11, <1>12
              DEF DagNext, Sort!SortNext

(* ImplementsTopologicalSort: for any file and any order of the searches,   *)
(* the layout sorts what the file makes depend on one another.              *)
THEOREM LayoutImplementsSort == DagSpec => ImplementsTopologicalSort
<1>1. DagInit => Sort!SortInit
  BY DEF DagInit, Sort!SortInit, Verdict
<1>2. QED BY <1>1, LayoutStepSorts, DagInvariant, DependenciesCorrect, PTL
          DEF DagSpec, ImplementsTopologicalSort, Sort!SortSpec

=============================================================================
