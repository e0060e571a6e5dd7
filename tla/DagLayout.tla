------------------------------ MODULE DagLayout ------------------------------
(***************************************************************************)
(* From Nextflow's dag.dot to the layout the dashboard draws               *)
(* (internal/dag/dag.go, ParseDOT and ComputeLayout): dependencies between *)
(* processes are searched breadth first through the operator nodes, the    *)
(* processes are sorted topologically, and each gets a layer.              *)
(*                                                                         *)
(* Every iteration of a loop is a step.  The code ranges over a Go map to  *)
(* pick the source of a search, so the order of the sources is arbitrary.  *)
(*                                                                         *)
(* A dot file is a sequence of nodes, in the order in which their IDs were *)
(* first seen, and for each node the sequence of the targets of its edges  *)
(* (the code groups the edges so before it uses them); an edge may name an *)
(* index without a declaration.  Several nodes may carry one label.        *)
(***************************************************************************)
EXTENDS Integers, FiniteSets, Sequences

CONSTANTS
    Labels,       \* process names
    Shapes,       \* node shapes
    NodeIds,      \* indices of dot nodes
    DotFiles      \* the files that may be read

NoLabel == ""
NoNode == 0

DotNode == [label: Labels \cup {NoLabel}, shape: Shapes]
DotFile == [nodes: Seq(DotNode), edges: [NodeIds -> Seq(NodeIds)]]

ASSUME DotAssumption ==
    /\ NoLabel \notin Labels /\ IsFiniteSet(Labels)
    /\ NodeIds \subseteq Nat \ {NoNode} /\ IsFiniteSet(NodeIds)
    /\ DotFiles \subseteq {f \in DotFile : DOMAIN f.nodes \subseteq NodeIds}

VARIABLES
    dot,          \* the file
    phase,        \* "edges", "sort", "layers", "done" or "cycle"
    sources,      \* process nodes still to search from
    source,       \* the node searched from, NoNode between searches
    queue,        \* nodes to visit
    visited,      \* nodes visited in this search
    edges,        \* dependencies between processes found so far
    inDeg,        \* process -> dependencies not sorted yet
    ready,        \* processes of in-degree 0 not sorted yet
    sorted,       \* processes in topological order
    layers        \* layers assigned so far

dagVars == <<dot, phase, sources, source, queue, visited, edges, inDeg, ready, sorted, layers>>

-----------------------------------------------------------------------------
(* Mutant: a node without a label counts too.                               *)
isProcessByShape(n) ==
    n \in DOMAIN dot.nodes /\ dot.nodes[n].shape \notin {"point", "circle"}

isProcessNode(n) ==
    /\ n \in DOMAIN dot.nodes
    /\ dot.nodes[n].label # NoLabel
    /\ dot.nodes[n].shape \notin {"point", "circle"}

ProcessNodes == {n \in DOMAIN dot.nodes : isProcessNode(n)}
Label(n) == dot.nodes[n].label

(* processNames; posOf orders them by the node that carried the name first. *)
Processes == {Label(n) : n \in ProcessNodes}
posOf(p) == CHOOSE n \in ProcessNodes :
                Label(n) = p /\ \A m \in ProcessNodes : Label(m) = p => n <= m

adj(n) == dot.edges[n]

Parents(p) == {q \in Processes : <<q, p>> \in edges}
Children(p) == {q \in Processes : <<p, q>> \in edges}
Sorted == {sorted[i] : i \in DOMAIN sorted}
SortedBefore(i) == {sorted[j] : j \in 1 .. i - 1}

DagInit ==
    /\ dot \in DotFiles
    /\ phase = "edges"
    /\ sources = ProcessNodes
    /\ source = NoNode
    /\ queue = <<>>
    /\ visited = {}
    /\ edges = {}
    /\ inDeg = [p \in Processes |-> 0]
    /\ ready = {}
    /\ sorted = <<>>
    /\ layers = [p \in {} |-> 0]

-----------------------------------------------------------------------------
(* resolveProcessEdges and deduplicateEdges.                                *)

Search(n) ==
    /\ phase = "edges" /\ source = NoNode
    /\ n \in sources
    /\ sources' = sources \ {n}
    /\ source' = n
    /\ queue' = adj(n)
    /\ visited' = {n}
    /\ UNCHANGED <<dot, phase, edges, inDeg, ready, sorted, layers>>

(* Mutant: the search goes on beyond the processes it reaches.              *)
ReachBeyond(n) ==
    /\ queue' = Tail(queue) \o adj(n)
    /\ edges' = IF isProcessNode(n) THEN edges \cup {<<Label(source), Label(n)>>} ELSE edges

(* A process ends the path and gives an edge, an operator continues it.     *)
Reach(n) ==
    \/ /\ isProcessNode(n)
       /\ queue' = Tail(queue)
       /\ edges' = edges \cup {<<Label(source), Label(n)>>}
    \/ /\ ~isProcessNode(n)
       /\ queue' = Tail(queue) \o adj(n)
       /\ UNCHANGED edges

Visit ==
    /\ phase = "edges" /\ source # NoNode
    /\ queue # <<>>
    /\ LET n == Head(queue)
       IN  IF n \in visited
           THEN queue' = Tail(queue) /\ UNCHANGED <<visited, edges>>
           ELSE visited' = visited \cup {n} /\ Reach(n)
    /\ UNCHANGED <<dot, phase, sources, source, inDeg, ready, sorted, layers>>

EndSearch ==
    /\ phase = "edges" /\ source # NoNode
    /\ queue = <<>>
    /\ source' = NoNode
    /\ visited' = {}
    /\ UNCHANGED <<dot, phase, sources, queue, edges, inDeg, ready, sorted, layers>>

-----------------------------------------------------------------------------
(* topoSort: Kahn's algorithm, the earliest name first.                     *)

StartSort ==
    /\ phase = "edges" /\ source = NoNode /\ sources = {}
    /\ phase' = "sort"
    /\ inDeg' = [p \in Processes |-> Cardinality(Parents(p))]
    /\ ready' = {p \in Processes : Parents(p) = {}}
    /\ UNCHANGED <<dot, sources, source, queue, visited, edges, sorted, layers>>

(* Mutant: any process that is ready may come next.                         *)
AnyReady(p) == p \in ready

Earliest(p) == p \in ready /\ \A q \in ready : posOf(p) <= posOf(q)

(* Mutant: a process is ready as soon as one of its dependencies is sorted. *)
NowReadyAll(p, degrees) == Children(p)

NowReady(p, degrees) == {c \in Children(p) : degrees[c] = 0}

Pick(p) ==
    LET degrees == [q \in Processes |-> IF q \in Children(p) THEN inDeg[q] - 1 ELSE inDeg[q]]
    IN  /\ phase = "sort"
        /\ Earliest(p)
        /\ sorted' = Append(sorted, p)
        /\ inDeg' = degrees
        /\ ready' = (ready \ {p}) \cup NowReady(p, degrees)
        /\ UNCHANGED <<dot, phase, sources, source, queue, visited, edges, layers>>

(* Processes that are left over depend on one another.                      *)
AfterSort == IF Len(sorted) = Cardinality(Processes) THEN "layers" ELSE "cycle"

EndSort ==
    /\ phase = "sort"
    /\ ready = {}
    /\ phase' = AfterSort
    /\ UNCHANGED <<dot, sources, source, queue, visited, edges, inDeg, ready, sorted, layers>>

-----------------------------------------------------------------------------
(* assignLayers, in topological order.                                      *)

(* Mutant: below the first parent that has a layer, not the lowest.         *)
LayerBelowAny(p) ==
    IF Parents(p) = {} THEN 0
    ELSE 1 + (CHOOSE l \in {layers[q] : q \in Parents(p)} : \A q \in Parents(p) : l <= layers[q])

LayerBelow(p) ==
    IF Parents(p) = {} THEN 0
    ELSE 1 + (CHOOSE l \in {layers[q] : q \in Parents(p)} : \A q \in Parents(p) : layers[q] <= l)

AssignLayer(i) ==
    /\ phase = "layers"
    /\ SortedBefore(i) \subseteq DOMAIN layers
    /\ sorted[i] \notin DOMAIN layers
    /\ layers' = [p \in DOMAIN layers \cup {sorted[i]} |->
                    IF p = sorted[i] THEN LayerBelow(p) ELSE layers[p]]
    /\ UNCHANGED <<dot, phase, sources, source, queue, visited, edges, inDeg, ready, sorted>>

EndLayers ==
    /\ phase = "layers"
    /\ Sorted \subseteq DOMAIN layers
    /\ phase' = "done"
    /\ UNCHANGED <<dot, sources, source, queue, visited, edges, inDeg, ready, sorted, layers>>

Finished == phase \in {"done", "cycle"} /\ UNCHANGED dagVars

DagNext ==
    \/ \E n \in NodeIds : Search(n)
    \/ Visit \/ EndSearch
    \/ StartSort
    \/ \E p \in Processes : Pick(p)
    \/ EndSort
    \/ \E i \in DOMAIN sorted : AssignLayer(i)
    \/ EndLayers
    \/ Finished

DagSpec == DagInit /\ [][DagNext]_dagVars

-----------------------------------------------------------------------------
(* Properties. *)

DagTypeOK ==
    /\ dot \in DotFile /\ DOMAIN dot.nodes \subseteq NodeIds
    /\ phase \in {"edges", "sort", "layers", "done", "cycle"}
    /\ sources \subseteq ProcessNodes
    /\ source \in ProcessNodes \cup {NoNode}
    /\ queue \in Seq(NodeIds)
    /\ visited \subseteq NodeIds
    /\ edges \subseteq Labels \X Labels
    /\ inDeg \in [Processes -> Nat]
    /\ ready \subseteq Labels
    /\ sorted \in Seq(Labels)
    /\ DOMAIN layers \subseteq Labels /\ layers \in [DOMAIN layers -> Nat]

(* What a process node reaches without passing through another process: the *)
(* least set that holds the node's targets and the targets of its operators.*)
HasEdge(m, n) == \E i \in DOMAIN adj(m) : adj(m)[i] = n

ClosedFrom(s, C) ==
    \A m, n \in NodeIds :
        HasEdge(m, n) /\ (m = s \/ (m \in C /\ ~isProcessNode(m))) => n \in C

Reachable(s) == {n \in NodeIds : \A C \in SUBSET NodeIds : ClosedFrom(s, C) => n \in C}

(* The edges of the layout are exactly the direct dependencies between      *)
(* process nodes, whatever cycles the operators form, in whatever order the *)
(* sources are searched (resolveProcessEdges).                              *)
Dependencies ==
    UNION {{<<Label(s), Label(n)>> : n \in (ProcessNodes \cap Reachable(s)) \ {s}} : s \in ProcessNodes}

EdgesAreDependencies == phase # "edges" => edges = Dependencies

(* The order lists every process once, each after all it depends on.        *)
TopologicalOrder ==
    phase \in {"layers", "done"} =>
        /\ Sorted = Processes
        /\ \A i, j \in DOMAIN sorted : sorted[i] = sorted[j] => i = j
        /\ \A i, j \in DOMAIN sorted : <<sorted[i], sorted[j]>> \in edges => i < j

(* It does not depend on the order in which the edges were found: each      *)
(* process is the first by position of those whose dependencies come before *)
(* it.                                                                      *)
StableOrder ==
    \A i \in DOMAIN sorted : \A p \in Processes \ SortedBefore(i) :
        Parents(p) \subseteq SortedBefore(i) => posOf(sorted[i]) <= posOf(p)

(* "Returns error if the graph contains a cycle" (topoSort): the sort gives *)
(* up only when some processes have dependencies among themselves that no   *)
(* order can satisfy.                                                       *)
Cyclic == \E X \in SUBSET Processes : X # {} /\ \A p \in X : Parents(p) \cap X # {}
CycleMeansCyclic == phase = "cycle" => Cyclic

(* Every dependency leads to a deeper layer, and no process is deeper than  *)
(* its dependencies require (assignLayers).                                 *)
LayersFollowEdges ==
    phase = "done" =>
        /\ DOMAIN layers = Processes
        /\ \A p, q \in Processes : <<p, q>> \in edges => layers[p] < layers[q]
        /\ \A q \in Processes : layers[q] > 0 =>
              \E p \in Parents(q) : layers[p] = layers[q] - 1

-----------------------------------------------------------------------------
(* The layout implements TopologicalSort.                                   *)

Verdict ==
    CASE phase \in {"edges", "sort"} -> "open"
      [] phase \in {"layers", "done"} -> "ordered"
      [] phase = "cycle" -> "cyclic"

Sort == INSTANCE TopologicalSort WITH
    items <- Processes, needs <- Dependencies, order <- sorted, verdict <- Verdict

(* topoSort works from the edges the searches found and from in-degrees it  *)
(* counts down, and yet lists a process only after all the processes that   *)
(* the file makes it depend on, goes on as long as some process can follow, *)
(* and reports a cycle only if processes are left over then.                *)
ImplementsTopologicalSort == Sort!SortSpec

=============================================================================
