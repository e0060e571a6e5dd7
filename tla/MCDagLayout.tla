----------------------------- MODULE MCDagLayout -----------------------------
(* Instances of DagLayout for TLC: every graph of four nodes with at most   *)
(* MaxEdges edges, some of them repeated, for some kinds of nodes.          *)
EXTENDS DagLayout

CONSTANT MaxEdges

process(l) == [label |-> l, shape |-> "none"]
operator == [label |-> "", shape |-> "circle"]
channel == [label |-> "", shape |-> "none"]
factory == [label |-> "A", shape |-> "point"]

(* Processes only; operators between processes; a label carried twice; a    *)
(* labelled point; and fewer declarations than the edges name.              *)
NodeLists ==
    {<<process("A"), process("B"), process("C"), process("D")>>,
     <<process("A"), operator, channel, process("B")>>,
     <<process("B"), process("A"), operator, process("C")>>,
     <<process("A"), operator, process("A"), process("B")>>,
     <<factory, process("A"), process("B"), operator>>,
     <<process("A"), process("B")>>}

Pairs == {e \in (1 .. 4) \X (1 .. 4) : e[1] # e[2]}
Before(d, e) == d[1] < e[1] \/ (d[1] = e[1] /\ d[2] < e[2])

EdgeLists ==
    UNION {{s \in [1 .. k -> Pairs] : \A i \in 1 .. k - 1 : ~Before(s[i + 1], s[i])} : k \in 0 .. MaxEdges}

Targets(s) ==
    [n \in 1 .. 4 |-> LET own == SelectSeq(s, LAMBDA e : e[1] = n) IN [i \in DOMAIN own |-> own[i][2]]]

SmallDotFiles == {[nodes |-> ns, edges |-> Targets(es)] : ns \in NodeLists, es \in EdgeLists}
=============================================================================
