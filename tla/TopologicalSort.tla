--------------------------- MODULE TopologicalSort ---------------------------
(***************************************************************************)
(* What a topological sort promises: items are listed one by one, each     *)
(* after all it depends on, until every item is listed or none of those    *)
(* left can be.  Which of several items comes next is open.                *)
(*                                                                         *)
(* DagLayout implements it (DagLayout!ImplementsTopologicalSort): from the *)
(* nodes and edges of the file alone, without the edges that the searches  *)
(* through operators find, the in-degrees and the set of ready processes.  *)
(***************************************************************************)
EXTENDS Naturals, Sequences

VARIABLES
    items,        \* what is to be listed
    needs,        \* pairs <<a, b>>: b depends on a
    order,        \* what has been listed
    verdict       \* "open", "ordered" or "cyclic"

sortVars == <<items, needs, order, verdict>>

Listed == {order[i] : i \in DOMAIN order}

(* Not listed yet, and all it depends on is. *)
MayFollow(x) ==
    /\ x \in items \ Listed
    /\ \A a \in items : <<a, x>> \in needs => a \in Listed

SortInit ==
    /\ order = <<>>
    /\ verdict = "open"

List(x) ==
    /\ verdict = "open"
    /\ MayFollow(x)
    /\ order' = Append(order, x)
    /\ UNCHANGED <<items, needs, verdict>>

Conclude ==
    /\ verdict = "open"
    /\ \A x \in items : ~MayFollow(x)
    /\ verdict' = IF items \subseteq Listed THEN "ordered" ELSE "cyclic"
    /\ UNCHANGED <<items, needs, order>>

SortNext == (\E x \in items : List(x)) \/ Conclude

SortSpec == SortInit /\ [][SortNext]_sortVars

=============================================================================
